----------------------------- MODULE CliSession -----------------------------
(***************************************************************************)
(* A local coding agent run as a subprocess (adapters/llm.py,              *)
(* LLMClient.agentic_build with _consume_agentic_stream and _terminate).   *)
(* The agent writes the project itself and streams events; the session     *)
(* watches the stream for silence, decides from the stream and the exit    *)
(* status whether the agent succeeded, sends the prompt once more to a     *)
(* fresh agent if it was never taken up, and may be cancelled from outside *)
(* at any wait.                                                            *)
(*                                                                         *)
(* The stream is abstracted to what the verdict and the stall classifier   *)
(* ask of it: whether any byte, any content and a terminal result came.    *)
(***************************************************************************)
EXTENDS Naturals, FiniteSets

CONSTANT MaxHeals   \* _STALL_MAX_HEALS

Agent == 1..(MaxHeals + 1)

VARIABLES
    total,      \* the provider keeps a total time budget (copilot)
    at,         \* "new", "streaming", "ended", "reaped", "judged" or "returned"
    agent,      \* the agents: "none", "live", "closed" (its output), "gone", "stuck"
    cur,        \* the agent the session watches
    bytes, content,
    result,     \* the terminal event: "none", "good" or "bad"
    code,       \* the exit status the session saw
    cut,        \* why the stream was cut: "none", "idle" or "overrun"
    stall,      \* the kind of stall the receipt carries
    outcome     \* what the caller gets

vars == <<total, at, agent, cur, bytes, content, result, code, cut, stall, outcome>>
stream == <<bytes, content, result>>
receipt == <<code, cut, stall>>

Init ==
    /\ total \in BOOLEAN /\ at = "new" /\ agent = [a \in Agent |-> "none"] /\ cur = 0
    /\ bytes = FALSE /\ content = FALSE /\ result = "none"
    /\ code = "none" /\ cut = "none" /\ stall = "none" /\ outcome = "none"

Return(what) == at' = "returned" /\ outcome' = what

\* _terminate: the agent and every process below it are killed and waited for;
\* a failure to kill them is logged.
Running == cur # 0 /\ agent[cur] \in {"live", "closed"}
Stop ==
    IF Running
    THEN \E end \in {"gone", "stuck"} : agent' = [agent EXCEPT ![cur] = end]
    ELSE UNCHANGED agent

-----------------------------------------------------------------------------
\* Over budget, no such CLI, not permitted here, or the prompt cannot be staged.
Refuse ==
    /\ at = "new" /\ cur = 0 /\ Return("failed")
    /\ UNCHANGED <<total, agent, cur, stream, receipt>>

\* A session begins with a fresh receipt.
Spawn ==
    /\ at = "new" /\ cur < MaxHeals + 1
    /\ cur' = cur + 1 /\ agent' = [agent EXCEPT ![cur + 1] = "live"]
    /\ at' = "streaming"
    /\ bytes' = FALSE /\ content' = FALSE /\ result' = "none"
    /\ code' = "none" /\ cut' = "none" /\ stall' = "none"
    /\ UNCHANGED <<total, outcome>>

\* One line of the stream: noise, a lifecycle event, content, or the result.
Event ==
    /\ at = "streaming" /\ agent[cur] = "live" /\ bytes' = TRUE
    /\ \/ UNCHANGED <<content, result>>
       \/ content' = TRUE /\ result' \in {result, "good", "bad"}
    /\ UNCHANGED <<total, at, agent, cur, receipt, outcome>>

\* The agent ends, or only closes its output.
Exit ==
    /\ at \in {"streaming", "ended"} /\ Running
    /\ agent' = [agent EXCEPT ![cur] = "gone"] /\ code' \in {"zero", "nonzero"}
    /\ at' = "ended" /\ UNCHANGED <<total, cur, stream, cut, stall, outcome>>
Close ==
    /\ at = "streaming" /\ agent[cur] = "live"
    /\ agent' = [agent EXCEPT ![cur] = "closed"] /\ at' = "ended"
    /\ UNCHANGED <<total, cur, stream, receipt, outcome>>

\* The stall classifier: a trust prompt or a crash marker in the output first.
Kind(alive) ==
    {"trust", "crashed"} \cup
    (IF ~alive /\ code = "nonzero" THEN {"crashed"}
     ELSE IF ~alive /\ bytes THEN {"transport"}
     ELSE IF ~bytes THEN {"misdelivery", "unknown"}
     ELSE IF ~content THEN {"acceptance", "unknown"}
     ELSE {"heartbeat"})

\* Silence beyond the window (and, for an agent at work, beyond the grace).
Idle ==
    /\ at = "streaming" /\ agent[cur] = "live"
    /\ stall' \in Kind(TRUE) /\ cut' = "idle" /\ Stop /\ at' = "reaped"
    /\ code' \in {"none", "nonzero"}
    /\ UNCHANGED <<total, cur, stream, outcome>>

\* A line longer than the reader's limit: the tree is killed.
Overrun ==
    /\ at = "streaming" /\ agent[cur] = "live"
    /\ cut' = "overrun" /\ Stop /\ at' = "reaped" /\ code' \in {"none", "nonzero"}
    /\ UNCHANGED <<total, cur, stream, stall, outcome>>

\* The end of the output: the agent is waited for, ten seconds at most.
Reap ==
    /\ at = "ended" /\ at' = "reaped"
    /\ UNCHANGED <<total, agent, cur, stream, receipt, outcome>>

\* The verdict: a terminal result counts before the exit status.
Good ==
    /\ cut # "idle"
    /\ IF result # "none" THEN result = "good" ELSE code = "zero"
    /\ total => code = "zero" /\ cut = "none"
Judge ==
    /\ at = "reaped" /\ at' = "judged"
    /\ IF ~Good /\ cut = "none" /\ result = "none"
       THEN stall' \in Kind(FALSE) ELSE UNCHANGED stall
    /\ UNCHANGED <<total, agent, cur, stream, code, cut, outcome>>

\* A prompt that was never taken up is sent once more, if time is left.
Healable == ~Good /\ ~total /\ cur <= MaxHeals /\ stall \in {"misdelivery", "acceptance"}
Heal ==
    /\ at = "judged" /\ Healable /\ at' = "new"
    /\ UNCHANGED <<total, agent, cur, stream, receipt, outcome>>
Finish ==
    /\ at = "judged" /\ Return(IF Good THEN "ok" ELSE "failed")
    /\ UNCHANGED <<total, agent, cur, stream, receipt>>

\* The total budget, a cancellation from outside, a failed spawn or write: the
\* agent is killed first.
\* Mutant of Break: a cancelled session leaves its agent to itself.
Break_Unkilled ==
    /\ at \in {"new", "streaming", "ended"} /\ (at = "new" => cur > 0)
    /\ \/ Return("failed") \/ Return("cancelled")
    /\ UNCHANGED <<total, agent, cur, stream, receipt>>
Break ==
    /\ \/ at = "new" /\ (Return("failed") \/ Return("cancelled"))
       \/ at \in {"streaming", "ended"}
          /\ \/ Return("failed") \/ Return("cancelled")
             \/ total /\ Return("timed out")
    /\ Stop
    /\ UNCHANGED <<total, cur, stream, receipt>>

Next ==
    \/ Refuse \/ Spawn \/ Event \/ Exit \/ Close \/ Idle \/ Overrun \/ Reap
    \/ Judge \/ Heal \/ Finish \/ Break

Spec == Init /\ [][Next]_vars

-----------------------------------------------------------------------------
(* Properties.                                                             *)

TypeOK ==
    /\ total \in BOOLEAN
    /\ at \in {"new", "streaming", "ended", "reaped", "judged", "returned"}
    /\ agent \in [Agent -> {"none", "live", "closed", "gone", "stuck"}]
    /\ cur \in 0..(MaxHeals + 1) /\ code \in {"none", "zero", "nonzero"}
    /\ result \in {"none", "good", "bad"} /\ cut \in {"none", "idle", "overrun"}
    /\ (outcome # "none") = (at = "returned")

\* A session that reports success watched its last agent to an end: the agent
\* said so or exited with status zero, and was not cut off for silence.
\* Whatever ended the session, and whatever agent a resend started, no agent
\* still writes the project: only one that closed its output and would not
\* exit, or that could not be killed, is left.
NoAgentLeft ==
    /\ at = "returned" => \A a \in Agent : agent[a] # "live"
    /\ \A a \in Agent : a < cur => agent[a] # "live"
    /\ outcome = "ok" => /\ cut # "idle"
                         /\ result = "good" \/ (result = "none" /\ code = "zero")

-----------------------------------------------------------------------------
\* The invariant that proves it: of the agents only the one that is watched may be
\* live, and that one only while the session streams.
WatchInv ==
    /\ \A a \in Agent : a > cur => agent[a] = "none"
    /\ \A a \in Agent : a < cur => agent[a] # "live"
    /\ at # "streaming" /\ cur > 0 => agent[cur] # "live"
    /\ cur = 0 => at \in {"new", "returned"}

\* ... and what a session reports success on stands when it has returned.
VerdictInv ==
    outcome = "ok" => cut # "idle" /\ (result = "good" \/ (result = "none" /\ code = "zero"))

IInv == TypeOK /\ WatchInv /\ VerdictInv
=============================================================================

------------------------------ MODULE Failover ------------------------------
(***************************************************************************)
(* The retries and the model failover around one provider call             *)
(* (adapters/llm.py, LLMClient._resilient_call).  A call tries its         *)
(* candidates in order: the model it was made for first, with the          *)
(* transient retries, then fallbacks with at most one retry each; the      *)
(* fallbacks are looked up only when the candidates run out, and once.     *)
(* A candidate that is used up is quarantined for every call of the        *)
(* client until its time is over.                                          *)
(***************************************************************************)
EXTENDS Naturals, FiniteSets, Sequences, SequencesExt

CONSTANTS
    Call,           \* the calls under way at a time
    Ladder,         \* the models of the tier, best first, without repetition
    Retries,        \* llm_max_retries
    MaxFallbacks    \* llm_max_fallbacks (0: no limit)

Model == {Ladder[i] : i \in 1..Len(Ladder)}
Primary == Ladder[1]

VARIABLES
    at,         \* "idle", "ready", "sent", "waiting", "missed", "won", "lost"
    cands,      \* the candidates of a call, in order
    ci,         \* the candidate it is at
    attempt,    \* the attempts made at this candidate
    extended,   \* the fallbacks were looked up
    failed,     \* some attempt failed: there is a first error
    late,       \* the deadline of the call has passed
    tried,      \* history: the attempts at each model
    unhealthy   \* the client's quarantined models

vars == <<at, cands, ci, attempt, extended, failed, late, tried, unhealthy>>

Init ==
    /\ at = [c \in Call |-> "idle"] /\ cands = [c \in Call |-> <<>>]
    /\ ci = [c \in Call |-> 0] /\ attempt = [c \in Call |-> 0]
    /\ extended = [c \in Call |-> FALSE] /\ failed = [c \in Call |-> FALSE]
    /\ late = [c \in Call |-> FALSE] /\ tried = [c \in Call |-> [m \in Model |-> 0]]
    /\ unhealthy = {}

Healthy == SelectSeq(Tail(Ladder), LAMBDA m : m \notin unhealthy)
Now(c) == cands[c][ci[c]]

\* The transient retries belong to the first candidate.
Allowed(c) == IF ci[c] = 1 THEN Retries + 1 ELSE IF Retries > 0 THEN 2 ELSE 1

\* A quarantined primary is skipped if some fallback is healthy.
Start(c) ==
    /\ at[c] = "idle" /\ at' = [at EXCEPT ![c] = "ready"]
    /\ cands' = [cands EXCEPT ![c] =
          IF Primary \in unhealthy /\ Healthy # <<>> THEN Healthy ELSE <<Primary>>]
    /\ ci' = [ci EXCEPT ![c] = 1] /\ attempt' = [attempt EXCEPT ![c] = 0]
    /\ UNCHANGED <<extended, failed, late, tried, unhealthy>>

\* The deadline is looked at between attempts only, and only once one failed:
\* the call raises its first error.
Overdue(c) == late[c] /\ failed[c]
GiveUp(c) ==
    /\ at[c] \in {"ready", "waiting"} /\ Overdue(c)
    /\ at' = [at EXCEPT ![c] = "lost"]
    /\ UNCHANGED <<cands, ci, attempt, extended, failed, late, tried, unhealthy>>
Deadline(c) ==
    /\ at[c] \notin {"idle", "won", "lost"} /\ ~late[c] /\ late' = [late EXCEPT ![c] = TRUE]
    /\ UNCHANGED <<at, cands, ci, attempt, extended, failed, tried, unhealthy>>

Send(c) ==
    /\ at[c] \in {"ready", "waiting"} /\ ~Overdue(c)
    /\ at' = [at EXCEPT ![c] = "sent"]
    /\ attempt' = [attempt EXCEPT ![c] = @ + 1]
    /\ tried' = [tried EXCEPT ![c][Now(c)] = @ + 1]
    /\ UNCHANGED <<cands, ci, extended, failed, late, unhealthy>>

Ended(c, end) ==
    /\ at[c] = "sent" /\ at' = [at EXCEPT ![c] = end]
    /\ UNCHANGED <<cands, ci, attempt, extended, late, tried, unhealthy>>

Succeed(c) == Ended(c, "won") /\ UNCHANGED failed
Fatal(c) == Ended(c, "lost") /\ failed' = [failed EXCEPT ![c] = TRUE]

\* A transient error is waited out and retried while the candidate has
\* attempts left; a wait the server asks for that is longer than the client
\* will wait, or that ends after the deadline, ends the call.
Transient(c) ==
    /\ failed' = [failed EXCEPT ![c] = TRUE]
    /\ \/ Ended(c, IF attempt[c] < Allowed(c) THEN "waiting" ELSE "missed")
       \/ Ended(c, "lost")

\* The model is gone, refuses the request, or stalled: its retries are skipped.
ModelError(c) == Ended(c, "missed") /\ failed' = [failed EXCEPT ![c] = TRUE]

\* The candidate is used up: the fallbacks are looked up if it was the last
\* one, and it is quarantined, the last one too.
\* Mutant of Extra: a fallback that was tried already is tried again.
Extra_Repeated(c) == Healthy
Extra(c) ==
    LET new == SelectSeq(Healthy, LAMBDA m : \A i \in 1..Len(cands[c]) : cands[c][i] # m)
    IN  IF MaxFallbacks > 0 /\ Len(new) > MaxFallbacks THEN SubSeq(new, 1, MaxFallbacks) ELSE new
Advance(c) ==
    /\ at[c] = "missed"
    /\ LET more == ci[c] = Len(cands[c]) /\ ~extended[c]
           list == IF more THEN cands[c] \o Extra(c) ELSE cands[c]
       IN  /\ cands' = [cands EXCEPT ![c] = list]
           /\ extended' = [extended EXCEPT ![c] = @ \/ more]
           /\ IF ci[c] < Len(list)
              THEN ci' = [ci EXCEPT ![c] = @ + 1] /\ at' = [at EXCEPT ![c] = "ready"]
              ELSE at' = [at EXCEPT ![c] = "lost"] /\ UNCHANGED ci
    /\ attempt' = [attempt EXCEPT ![c] = 0]
    /\ unhealthy' = unhealthy \cup {Now(c)}
    /\ UNCHANGED <<failed, late, tried>>

\* The quarantine of a model is over.
Heal(m) ==
    /\ m \in unhealthy /\ unhealthy' = unhealthy \ {m}
    /\ UNCHANGED <<at, cands, ci, attempt, extended, failed, late, tried>>

Next ==
    \/ \E c \in Call :
          \/ Start(c) \/ GiveUp(c) \/ Deadline(c) \/ Send(c) \/ Succeed(c) \/ Fatal(c)
          \/ Transient(c) \/ ModelError(c) \/ Advance(c)
    \/ \E m \in Model : Heal(m)

Spec == Init /\ [][Next]_vars

-----------------------------------------------------------------------------
(* Properties.                                                             *)

TypeOK ==
    /\ at \in [Call -> {"idle", "ready", "sent", "waiting", "missed", "won", "lost"}]
    /\ cands \in [Call -> Seq(Model)] /\ ci \in [Call -> 0..Len(Ladder)]
    /\ attempt \in [Call -> 0..(Retries + 1)] /\ unhealthy \subseteq Model

\* No model is paid for twice over: whatever other calls quarantine and release
\* meanwhile, a call makes at most one retry at any model but the one it began
\* with, and never comes back to a model it has used up.
AttemptsBounded ==
    \A c \in Call : \A m \in Model :
        tried[c][m] <= IF at[c] # "idle" /\ m = cands[c][1] THEN Retries + 1
                       ELSE IF Retries > 0 THEN 2 ELSE 1
=============================================================================

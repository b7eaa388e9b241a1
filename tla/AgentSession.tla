---------------------------- MODULE AgentSession ----------------------------
(***************************************************************************)
(* The whole-project code session of an OpenRouter model                   *)
(* (adapters/llm.py, LLMClient._openrouter_agentic).  The model answers    *)
(* turn after turn with batches of tool calls that write the project; the  *)
(* loop around it has no ceiling on work, only guards against work that    *)
(* leads nowhere: a window without writes, identical calls, rewrites of    *)
(* one path, build helpers nobody planned, writes that leave the plan      *)
(* uncovered, empty answers, and finishes that come too early.             *)
(*                                                                         *)
(* A file body is abstracted to what the guards ask of it: whether each    *)
(* planned path holds real content, whether the tree still looks like a    *)
(* stub and whether the static scan finds defects in it.  The answer of a  *)
(* turn is whatever a provider may send.                                   *)
(***************************************************************************)
EXTENDS Naturals, FiniteSets, Sequences

CONSTANTS
    Planned,        \* the paths the slice must deliver
    Helper,         \* unplanned paths that read as build helpers
    Plain,          \* other owned paths
    Model,          \* the models of the tier, the configured one among them
    MaxFallbacks,   \* llm_max_fallbacks (0: no limit)
    TurnLimit,      \* openrouter_agentic_no_write_turns
    Window, Churn,  \* _PATH_CHURN_WINDOW, _PATH_CHURN_THRESHOLD
    AuxChurn,       \* _AUXILIARY_CHURN_THRESHOLD
    Scans,          \* the scans of a finished tree that are on: "stub", "defect"
    Second,         \* how often a failed scan, a cut or a bad batch is forgiven
    EmptyLimit,     \* _EMPTY_RESPONSE_LIMIT
    MaxCalls        \* the most tool calls of one answer

Limits == IsFiniteSet(Planned) /\ Scans \subseteq {"stub", "defect"} /\ Second \in Nat

VARIABLES
    phase,      \* "ask", "tools", "judge" or "done"
    model, exhausted,
    ready,      \* the planned paths that hold real content
    tree,       \* the scans the tree would fail: looks like a stub, has defects
    wrote,      \* some call changed a file
    calls, gained,
    idle, doom, doomWarned,
    window, churned,
    aux, auxWarned,
    missing, stagnant, stagnationWarned,
    finishNudged, completeNudged, denials,
    empties, cuts, rejects,
    finished, error

guards == <<doom, doomWarned, window, churned, aux, auxWarned, missing,
            stagnant, stagnationWarned>>
nudges == <<finishNudged, completeNudged, denials>>
faults == <<empties, cuts, rejects>>
routing == <<model, exhausted>>
work == <<ready, tree, wrote>>
vars == <<phase, routing, work, calls, gained, idle, guards, nudges, faults,
          finished, error>>

Path == Planned \cup Helper \cup Plain
Missing == Cardinality(Planned \ ready)

Init ==
    /\ phase = "ask" /\ model \in Model /\ exhausted = {}
    /\ ready \in SUBSET Planned /\ tree \in SUBSET Scans
    /\ wrote = FALSE /\ calls = 0 /\ gained = FALSE /\ idle = 0
    /\ doom = 0 /\ doomWarned = FALSE /\ window = <<>> /\ churned = {}
    /\ aux = {} /\ auxWarned = FALSE
    /\ missing = Missing /\ stagnant = 0 /\ stagnationWarned = FALSE
    /\ finishNudged = FALSE /\ completeNudged = FALSE /\ denials = [c \in Scans |-> 0]
    /\ empties = 0 /\ cuts = 0 /\ rejects = 0
    /\ finished = FALSE /\ error = "none"

-----------------------------------------------------------------------------
(* The end of the session, and what the loop does between two turns.       *)

Abort(why) == phase' = "done" /\ error' = why

\* The next model after a run of turns without a write: one the session has
\* not used up; the current one is marked unhealthy.
CanSwitch ==
    /\ MaxFallbacks = 0 \/ Cardinality(exhausted) < MaxFallbacks
    /\ Model \ (exhausted \cup {model}) # {}
Switch ==
    /\ exhausted' = exhausted \cup {model}
    /\ model' \in Model \ exhausted'
    /\ idle' = 0 /\ doom' = 0 /\ doomWarned' = FALSE
    /\ phase' = "ask" /\ UNCHANGED error

\* The progress window closed, or the provider's call failed, stalled or ran
\* out of budget, or its answer cannot be used.
TimeUp == phase = "ask" /\ Abort("timed out")
    /\ UNCHANGED <<routing, work, calls, gained, idle, guards, nudges, faults, finished>>
Fails ==
    /\ phase = "ask" /\ idle < TurnLimit
    /\ Abort("provider")
    /\ UNCHANGED <<routing, work, calls, gained, idle, guards, nudges, faults, finished>>

\* Too many turns in a row changed nothing.
Stalls ==
    /\ phase = "ask" /\ idle >= TurnLimit
    /\ IF CanSwitch
       THEN Switch
       ELSE Abort("stalled") /\ UNCHANGED <<routing, idle, doom, doomWarned>>
    /\ UNCHANGED <<work, calls, gained, window, churned, aux, auxWarned, missing,
                   stagnant, stagnationWarned, nudges, faults, finished>>

-----------------------------------------------------------------------------
(* The answer of a turn.  A call that failed over pins the model that      *)
(* answered for the rest of the session.                                   *)

Answered ==
    /\ phase = "ask" /\ idle < TurnLimit
    /\ model' \in {model} \cup (Model \ exhausted) /\ UNCHANGED exhausted

\* The answer was cut at the length limit: asked to go on, twice at most.
Truncated ==
    /\ Answered /\ cuts' = cuts + 1
    /\ IF cuts < Second THEN phase' = "ask" /\ UNCHANGED error ELSE Abort("truncated")
    /\ UNCHANGED <<work, calls, gained, idle, guards, nudges, empties, rejects, finished>>

\* A batch with one invalid call is refused whole, before any tool runs.
Rejected ==
    /\ Answered /\ rejects' = rejects + 1
    /\ IF rejects < Second THEN phase' = "ask" /\ UNCHANGED error ELSE Abort("protocol")
    /\ UNCHANGED <<work, calls, gained, idle, guards, nudges, empties, cuts, finished>>

Batch ==
    /\ Answered /\ phase' = "tools" /\ calls' \in 1..MaxCalls /\ gained' = FALSE
    /\ empties' = 0
    /\ UNCHANGED <<work, idle, guards, nudges, cuts, rejects, finished, error>>

\* Text without a tool call reads as a finish; neither is a wasted turn.
Text ==
    /\ Answered /\ phase' = "judge" /\ finished' = TRUE /\ empties' = 0
    /\ gained' = FALSE /\ idle' = idle + 1
    /\ UNCHANGED <<work, calls, guards, nudges, cuts, rejects, error>>
Silence ==
    /\ Answered /\ phase' = "judge" /\ empties' = empties + 1
    /\ gained' = FALSE /\ idle' = idle + 1
    /\ UNCHANGED <<work, calls, guards, nudges, cuts, rejects, finished, error>>

-----------------------------------------------------------------------------
(* The calls of a batch, one after the other.                              *)

Calling == phase = "tools" /\ calls > 0 /\ calls' = calls - 1 /\ UNCHANGED phase

\* Whether the call repeats the one before it, word for word.
Repeats == doom' \in {1} \cup (IF doom > 0 THEN {IF doom < 3 THEN doom + 1 ELSE 3} ELSE {})

\* finish ends nothing by itself: the rest of the batch still runs.
FinishCall ==
    /\ Calling /\ finished' = TRUE
    /\ UNCHANGED <<routing, work, gained, idle, guards, nudges, faults, error>>

\* A read, a listing, a write of what is there already, a refused write.
Look ==
    /\ Calling /\ Repeats
    /\ UNCHANGED <<routing, work, gained, idle, doomWarned, window, churned, aux,
                   auxWarned, missing, stagnant, stagnationWarned, nudges, faults,
                   finished, error>>

\* The paths of one write, in some order.
InOrder(S) ==
    CHOOSE q \in [1..Cardinality(S) -> S] : \A i, j \in DOMAIN q : q[i] = q[j] => i = j

\* A write tool that changed the paths of S, and what the guards note of it.  It
\* repeats no call: the same call made again would change nothing.
Landed(S) ==
    LET now == Cardinality(Planned \ (ready \cup S))
        all == window \o InOrder(S)
        off == Cardinality(S \ Helper)
    IN  /\ window' = SubSeq(all, IF Len(all) > Window THEN Len(all) - Window + 1 ELSE 1, Len(all))
        /\ missing' = now
        /\ aux' = (IF now < missing THEN {} ELSE aux) \cup (S \cap Helper)
        /\ IF now < missing
           THEN /\ auxWarned' = FALSE /\ stagnant' = 0 /\ stagnationWarned' = FALSE
                /\ finishNudged' = FALSE
           ELSE /\ stagnant' = IF now > 0 THEN stagnant + off ELSE stagnant
                /\ UNCHANGED <<auxWarned, stagnationWarned, finishNudged>>
Writes(S) ==
    /\ Calling /\ doom' = 1
    /\ ready' = ready \cup (S \cap Planned) /\ tree' \in SUBSET Scans
    /\ wrote' = TRUE /\ gained' = TRUE
    /\ Landed(S)
    /\ UNCHANGED <<routing, idle, doomWarned, churned, completeNudged, denials, faults,
                   finished, error>>
Write == \E S \in SUBSET Path : Cardinality(S) \in 1..2 /\ Writes(S)

\* A batch whose second file cannot be written: the first one is on disk, the
\* call reports an error and counts nothing.
Breaks ==
    /\ Calling /\ Repeats
    /\ \E p \in Path : ready' = ready \cup ({p} \cap Planned)
    /\ tree' \in SUBSET Scans
    /\ UNCHANGED <<routing, wrote, gained, idle, doomWarned, window, churned, aux,
                   auxWarned, missing, stagnant, stagnationWarned, nudges, faults,
                   finished, error>>

\* The batch is through: only a turn that changed a file is progress.
Settle ==
    /\ phase = "tools" /\ calls = 0 /\ phase' = "judge"
    /\ idle' = IF gained THEN 0 ELSE idle + 1
    /\ UNCHANGED <<routing, work, calls, gained, guards, nudges, faults, finished, error>>

-----------------------------------------------------------------------------
(* The guards, in the order the loop tries them.                           *)

Count(p) == Len(SelectSeq(window, LAMBDA q : q = p))
Dominant == {p \in Path : \A q \in Path : Count(q) <= Count(p)}

Doomed == ~finished /\ doom = 3
Churning == ~finished /\ Len(window) = Window /\ \E p \in Dominant : Count(p) >= Churn
Drifting == ~finished /\ missing > 0 /\ Cardinality(aux) >= AuxChurn
Stagnant ==
    /\ ~finished /\ missing > 0
    /\ stagnant >= AuxChurn /\ stagnant >= missing
Covered == ~finished /\ Planned # {} /\ missing = 0
Judging == phase = "judge"

Doom ==
    /\ Judging /\ Doomed
    /\ IF ~doomWarned
       THEN doomWarned' = TRUE /\ doom' = 0 /\ phase' = "ask"
            /\ UNCHANGED <<routing, idle, error>>
       ELSE IF CanSwitch
       THEN Switch
       ELSE Abort("repeating") /\ UNCHANGED <<routing, idle, doom, doomWarned>>
    /\ UNCHANGED <<work, calls, gained, window, churned, aux, auxWarned, missing,
                   stagnant, stagnationWarned, nudges, faults, finished>>

PathChurn ==
    /\ Judging /\ ~Doomed /\ Churning /\ window' = <<>>
    /\ \E p \in Dominant :
          IF p \in churned
          THEN Abort("churn") /\ UNCHANGED churned
          ELSE churned' = churned \cup {p} /\ phase' = "ask" /\ UNCHANGED error
    /\ UNCHANGED <<routing, work, calls, gained, idle, doom, doomWarned, aux, auxWarned,
                   missing, stagnant, stagnationWarned, nudges, faults, finished>>

Auxiliary ==
    /\ Judging /\ ~Doomed /\ ~Churning /\ Drifting
    /\ aux' = {} /\ auxWarned' = TRUE
    /\ IF auxWarned THEN Abort("helpers") ELSE phase' = "ask" /\ UNCHANGED error
    /\ UNCHANGED <<routing, work, calls, gained, idle, doom, doomWarned, window, churned,
                   missing, stagnant, stagnationWarned, nudges, faults, finished>>

Stagnation ==
    /\ Judging /\ ~Doomed /\ ~Churning /\ ~Drifting /\ Stagnant
    /\ stagnant' = 0 /\ stagnationWarned' = TRUE
    /\ IF stagnationWarned THEN Abort("coverage") ELSE phase' = "ask" /\ UNCHANGED error
    /\ UNCHANGED <<routing, work, calls, gained, idle, doom, doomWarned, window, churned,
                   aux, auxWarned, missing, nudges, faults, finished>>

\* The scans of a tree that is about to be accepted: the stub scan comes first.
Unfit == {c \in tree : denials[c] < Second}
Deny ==
    /\ phase' = "ask" /\ UNCHANGED error
    /\ denials' = [denials EXCEPT ![IF "stub" \in Unfit THEN "stub" ELSE "defect"] = @ + 1]

\* Every planned file is there: one turn to integrate, then the session ends
\* even if the model never calls finish.
PlanComplete ==
    /\ Judging /\ ~Doomed /\ ~Churning /\ Covered /\ completeNudged' = TRUE
    /\ IF ~completeNudged
       THEN phase' = "ask" /\ UNCHANGED <<denials, finished, error>>
       ELSE IF Unfit # {}
       THEN Deny /\ UNCHANGED finished
       ELSE finished' = TRUE /\ phase' = "done" /\ UNCHANGED <<denials, error>>
    /\ UNCHANGED <<routing, work, calls, gained, idle, guards, finishNudged, faults>>

\* No guard holds: the next turn, unless the answers have been empty too often.
GoOn ==
    /\ Judging /\ ~finished /\ ~Covered /\ ~Doomed /\ ~Churning /\ ~Drifting /\ ~Stagnant
    /\ IF empties >= EmptyLimit THEN Abort("empty") ELSE phase' = "ask" /\ UNCHANGED error
    /\ UNCHANGED <<routing, work, calls, gained, idle, guards, nudges, faults, finished>>

\* A finish is denied while planned files are missing (once), while the tree
\* is thin and while it has defects; otherwise the session ends.
\* Mutant of Finish: the planned files are not looked at.
Finish_Trusting ==
    /\ Judging /\ finished
    /\ IF Unfit # {}
       THEN finished' = FALSE /\ Deny
       ELSE phase' = "done" /\ UNCHANGED <<finished, error, denials>>
    /\ UNCHANGED finishNudged
    /\ UNCHANGED <<routing, work, calls, gained, idle, guards, completeNudged, faults>>
Finish ==
    /\ Judging /\ finished
    /\ IF missing > 0
       THEN /\ finished' = FALSE /\ finishNudged' = TRUE
            /\ IF finishNudged THEN Abort("incomplete") ELSE phase' = "ask" /\ UNCHANGED error
            /\ UNCHANGED denials
       ELSE /\ UNCHANGED finishNudged
            /\ IF Unfit # {}
               THEN finished' = FALSE /\ Deny
               ELSE phase' = "done" /\ UNCHANGED <<finished, error, denials>>
    /\ UNCHANGED <<routing, work, calls, gained, idle, guards, completeNudged, faults>>

Next ==
    \/ TimeUp \/ Fails \/ Stalls
    \/ Truncated \/ Rejected \/ Batch \/ Text \/ Silence
    \/ FinishCall \/ Look \/ Write \/ Breaks \/ Settle
    \/ Doom \/ PathChurn \/ Auxiliary \/ Stagnation \/ PlanComplete \/ GoOn \/ Finish

Spec == Init /\ [][Next]_vars

-----------------------------------------------------------------------------
(* Properties.                                                             *)

Done == phase = "done"
Ok == Done /\ finished /\ wrote /\ error = "none"

TypeOK ==
    /\ phase \in {"ask", "tools", "judge", "done"}
    /\ model \in Model /\ exhausted \subseteq Model \ {model}
    /\ ready \subseteq Planned /\ missing \in 0..Cardinality(Planned)
    /\ idle \in 0..TurnLimit /\ doom \in 0..3 /\ calls \in 0..MaxCalls
    /\ Len(window) <= Window /\ churned \subseteq Path /\ aux \subseteq Helper
    /\ cuts \in 0..(Second + 1) /\ rejects \in 0..(Second + 1)
    /\ tree \subseteq Scans /\ denials \in [Scans -> 0..Second]
    /\ empties \in Nat

\* A session that reports success delivered every file of its plan with real
\* content, and a stub or a defect is left in it only after every denial the
\* loop has was spent on it: whatever order of writes, early finishes, failed
\* batches and nudges led there.
OkIsWhole ==
    Ok => /\ ready = Planned
          /\ \A c \in tree : denials[c] = Second

\* The invariant that proves it: what the loop counts as missing is never less than what
\* is, whatever part of a batch failed, and no scan was denied more often than it may be.
WorkInv ==
    /\ ready \subseteq Planned /\ tree \subseteq Scans
    /\ missing \in Nat /\ Missing <= missing
    /\ denials \in [Scans -> 0..Second]
IInv == WorkInv /\ OkIsWhole
=============================================================================

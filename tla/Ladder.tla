-------------------------------- MODULE Ladder --------------------------------
(***************************************************************************)
(* The visual proof of a web project: liveness shoots its pages for a      *)
(* build and keeps the shots with a report (studio/liveness.py,            *)
(* visual_proof.py); the proof ladder that follows (ProofLadderCoordinator)*)
(* reuses them while the runtime inputs are what they were                 *)
(* (proof_reuse.py), or shoots the pages itself.  Between any two steps    *)
(* the project may be edited, and edited back; shots get lost; files,      *)
(* tools and containers fail; the process dies.  A version of the project  *)
(* is a number; the evidence of a page is the version it shows.            *)
(***************************************************************************)
EXTENDS Naturals, FiniteSets

CONSTANTS
    Routes,         \* pages
    Versions,       \* what the project may be
    MaxRounds,      \* rounds of liveness with a repair between two
    MaxEdits, MaxFaults, MaxLadders   \* bounds

VARIABLES
    tree,       \* the version that is there
    fine,       \* versions whose pages pass
    mounted,    \* the preview mounts the project, or copies it
    served,     \* what it copied when it was started
    running,    \* its containers are there
    auditor,    \* "liveness", or "ladder"
    step,       \* the step it is at
    round,
    before,     \* fingerprint taken before liveness
    proofs,     \* results of the audit under way, by page
    dirs,       \* evidence in the project, in the ladder, being copied, set aside
    candidate,  \* evidence offered for reuse, with its fingerprint and digest
    result,     \* of the ladder
    reused,
    seen, back, \* history: versions since that fingerprint, and those gone back to
    made,       \* history: the destination of the ladder was there
    ladders, edits, faults

history == <<seen, back, made>>
bounds == <<ladders, edits, faults>>
preview == <<served, running>>
world == <<tree, fine, mounted>>
verdict == <<result, reused>>
vars == <<world, preview, auditor, step, round, before, proofs, dirs, candidate, verdict, history, bounds>>

Blank == [r \in Routes |-> 0]
Missing == [there |-> FALSE, shots |-> Blank, of |-> Blank, passed |-> FALSE]
Empty == [Missing EXCEPT !.there = TRUE]
None == [tree |-> 0, digest |-> Missing]

Init ==
    /\ tree = 1 /\ fine \in SUBSET Versions /\ mounted \in BOOLEAN
    /\ served = 0 /\ running = FALSE /\ auditor = "liveness" /\ step = "fingerprint" /\ round = 1 /\ before = 0
    /\ proofs = [r \in Routes |-> "none"]
    /\ dirs = [d \in {"source", "target", "temp", "backup"} |-> Missing]
    /\ candidate = None /\ result = "none" /\ reused = FALSE
    /\ seen = {} /\ back = {} /\ made = FALSE /\ ladders = 1 /\ edits = 0 /\ faults = 0

Go(s) == step' = s
Fault == faults < MaxFaults /\ faults' = faults + 1 /\ UNCHANGED <<ladders, edits>>
Put(d, e) == dirs' = [dirs EXCEPT ![d] = e]

-----------------------------------------------------------------------------
(* Collecting evidence: a fingerprint, a preview, an audit of its pages.   *)

Fingerprint ==
    /\ step = "fingerprint" /\ Go("serve")
    /\ \/ before' = tree /\ UNCHANGED bounds
       \/ Fault /\ UNCHANGED before
    /\ seen' = {tree} /\ back' = {}
    /\ UNCHANGED <<auditor, world, preview, round, proofs, dirs, candidate, verdict, made>>

\* AppRunner.start: it answers, or nothing of it is left running.
Started == served' = tree /\ running' = TRUE
\* Without a preview liveness is skipped, and a ladder fails.
Serve ==
    /\ step = "serve"
    /\ \/ Started /\ Go("clear") /\ UNCHANGED <<result, bounds>>
       \/ /\ Fault /\ UNCHANGED preview
          /\ IF auditor = "liveness" THEN Go("offered") /\ UNCHANGED result
             ELSE Go("persist") /\ result' = "failed"
    /\ UNCHANGED <<world, auditor, round, before, proofs, dirs, candidate, reused, history>>

Dest == IF auditor = "liveness" THEN "source" ELSE "target"
Page == IF mounted THEN tree ELSE served

\* Shots that the report lists are removed; the report stays until there is a new one.
Clear ==
    /\ step = "clear" /\ Go("shoot")
    /\ Put(Dest, [dirs[Dest] EXCEPT !.there = TRUE, !.shots = Blank])
    /\ proofs' = [r \in Routes |-> "none"] /\ made' = (made \/ Dest = "target")
    /\ UNCHANGED <<auditor, world, preview, round, before, candidate, verdict, seen, back, bounds>>

\* What is measured of a page, at every width, against the design and its own sanity.
Findings(version) == IF version \in fine THEN "passed" ELSE "failed"
Shoot(r) ==
    /\ step = "shoot" /\ proofs[r] = "none"
    /\ \/ /\ Put(Dest, [dirs[Dest] EXCEPT !.shots[r] = Page])
          /\ proofs' = [proofs EXCEPT ![r] = Findings(Page)]
          /\ UNCHANGED bounds
       \/ Fault /\ proofs' = [proofs EXCEPT ![r] = "skipped"] /\ UNCHANGED dirs
    /\ UNCHANGED <<auditor, world, preview, step, round, before, candidate, verdict, history>>

\* Every page has a proof, one that could not be opened a skipped one.
Audited == \A r \in Routes : proofs[r] # "none"
\* A report that cannot be written takes the passes back.
Report ==
    /\ step = "shoot" /\ Audited /\ Go("stop")
    /\ LET old == dirs[Dest]
       IN  \/ /\ Put(Dest, [old EXCEPT !.of = old.shots,
                                                !.passed = \A r \in Routes : proofs[r] = "passed"])
              /\ UNCHANGED <<proofs, bounds>>
           \/ /\ Fault /\ UNCHANGED dirs
              /\ proofs' = [r \in Routes |-> IF proofs[r] = "passed" THEN "skipped" ELSE proofs[r]]
    /\ UNCHANGED <<auditor, world, preview, round, before, candidate, verdict, history>>

AllPassed == \A r \in Routes : proofs[r] = "passed"
NoneFailed == \A r \in Routes : proofs[r] # "failed"

\* Liveness stops its preview, and when a page has failed has the project repaired.
Judge ==
    /\ auditor = "liveness" /\ step = "stop" /\ running' = FALSE
    /\ IF NoneFailed THEN Go("offer") /\ UNCHANGED <<tree, seen, back, round>>
       ELSE IF round < MaxRounds
       THEN /\ tree' \in Versions /\ round' = round + 1 /\ Go("serve")
            /\ seen' = seen \cup {tree'}
            /\ back' = back \cup ({tree'} \cap (seen \ {tree}))
       ELSE Go("offered") /\ UNCHANGED <<tree, seen, back, round>>
    /\ UNCHANGED <<auditor, fine, mounted, served, before, proofs, dirs, candidate, verdict, made, bounds>>

Whole(e) == /\ e.there /\ e.passed /\ e.shots = e.of
            /\ \A r \in Routes : e.shots[r] # 0

\* Mutant of Unchanged: the runtime inputs are looked at when the proof is reused.
Unchanged_Later == TRUE
Unchanged == before = tree
Offer ==
    /\ step = "offer" /\ Go("offered")
    /\ candidate' = (IF before # 0 /\ Whole(dirs["source"]) /\ Unchanged
                     THEN [tree |-> tree, digest |-> dirs["source"]] ELSE None)
    /\ UNCHANGED <<auditor, world, preview, round, before, proofs, dirs, verdict, history, bounds>>

-----------------------------------------------------------------------------
(* The ladder.                                                             *)

Ladder ==
    /\ step = "offered" /\ auditor' = "ladder"
    /\ \/ /\ Put("target", IF dirs["target"].there THEN dirs["target"] ELSE Empty)
          /\ made' = TRUE /\ Go(IF candidate = None THEN "inspect" ELSE "match")
          /\ UNCHANGED <<result, bounds>>
       \/ Fault /\ Go("persist") /\ result' = "failed" /\ UNCHANGED <<dirs, made>>
    /\ UNCHANGED <<world, preview, round, before, proofs, candidate, reused, seen, back>>

Miss == Go("inspect")
Match ==
    /\ step = "match"
    /\ IF /\ Whole(dirs["source"]) /\ candidate.digest = dirs["source"] /\ candidate.tree = tree
       THEN Go("copy") ELSE Miss
    /\ UNCHANGED <<auditor, world, preview, round, before, proofs, dirs, candidate, verdict, history, bounds>>

\* What was copied must be what was offered.
Copy ==
    /\ step = "copy"
    /\ IF dirs["source"] = candidate.digest
       THEN \/ Put("temp", dirs["source"]) /\ Go("set aside") /\ UNCHANGED bounds
            \/ Fault /\ Miss /\ UNCHANGED dirs
       ELSE Miss /\ UNCHANGED <<dirs, bounds>>
    /\ UNCHANGED <<auditor, world, preview, round, before, proofs, candidate, verdict, history>>

SetAside ==
    /\ step = "set aside"
    /\ \/ /\ dirs' = [dirs EXCEPT !["backup"] = dirs["target"], !["target"] = Missing]
          /\ Go("replace") /\ UNCHANGED bounds
       \/ Fault /\ Miss /\ Put("temp", Missing)
    /\ UNCHANGED <<auditor, world, preview, round, before, proofs, candidate, verdict, history>>

\* A destination that cannot be replaced is put back.
Restored == dirs' = [dirs EXCEPT !["target"] = dirs["backup"], !["backup"] = Missing,
                                 !["temp"] = Missing]
Replace ==
    /\ step = "replace"
    /\ \/ /\ \E rest \in {Missing, dirs["backup"]} :
                dirs' = [dirs EXCEPT !["target"] = dirs["temp"], !["temp"] = Missing,
                                     !["backup"] = rest]
          /\ result' = "passed" /\ reused' = TRUE /\ Go("persist") /\ UNCHANGED bounds
       \/ Fault /\ Miss /\ Restored /\ UNCHANGED verdict
       \/ /\ faults + 2 <= MaxFaults /\ faults' = faults + 2 /\ UNCHANGED <<ladders, edits>>
          /\ Miss /\ Put("temp", Missing) /\ UNCHANGED verdict
    /\ UNCHANGED <<auditor, world, preview, round, before, proofs, candidate, history>>

Inspect ==
    /\ step = "inspect"
    /\ \/ Go("serve") /\ UNCHANGED <<result, bounds>>
       \/ Fault /\ Go("persist") /\ result' \in {"failed", "skipped"}
    /\ UNCHANGED <<auditor, world, preview, round, before, proofs, dirs, candidate, reused, history>>

\* Mutant of Cleaned: what cannot be stopped is left, and the pass with it.
Cleaned_Whatever(passed) == passed
Cleaned(passed) == IF faults' = faults THEN passed ELSE "failed"
Stop ==
    /\ auditor = "ladder" /\ step = "stop" /\ Go("persist")
    /\ \/ running' = FALSE /\ UNCHANGED bounds
       \/ Fault /\ UNCHANGED running
    /\ result' = Cleaned(IF AllPassed THEN "passed" ELSE IF \E r \in Routes : proofs[r] = "skipped"
                         THEN "skipped" ELSE "failed")
    /\ UNCHANGED <<auditor, world, served, round, before, proofs, dirs, candidate, reused, history>>

Persist ==
    /\ step = "persist" /\ Go("done")
    /\ \/ UNCHANGED <<result, bounds>>
       \/ Fault /\ result' = "failed"
    /\ UNCHANGED <<auditor, world, preview, round, before, proofs, dirs, candidate, reused, history>>

\* Another ladder, after a visual edit: it has nothing to reuse.
Again ==
    /\ step \in {"done", "dead"} /\ ladders < MaxLadders
    /\ ladders' = ladders + 1 /\ UNCHANGED <<edits, faults>>
    /\ Go("offered") /\ candidate' = None /\ result' = "none" /\ reused' = FALSE
    /\ running' = FALSE /\ Put("temp", Missing)
    /\ UNCHANGED <<auditor, world, served, round, before, proofs, history>>

-----------------------------------------------------------------------------
(* The world.                                                              *)

Edit(v) ==
    /\ edits < MaxEdits /\ edits' = edits + 1 /\ v # tree /\ tree' = v
    /\ IF auditor = "liveness" /\ step # "offered"
       THEN seen' = seen \cup {v} /\ back' = back \cup ({v} \cap seen)
       ELSE UNCHANGED <<seen, back>>
    /\ UNCHANGED <<auditor, fine, mounted, preview, step, round, before, proofs, dirs, candidate,
                   verdict, made, ladders, faults>>

\* A file of the evidence in the project is removed.
Lose(r) ==
    /\ dirs["source"].shots[r] # 0 /\ Fault
    /\ Put("source", [dirs["source"] EXCEPT !.shots[r] = 0])
    /\ UNCHANGED <<auditor, world, preview, step, round, before, proofs, candidate, verdict, history>>

Crash ==
    /\ step # "dead" /\ step # "done" /\ Fault /\ Go("dead")
    /\ UNCHANGED <<auditor, world, preview, round, before, proofs, dirs, candidate, verdict, history>>

Next ==
    \/ Fingerprint \/ Serve \/ Clear \/ (\E r \in Routes : Shoot(r)) \/ Report \/ Judge \/ Offer
    \/ Ladder \/ Match \/ Copy \/ SetAside \/ Replace \/ Inspect \/ Stop \/ Persist \/ Again
    \/ (\E v \in Versions : Edit(v)) \/ (\E r \in Routes : Lose(r)) \/ Crash

Spec == Init /\ [][Next]_vars

-----------------------------------------------------------------------------
(* Properties.                                                             *)

TypeOK ==
    /\ tree \in Versions /\ fine \subseteq Versions /\ mounted \in BOOLEAN
    /\ served \in Versions \cup {0} /\ before \in Versions \cup {0} /\ running \in BOOLEAN
    /\ proofs \in [Routes -> {"none", "passed", "failed", "skipped"}] /\ round \in 1..MaxRounds
    /\ \A d \in DOMAIN dirs : dirs[d].shots \in [Routes -> Versions \cup {0}]
    /\ result \in {"none", "passed", "failed", "skipped"} /\ reused \in BOOLEAN

Target == dirs["target"]

\* A ladder that passed left, in its own place, a whole report with a shot of every
\* page, each of a version that passes, and no container of its preview.
LadderIsEarned ==
    step = "done" /\ result = "passed" =>
        /\ Whole(Target) /\ ~running
        /\ \A r \in Routes : Target.shots[r] \in fine

\* Evidence that was reused shows the version it is reused for, however the project
\* was repaired and edited in between; unless it was edited back while it was shot.
ReusedIsCurrent ==
    step = "done" /\ reused => \A r \in Routes :
        Target.shots[r] = candidate.tree \/ candidate.tree \in back

\* Evidence of an earlier ladder is in place, or set aside by one that died or could not
\* put it back; a ladder that ends with no more than one fault leaves its place in order.
PlaceKept ==
    /\ made => Target.there \/ dirs["backup"].there
    /\ step = "done" /\ faults <= 1 /\ made => Target.there
=============================================================================

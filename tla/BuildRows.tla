----------------------------- MODULE BuildRows -----------------------------
(***************************************************************************)
(* What the list of builds says of one (list_builds of web/routes.py).  It *)
(* merges the row the dashboard keeps from the build's events (web/deps.py)*)
(* with the one of the store (memory/store.py), which prefers the manifest *)
(* on disk; the runner writes the three one after the other, in an order   *)
(* that depends on how the build ended, and a list is read in two steps.   *)
(***************************************************************************)
EXTENDS Naturals, Sequences, FiniteSets

CONSTANTS
    MaxStages, MaxFaults, MaxCancels, MaxRestarts

\* How far a cost is known: nothing is said, it is not, it is and it is n.
NoTruth == <<>>
NotKnown == <<"unknown">>
Known(n) == <<"known", n>>
IsKnown(truth) == Len(truth) = 2
NoRow == [status |-> "none", cost |-> 0, truth |-> NoTruth]
Terminal == {"completed", "completed_no_go", "failed", "cancelled", "interrupted"}

VARIABLES
    step,       \* <<how the runner ends, what it has still to write>>
    stages,
    spending,   \* what the calls cost so far; whether some did not report it
    manifest,   \* status, cost, settled, whether the evidence lacks a price
    live, final,    \* the dashboard's row; _cost_finalized
    db, disk,   \* the store's row, with its manifest; the manifest on disk
    copy, since,    \* a list being read: the live row; whether all was over
    shown, about,   \* the last list; whether it was begun after the end
    seen,       \* whether this process has shown an end
    faults, cancels, restarts

runner == <<step, stages, spending, manifest>>
stored == <<db, disk>>
list == <<copy, since, shown, about, seen>>
bounds == <<faults, cancels, restarts>>
vars == <<runner, live, final, stored, list, bounds>>

Running == [status |-> "running", cost |-> 0, settled |-> FALSE, lacks |-> FALSE]
NoManifest == [Running EXCEPT !.status = "none"]

Init ==
    /\ step = <<"run">> /\ stages = 0 /\ spending = <<0, FALSE>> /\ manifest = Running
    /\ live = [NoRow EXCEPT !.status = "running"] /\ final = FALSE
    /\ db = [status |-> "running", manifest |-> Running] /\ disk = NoManifest
    /\ copy = <<>> /\ since = FALSE /\ shown = NoRow /\ about = FALSE /\ seen = FALSE
    /\ faults = 0 /\ cancels = 0 /\ restarts = 0

-----------------------------------------------------------------------------
(* What is said of a manifest, and of two rows.                            *)

\* build_summary, here of a build routed to a command line that does not
\* report its prices: unknown with such calls, or ended without a settlement.
Truth(m, status) ==
    IF m.lacks \/ (~m.settled /\ status \in Terminal \ {"completed"}) THEN NotKnown
    ELSE Known(m.cost)

\* _build_row_summary: the manifest on disk, else the row's; a row that ended
\* corrects one that still runs.
Summary ==
    LET m == IF disk # NoManifest THEN disk ELSE db.manifest
        status == IF db.status \in Terminal /\ m.status = "running" THEN db.status
                  ELSE m.status
    IN  [status |-> status, cost |-> m.cost, truth |-> Truth(m, status)]

\* _same_build_cost: what is not known contradicts nothing.
Same(truth, cost) == ~IsKnown(truth) \/ truth = Known(cost)
\* _merge_live_build_history.
Merged(mem, per) ==
    LET own == IF mem.truth = Known(mem.cost) THEN mem.truth ELSE NoTruth IN
    [status |-> mem.status,
     cost |-> IF mem.status \notin Terminal /\ mem.cost > 0 THEN mem.cost
              ELSE IF IsKnown(per.truth) THEN per.truth[2] ELSE per.cost,
     truth |-> IF mem.status \in Terminal \/ mem.cost = 0 THEN per.truth
               ELSE IF own # NoTruth THEN own
               ELSE IF per.cost = mem.cost /\ Same(per.truth, mem.cost) THEN per.truth
               ELSE NoTruth]

-----------------------------------------------------------------------------
(* The runner.                                                             *)

Fault == faults < MaxFaults /\ faults' = faults + 1
\* _save_build: an error is logged, and the build goes on.
SaveBuild(m) ==
    \/ db' = [status |-> m.status, manifest |-> m] /\ UNCHANGED faults
    \/ Fault /\ UNCHANGED db

\* A stage was saved and announced; its calls cost so much, and may lack a
\* price.  The dashboard adds the stages up until the total is settled.
StageEnds ==
    /\ step = <<"run">> /\ stages < MaxStages /\ stages' = stages + 1
    /\ \E c \in {0, 1}, lacks \in BOOLEAN :
        /\ spending' = <<spending[1] + c, spending[2] \/ lacks>>
        /\ live' = IF final THEN live ELSE [live EXCEPT !.cost = @ + c]
    /\ SaveBuild(manifest)
    /\ UNCHANGED <<step, manifest, final, disk, list, cancels, restarts>>

\* The build spends between the stages, too: no stage's.
Aside ==
    /\ step = <<"run">> /\ spending[1] = 0 /\ spending' = [spending EXCEPT ![1] = @ + 1]
    /\ UNCHANGED <<step, stages, manifest, live, final, stored, list, bounds>>

Settled(status) ==
    manifest' = [status |-> status, cost |-> spending[1], settled |-> TRUE,
                 lacks |-> spending[2]]
Settle ==
    /\ step = <<"run">> /\ step' = <<"go", "disk", "db", "emit">>
    /\ \E status \in {"completed", "completed_no_go"} : Settled(status)
    /\ UNCHANGED <<stages, spending, live, final, stored, list, bounds>>

\* An exception, or the manifest that cannot be written to the disk.
Fail ==
    /\ step = <<"run">> \/ (step[1] = "go" /\ step[2] = "disk")
    /\ step' = <<"fail", "db", "emit", "disk">> /\ Settled("failed")
    /\ UNCHANGED <<stages, spending, live, final, stored, list, bounds>>

\* A cancellation; one that meets the handler of an exception ends it.
Cancel ==
    /\ step # <<"over">> /\ cancels < MaxCancels /\ cancels' = cancels + 1
    /\ IF step[1] \in {"fail", "cancel"}
       THEN step' = <<"over">> /\ UNCHANGED manifest
       ELSE step' = <<"cancel", "disk", "db", "emit">> /\ Settled("cancelled")
    /\ UNCHANGED <<stages, spending, live, final, stored, list, faults, restarts>>

Rest == IF Len(step) = 2 THEN <<"over">> ELSE <<step[1]>> \o SubSeq(step, 3, Len(step))
\* What its end has still to write: the manifest on disk, which a build that
\* ended well must have; the row of the store; the event, which says more of
\* one that did not fail.
WriteDisk ==
    /\ Len(step) > 1 /\ step[2] = "disk" /\ step' = Rest
    /\ \/ disk' = manifest /\ UNCHANGED faults
       \/ step[1] # "go" /\ Fault /\ UNCHANGED disk
    /\ UNCHANGED <<stages, spending, manifest, live, final, db, list, cancels, restarts>>
WriteRow ==
    /\ Len(step) > 1 /\ step[2] = "db" /\ step' = Rest /\ SaveBuild(manifest)
    /\ UNCHANGED <<stages, spending, manifest, live, final, disk, list, cancels, restarts>>
\* _on_build of the dashboard, at a terminal event.
Announce ==
    /\ Len(step) > 1 /\ step[2] = "emit" /\ step' = Rest
    /\ live' = [status |-> manifest.status, cost |-> manifest.cost,
                truth |-> IF step[1] = "fail" THEN live.truth
                          ELSE Truth(manifest, manifest.status)]
    /\ final' = TRUE
    /\ UNCHANGED <<stages, spending, manifest, stored, list, bounds>>

\* The dashboard starts anew: reconcile_orphaned_builds, over the rows of the
\* store only.
Restart ==
    /\ restarts < MaxRestarts /\ restarts' = restarts + 1
    /\ step' = <<"over">> /\ live' = NoRow /\ final' = FALSE
    /\ db' = [db EXCEPT !.status = IF @ = "running" THEN "interrupted" ELSE @]
    /\ copy' = <<>> /\ since' = FALSE /\ shown' = NoRow /\ about' = FALSE /\ seen' = FALSE
    /\ UNCHANGED <<stages, spending, manifest, disk, faults, cancels>>

-----------------------------------------------------------------------------
(* The list: the rows in memory are copied before the store is awaited.    *)

Begin ==
    /\ copy = <<>> /\ copy' = <<live>> /\ since' = (step = <<"over">>)
    /\ UNCHANGED <<runner, live, final, stored, shown, about, seen, bounds>>
Show ==
    /\ copy # <<>> /\ copy' = <<>>
    /\ shown' = IF copy[1] = NoRow THEN Summary ELSE Merged(copy[1], Summary)
    /\ about' = since /\ seen' = (seen \/ shown'.status \in Terminal)
    /\ UNCHANGED <<runner, live, final, stored, since, bounds>>

Next == \/ StageEnds \/ Aside \/ Settle \/ Fail \/ Cancel \/ WriteDisk \/ WriteRow
        \/ Announce \/ Restart \/ Begin \/ Show

Spec == Init /\ [][Next]_vars

-----------------------------------------------------------------------------
(* Properties.                                                             *)

Rows == [status : Terminal \union {"none", "running"}, cost : 0 .. MaxStages + 1,
         truth : {NoTruth, NotKnown} \union {Known(n) : n \in 0 .. MaxStages + 1}]
TypeOK ==
    /\ live \in Rows /\ shown \in Rows /\ (copy = <<>> \/ copy[1] \in Rows)
    /\ manifest.status \in Terminal \union {"running"} /\ stages \in 0 .. MaxStages
    /\ since \in BOOLEAN /\ about \in BOOLEAN

\* What is said of how the cost is known is said of the cost that is shown,
\* whichever of the three records is behind (_merge_live_build_history).
TruthIsOfCost == IsKnown(shown.truth) => shown.truth = Known(shown.cost)

\* A list begun after the end shows how it ended and what it cost, unless a
\* record could not be written or the end itself was cancelled.
EndIsShown ==
    /\ about /\ faults = 0 /\ restarts = 0
    /\ cancels <= (IF manifest.status = "cancelled" THEN 1 ELSE 0)
    =>  /\ shown.status = manifest.status /\ shown.cost = spending[1]
        /\ shown.truth = IF spending[2] THEN NotKnown ELSE Known(spending[1])

\* A process that has shown an end never shows the build as running again, and
\* none shows one that a restart cut as running.
EndStands == (seen => shown.status # "running")
             /\ (restarts > 0 => shown.status \in Terminal \union {"none"})

\* No end is shown of a build whose runner has not come to it.
EndIsReal == shown.status \in Terminal /\ restarts = 0 => step # <<"run">>

RowsAgree == TruthIsOfCost /\ EndIsShown /\ EndStands /\ EndIsReal

=============================================================================

------------------------------- MODULE Builds -------------------------------
(***************************************************************************)
(* The lifecycle of builds of one brief: the queue of skyn3t/web/routes.py *)
(* (submit_build, cancel_build, delete_build, delete_project), the task of *)
(* StudioRunner with its worktrees (skyn3t/worktree.py), the build rows of *)
(* the memory store and a restart of the server. All run on one event      *)
(* loop: a step is the code between two awaits, and a cancellation takes   *)
(* effect at the next of them. The store's writes are taken to succeed.    *)
(***************************************************************************)
EXTENDS Naturals, FiniteSets, FiniteSetsExt

CONSTANTS
  Build,       \* builds of the brief
  Canceller,   \* calls of cancel_build
  Folder,      \* 1..n: slug, slug-2, ...
  MaxFailures, \* bound: stages that raise, worktrees that cannot be created,
               \* deliveries that fall short
  MaxDeletes,  \* bound: calls of delete_project and delete_build
  MaxRestarts  \* bound: crashes of the server, each followed by a restart

VARIABLES
  pc,         \* where the task of a build stands
  cancelled,  \* builds whose task has a CancelledError on its way
  folder,     \* the folder a build reserved, 0 before
  dir,        \* dir[f]: the build whose files folder f holds
  worktrees,  \* the trees of a build on disk: its main tree and its candidates
  work,       \* the trees its agents have written to
  recovered,  \* the trees copied under data_dir/recovery
  status,     \* manifest.status
  delivered,  \* builds merged into their folder
  disk,       \* disk[f]: status in the manifest file of folder f
  row,        \* row[b]: status in the store
  rec,        \* rec[b]: status in AppState.builds; "queued" until it names a folder
  tasks,      \* _BUILD_TASKS_BY_ID
  calls,      \* calls[c]: the build that call c cancels, as a set
  place,      \* place[c]: where call c stands
  entered,    \* history: builds whose stages began
  undermined, \* history: builds whose folder was deleted before it had a name
  failures, deletes, restarts

vars == <<pc, cancelled, folder, dir, worktrees, work, recovered, status, delivered, disk,
          row, rec, tasks, calls, place, entered, undermined, failures, deletes, restarts>>

Task == <<pc, cancelled>>
Files == <<folder, dir, disk>>
Trees == <<worktrees, work, recovered>>
Web == <<tasks, calls, place>>
Bounds == <<entered, undermined, failures, deletes, restarts>>

None == "none"
Main == "main"
Candidate == "candidate"

Early == {"created", "selecting", "saved", "checkpoint"}
\* What the try of _start_build covers.
Guarded == {"stages", "sampling", "settling", "saving", "announcing"}
Failing == {"failing", "failed"}
Cancelling == {"cancelling", "recorded"}
Alive == Early \cup Guarded \cup Failing \cup Cancelling \cup {"unwinding"}

Final == {"completed", "failed", "cancelled"}

Countable ==
  /\ None \notin Build /\ Folder \subseteq Nat \ {0}
  /\ MaxFailures \in Nat /\ MaxDeletes \in Nat /\ MaxRestarts \in Nat

TypeOK ==
  /\ pc \in [Build -> Alive \cup {"new", "ended"}]
  /\ cancelled \subseteq {b \in Build : pc[b] \in Alive}
  /\ folder \in [Build -> Folder \cup {0}] /\ dir \in [Folder -> Build \cup {None}]
  /\ worktrees \in [Build -> SUBSET {Main, Candidate}]
  /\ work \in [Build -> SUBSET {Main, Candidate}]
  /\ recovered \in [Build -> SUBSET {Main, Candidate}]
  /\ status \in [Build -> {"running"} \cup Final]
  /\ delivered \subseteq Build /\ entered \subseteq Build /\ undermined \subseteq Build
  /\ disk \in [Folder -> Final \cup {None}]
  /\ row \in [Build -> Final \cup {None, "running", "interrupted"}]
  /\ rec \in [Build -> Final \cup {None, "queued", "running"}]
  /\ tasks \subseteq Build
  /\ calls \in [Canceller -> SUBSET Build]
  /\ place \in [Canceller -> {"new", "waiting", "insisting", "settled", "ended"}]
  /\ failures \in 0..MaxFailures /\ deletes \in 0..MaxDeletes /\ restarts \in 0..MaxRestarts

Init ==
  /\ pc = [b \in Build |-> "new"] /\ cancelled = {}
  /\ folder = [b \in Build |-> 0] /\ dir = [f \in Folder |-> None]
  /\ disk = [f \in Folder |-> None]
  /\ worktrees = [b \in Build |-> {}] /\ work = [b \in Build |-> {}]
  /\ recovered = [b \in Build |-> {}]
  /\ status = [b \in Build |-> "running"] /\ delivered = {}
  /\ row = [b \in Build |-> None] /\ rec = [b \in Build |-> None]
  /\ tasks = {} /\ calls = [c \in Canceller |-> {}] /\ place = [c \in Canceller |-> "new"]
  /\ entered = {} /\ undermined = {} /\ failures = 0 /\ deletes = 0 /\ restarts = 0

Goto(b, next) == pc' = [pc EXCEPT ![b] = next]

\* b stands at `here` and nobody has cancelled it.
At(b, here) == pc[b] = here /\ b \notin cancelled /\ UNCHANGED cancelled

Fails == failures < MaxFailures /\ failures' = failures + 1

---------------------------------------------------------------------------
(* submit_build and the task up to its first stage.                        *)

\* submit_build: the record, the task and the web's own BUILD_STARTED.
Submit(b) ==
  /\ At(b, "new") /\ Goto(b, "created")
  /\ rec' = [rec EXCEPT ![b] = "queued"] /\ tasks' = tasks \cup {b}
  /\ UNCHANGED <<Files, Trees, status, delivered, row, calls, place, Bounds>>

Free == {f \in Folder : dir[f] = None}

\* _reserve_unique_slug: the first folder nobody has; then the stack is chosen.
Reserve(b) ==
  /\ At(b, "created") /\ Goto(b, "selecting") /\ Free # {}
  /\ folder' = [folder EXCEPT ![b] = Min(Free)]
  /\ dir' = [dir EXCEPT ![Min(Free)] = b]
  /\ UNCHANGED <<disk, Trees, status, delivered, row, rec, Web, Bounds>>

\* The running row is saved.
SaveRow(b) ==
  /\ At(b, "selecting") /\ Goto(b, "saved")
  /\ row' = [row EXCEPT ![b] = "running"]
  /\ UNCHANGED <<Files, Trees, status, delivered, rec, Web, Bounds>>

\* BUILD_STARTED names the folder; then the main worktree is created.
OpenTree(b) ==
  /\ At(b, "saved") /\ Goto(b, "checkpoint")
  /\ rec' = [rec EXCEPT ![b] = "running"]
  /\ worktrees' = [worktrees EXCEPT ![b] = {Main}]
  /\ UNCHANGED <<Files, work, recovered, status, delivered, row, Web, Bounds>>

\* An exception before the try leaves the task: _reap_build_task logs it.
Escape(b) ==
  /\ pc[b] \in {"selecting", "saved"} /\ At(b, pc[b]) /\ Goto(b, "ended") /\ Fails
  /\ rec' = [rec EXCEPT ![b] = IF pc[b] = "saved" THEN "running" ELSE @]
  /\ tasks' = tasks \ {b}
  /\ UNCHANGED <<Files, Trees, status, delivered, row, calls, place, entered, undermined,
                 deletes, restarts>>

Enter(b) ==
  /\ At(b, "checkpoint") /\ Goto(b, "stages") /\ entered' = entered \cup {b}
  /\ UNCHANGED <<Files, Trees, status, delivered, row, rec, Web, undermined, failures,
                 deletes, restarts>>

---------------------------------------------------------------------------
(* The stages and the delivery.                                            *)

\* An agent of a stage writes to the main tree.
Write(b) ==
  /\ At(b, "stages") /\ Goto(b, "stages")
  /\ work' = [work EXCEPT ![b] = @ \cup {Main}]
  /\ UNCHANGED <<Files, worktrees, recovered, status, delivered, row, rec, Web, Bounds>>

\* Best-of-N and the code slices: candidates work in trees of their own, which
\* are on the list of worktrees from their creation.
Sample(b) ==
  /\ At(b, "stages") /\ Goto(b, "sampling") /\ Candidate \notin worktrees[b]
  /\ worktrees' = [worktrees EXCEPT ![b] = @ \cup {Candidate}]
  /\ work' = [work EXCEPT ![b] = @ \cup {Candidate}]
  /\ UNCHANGED <<Files, recovered, status, delivered, row, rec, Web, Bounds>>

\* The chosen candidate is merged into the main tree; its own stays.
Merge(b) ==
  /\ At(b, "sampling") /\ Goto(b, "stages")
  /\ work' = [work EXCEPT ![b] = @ \cup {Main}]
  /\ UNCHANGED <<Files, worktrees, recovered, status, delivered, row, rec, Web, Bounds>>

\* merge_back: the folder is cleaned and holds the work of b; what follows up
\* to the verdict is of module Delivery.
Deliver(b) ==
  /\ At(b, "stages") /\ Goto(b, "settling")
  /\ dir' = [dir EXCEPT ![folder[b]] = b]
  /\ delivered' = delivered \cup {b}
  /\ status' = [status EXCEPT ![b] = "completed"]
  /\ UNCHANGED <<folder, disk, Trees, row, rec, Web, Bounds>>

\* A file could not be copied: the main tree is recovered, the build fails.
Shortfall(b) ==
  /\ At(b, "stages") /\ Goto(b, "failing") /\ Fails /\ Main \in work[b]
  /\ dir' = [dir EXCEPT ![folder[b]] = b]
  /\ recovered' = [recovered EXCEPT ![b] = @ \cup {Main}]
  /\ status' = [status EXCEPT ![b] = "failed"]
  /\ UNCHANGED <<folder, disk, worktrees, work, delivered, row, rec, Web, entered,
                 undermined, deletes, restarts>>

\* A stage raises, or its approval is refused.
Fail(b) ==
  /\ pc[b] \in {"stages", "sampling", "settling"} /\ At(b, pc[b]) /\ Goto(b, "failing") /\ Fails
  /\ status' = [status EXCEPT ![b] = "failed"]
  /\ UNCHANGED <<Files, Trees, delivered, row, rec, Web, entered, undermined, deletes,
                 restarts>>

\* manifest.save creates the folder when it is not there.
SaveManifest(b, value) ==
  /\ dir' = [dir EXCEPT ![folder[b]] = IF @ = None THEN b ELSE @]
  /\ disk' = [disk EXCEPT ![folder[b]] = value]
  /\ UNCHANGED folder

\* _finalize: the manifest file, the row, BUILD_COMPLETED.
Finalize(b) ==
  /\ At(b, "settling") /\ Goto(b, "saving")
  /\ SaveManifest(b, status[b])
  /\ UNCHANGED <<Trees, status, delivered, row, rec, Web, Bounds>>

SaveFinal(b) ==
  /\ At(b, "saving") /\ Goto(b, "announcing")
  /\ row' = [row EXCEPT ![b] = status[b]]
  /\ UNCHANGED <<Files, Trees, status, delivered, rec, Web, Bounds>>

Announce(b) ==
  /\ At(b, "announcing") /\ Goto(b, "unwinding")
  /\ rec' = [rec EXCEPT ![b] = status[b]]
  /\ UNCHANGED <<Files, Trees, status, delivered, row, Web, Bounds>>

\* The handlers of a failure: the row, BUILD_FAILED, and last the manifest file.
SaveFailed(b) ==
  /\ At(b, "failing") /\ Goto(b, "failed")
  /\ row' = [row EXCEPT ![b] = "failed"]
  /\ rec' = [rec EXCEPT ![b] = "failed"]
  /\ UNCHANGED <<Files, Trees, status, delivered, Web, Bounds>>

FileFailed(b) ==
  /\ At(b, "failed") /\ Goto(b, "unwinding")
  /\ SaveManifest(b, "failed")
  /\ UNCHANGED <<Trees, status, delivered, row, rec, Web, Bounds>>

---------------------------------------------------------------------------
(* Cancellation.                                                           *)

\* Cancelled before the try: nothing handles it.
Abandon(b) ==
  /\ b \in cancelled /\ pc[b] \in Early /\ Goto(b, "ended")
  /\ cancelled' = cancelled \ {b} /\ tasks' = tasks \ {b}
  /\ UNCHANGED <<Files, Trees, status, delivered, row, rec, calls, place, Bounds>>

\* Mutant of Rescue: the candidates are no longer on the list.
Rescue_MainOnly(b) == worktrees[b] \cap work[b] \cap {Main}

\* _recover_cancelled_worktrees: every tree of the list that has files.
Rescue(b) == worktrees[b] \cap work[b]

\* Cancelled in the stages or the delivery: the trees are copied and the
\* manifest saved before the first await.
Recover(b) ==
  /\ b \in cancelled /\ pc[b] \in Guarded /\ Goto(b, "cancelling")
  /\ cancelled' = cancelled \ {b}
  /\ recovered' = [recovered EXCEPT ![b] = @ \cup Rescue(b)]
  /\ status' = [status EXCEPT ![b] = "cancelled"]
  /\ SaveManifest(b, "cancelled")
  /\ UNCHANGED <<worktrees, work, delivered, row, rec, Web, Bounds>>

SaveCancelled(b) ==
  /\ At(b, "cancelling") /\ Goto(b, "recorded")
  /\ row' = [row EXCEPT ![b] = "cancelled"]
  /\ UNCHANGED <<Files, Trees, status, delivered, rec, Web, Bounds>>

AnnounceCancelled(b) ==
  /\ At(b, "recorded") /\ Goto(b, "unwinding")
  /\ rec' = [rec EXCEPT ![b] = "cancelled"]
  /\ UNCHANGED <<Files, Trees, status, delivered, row, Web, Bounds>>

\* Cancelled in a handler: only the finally is left.
Interrupt(b) ==
  /\ b \in cancelled /\ pc[b] \in Failing \cup Cancelling /\ Goto(b, "unwinding")
  /\ cancelled' = cancelled \ {b}
  /\ UNCHANGED <<Files, Trees, status, delivered, row, rec, Web, Bounds>>

\* The finally flushes the telemetry, then removes the trees; a cancellation in
\* the flush skips the removal.
Unwind(b) ==
  /\ pc[b] = "unwinding" /\ Goto(b, "ended")
  /\ cancelled' = cancelled \ {b} /\ tasks' = tasks \ {b}
  /\ worktrees' = IF b \in cancelled THEN worktrees ELSE [worktrees EXCEPT ![b] = {}]
  /\ UNCHANGED <<Files, work, recovered, status, delivered, row, rec, calls, place, Bounds>>

\* cancel_build: the task leaves the table, so that a second call finds none.
Cancel(c, b) ==
  /\ place[c] = "new"
  /\ rec[b] # None \/ row[b] # None
  /\ calls' = [calls EXCEPT ![c] = {b}]
  /\ tasks' = tasks \ {b}
  /\ IF b \in tasks
       THEN cancelled' = cancelled \cup {b} /\ place' = [place EXCEPT ![c] = "waiting"]
       ELSE UNCHANGED cancelled /\ place' = [place EXCEPT ![c] = "settled"]
  /\ UNCHANGED <<pc, Files, Trees, status, delivered, row, rec, Bounds>>

\* wait_for: after 15 seconds the task is cancelled again, and waited for.
Insist(c) ==
  /\ place[c] = "waiting" /\ \A b \in calls[c] : pc[b] \in Alive
  /\ place' = [place EXCEPT ![c] = "insisting"]
  /\ cancelled' = cancelled \cup calls[c]
  /\ UNCHANGED <<pc, Files, Trees, status, delivered, row, rec, tasks, calls, Bounds>>

\* The task a call waits for has ended, or the call found none.
Over(c) ==
  \/ place[c] = "settled"
  \/ place[c] \in {"waiting", "insisting"} /\ \A b \in calls[c] : pc[b] = "ended"

\* Whatever became of the task, the record and the row say cancelled.
Conclude(c) ==
  /\ Over(c) /\ place' = [place EXCEPT ![c] = "ended"]
  /\ \E b \in calls[c] :
       /\ rec' = [rec EXCEPT ![b] = IF @ = None THEN None ELSE "cancelled"]
       /\ row' = [row EXCEPT ![b] = "cancelled"]
  /\ UNCHANGED <<Task, Files, Trees, status, delivered, tasks, calls, Bounds>>

---------------------------------------------------------------------------
(* Deletion, and the server's own end.                                     *)

\* delete_project refuses the folder of a build that its record or its row
\* shows as active; an interrupted row counts as active.
InUse(f) ==
  \E b \in Build : folder[b] = f /\ (rec[b] = "running" \/ row[b] \in {"running", "interrupted"})

DeleteProject(f) ==
  /\ deletes < MaxDeletes /\ deletes' = deletes + 1
  /\ dir[f] # None /\ ~InUse(f)
  /\ dir' = [dir EXCEPT ![f] = None] /\ disk' = [disk EXCEPT ![f] = None]
  /\ undermined' = undermined \cup {b \in Build : folder[b] = f /\ pc[b] = "selecting"}
  /\ UNCHANGED <<Task, folder, Trees, status, delivered, row, rec, Web, entered, failures,
                 restarts>>

\* delete_build of a terminal build: record, row and, when the row knows the
\* folder and the folder is still its own, the delivered app.
DeleteBuild(b) ==
  /\ deletes < MaxDeletes /\ deletes' = deletes + 1
  /\ rec[b] \in Final \/ (rec[b] = None /\ row[b] \in Final)
  /\ rec' = [rec EXCEPT ![b] = None] /\ row' = [row EXCEPT ![b] = None]
  /\ LET own == row[b] # None /\ b \in delivered /\ dir[folder[b]] = b
     IN /\ dir' = IF own THEN [dir EXCEPT ![folder[b]] = None] ELSE dir
        /\ disk' = IF own THEN [disk EXCEPT ![folder[b]] = None] ELSE disk
  /\ UNCHANGED <<Task, folder, Trees, status, delivered, Web, entered, undermined, failures,
                 restarts>>

\* The process dies. The next one interrupts the rows that were running and
\* removes the trees whose owner is dead.
Restart ==
  /\ restarts < MaxRestarts /\ restarts' = restarts + 1
  /\ pc' = [b \in Build |-> IF pc[b] \in Alive THEN "ended" ELSE pc[b]]
  /\ cancelled' = {} /\ tasks' = {}
  /\ rec' = [b \in Build |-> None]
  /\ row' = [b \in Build |-> IF row[b] = "running" THEN "interrupted" ELSE row[b]]
  /\ worktrees' = [b \in Build |-> {}]
  /\ place' = [c \in Canceller |-> IF place[c] = "new" THEN "new" ELSE "ended"]
  /\ UNCHANGED <<Files, work, recovered, status, delivered, calls, entered, undermined,
                 failures, deletes>>

BuildStep(b) ==
  \/ Submit(b) \/ Reserve(b) \/ SaveRow(b) \/ OpenTree(b) \/ Escape(b) \/ Enter(b)
  \/ Write(b) \/ Sample(b) \/ Merge(b) \/ Deliver(b) \/ Shortfall(b) \/ Fail(b)
  \/ Finalize(b) \/ SaveFinal(b) \/ Announce(b) \/ SaveFailed(b) \/ FileFailed(b)
  \/ Abandon(b) \/ Recover(b) \/ SaveCancelled(b) \/ AnnounceCancelled(b)
  \/ Interrupt(b) \/ Unwind(b)

Next ==
  \/ \E b \in Build : BuildStep(b) \/ DeleteBuild(b)
  \/ \E c \in Canceller : Insist(c) \/ Conclude(c) \/ \E b \in Build : Cancel(c, b)
  \/ \E f \in Folder : DeleteProject(f)
  \/ Restart

Spec == Init /\ [][Next]_vars

---------------------------------------------------------------------------
(* Properties.                                                             *)

\* "Preserve every nonempty in-flight candidate before the finally block removes
\* its isolated worktree" (runner.py:8043): when the trees of a cancelled build
\* are gone, whatever its agents wrote was copied first, however often and
\* wherever it was cancelled.
Recovered ==
  \A b \in Build :
    status[b] = "cancelled" /\ worktrees[b] = {} => work[b] \subseteq recovered[b]

\* "Give this build its OWN delivery directory" (runner.py:6467): from
\* BUILD_STARTED to its verdict a build keeps its folder, whoever submits,
\* cancels or deletes meanwhile; the one way to lose it is a delete while the
\* stack was still being chosen.
FolderKept ==
  \A b \in Build :
    pc[b] \in {"checkpoint"} \cup Guarded /\ b \notin cancelled =>
      dir[folder[b]] = b \/ \E u \in undermined : folder[u] = folder[b]

\* The record and the row of a build that reached its stages agree on how it
\* ended, once its task and every call that cancels it are over
\* (runner.py 8042-8160, routes.py 1379-1416).
Settled ==
  \A b \in entered :
    /\ pc[b] = "ended"
    /\ \A c \in Canceller : b \in calls[c] => place[c] = "ended"
    => /\ rec[b] \in Final \cup {None} /\ row[b] \in Final \cup {None, "interrupted"}
       /\ rec[b] = None \/ row[b] = None \/ rec[b] = row[b]

\* What proves them.  A build nobody has cancelled is in the table, and no call is about it;
\* one with a cancellation on its way has a call that waits for it.
Waited(b) == \E c \in Canceller : b \in calls[c] /\ place[c] \in {"waiting", "insisting"}
Tabled ==
  \A b \in Build :
    /\ pc[b] = "new" => rec[b] = None /\ row[b] = None
    /\ pc[b] = "new" \/ b \in tasks => \A c \in Canceller : b \notin calls[c]
    /\ b \in tasks => pc[b] \in Alive
    /\ \A c \in Canceller : b \in calls[c] => calls[c] = {b}
    /\ b \in cancelled => Waited(b)
    /\ pc[b] \in Early \cup Guarded \cup Failing /\ b \notin cancelled => b \in tasks
\* Until its verdict its record, or its row, shows it as active,
Active ==
  \A b \in Build \ cancelled :
    /\ pc[b] \in {"created", "selecting", "saved"} => rec[b] = "queued"
    /\ pc[b] \in {"checkpoint"} \cup Guarded => rec[b] = "running"
    /\ pc[b] \in {"saved", "checkpoint", "stages", "sampling", "settling", "saving"} =>
         row[b] = "running"
    /\ pc[b] \in {"settling", "saving", "announcing"} => status[b] \in Final
    /\ pc[b] = "announcing" => row[b] = status[b]
\* which is what keeps its folder.
Undermined(f) == \E u \in undermined : folder[u] = f
Keeps ==
  \A b \in Build :
    /\ pc[b] \in {"new", "created"} => b \notin undermined
    /\ pc[b] \in Alive \ {"created"} => folder[b] \in Folder
    /\ pc[b] \in {"selecting", "saved", "checkpoint"} \cup Guarded /\ b \notin cancelled =>
         dir[folder[b]] = b \/ Undermined(folder[b])
\* Agents write to trees of the list only, and not after a cancellation was handled.
Listed ==
  \A b \in Build :
    /\ pc[b] \in {"new"} \cup Early => work[b] = {} /\ status[b] = "running"
    /\ pc[b] = "checkpoint" => Main \in worktrees[b]
    /\ pc[b] \in Guarded =>
         work[b] \subseteq worktrees[b] /\ Main \in worktrees[b] /\ status[b] # "cancelled"
    /\ status[b] = "cancelled" =>
         work[b] \subseteq recovered[b] /\ pc[b] \in Cancelling \cup {"unwinding", "ended"}
\* Where the record and the row of a finished build disagree, a call will settle them.
Agree(b) ==
  /\ rec[b] \in Final \cup {None} /\ row[b] \in Final \cup {None, "interrupted"}
  /\ rec[b] = None \/ row[b] = None \/ rec[b] = row[b]
Settles ==
  \A b \in Build :
    /\ pc[b] \in {"new"} \cup Early => b \notin entered
    /\ b \in entered /\ pc[b] \in {"failed", "unwinding", "ended"} => Agree(b) \/ Waited(b)
    /\ pc[b] = "recorded" => row[b] \in {"cancelled", None}

IInv == TypeOK /\ Tabled /\ Active /\ Keeps /\ Listed /\ Settles
=============================================================================

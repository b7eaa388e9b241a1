------------------------------- MODULE Improve -------------------------------
(***************************************************************************)
(* ImproveEngine of skyn3t/studio/improve.py: one project directory that   *)
(* runs of improve() edit as a transaction, each in a worktree of its own, *)
(* while anything else on the machine may edit the project too. A file is  *)
(* atomic to read, rename or link; a tree is not. Snapshots compare what   *)
(* files hold, so a file that the owner deleted ("gone") looks absent.     *)
(***************************************************************************)
EXTENDS Naturals, Sequences, TLAPS

CONSTANTS
  Runs,        \* calls of improve() for the project, from any process
  Sources,     \* the source files of the project
  Edits,       \* bound: what anyone but a run writes, in this order and never twice
  MaxLate,     \* bound: writes of a child of the proof that lingers
  MaxFaults    \* bound: file operations that fail

VARIABLES
  project,     \* project[f]: what the file holds
  owner,       \* the run that holds both project locks, as a set
  pc,          \* where a run stands
  candidate,   \* candidate[r]: the worktree
  proven,      \* proven[r]: the worktree as it was when proof began
  preimage,    \* preimage[r]: the project as the run found it
  staged,      \* staged[r]: the sibling copy of the candidate
  backup,      \* backup[r]: the copy of the project
  displaced,   \* displaced[r]: the live files moved aside
  failed,      \* failed[r]: a delivery that did not work, moved aside
  expected,    \* expected[r]: the snapshot of the tree being moved
  mutated, committed, confirmed, \* delivery_mutated, delivery_committed, rollback_confirmed
  result,      \* result[r]: what the caller of improve() is told
  owed,        \* history: of a file the last edit, while no run has seen or kept it
  edits, lates, faults

vars == <<project, owner, pc, candidate, proven, preimage, staged, backup, displaced,
          failed, expected, mutated, committed, confirmed, result, owed, edits, lates, faults>>

Manifest == "skyn3t_manifest.json"
Files == Sources \cup {Manifest}

Plain == {"none", "gone", "old", "late", "rejection"}
Written == {Edits[i] : i \in 1..Len(Edits)}
Content == Plain \cup Written \cup Runs

\* What the constants are: what a run, or anybody else, writes is told from the rest.
Parameters ==
  /\ Manifest \notin Sources /\ MaxLate \in Nat /\ MaxFaults \in Nat /\ Len(Edits) \in Nat
  /\ Runs \cap Plain = {} /\ Written \cap (Plain \cup Runs) = {}
  /\ \A i, j \in 1..Len(Edits) : Edits[i] = Edits[j] => i = j

Tree == [Files -> Content]
Empty == [f \in Files |-> "none"]

\* _delivery_snapshot: the files there are, and what they hold.
Seen(tree) == [f \in Files |-> IF tree[f] = "gone" THEN "none" ELSE tree[f]]
Present(tree) == {f \in Files : tree[f] \notin {"none", "gone"}}

\* _source_snapshot leaves the runner's own files out.
SameSource(t, u) == \A f \in Sources : Seen(t)[f] = Seen(u)[f]

Working == {"locked", "seeding", "generating", "proving", "reviewing", "delivering"}
Sync == {"staged", "backing", "moving", "linking", "failing", "setaside", "restoring"}

TypeOK ==
  /\ project \in Tree
  /\ owner \in SUBSET Runs /\ \A r, s \in owner : r = s
  /\ pc \in [Runs -> {"idle", "waiting", "finishing", "ended", "dead"} \cup Working \cup Sync]
  /\ \A tree \in {candidate, proven, preimage, staged, backup, displaced, failed, expected} :
       tree \in [Runs -> Tree]
  /\ mutated \in SUBSET Runs /\ committed \in SUBSET Runs /\ confirmed \in SUBSET Runs
  /\ result \in [Runs -> {"none", "completed", "preserved", "unpreserved", "cancelled"}]
  /\ owed \in [Files -> Written \cup {"none"}]
  /\ edits \in 0..Len(Edits) /\ lates \in Nat /\ faults \in Nat

Init ==
  /\ project \in {t \in [Files -> {"none", "old"}] : t[Manifest] = "old"}
  /\ owner = {}
  /\ pc = [r \in Runs |-> "idle"]
  /\ candidate = [r \in Runs |-> Empty] /\ proven = candidate /\ preimage = candidate
  /\ staged = candidate /\ backup = candidate /\ displaced = candidate
  /\ failed = candidate /\ expected = candidate
  /\ mutated = {} /\ committed = {} /\ confirmed = {}
  /\ result = [r \in Runs |-> "none"]
  /\ owed = Empty /\ edits = 0 /\ lates = 0 /\ faults = 0

Flags == <<mutated, committed, confirmed>>
Journals == <<staged, backup, displaced, failed, expected>>
Bounds == <<edits, lates, faults>>
World == <<project, owed, owner>>
Goto(r, place) == pc' = [pc EXCEPT ![r] = place]

-----------------------------------------------------------------------------
\* Locks, the preimage, the worktree.

Submit(r) ==
  /\ pc[r] = "idle"
  /\ Goto(r, "waiting")
  /\ UNCHANGED <<World, candidate, proven, preimage, Journals, Flags, result, Bounds>>

\* A run that is over returns or raises what it has found; only a rollback that
\* failed is not told as preserved.
Return(r, told) ==
  /\ result' = [result EXCEPT ![r] = told]
  /\ Goto(r, "finishing")

\* No route is allowed, or the locks do not come free in time.
Refused(r) ==
  /\ pc[r] = "waiting"
  /\ Return(r, "preserved")
  /\ UNCHANGED <<World, candidate, proven, preimage, Journals, Flags, Bounds>>

\* The thread lock, then the lock file.
Acquire(r) ==
  /\ pc[r] = "waiting" /\ owner = {}
  /\ owner' = {r}
  /\ Goto(r, "locked")
  /\ UNCHANGED <<project, owed, candidate, proven, preimage, Journals, Flags, result, Bounds>>

\* Manifest, snapshots and control identities are read again under the locks.
Preimage(r) ==
  /\ pc[r] = "locked"
  /\ preimage' = [preimage EXCEPT ![r] = Seen(project)]
  /\ owed' = Empty
  /\ Goto(r, "seeding")
  /\ UNCHANGED <<project, owner, candidate, proven, Journals, Flags, result, Bounds>>

\* A worktree is made and seeded with the project as it is by now.
Seed(r) ==
  /\ pc[r] = "seeding"
  /\ candidate' = [candidate EXCEPT ![r] = Seen(project)]
  /\ Goto(r, "generating")
  /\ UNCHANGED <<World, proven, preimage, Journals, Flags, result, Bounds>>

\* The improver writes, deletes or leaves each file; repairs and configuration
\* follow, and the tree that goes into proof is recorded.
Generated(r, written, deleted) ==
  [f \in Files |-> IF f \in written THEN r ELSE IF f \in deleted THEN "none" ELSE candidate[r][f]]
Generate(r) ==
  /\ pc[r] = "generating"
  /\ \E written \in SUBSET Sources : \E deleted \in SUBSET (Sources \ written) :
       /\ candidate' = [candidate EXCEPT ![r] = Generated(r, written, deleted)]
       /\ proven' = [proven EXCEPT ![r] = Generated(r, written, deleted)]
  /\ Goto(r, "proving")
  /\ UNCHANGED <<World, preimage, Journals, Flags, result, Bounds>>

\* What the run gives up before it touches the project: an invalid snapshot, an
\* improver that failed, a changed product contract.
GiveUp(r) ==
  /\ pc[r] \in {"locked", "generating", "reviewing", "delivering"}
  /\ Return(r, "preserved")
  /\ UNCHANGED <<World, candidate, proven, preimage, Journals, Flags, Bounds>>

\* A child of the proof, or of the improver, writes into the worktree late.
Linger(r) ==
  /\ lates < MaxLate
  /\ pc[r] \in {"proving", "reviewing", "delivering", "staged", "backing"}
  /\ \E f \in Sources : candidate' = [candidate EXCEPT ![r][f] = "late"]
  /\ lates' = lates + 1
  /\ UNCHANGED <<World, pc, proven, preimage, Journals, Flags, result, edits, faults>>

-----------------------------------------------------------------------------
\* Proof, review, and the comparisons that come before delivery.

ProofPassed(r) ==
  /\ pc[r] = "proving"
  /\ Goto(r, "reviewing")
  /\ UNCHANGED <<World, candidate, proven, preimage, Journals, Flags, result, Bounds>>

\* The history of a manifest: what it says of the last run.
Recorded(t, what) == [t EXCEPT ![Manifest] = what]

\* A rejection enters the history of the manifest when nothing has changed.
ProofFailed(r) ==
  /\ pc[r] = "proving"
  /\ project' = IF Seen(project) = preimage[r]
                  THEN Recorded(project, "rejection") ELSE project
  /\ Return(r, "preserved")
  /\ UNCHANGED <<owner, owed, candidate, proven, preimage, Journals, Flags, Bounds>>

\* The gates agree, and the worktree is still the tree that was proven.
Reviewed(r) ==
  /\ pc[r] = "reviewing"
  /\ SameSource(candidate[r], proven[r])
  /\ Goto(r, "delivering")
  /\ UNCHANGED <<World, candidate, proven, preimage, Journals, Flags, result, Bounds>>

\* Mutant: the staged copy is taken for the proven tree.
Stage_Unchecked(r) ==
  /\ pc[r] = "delivering"
  /\ staged' = [staged EXCEPT ![r] = candidate[r]]
  /\ IF Seen(project) = preimage[r]
       THEN Goto(r, "staged") /\ UNCHANGED result
       ELSE Return(r, "preserved")
  /\ UNCHANGED <<World, candidate, proven, preimage, backup, displaced, failed, expected,
                 Flags, Bounds>>

\* Worktree and project are compared again, the worktree is copied to a sibling
\* of the project, and copy and project are compared once more.
Stage(r) ==
  /\ pc[r] = "delivering"
  /\ staged' = [staged EXCEPT ![r] = candidate[r]]
  /\ IF SameSource(candidate[r], proven[r]) /\ Seen(project) = preimage[r]
       THEN Goto(r, "staged") /\ UNCHANGED result
       ELSE Return(r, "preserved")
  /\ UNCHANGED <<World, candidate, proven, preimage, backup, displaced, failed, expected,
                 Flags, Bounds>>

\* The project is copied; the copy gives the staged tree its control files, and
\* the history of the run is written into them.
Backup(r) ==
  /\ pc[r] = "staged"
  /\ backup' = [backup EXCEPT ![r] = Seen(project)]
  /\ staged' = [staged EXCEPT ![r] = Recorded(@, r)]
  /\ IF Seen(project) = preimage[r]
       THEN Goto(r, "backing") /\ UNCHANGED result
       ELSE Return(r, "preserved")
  /\ UNCHANGED <<World, candidate, proven, preimage, displaced, failed, expected, Flags, Bounds>>

\* The last comparison, after which the project is changed.
Commence(r) ==
  /\ pc[r] = "backing"
  /\ IF Seen(project) = preimage[r]
       THEN /\ mutated' = mutated \cup {r}
            /\ expected' = [expected EXCEPT ![r] = preimage[r]]
            /\ Goto(r, "moving")
            /\ UNCHANGED result
       ELSE Return(r, "preserved") /\ UNCHANGED <<mutated, expected>>
  /\ UNCHANGED <<World, candidate, proven, preimage, staged, backup, displaced, failed,
                 committed, confirmed, Bounds>>

-----------------------------------------------------------------------------
\* Delivery: _move_snapshot_files and _link_snapshot_files, file by file.

\* What a failure does: the first starts the rollback, the second gives up.
Stuck(r) == IF pc[r] \in {"moving", "linking"}
              THEN Goto(r, "failing") /\ UNCHANGED result
              ELSE Return(r, "unpreserved")

\* The files of `expected` that are still to be moved into `journal`.
ToMove(r, journal) == {f \in Present(expected[r]) : journal[r][f] = "none"}

\* A live file is renamed into the journal, whatever it holds by then.
Move(r) ==
  /\ pc[r] = "moving"
  /\ \E f \in ToMove(r, displaced) :
       IF f \in Present(project)
         THEN /\ displaced' = [displaced EXCEPT ![r][f] = project[f]]
              /\ project' = [project EXCEPT ![f] = "none"]
              /\ UNCHANGED <<pc, result>>
         ELSE Stuck(r) /\ UNCHANGED <<displaced, project>>
  /\ UNCHANGED <<owner, owed, candidate, proven, preimage, staged, backup, failed, expected,
                 Flags, Bounds>>

\* All is moved: the journal is compared with the snapshot.
Moved(r) ==
  /\ pc[r] = "moving"
  /\ ToMove(r, displaced) = {}
  /\ IF displaced[r] = preimage[r] THEN Goto(r, "linking") /\ UNCHANGED result ELSE Stuck(r)
  /\ UNCHANGED <<World, candidate, proven, preimage, Journals, Flags, Bounds>>

\* Mutant: links replace what is there.
Install_Replace(r, tree) ==
  \E f \in Present(tree) :
    /\ project[f] # tree[f]
    /\ project' = [project EXCEPT ![f] = tree[f]]
    /\ UNCHANGED <<pc, result>>

\* A file is linked where nothing is.
Install(r, tree) ==
  \E f \in Present(tree) :
    /\ project[f] # tree[f]
    /\ IF f \in Present(project)
         THEN Stuck(r) /\ UNCHANGED project
         ELSE project' = [project EXCEPT ![f] = tree[f]] /\ UNCHANGED <<pc, result>>

Link(r) ==
  /\ pc[r] = "linking"
  /\ Install(r, staged[r])
  /\ UNCHANGED <<owner, owed, candidate, proven, preimage, Journals, Flags, Bounds>>

\* The project is compared with the proven source and the staged tree.
Commit(r) ==
  /\ pc[r] = "linking"
  /\ \A f \in Present(staged[r]) : project[f] = staged[r][f]
  /\ IF SameSource(project, proven[r]) /\ Seen(project) = Seen(staged[r])
       THEN committed' = committed \cup {r} /\ Return(r, "completed")
       ELSE Stuck(r) /\ UNCHANGED committed
  /\ UNCHANGED <<World, candidate, proven, preimage, Journals, mutated, confirmed, Bounds>>

-----------------------------------------------------------------------------
\* Rollback: what is there is moved aside, and the backup is linked.

SnapshotFailure(r) ==
  /\ pc[r] = "failing"
  /\ expected' = [expected EXCEPT ![r] = Seen(project)]
  /\ Goto(r, "setaside")
  /\ UNCHANGED <<World, candidate, proven, preimage, staged, backup, displaced, failed,
                 Flags, result, Bounds>>

SetAside(r) ==
  /\ pc[r] = "setaside"
  /\ \E f \in ToMove(r, failed) :
       IF f \in Present(project)
         THEN /\ failed' = [failed EXCEPT ![r][f] = project[f]]
              /\ project' = [project EXCEPT ![f] = "none"]
              /\ UNCHANGED <<pc, result>>
         ELSE Stuck(r) /\ UNCHANGED <<failed, project>>
  /\ UNCHANGED <<owner, owed, candidate, proven, preimage, staged, backup, displaced, expected,
                 Flags, Bounds>>

IsSetAside(r) ==
  /\ pc[r] = "setaside"
  /\ ToMove(r, failed) = {}
  /\ IF failed[r] = expected[r] THEN Goto(r, "restoring") /\ UNCHANGED result ELSE Stuck(r)
  /\ UNCHANGED <<World, candidate, proven, preimage, Journals, Flags, Bounds>>

Restore(r) ==
  /\ pc[r] = "restoring"
  /\ Install(r, preimage[r])
  /\ UNCHANGED <<owner, owed, candidate, proven, preimage, Journals, Flags, Bounds>>

Restored(r) ==
  /\ pc[r] = "restoring"
  /\ \A f \in Present(preimage[r]) : project[f] = preimage[r][f]
  /\ IF Seen(project) = preimage[r]
       THEN confirmed' = confirmed \cup {r} /\ Return(r, "preserved")
       ELSE Stuck(r) /\ UNCHANGED confirmed
  /\ UNCHANGED <<World, candidate, proven, preimage, Journals, mutated, committed, Bounds>>

\* A file operation fails, or a snapshot cannot be read.
Fault(r) ==
  /\ faults < MaxFaults
  /\ faults' = faults + 1
  /\ pc[r] \in Sync
  /\ IF pc[r] \in {"staged", "backing"} THEN Return(r, "preserved") ELSE Stuck(r)
  /\ UNCHANGED <<World, candidate, proven, preimage, Journals, Flags, edits, lates>>

-----------------------------------------------------------------------------
\* The end of a run.

\* What a run knew is gone with it; its preimage stays as history where the
\* project was changed and the change not committed.
Drop(r) ==
  /\ candidate' = [candidate EXCEPT ![r] = Empty]
  /\ proven' = [proven EXCEPT ![r] = Empty]
  /\ staged' = [staged EXCEPT ![r] = Empty]
  /\ expected' = [expected EXCEPT ![r] = Empty]
  /\ preimage' = [preimage EXCEPT ![r] = IF r \in mutated \ committed THEN @ ELSE Empty]

\* The worktree goes; stage and backup go unless the project was changed and the
\* change not committed; the locks are released.
Finish(r) ==
  /\ pc[r] = "finishing"
  /\ owner' = owner \ {r}
  /\ Goto(r, "ended")
  /\ Drop(r)
  /\ IF r \in mutated \ committed
       THEN UNCHANGED <<backup, displaced, failed>>
       ELSE /\ backup' = [backup EXCEPT ![r] = Empty]
            /\ displaced' = [displaced EXCEPT ![r] = Empty]
            /\ failed' = [failed EXCEPT ![r] = Empty]
  /\ UNCHANGED <<project, owed, Flags, result, Bounds>>

\* The caller cancels at an await: before the delivery, or in the last event.
Cancel(r) ==
  /\ pc[r] \in {"waiting", "finishing"} \cup Working
  /\ result[r] # "cancelled"
  /\ Return(r, "cancelled")
  /\ UNCHANGED <<World, candidate, proven, preimage, Journals, Flags, Bounds>>

\* The process dies: the operating system frees the lock file, the rest stays.
Crash(r) ==
  /\ pc[r] \in {"waiting", "finishing"} \cup Working \cup Sync
  /\ owner' = owner \ {r}
  /\ Goto(r, "dead")
  /\ Drop(r)
  /\ UNCHANGED <<project, owed, backup, displaced, failed, Flags, result, Bounds>>

\* Somebody else writes or deletes a source file of the project.
Edit ==
  /\ edits < Len(Edits)
  /\ edits' = edits + 1
  /\ \E f \in Sources :
       \/ /\ project' = [project EXCEPT ![f] = Edits[edits + 1]]
          /\ owed' = [owed EXCEPT ![f] = Edits[edits + 1]]
       \/ /\ f \in Present(project) /\ project' = [project EXCEPT ![f] = "gone"]
          /\ owed' = [owed EXCEPT ![f] = "none"]
  /\ UNCHANGED <<owner, pc, candidate, proven, preimage, Journals, Flags, result, lates, faults>>

RunStep(r) ==
  \/ Refused(r) \/ Acquire(r) \/ Preimage(r) \/ Seed(r) \/ Generate(r) \/ GiveUp(r)
  \/ ProofPassed(r) \/ ProofFailed(r) \/ Reviewed(r) \/ Stage(r) \/ Backup(r) \/ Commence(r)
  \/ Move(r) \/ Moved(r) \/ Link(r) \/ Commit(r)
  \/ SnapshotFailure(r) \/ SetAside(r) \/ IsSetAside(r) \/ Restore(r) \/ Restored(r)
  \/ Finish(r)

Next ==
  \/ \E r \in Runs : Submit(r) \/ RunStep(r) \/ Linger(r) \/ Fault(r) \/ Cancel(r) \/ Crash(r)
  \/ Edit

Spec == Init /\ [][Next]_vars

-----------------------------------------------------------------------------
\* Nothing unproven is delivered: what a child wrote into the worktree after the
\* proof began never reaches the project (candidate_before_proof and the later
\* comparisons of _improve_scoped).
NothingUnproven == \A f \in Files : project[f] # "late"

\* A run that changed the project and did not commit, because it failed, was
\* undone or died, leaves the whole project it found in its backup.
Recoverable == \A r \in mutated \ committed : backup[r] = preimage[r]

\* What somebody else wrote is never lost: until a run has taken the edit into
\* its preimage, it is in the project or in what a failed delivery left behind
\* ("an edit that wins the race is moved into the journal rather than overwritten").
Journaled(f) == \E r \in Runs : owed[f] \in {displaced[r][f], failed[r][f]}
NoEditLost == \A f \in Files : owed[f] # "none" => project[f] = owed[f] \/ Journaled(f)

\* A run that reports the project as preserved has: every source file is what it
\* was, or what somebody else has made of it since.
PreservedIsTrue ==
  \A r \in Runs : pc[r] = "finishing" /\ result[r] = "preserved" /\ r \in owner =>
    preimage[r] = Empty \/ \A f \in Sources : project[f] \in {preimage[r][f], "gone"} \cup Written

-----------------------------------------------------------------------------
(* The invariants behind them. *)

\* Who works at the project has its locks, and who has them is not over.
LockInv ==
  /\ \A r \in Runs : pc[r] \in Working \cup Sync => r \in owner
  /\ \A r \in owner : pc[r] \in Working \cup Sync \cup {"finishing"}

\* What a run set aside for a rollback: nothing before it touches the project, the
\* whole project from then until it has committed, and after the moves all it moved.
Changing == {"moving", "linking", "failing", "setaside", "restoring"}
JournalOf(r) ==
  /\ pc[r] \in Changing => r \in mutated \ committed
  /\ r \in mutated => pc[r] \in Changing \cup {"finishing", "ended", "dead"}
  /\ pc[r] = "backing" \/ r \in mutated \ committed => backup[r] = preimage[r]
  /\ pc[r] \in {"moving", "linking"} => failed[r] = Empty
  /\ r \notin mutated => displaced[r] = Empty /\ failed[r] = Empty
  /\ pc[r] = "linking" \/ (pc[r] = "finishing" /\ r \in committed) =>
       displaced[r] = preimage[r] /\ failed[r] = Empty
  /\ pc[r] = "finishing" /\ r \in committed => r \in owner
JournalInv == committed \subseteq mutated /\ \A r \in Runs : JournalOf(r)

\* No late write is in what may reach the project.
Clean(tree) == \A f \in Files : tree[f] # "late"
CleanOf(r) ==
  /\ Clean(preimage[r]) /\ Clean(proven[r]) /\ candidate[r][Manifest] # "late"
  /\ pc[r] = "generating" => Clean(candidate[r])
  /\ pc[r] \in {"staged", "backing", "moving", "linking"} => Clean(staged[r])
CleanInv == Clean(project) /\ \A r \in Runs : CleanOf(r)

\* A run knows edits that were made, and none that is still owed; who has not begun
\* knows nothing.
Used == {Edits[i] : i \in 1..edits}
Known(tree) == \A f \in Files : tree[f] \in Written => tree[f] \in Used
EditsOf(r) ==
  /\ Known(candidate[r]) /\ Known(staged[r]) /\ Known(preimage[r])
  /\ r \in owner => \A f \in Files : owed[f] # "none" => preimage[r][f] # owed[f]
EditInv ==
  /\ owed[Manifest] = "none" /\ Known(owed) /\ Known(project)
  /\ \A r \in Runs : EditsOf(r)
  /\ NoEditLost

\* What a run found is there, or what somebody else made of it, until it is moved.
Kept(r) == preimage[r] = Empty \/ \A f \in Sources : project[f] \in {preimage[r][f], "gone"} \cup Written
KeptOf(r) ==
  /\ pc[r] \in {"idle", "waiting", "locked"} => preimage[r] = Empty
  /\ \/ pc[r] \in {"seeding", "generating", "proving", "reviewing", "delivering", "staged", "backing"}
     \/ pc[r] = "finishing" /\ result[r] = "preserved" /\ r \in owner
     => Kept(r)
KeptInv == \A r \in Runs : KeptOf(r)

IInv == TypeOK /\ LockInv /\ JournalInv /\ CleanInv /\ EditInv /\ KeptInv

-----------------------------------------------------------------------------
(* Proofs. *)

\* A snapshot holds what the files hold, a deleted one nothing.
LEMMA SeenFacts ==
  ASSUME NEW t \in Tree
  PROVE  /\ Seen(t) \in Tree
         /\ \A f \in Files : Seen(t)[f] = IF t[f] = "gone" THEN "none" ELSE t[f]
  BY DEF Seen, Tree, Content, Plain

LEMMA EmptyFacts == Empty \in Tree /\ \A f \in Files : Empty[f] = "none"
  BY DEF Empty, Tree, Content, Plain

LEMMA WrittenFacts ==
  ASSUME Parameters
  PROVE  /\ \A c \in Written : c \notin Plain /\ c \notin Runs
         /\ \A r \in Runs : r \notin Plain
         /\ Manifest \in Files /\ Manifest \notin Sources /\ Sources \subseteq Files
  BY DEF Parameters, Files

\* The other actions of a run write where it stands and what it knows.
LEMMA TypeStep == ASSUME Parameters, TypeOK, [Next]_vars PROVE TypeOK'
<1>. USE DEF TypeOK, Goto, Return, World, Journals, Flags, Bounds, Working, Sync, Stuck
<1>0. /\ project \in Tree /\ Seen(project) \in Tree
      /\ \A r \in Runs : preimage[r] \in Tree /\ staged[r] \in Tree
      /\ displaced \in [Runs -> Tree] /\ failed \in [Runs -> Tree]
  BY SeenFacts
<1>1. CASE UNCHANGED vars BY <1>1 DEF vars
<1>2. ASSUME NEW r \in Runs,
             Submit(r) \/ Refused(r) \/ Acquire(r) \/ GiveUp(r) \/ ProofPassed(r) \/ Reviewed(r)
      PROVE  TypeOK'
  BY <1>2 DEF Submit, Refused, Acquire, GiveUp, ProofPassed, Reviewed
<1>3. ASSUME NEW r \in Runs, Preimage(r) \/ Seed(r) PROVE TypeOK'
  <2>1. Empty \in [Files -> Written \cup {"none"}] BY DEF Empty
  <2>. QED BY <1>0, <1>3, <2>1 DEF Preimage, Seed
<1>4. ASSUME NEW r \in Runs, Generate(r) PROVE TypeOK'
  <2>1. \A written, deleted : Generated(r, written, deleted) \in Tree
    BY DEF Generated, Tree, Content, Plain
  <2>. QED BY <1>4, <2>1 DEF Generate
<1>5. ASSUME NEW r \in Runs, Linger(r) PROVE TypeOK'
  <2>1. candidate' \in [Runs -> Tree] BY <1>5 DEF Linger, Tree, Content, Plain, Files
  <2>. QED BY <1>5, <2>1 DEF Linger, Parameters
<1>6. ASSUME NEW r \in Runs, ProofFailed(r) PROVE TypeOK'
  <2>1. project' \in Tree BY <1>6 DEF ProofFailed, Recorded, Tree, Content, Plain
  <2>. QED BY <1>6, <2>1 DEF ProofFailed
<1>7. ASSUME NEW r \in Runs, Stage(r) \/ Commence(r) PROVE TypeOK'
  BY <1>7 DEF Stage, Commence
<1>8. ASSUME NEW r \in Runs, Backup(r) PROVE TypeOK'
  <2>1. staged' \in [Runs -> Tree] BY <1>8 DEF Backup, Recorded, Tree, Content
  <2>. QED BY <1>0, <1>8, <2>1 DEF Backup
<1>9. ASSUME NEW r \in Runs, Move(r) PROVE TypeOK'
  <2>1. \A f \in Files : /\ [project EXCEPT ![f] = "none"] \in Tree
                         /\ [displaced EXCEPT ![r][f] = project[f]] \in [Runs -> Tree]
    BY DEF Tree, Content, Plain
  <2>2. project' \in Tree /\ displaced' \in [Runs -> Tree]
    <3>1. PICK f \in Files :
            \/ /\ displaced' = [displaced EXCEPT ![r][f] = project[f]]
               /\ project' = [project EXCEPT ![f] = "none"]
            \/ displaced' = displaced /\ project' = project
      BY <1>9 DEF Move, ToMove, Present
    <3> HIDE DEF TypeOK
    <3>. QED BY <1>0, <2>1, <3>1
  <2>. QED BY <1>9, <2>2 DEF Move
<1>10. ASSUME NEW r \in Runs, SetAside(r) PROVE TypeOK'
  <2>1. \A f \in Files : /\ [project EXCEPT ![f] = "none"] \in Tree
                         /\ [failed EXCEPT ![r][f] = project[f]] \in [Runs -> Tree]
    BY DEF Tree, Content, Plain
  <2>2. project' \in Tree /\ failed' \in [Runs -> Tree]
    <3>1. PICK f \in Files :
            \/ /\ failed' = [failed EXCEPT ![r][f] = project[f]]
               /\ project' = [project EXCEPT ![f] = "none"]
            \/ failed' = failed /\ project' = project
      BY <1>10 DEF SetAside, ToMove, Present
    <3> HIDE DEF TypeOK
    <3>. QED BY <1>0, <2>1, <3>1
  <2>. QED BY <1>10, <2>2 DEF SetAside
<1>11. ASSUME NEW r \in Runs, Moved(r) \/ IsSetAside(r) \/ SnapshotFailure(r) PROVE TypeOK'
  BY <1>0, <1>11 DEF Moved, IsSetAside, SnapshotFailure
<1>12. ASSUME NEW r \in Runs, Link(r) \/ Restore(r) PROVE TypeOK'
  <2>1. ASSUME NEW t \in Tree, Install(r, t)
        PROVE  project' \in Tree /\ pc' \in [Runs -> {"idle", "waiting", "finishing", "ended", "dead"}
                                                  \cup Working \cup Sync]
               /\ result' \in [Runs -> {"none", "completed", "preserved", "unpreserved", "cancelled"}]
    <3>1. PICK f \in Present(t) :
             IF f \in Present(project) THEN Stuck(r) /\ UNCHANGED project
             ELSE project' = [project EXCEPT ![f] = t[f]] /\ UNCHANGED <<pc, result>>
      BY <2>1 DEF Install
    <3>2. f \in Files /\ t[f] \in Content BY DEF Present, Tree
    <3>3. CASE f \in Present(project) BY <3>1, <3>3
    <3>4. CASE f \notin Present(project) BY <3>1, <3>2, <3>4 DEF Tree
    <3>. QED BY <3>3, <3>4
  <2>. QED BY <1>0, <1>12, <2>1 DEF Link, Restore
<1>13. ASSUME NEW r \in Runs, Commit(r) \/ Restored(r) PROVE TypeOK'
  BY <1>13 DEF Commit, Restored
<1>14. ASSUME NEW r \in Runs, Fault(r) PROVE TypeOK'
  BY <1>14 DEF Fault
<1>15. ASSUME NEW r \in Runs, Finish(r) \/ Crash(r) PROVE TypeOK'
  <2>1. UNCHANGED <<project, owed, mutated, committed, confirmed, result, edits, lates, faults>>
    BY <1>15 DEF Finish, Crash
  <2>2. \A t \in {candidate', proven', preimage', staged', backup', displaced', failed', expected'} :
          t \in [Runs -> Tree]
    BY <1>15, EmptyFacts DEF Finish, Crash, Drop
  <2>. QED BY <1>15, <2>1, <2>2 DEF Finish, Crash
<1>16. ASSUME NEW r \in Runs, Cancel(r) PROVE TypeOK'
  BY <1>16 DEF Cancel
<1>17. CASE Edit
  <2>1. edits' \in 0..Len(Edits) /\ edits + 1 \in 1..Len(Edits) BY <1>17 DEF Edit, Parameters
  <2>2. Edits[edits + 1] \in Written BY <2>1 DEF Written
  <2>3. project' \in Tree /\ owed' \in [Files -> Written \cup {"none"}]
    BY <1>17, <2>2 DEF Edit, Tree, Content, Plain, Files
  <2>. QED BY <1>17, <2>1, <2>3 DEF Edit
<1>. QED
  BY <1>1, <1>2, <1>3, <1>4, <1>5, <1>6, <1>7, <1>8, <1>9, <1>10, <1>11, <1>12, <1>13, <1>14,
     <1>15, <1>16, <1>17 DEF Next, RunStep

\* A step of one run leaves what the others know and where they stand.
RunAction(r) == Submit(r) \/ RunStep(r) \/ Linger(r) \/ Fault(r) \/ Cancel(r) \/ Crash(r)
Untouched(s) ==
  /\ pc'[s] = pc[s] /\ result'[s] = result[s]
  /\ candidate'[s] = candidate[s] /\ proven'[s] = proven[s] /\ preimage'[s] = preimage[s]
  /\ staged'[s] = staged[s] /\ backup'[s] = backup[s]
  /\ displaced'[s] = displaced[s] /\ failed'[s] = failed[s]
  /\ s \in owner' <=> s \in owner
  /\ s \in mutated' <=> s \in mutated
  /\ s \in committed' <=> s \in committed
LEMMA OthersUntouched ==
  ASSUME TypeOK, NEW r \in Runs, RunAction(r), NEW s \in Runs, s # r
  PROVE  Untouched(s)
<1>. USE DEF TypeOK, Goto, Return, World, Journals, Flags, Bounds, Stuck, Untouched
<1>1. CASE Submit(r) \/ Refused(r) \/ Acquire(r) \/ GiveUp(r) \/ ProofPassed(r) \/ Reviewed(r)
  BY <1>1 DEF Submit, Refused, Acquire, GiveUp, ProofPassed, Reviewed
<1>2. CASE Preimage(r) \/ Seed(r) \/ Generate(r) \/ Linger(r) \/ ProofFailed(r)
  BY <1>2 DEF Preimage, Seed, Generate, Linger, ProofFailed
<1>3. CASE Stage(r) \/ Backup(r) \/ Commence(r) \/ Moved(r) \/ Commit(r)
  BY <1>3 DEF Stage, Backup, Commence, Moved, Commit
<1>4. CASE Move(r) \/ SetAside(r)
  BY <1>4 DEF Move, SetAside
<1>5. CASE Link(r) \/ Restore(r)
  BY <1>5 DEF Link, Restore, Install
<1>6. CASE SnapshotFailure(r) \/ IsSetAside(r) \/ Restored(r)
  BY <1>6 DEF SnapshotFailure, IsSetAside, Restored
<1>7. CASE Finish(r) \/ Crash(r)
  BY <1>7 DEF Finish, Crash, Drop
<1>8. CASE Fault(r) \/ Cancel(r)
  BY <1>8 DEF Fault, Cancel
<1>. QED BY <1>1, <1>2, <1>3, <1>4, <1>5, <1>6, <1>7, <1>8 DEF RunAction, RunStep

\* Two runs never have the locks.
LEMMA LockStep == ASSUME Parameters, TypeOK, LockInv, [Next]_vars PROVE LockInv'
<1>. USE DEF TypeOK, Goto, Return, World, Journals, Flags, Bounds, Stuck, Working, Sync
<1>1. CASE UNCHANGED vars BY <1>1 DEF vars, LockInv
<1>2. CASE Edit BY <1>2 DEF Edit, LockInv
<1>3. ASSUME NEW r \in Runs, RunAction(r) PROVE LockInv'
  <2>1. /\ pc'[r] \in Working \cup Sync => r \in owner'
        /\ r \in owner' => pc'[r] \in Working \cup Sync \cup {"finishing"}
    <3>. USE DEF LockInv
    <3>1. CASE Submit(r) \/ Refused(r) \/ Acquire(r) \/ GiveUp(r) \/ ProofPassed(r) \/ Reviewed(r)
      BY <3>1 DEF Submit, Refused, Acquire, GiveUp, ProofPassed, Reviewed
    <3>2. CASE Preimage(r) \/ Seed(r) \/ Generate(r) \/ Linger(r) \/ ProofFailed(r)
      BY <3>2 DEF Preimage, Seed, Generate, Linger, ProofFailed
    <3>3. CASE Stage(r) \/ Backup(r) \/ Commence(r) \/ Moved(r) \/ Commit(r)
      BY <3>3 DEF Stage, Backup, Commence, Moved, Commit
    <3>4. CASE Move(r) \/ SetAside(r)
      BY <3>4 DEF Move, SetAside
    <3>5. CASE Link(r) \/ Restore(r)
      BY <3>5 DEF Link, Restore, Install
    <3>6. CASE SnapshotFailure(r) \/ IsSetAside(r) \/ Restored(r)
      BY <3>6 DEF SnapshotFailure, IsSetAside, Restored
    <3>7. CASE Finish(r) \/ Crash(r)
      BY <3>7 DEF Finish, Crash
    <3>8. CASE Fault(r) \/ Cancel(r)
      BY <3>8 DEF Fault, Cancel
    <3>. QED BY <1>3, <3>1, <3>2, <3>3, <3>4, <3>5, <3>6, <3>7, <3>8 DEF RunAction, RunStep
  <2>2. ASSUME NEW s \in Runs, s # r
        PROVE  /\ pc'[s] \in Working \cup Sync => s \in owner'
               /\ s \in owner' => pc'[s] \in Working \cup Sync \cup {"finishing"}
    BY <1>3, <2>2, OthersUntouched DEF LockInv, Untouched
  <2>3. owner' \subseteq Runs
    <3>1. TypeOK' BY <1>3, TypeStep DEF Next, RunAction
    <3>. QED BY <3>1
  <2>. QED BY <2>1, <2>2, <2>3 DEF LockInv
<1>. QED BY <1>1, <1>2, <1>3 DEF Next, RunAction

\* The backup is the project as it was found, and what was moved is that too.
LEMMA JournalStep == ASSUME Parameters, TypeOK, LockInv, JournalInv, [Next]_vars PROVE JournalInv'
<1>. USE DEF TypeOK, Goto, Return, World, Journals, Flags, Bounds, Stuck, Working, Sync, Changing
<1>1. CASE UNCHANGED vars BY <1>1 DEF vars, JournalInv, JournalOf
<1>2. CASE Edit BY <1>2 DEF Edit, JournalInv, JournalOf
<1>3. ASSUME NEW r \in Runs, RunAction(r) PROVE JournalInv'
  <2>1. JournalOf(r)' /\ committed' \subseteq mutated'
    <3>. USE DEF JournalInv, JournalOf
    <3>1. CASE Submit(r) \/ Refused(r) \/ Acquire(r) \/ GiveUp(r) \/ ProofPassed(r) \/ Reviewed(r)
      BY <3>1 DEF Submit, Refused, Acquire, GiveUp, ProofPassed, Reviewed
    <3>2. CASE Preimage(r) \/ Seed(r) \/ Generate(r) \/ Linger(r) \/ ProofFailed(r)
      BY <3>2 DEF Preimage, Seed, Generate, Linger, ProofFailed
    <3>3. CASE Stage(r) \/ Backup(r) \/ Commence(r)
      BY <3>3 DEF Stage, Backup, Commence
    <3>4. CASE Move(r) BY <3>4 DEF Move
    <3>5. CASE SetAside(r) BY <3>5 DEF SetAside
    <3>6. CASE Moved(r) BY <3>6 DEF Moved
    <3>7. CASE Commit(r) BY <3>7 DEF Commit, LockInv
    <3>8. CASE Link(r) \/ Restore(r) BY <3>8 DEF Link, Restore, Install
    <3>9. CASE SnapshotFailure(r) \/ IsSetAside(r) \/ Restored(r)
      BY <3>9 DEF SnapshotFailure, IsSetAside, Restored
    <3>10. CASE Finish(r) BY <3>10 DEF Finish, Drop
    <3>11. CASE Crash(r) BY <3>11 DEF Crash, Drop
    <3>12. CASE Fault(r) \/ Cancel(r) BY <3>12 DEF Fault, Cancel
    <3>. QED BY <1>3, <3>1, <3>2, <3>3, <3>4, <3>5, <3>6, <3>7, <3>8, <3>9, <3>10, <3>11, <3>12
             DEF RunAction, RunStep
  <2>2. ASSUME NEW s \in Runs, s # r PROVE JournalOf(s)'
    BY <1>3, <2>2, OthersUntouched DEF JournalInv, JournalOf, Untouched
  <2>. QED BY <2>1, <2>2 DEF JournalInv
<1>. QED BY <1>1, <1>2, <1>3 DEF Next, RunAction

\* What reaches the project comes from the tree that was proven.
LEMMA CleanStep == ASSUME Parameters, TypeOK, CleanInv, [Next]_vars PROVE CleanInv'
<1>. USE DEF TypeOK, Goto, Return, World, Journals, Flags, Bounds, Stuck, Clean, Plain
<1>0. /\ Manifest \in Files /\ Manifest \notin Sources /\ Sources \subseteq Files
      /\ \A r \in Runs : r \notin Plain /\ \A c \in Written : c \notin Plain
  BY WrittenFacts
<1>1. CASE UNCHANGED vars BY <1>1 DEF vars, CleanInv, CleanOf
<1>2. CASE Edit
  <2>1. edits + 1 \in 1..Len(Edits) BY <1>2 DEF Edit, Parameters
  <2>2. Edits[edits + 1] # "late" BY <2>1, WrittenFacts DEF Written
  <2>3. Clean(project') BY <1>2, <2>2 DEF Edit, CleanInv, Tree
  <2>. QED BY <1>2, <2>3 DEF Edit, CleanInv, CleanOf
<1>3. ASSUME NEW r \in Runs, RunAction(r) PROVE CleanInv'
  <2>0. project \in Tree /\ Seen(project) \in Tree /\ Clean(Seen(project))
    BY SeenFacts DEF CleanInv
  <2>1. CleanOf(r)' /\ Clean(project')
    <3>. USE DEF CleanInv, CleanOf
    <3>1. CASE Submit(r) \/ Refused(r) \/ Acquire(r) \/ GiveUp(r) \/ ProofPassed(r) \/ Reviewed(r)
      BY <3>1 DEF Submit, Refused, Acquire, GiveUp, ProofPassed, Reviewed
    <3>2. CASE Preimage(r) \/ Seed(r)
      BY <1>0, <2>0, <3>2 DEF Preimage, Seed
    <3>3. CASE Generate(r)
      <4>1. PICK written \in SUBSET Sources, deleted \in SUBSET Sources :
              /\ candidate' = [candidate EXCEPT ![r] = Generated(r, written, deleted)]
              /\ proven' = [proven EXCEPT ![r] = Generated(r, written, deleted)]
        BY <3>3 DEF Generate
      <4>2. Clean(candidate[r]) BY <3>3 DEF Generate
      <4>3. Clean(Generated(r, written, deleted)) BY <1>0, <4>2 DEF Generated
      <4>. QED BY <1>0, <3>3, <4>1, <4>3 DEF Generate
    <3>4. CASE Linger(r)
      BY <1>0, <3>4 DEF Linger, Tree
    <3>5. CASE ProofFailed(r) BY <3>5 DEF ProofFailed, Recorded, Tree
    <3>6. CASE Stage(r)
      <4>1. ASSUME SameSource(candidate[r], proven[r]) PROVE Clean(candidate[r])
        <5>1. \A f \in Sources : Seen(candidate[r])[f] = Seen(proven[r])[f] BY <4>1 DEF SameSource
        <5>2. \A f \in Sources : candidate[r][f] # "late" BY <1>0, <5>1, SeenFacts
        <5>. QED BY <5>2 DEF Files
      <4>. QED BY <3>6, <4>1 DEF Stage
    <3>7. CASE Backup(r)
      <4>1. Clean(staged'[r]) \/ ~Clean(staged[r]) BY <1>0, <3>7 DEF Backup, Recorded, Tree
      <4>. QED BY <3>7, <4>1 DEF Backup
    <3>8. CASE Commence(r) \/ Moved(r) \/ Commit(r) BY <3>8 DEF Commence, Moved, Commit
    <3>9. CASE Move(r)
      <4>1. Clean(project') BY <3>9 DEF Move, Tree
      <4>. QED BY <3>9, <4>1 DEF Move
    <3>10. CASE SetAside(r)
      <4>1. Clean(project') BY <3>10 DEF SetAside, Tree
      <4>. QED BY <3>10, <4>1 DEF SetAside
    <3>11. CASE Link(r) BY <3>11 DEF Link, Install, Tree
    <3>12. CASE Restore(r) BY <3>12 DEF Restore, Install, Tree
    <3>13. CASE SnapshotFailure(r) \/ IsSetAside(r) \/ Restored(r)
      BY <3>13 DEF SnapshotFailure, IsSetAside, Restored
    <3>14. CASE Finish(r) \/ Crash(r)
      BY <1>0, <3>14, EmptyFacts DEF Finish, Crash, Drop
    <3>15. CASE Fault(r) \/ Cancel(r) BY <3>15 DEF Fault, Cancel
    <3>. QED BY <1>3, <3>1, <3>2, <3>3, <3>4, <3>5, <3>6, <3>7, <3>8, <3>9, <3>10, <3>11, <3>12,
                <3>13, <3>14, <3>15 DEF RunAction, RunStep
  <2>2. ASSUME NEW s \in Runs, s # r PROVE CleanOf(s)'
    BY <1>3, <2>2, OthersUntouched DEF CleanInv, CleanOf, Untouched
  <2>. QED BY <2>1, <2>2 DEF CleanInv
<1>. QED BY <1>1, <1>2, <1>3 DEF Next, RunAction

\* An edit that is made is new to every run; what is owed goes with the file.
LEMMA EditStep ==
  ASSUME Parameters, TypeOK, LockInv, JournalInv, EditInv, KeptInv, [Next]_vars
  PROVE  EditInv'
<1>. USE DEF TypeOK, Goto, Return, World, Journals, Flags, Bounds, Stuck, Known, Plain
<1>0. /\ Manifest \in Files /\ Manifest \notin Sources /\ Sources \subseteq Files
      /\ \A r \in Runs : r \notin Written
      /\ \A c \in Plain : c \notin Written
  BY WrittenFacts
<1>1. CASE UNCHANGED vars
  BY <1>1 DEF vars, EditInv, EditsOf, NoEditLost, Journaled, Used
<1>2. CASE Edit
  <2> DEFINE e == Edits[edits + 1]
  <2>1. /\ edits + 1 \in 1..Len(Edits) /\ edits' = edits + 1 /\ edits \in Nat
        /\ UNCHANGED <<owner, candidate, preimage, staged, displaced, failed>>
    BY <1>2 DEF Edit, Parameters
  <2>2. e \in Written /\ e \in Used' /\ Used \subseteq Used'
    BY <2>1 DEF Written, Used
  <2>3. e \notin Used
    <3>1. \A i \in 1..edits : i \in 1..Len(Edits) /\ i # edits + 1 BY <2>1, <1>2 DEF Edit
    <3>2. \A i \in 1..edits : Edits[i] # e BY <2>1, <3>1 DEF Parameters
    <3>. QED BY <3>2 DEF Used
  <2> HIDE DEF e
  <2>4. PICK f \in Sources :
          \/ project' = [project EXCEPT ![f] = e] /\ owed' = [owed EXCEPT ![f] = e]
          \/ project' = [project EXCEPT ![f] = "gone"] /\ owed' = [owed EXCEPT ![f] = "none"]
    BY <1>2 DEF Edit, e
  <2>5. \A g \in Files : /\ g # f => project'[g] = project[g] /\ owed'[g] = owed[g]
                         /\ \/ project'[f] = e /\ owed'[f] = e
                            \/ project'[f] = "gone" /\ owed'[f] = "none"
    BY <1>0, <2>4 DEF Tree
  <2>6. owed'[Manifest] = "none" BY <1>0, <2>5 DEF EditInv
  <2>7. Known(owed)' /\ Known(project)' BY <1>0, <2>2, <2>5 DEF EditInv
  <2>8. ASSUME NEW r \in Runs PROVE EditsOf(r)'
    <3>1. (Known(candidate[r]) /\ Known(staged[r]) /\ Known(preimage[r]))'
      BY <2>1, <2>2 DEF EditInv, EditsOf
    <3>2. ASSUME r \in owner', NEW g \in Files, owed'[g] # "none" PROVE preimage'[r][g] # owed'[g]
      <4>1. CASE g = f
        <5>1. owed'[g] = e BY <2>5, <3>2, <4>1
        <5>2. preimage[r][g] # e BY <2>2, <2>3 DEF EditInv, EditsOf
        <5>. QED BY <2>1, <5>1, <5>2
      <4>2. CASE g # f BY <2>1, <2>5, <3>2, <4>2 DEF EditInv, EditsOf
      <4>. QED BY <4>1, <4>2
    <3>. QED BY <3>1, <3>2 DEF EditsOf
  <2>9. NoEditLost' BY <2>1, <2>5 DEF EditInv, NoEditLost, Journaled
  <2>. QED BY <2>6, <2>7, <2>8, <2>9 DEF EditInv
<1>3. ASSUME NEW r \in Runs, RunAction(r) PROVE EditInv'
  <2>0. /\ project \in Tree /\ Seen(project) \in Tree /\ Known(Seen(project))
        /\ Used' = Used
    <3>1. edits' = edits
      <4>1. CASE Linger(r) \/ Fault(r) BY <4>1 DEF Linger, Fault
      <4>2. CASE RunStep(r)
        BY <4>2 DEF RunStep, Refused, Acquire, Preimage, Seed, Generate, GiveUp, ProofPassed,
           ProofFailed, Reviewed, Stage, Backup, Commence, Move, Moved, Link, Commit,
           SnapshotFailure, SetAside, IsSetAside, Restore, Restored, Finish
      <4>3. CASE Submit(r) \/ Cancel(r) \/ Crash(r) BY <4>3 DEF Submit, Cancel, Crash
      <4>. QED BY <1>3, <4>1, <4>2, <4>3 DEF RunAction
    <3>2. Used' = Used BY <3>1 DEF Used
    <3>. QED BY <1>0, <3>2, SeenFacts DEF EditInv
  <2>1. owed' = owed \/ Preimage(r)
    BY <1>3 DEF RunAction, RunStep, Submit, Linger, Fault, Cancel, Crash, Refused, Acquire, Seed,
       Generate, GiveUp, ProofPassed, ProofFailed, Reviewed, Stage, Backup, Commence, Move,
       Moved, Link, Commit, SnapshotFailure, SetAside, IsSetAside, Restore, Restored, Finish
  <2>2. owed'[Manifest] = "none" /\ Known(owed)'
    <3>1. CASE owed' = owed BY <2>0, <3>1 DEF EditInv
    <3>2. CASE Preimage(r) BY <1>0, <2>0, <3>2, EmptyFacts DEF Preimage
    <3>. QED BY <2>1, <3>1, <3>2
  <2>3. EditsOf(r)' /\ Known(project)'
    <3>1. /\ preimage'[r] \in {preimage[r], Empty} \/ Preimage(r)
          /\ r \in owner' => r \in owner \/ Acquire(r)
      <4>1. CASE Finish(r) \/ Crash(r) BY <4>1 DEF Finish, Crash, Drop
      <4>2. CASE Submit(r) \/ Linger(r) \/ Fault(r) \/ Cancel(r)
        BY <4>2 DEF Submit, Linger, Fault, Cancel
      <4>3. CASE RunStep(r) /\ ~Finish(r) /\ ~Preimage(r) /\ ~Acquire(r)
        BY <4>3 DEF RunStep, Refused, Seed, Generate, GiveUp, ProofPassed, ProofFailed,
           Reviewed, Stage, Backup, Commence, Move, Moved, Link, Commit, SnapshotFailure,
           SetAside, IsSetAside, Restore, Restored
      <4>4. CASE Preimage(r) \/ Acquire(r) BY <4>4 DEF Preimage, Acquire
      <4>. QED BY <1>3, <4>1, <4>2, <4>3, <4>4 DEF RunAction
    <3>2. ASSUME r \in owner', NEW f \in Files, owed'[f] # "none" PROVE preimage'[r][f] # owed'[f]
      <4>1. CASE Preimage(r) BY <3>2, <4>1, EmptyFacts DEF Preimage
      <4>2. CASE Acquire(r)
        BY <3>2, <4>2, EmptyFacts DEF Acquire, KeptInv, KeptOf
      <4>3. CASE ~Preimage(r) /\ ~Acquire(r)
        BY <2>1, <3>1, <3>2, <4>3, EmptyFacts DEF EditInv, EditsOf
      <4>. QED BY <4>1, <4>2, <4>3
    <3>3. Known(preimage'[r]) /\ Known(preimage[r]) /\ Known(Empty)
      <4>1. Known(Empty) BY <1>0, EmptyFacts
      <4>2. CASE Preimage(r)
        <5>1. preimage'[r] = Seen(project) BY <4>2 DEF Preimage
        <5>2. Known(preimage[r]) BY DEF EditInv, EditsOf
        <5>. QED BY <2>0, <4>1, <5>1, <5>2
      <4>3. CASE ~Preimage(r) BY <3>1, <4>1, <4>3 DEF EditInv, EditsOf
      <4>. QED BY <4>1, <4>2, <4>3 DEF EditInv, EditsOf
    <3>4. Known(candidate'[r]) /\ Known(candidate[r])
      <4>0. Known(candidate[r]) BY DEF EditInv, EditsOf
      <4>1. CASE candidate' = candidate BY <4>0, <4>1
      <4>2. CASE Seed(r) BY <2>0, <4>0, <4>2 DEF Seed
      <4>3. CASE Generate(r)
        <5>1. PICK written \in SUBSET Sources, deleted \in SUBSET Sources :
                candidate' = [candidate EXCEPT ![r] = Generated(r, written, deleted)]
          BY <4>3 DEF Generate
        <5>2. Known(Generated(r, written, deleted)) BY <1>0, <4>0 DEF Generated
        <5>. QED BY <4>0, <5>1, <5>2
      <4>4. CASE Linger(r)
        <5>1. PICK f \in Sources : candidate' = [candidate EXCEPT ![r][f] = "late"]
          BY <4>4 DEF Linger
        <5>2. \A g \in Files : candidate'[r][g] \in {"late", candidate[r][g]}
          BY <1>0, <5>1 DEF Tree
        <5>. QED BY <1>0, <4>0, <5>2
      <4>5. CASE Finish(r) \/ Crash(r) BY <3>3, <4>0, <4>5 DEF Finish, Crash, Drop
      <4>6. candidate' = candidate \/ Seed(r) \/ Generate(r) \/ Linger(r) \/ Finish(r) \/ Crash(r)
        BY <1>3 DEF RunAction, RunStep, Submit, Fault, Cancel, Refused, Acquire, Preimage, GiveUp,
           ProofPassed, ProofFailed, Reviewed, Stage, Backup, Commence, Move, Moved, Link, Commit,
           SnapshotFailure, SetAside, IsSetAside, Restore, Restored
      <4>. QED BY <4>1, <4>2, <4>3, <4>4, <4>5, <4>6
    <3>5. Known(staged'[r]) /\ Known(staged[r])
      <4>0. Known(staged[r]) BY DEF EditInv, EditsOf
      <4>1. CASE staged' = staged BY <4>0, <4>1
      <4>2. CASE Stage(r) BY <3>4, <4>0, <4>2 DEF Stage
      <4>3. CASE Backup(r)
        <5>1. \A g \in Files : staged'[r][g] \in {r, staged[r][g]} BY <1>0, <4>3 DEF Backup, Recorded, Tree
        <5>. QED BY <1>0, <4>0, <5>1
      <4>4. CASE Finish(r) \/ Crash(r) BY <3>3, <4>0, <4>4 DEF Finish, Crash, Drop
      <4>5. staged' = staged \/ Stage(r) \/ Backup(r) \/ Finish(r) \/ Crash(r)
        BY <1>3 DEF RunAction, RunStep, Submit, Linger, Fault, Cancel, Refused, Acquire, Preimage,
           Seed, Generate, GiveUp, ProofPassed, ProofFailed, Reviewed, Commence, Move, Moved, Link,
           Commit, SnapshotFailure, SetAside, IsSetAside, Restore, Restored
      <4>. QED BY <4>1, <4>2, <4>3, <4>4, <4>5
    <3>6. \A f \in Files : project'[f] \in Plain \cup {project[f], staged[r][f], preimage[r][f]}
      <4>1. CASE project' = project BY <4>1
      <4>2. CASE ProofFailed(r) BY <4>2 DEF ProofFailed, Recorded, Tree
      <4>3. CASE Move(r) \/ SetAside(r) BY <4>3 DEF Move, SetAside, Tree
      <4>4. CASE Link(r) BY <4>4 DEF Link, Install, Tree
      <4>5. CASE Restore(r) BY <4>5 DEF Restore, Install, Tree
      <4>6. \/ project' = project \/ ProofFailed(r) \/ Move(r) \/ SetAside(r)
            \/ Link(r) \/ Restore(r)
        BY <1>3 DEF RunAction, RunStep, Submit, Linger, Fault, Cancel, Refused, Acquire, Preimage,
           Seed, Generate, GiveUp, ProofPassed, Reviewed, Stage, Backup, Commence, Moved,
           Commit, SnapshotFailure, IsSetAside, Restored, Finish, Crash
      <4>. QED BY <4>1, <4>2, <4>3, <4>4, <4>5, <4>6
    <3>7. Known(project)' BY <1>0, <2>0, <3>3, <3>5, <3>6 DEF EditInv
    <3>. QED BY <2>0, <3>2, <3>3, <3>4, <3>5, <3>7 DEF EditsOf
  <2>4. ASSUME NEW s \in Runs, s # r PROVE EditsOf(s)'
    <3>1. EditsOf(s) /\ Untouched(s) BY <1>3, <2>4, OthersUntouched DEF EditInv
    <3>2. CASE owed' = owed BY <2>0, <3>1, <3>2 DEF EditsOf, Untouched
    <3>3. CASE Preimage(r)
      <4>1. \A f \in Files : owed'[f] = "none" BY <3>3, EmptyFacts DEF Preimage
      <4>. QED BY <2>0, <3>1, <4>1 DEF EditsOf, Untouched
    <3>. QED BY <2>1, <3>2, <3>3
  <2>5. NoEditLost'
    <3>. SUFFICES ASSUME NEW f \in Files, owed'[f] # "none"
                  PROVE  \/ project'[f] = owed'[f]
                         \/ \E s \in Runs : owed'[f] \in {displaced'[s][f], failed'[s][f]}
      BY DEF NoEditLost, Journaled
    <3>1. ~Preimage(r) BY EmptyFacts DEF Preimage
    <3>2. /\ owed'[f] = owed[f] /\ owed[f] \in Written
          /\ project[f] = owed[f] \/ \E s \in Runs : owed[f] \in {displaced[s][f], failed[s][f]}
      BY <2>1, <3>1 DEF EditInv, NoEditLost, Journaled
    <3>3. CASE ProofFailed(r)
      <4>1. f # Manifest BY <3>2, <1>0 DEF EditInv
      <4>. QED BY <3>2, <3>3, <4>1 DEF ProofFailed, Recorded, Tree
    <3>4. CASE Move(r)
      <4>1. \/ UNCHANGED <<displaced, project, failed>>
            \/ \E g \in Files : /\ displaced[r][g] = "none" /\ failed' = failed
                                 /\ displaced' = [displaced EXCEPT ![r][g] = project[g]]
                                 /\ project' = [project EXCEPT ![g] = "none"]
        BY <3>4 DEF Move, ToMove, Present
      <4>2. CASE UNCHANGED <<displaced, project, failed>> BY <3>2, <4>2
      <4>3. ASSUME NEW g \in Files, displaced[r][g] = "none", failed' = failed,
                   displaced' = [displaced EXCEPT ![r][g] = project[g]],
                   project' = [project EXCEPT ![g] = "none"]
            PROVE  \/ project'[f] = owed'[f]
                   \/ \E s \in Runs : owed'[f] \in {displaced'[s][f], failed'[s][f]}
        <5>1. \A s \in Runs : /\ displaced[s][f] # "none" => displaced'[s][f] = displaced[s][f]
                              /\ failed'[s][f] = failed[s][f]
          BY <4>3 DEF Tree
        <5>2. g = f => displaced'[r][f] = project[f] BY <4>3 DEF Tree
        <5>3. g # f => project'[f] = project[f] BY <4>3 DEF Tree
        <5>4. owed[f] # "none" BY <1>0, <3>2
        <5>. QED BY <3>2, <5>1, <5>2, <5>3, <5>4
      <4>. QED BY <4>1, <4>2, <4>3
    <3>5. CASE SetAside(r)
      <4>1. \/ UNCHANGED <<displaced, project, failed>>
            \/ \E g \in Files : /\ failed[r][g] = "none" /\ displaced' = displaced
                                 /\ failed' = [failed EXCEPT ![r][g] = project[g]]
                                 /\ project' = [project EXCEPT ![g] = "none"]
        BY <3>5 DEF SetAside, ToMove, Present
      <4>2. CASE UNCHANGED <<displaced, project, failed>> BY <3>2, <4>2
      <4>3. ASSUME NEW g \in Files, failed[r][g] = "none", displaced' = displaced,
                   failed' = [failed EXCEPT ![r][g] = project[g]],
                   project' = [project EXCEPT ![g] = "none"]
            PROVE  \/ project'[f] = owed'[f]
                   \/ \E s \in Runs : owed'[f] \in {displaced'[s][f], failed'[s][f]}
        <5>1. \A s \in Runs : /\ failed[s][f] # "none" => failed'[s][f] = failed[s][f]
                              /\ displaced'[s][f] = displaced[s][f]
          BY <4>3 DEF Tree
        <5>2. g = f => failed'[r][f] = project[f] BY <4>3 DEF Tree
        <5>3. g # f => project'[f] = project[f] BY <4>3 DEF Tree
        <5>4. owed[f] # "none" BY <1>0, <3>2
        <5>. QED BY <3>2, <5>1, <5>2, <5>3, <5>4
      <4>. QED BY <4>1, <4>2, <4>3
    <3>6. CASE Link(r) \/ Restore(r)
      <4>1. /\ UNCHANGED <<displaced, failed>>
            /\ project' = project \/ \E g \in Files \ Present(project), c \in Content :
                                        project' = [project EXCEPT ![g] = c]
        BY <3>6 DEF Link, Restore, Install, Present, Tree
      <4>2. f \notin Present(project) => project[f] # owed[f] BY <1>0, <3>2 DEF Present
      <4>. QED BY <3>2, <4>1, <4>2 DEF Tree
    <3>7. CASE Finish(r)
      <4>1. project' = project BY <3>7 DEF Finish
      <4>2. \A s \in Runs \ {r} : displaced'[s] = displaced[s] /\ failed'[s] = failed[s]
        BY <1>3, OthersUntouched DEF Untouched
      <4>3. CASE r \in mutated \ committed BY <3>2, <3>7, <4>3 DEF Finish
      <4>4. CASE r \notin mutated \ committed
        <5>1. owed[f] \notin {displaced[r][f], failed[r][f]}
          <6>1. CASE r \notin mutated
            BY <1>0, <3>2, <6>1, EmptyFacts DEF JournalInv, JournalOf
          <6>2. CASE r \in committed
            <7>1. displaced[r] = preimage[r] /\ failed[r] = Empty /\ r \in owner
              BY <3>7, <6>2 DEF Finish, JournalInv, JournalOf
            <7>. QED BY <1>0, <3>2, <7>1, EmptyFacts DEF EditInv, EditsOf
          <6>. QED BY <4>4, <6>1, <6>2
        <5>. QED BY <3>2, <4>1, <4>2, <5>1
      <4>. QED BY <4>3, <4>4
    <3>8. \/ UNCHANGED <<project, displaced, failed>> \/ ProofFailed(r) \/ Move(r)
          \/ SetAside(r) \/ Link(r) \/ Restore(r) \/ Finish(r)
      BY <1>3, <3>1 DEF RunAction, RunStep, Submit, Linger, Fault, Cancel, Refused, Acquire, Seed,
         Generate, GiveUp, ProofPassed, Reviewed, Stage, Backup, Commence, Moved, Commit,
         SnapshotFailure, IsSetAside, Restored, Crash
    <3>. QED BY <3>2, <3>3, <3>4, <3>5, <3>6, <3>7, <3>8
  <2>. QED BY <2>2, <2>3, <2>4, <2>5 DEF EditInv
<1>. QED BY <1>1, <1>2, <1>3 DEF Next, RunAction

\* Only the run that has the locks moves files, and before it does the project is what
\* it found, or what others made of that.
LEMMA KeptStep ==
  ASSUME Parameters, TypeOK, LockInv, KeptInv, [Next]_vars
  PROVE  KeptInv'
<1>. USE DEF TypeOK, Goto, Return, World, Journals, Flags, Bounds, Stuck, Working, Sync
<1>0. /\ Manifest \in Files /\ Manifest \notin Sources /\ Sources \subseteq Files
  BY WrittenFacts
<1>1. CASE UNCHANGED vars BY <1>1 DEF vars, KeptInv, KeptOf, Kept
<1>2. CASE Edit
  <2>1. /\ UNCHANGED <<owner, pc, preimage, result>>
        /\ edits + 1 \in 1..Len(Edits)
    BY <1>2 DEF Edit, Parameters
  <2>2. Edits[edits + 1] \in Written BY <2>1 DEF Written
  <2>3. \A f \in Files : project'[f] \in {project[f], "gone"} \cup Written
    BY <1>2, <2>2 DEF Edit, Tree
  <2>. QED BY <1>0, <2>1, <2>3 DEF KeptInv, KeptOf, Kept
<1>3. ASSUME NEW r \in Runs, RunAction(r) PROVE KeptInv'
  <2>1. pc'[r] \in {"idle", "waiting", "locked"} => preimage'[r] = Empty
    BY <1>3 DEF KeptInv, KeptOf, RunAction, RunStep, Submit, Linger, Fault, Cancel, Crash, Refused,
       Acquire, Preimage, Seed, Generate, GiveUp, ProofPassed, ProofFailed, Reviewed, Stage, Backup,
       Commence, Move, Moved, Link, Install, Commit, SnapshotFailure, SetAside, IsSetAside, Restore,
       Restored, Finish
  <2>2. ASSUME \/ pc'[r] \in {"seeding", "generating", "proving", "reviewing", "delivering", "staged",
                             "backing"}
               \/ pc'[r] = "finishing" /\ result'[r] = "preserved" /\ r \in owner'
        PROVE  Kept(r)'
    <3>. USE DEF Kept
    <3>1. CASE Preimage(r)
      <4>1. \A f \in Files : preimage'[r][f] = IF project[f] = "gone" THEN "none" ELSE project[f]
        BY <3>1, SeenFacts DEF Preimage
      <4>. QED BY <1>0, <3>1, <4>1 DEF Preimage
    <3>2. CASE Restored(r)
      <4>1. \/ pc'[r] = "finishing" /\ result'[r] = "unpreserved"
            \/ Seen(project) = preimage[r]
        BY <3>2 DEF Restored
      <4>2. Seen(project) = preimage[r] BY <2>2, <4>1
      <4>3. \A f \in Files : preimage[r][f] = IF project[f] = "gone" THEN "none" ELSE project[f]
        BY <4>2, SeenFacts
      <4>. QED BY <1>0, <3>2, <4>3 DEF Restored
    <3>3. CASE ProofFailed(r)
      <4>1. \A f \in Sources : project'[f] = project[f] BY <1>0, <3>3 DEF ProofFailed, Recorded, Tree
      <4>. QED BY <3>3, <4>1 DEF ProofFailed, KeptInv, KeptOf
    <3>4. CASE Submit(r) \/ Refused(r) \/ Acquire(r) \/ GiveUp(r) \/ ProofPassed(r) \/ Reviewed(r)
      BY <2>2, <3>4 DEF Submit, Refused, Acquire, GiveUp, ProofPassed, Reviewed, KeptInv, KeptOf, LockInv
    <3>5. CASE Seed(r) \/ Generate(r) \/ Linger(r)
      BY <2>2, <3>5 DEF Seed, Generate, Linger, KeptInv, KeptOf
    <3>6. CASE Stage(r) \/ Backup(r) \/ Commence(r)
      BY <2>2, <3>6 DEF Stage, Backup, Commence, KeptInv, KeptOf
    <3>7. CASE Move(r) \/ Moved(r) \/ Commit(r) \/ SetAside(r) \/ IsSetAside(r) \/ SnapshotFailure(r)
      BY <2>2, <3>7 DEF Move, Moved, Commit, SetAside, IsSetAside, SnapshotFailure
    <3>8. CASE Link(r) \/ Restore(r)
      BY <2>2, <3>8 DEF Link, Restore, Install
    <3>9. CASE Fault(r) BY <2>2, <3>9 DEF Fault, KeptInv, KeptOf
    <3>10. CASE Finish(r) \/ Crash(r) \/ Cancel(r) BY <2>2, <3>10 DEF Finish, Crash, Cancel
    <3>. QED BY <1>3, <3>1, <3>2, <3>3, <3>4, <3>5, <3>6, <3>7, <3>8, <3>9, <3>10
             DEF RunAction, RunStep
  <2>3. ASSUME NEW s \in Runs, s # r PROVE KeptOf(s)'
    <3>1. Untouched(s) /\ KeptOf(s) BY <1>3, <2>3, OthersUntouched DEF KeptInv
    <3>2. project' # project /\ ~ProofFailed(r) => s \notin owner
      <4>1. project' # project => pc[r] \in Working \cup Sync
        BY <1>3 DEF RunAction, RunStep, Submit, Linger, Fault, Cancel, Crash, Refused, Acquire,
           Preimage, Seed, Generate, GiveUp, ProofPassed, ProofFailed, Reviewed, Stage, Backup,
           Commence, Move, Moved, Link, Commit, SnapshotFailure, SetAside, IsSetAside, Restore,
           Restored, Finish
      <4>. QED BY <2>3, <4>1 DEF LockInv
    <3>3. CASE project' = project BY <3>1, <3>3 DEF KeptOf, Kept, Untouched
    <3>4. CASE ProofFailed(r)
      <4>1. \A f \in Sources : project'[f] = project[f] BY <1>0, <3>4 DEF ProofFailed, Recorded, Tree
      <4>. QED BY <3>1, <4>1 DEF KeptOf, Kept, Untouched
    <3>5. CASE project' # project /\ ~ProofFailed(r)
      <4>1. s \notin owner' /\ pc'[s] \notin Working \cup Sync
        BY <3>1, <3>2, <3>5 DEF LockInv, Untouched
      <4>. QED BY <3>1, <4>1 DEF KeptOf, Untouched
    <3>. QED BY <3>3, <3>4, <3>5
  <2>. QED BY <2>1, <2>2, <2>3 DEF KeptInv, KeptOf
<1>. QED BY <1>1, <1>2, <1>3 DEF Next, RunAction

LEMMA StartsSound == Parameters /\ Init => IInv
<1>. SUFFICES ASSUME Parameters, Init PROVE IInv OBVIOUS
<1>. USE DEF Init
<1>0. /\ Manifest \in Files /\ \A c \in Plain : c \notin Written
  BY WrittenFacts
<1>1. project \in Tree /\ \A f \in Files : project[f] \in {"none", "old"}
  BY DEF Tree, Content, Plain
<1>2. candidate = [r \in Runs |-> Empty] /\ proven = candidate /\ preimage = candidate
      /\ staged = candidate /\ backup = candidate /\ displaced = candidate
      /\ failed = candidate /\ expected = candidate
  OBVIOUS
<1>3. TypeOK
  <2>1. candidate \in [Runs -> Tree] BY <1>2, EmptyFacts
  <2>2. Empty \in [Files -> Written \cup {"none"}] BY DEF Empty
  <2>3. 0 \in 0..Len(Edits) BY DEF Parameters
  <2>. QED BY <1>1, <1>2, <2>1, <2>2, <2>3 DEF TypeOK
<1>4. LockInv BY DEF LockInv, Working, Sync
<1>5. JournalInv BY <1>2 DEF JournalInv, JournalOf, Changing
<1>6. CleanInv BY <1>0, <1>1, <1>2, EmptyFacts DEF CleanInv, CleanOf, Clean
<1>7. EditInv
  <2>1. Known(Empty) /\ Known(project) BY <1>0, <1>1, EmptyFacts DEF Known, Plain
  <2>. QED BY <1>0, <1>2, <2>1, EmptyFacts DEF EditInv, EditsOf, NoEditLost
<1>8. KeptInv BY <1>2 DEF KeptInv, KeptOf
<1>. QED BY <1>3, <1>4, <1>5, <1>6, <1>7, <1>8 DEF IInv

LEMMA Invariance == ASSUME Parameters PROVE Spec => []IInv
<1>1. IInv /\ [Next]_vars => IInv'
  BY TypeStep, LockStep, JournalStep, CleanStep, EditStep, KeptStep DEF IInv
<1>. QED BY <1>1, StartsSound, PTL DEF Spec

\* Every tree that a run keeps holds, file by file, what somebody wrote, and one run at a
\* time has the locks of the project.
THEOREM TypeCorrect == ASSUME Parameters PROVE Spec => []TypeOK
<1>1. IInv => TypeOK BY DEF IInv
<1>. QED BY <1>1, Invariance, PTL

\* _improve_scoped: nothing that was written into a worktree after its proof began
\* reaches the project, whatever fails, is cancelled or dies, in any number of runs.
THEOREM NothingUnprovenHolds == ASSUME Parameters PROVE Spec => []NothingUnproven
<1>1. IInv => NothingUnproven BY DEF IInv, CleanInv, Clean, NothingUnproven
<1>. QED BY <1>1, Invariance, PTL

\* A run that changed the project and did not commit has a backup of all it found.
THEOREM RecoverableHolds == ASSUME Parameters PROVE Spec => []Recoverable
<1>1. IInv => Recoverable BY DEF IInv, TypeOK, JournalInv, JournalOf, Recoverable
<1>. QED BY <1>1, Invariance, PTL

\* _move_snapshot_files and _link_snapshot_files: an edit that races a delivery or its
\* rollback stays in the project or in a journal until a later run has read it.
THEOREM NoEditLostHolds == ASSUME Parameters PROVE Spec => []NoEditLost
<1>1. IInv => NoEditLost BY DEF IInv, EditInv
<1>. QED BY <1>1, Invariance, PTL

\* The result "preserved" is true of every source file, but for what others did.
THEOREM PreservedIsTrueHolds == ASSUME Parameters PROVE Spec => []PreservedIsTrue
<1>1. IInv => PreservedIsTrue BY DEF IInv, KeptInv, KeptOf, Kept, PreservedIsTrue
<1>. QED BY <1>1, Invariance, PTL

=============================================================================

------------------------------ MODULE Reverify ------------------------------
(***************************************************************************)
(* Two ways a finished project changes without a build (web/routes.py):    *)
(* reverify_project repairs and proves a copy of a project that was not    *)
(* delivered and swaps it in; visual_editor_apply edits a delivered        *)
(* project in place, first taking its verdict away and giving it back when *)
(* the edited tree is proven.  The first holds a claim on the project, the *)
(* second a lock; neither looks at the other's.                            *)
(*                                                                         *)
(* A source tree is a version number; a folder is a tree with the manifest *)
(* beside it.  Crashes keep the folders and lose everything else.          *)
(***************************************************************************)
EXTENDS Naturals, FiniteSets, TLAPS

CONSTANTS
    Editor,      \* requests to apply a visual edit
    Verifier,    \* requests to re-verify
    Together,    \* whether requests of both kinds come to the project
    MaxTrees,    \* bound: versions of the source tree
    MaxCrashes   \* bound: crashes of the process

\* What the constants are: requests of two kinds, none called "free", a first tree.
Requests ==
    /\ Editor \cap Verifier = {} /\ "free" \notin Editor \cup Verifier
    /\ Together \in BOOLEAN /\ MaxTrees \in Nat \ {0} /\ MaxCrashes \in Nat

Tree == 1..MaxTrees
Folder == [tree : Tree, verdict : {"go", "no_go"}]
Gone == [tree |-> 0, verdict |-> "no_go"]

VARIABLES
    project,            \* the folder at the project's own path, or Gone
    staged, backup,     \* the candidate and the original in the staging folder
    versions, proven,   \* the trees there have been; those a proof passed on
    at, saw,            \* of a request: its place; the tree it compares with
    lock, claim,        \* the editor's lock, the re-verification's claim
    worker,             \* of a re-verification's thread: "none", "copy", "repair",
                        \* "prove", "done" or "failed"
    cancelled,          \* its request was cancelled
    good,               \* what a request's proof said
    crashes

vars == <<project, staged, backup, versions, proven, at, saw, lock, claim, worker,
          cancelled, good, crashes>>
folders == <<project, staged, backup>>
trees == <<versions, proven>>
thread == <<worker, cancelled>>

Init ==
    /\ project \in {[tree |-> 1, verdict |-> v] : v \in {"go", "no_go"}}
    /\ staged = Gone /\ backup = Gone /\ versions = 1 /\ proven = {1}
    /\ at \in [Editor \cup Verifier -> {"new", "done"}]
    /\ \A q \in Editor, r \in Verifier : at[q] = "new" /\ at[r] = "new" => Together
    /\ saw = [q \in Editor \cup Verifier |-> 0]
    /\ lock = "free" /\ claim = "free" /\ worker = "none" /\ cancelled = FALSE
    /\ good = [q \in Editor \cup Verifier |-> FALSE] /\ crashes = 0

Goes(q, from, to) == at[q] = from /\ at' = [at EXCEPT ![q] = to]
Present == project # Gone

-----------------------------------------------------------------------------
(* The visual editor. *)

\* A delivered project is locked, and its verdict is withdrawn before the edit.
Open(e) ==
    /\ Present /\ project.verdict = "go" /\ lock = "free" /\ lock' = e
    /\ Goes(e, "new", "locked")
    /\ UNCHANGED <<folders, trees, saw, claim, thread, good, crashes>>
\* Mutant of Withdraw: the verdict stays until the edit is found wrong.
Withdraw_Later(e) ==
    /\ Present /\ Goes(e, "locked", "withdrawn")
    /\ UNCHANGED <<folders, trees, saw, lock, claim, thread, good, crashes>>
Withdraw(e) ==
    /\ Present /\ Goes(e, "locked", "withdrawn")
    /\ project' = [project EXCEPT !.verdict = "no_go"]
    /\ UNCHANGED <<staged, backup, trees, saw, lock, claim, thread, good, crashes>>

\* A worker thread edits the source; then the tree to be proven is noted.
Edit(e) ==
    /\ Present /\ versions < MaxTrees /\ Goes(e, "withdrawn", "edited")
    /\ versions' = versions + 1 /\ project' = [project EXCEPT !.tree = versions + 1]
    /\ UNCHANGED <<staged, backup, proven, saw, lock, claim, thread, good, crashes>>
Note(e) ==
    /\ Present /\ Goes(e, "edited", "proving") /\ saw' = [saw EXCEPT ![e] = project.tree]
    /\ UNCHANGED <<folders, trees, lock, claim, thread, good, crashes>>
\* The proof ran on one tree from its beginning to its end, and passed, or not.
Prove(e) ==
    /\ Present /\ Goes(e, "proving", "proven")
    /\ \E passed \in BOOLEAN :
         /\ good' = [good EXCEPT ![e] = passed /\ project.tree = saw[e]]
         /\ proven' = IF good'[e] THEN proven \cup {project.tree} ELSE proven
    /\ UNCHANGED <<folders, versions, saw, lock, claim, thread, crashes>>

\* The verdict of before comes back when the proof and the ladder after it passed.
Conclude(e) ==
    /\ Present /\ Goes(e, "proven", "done") /\ lock' = "free"
    /\ \E ladder \in BOOLEAN :
         project' = [project EXCEPT !.verdict = IF good[e] /\ ladder THEN "go" ELSE "no_go"]
    /\ UNCHANGED <<staged, backup, trees, saw, claim, thread, good, crashes>>

\* A refused edit, an error, a cancellation, a project that is not there.
Abandon(e) ==
    /\ at[e] \in {"locked", "withdrawn", "edited", "proving", "proven"}
    /\ at' = [at EXCEPT ![e] = "done"] /\ lock' = "free"
    /\ UNCHANGED <<folders, trees, saw, claim, thread, good, crashes>>

-----------------------------------------------------------------------------
(* Re-verification. *)

\* A project that was not delivered is claimed; its identity is looked up.
Claim(r) ==
    /\ Present /\ project.verdict = "no_go" /\ claim = "free" /\ claim' = r
    /\ Goes(r, "new", "checking")
    /\ UNCHANGED <<folders, trees, saw, lock, thread, good, crashes>>
Start(r) ==
    /\ Goes(r, "checking", "working") /\ worker' = "copy" /\ cancelled' = FALSE
    /\ UNCHANGED <<folders, trees, saw, lock, claim, good, crashes>>

\* The thread: a copy of the tree, its repairs, its proof, stopping at a
\* cancellation between any two.
Copy(r) ==
    /\ claim = r /\ worker = "copy" /\ Present
    /\ staged' = [tree |-> project.tree, verdict |-> "no_go"]
    /\ saw' = [saw EXCEPT ![r] = project.tree] /\ worker' = "repair"
    /\ UNCHANGED <<project, backup, trees, at, lock, claim, cancelled, good, crashes>>
Repair(r) ==
    /\ claim = r /\ worker = "repair" /\ ~cancelled /\ worker' = "prove"
    /\ \/ UNCHANGED <<staged, versions>>
       \/ /\ versions < MaxTrees /\ versions' = versions + 1
          /\ staged' = [staged EXCEPT !.tree = versions + 1]
    /\ UNCHANGED <<project, backup, proven, at, saw, lock, claim, cancelled, good, crashes>>
Examine(r) ==
    /\ claim = r /\ worker = "prove" /\ worker' = "done"
    /\ \E passed \in BOOLEAN :
         /\ good' = [good EXCEPT ![r] = passed]
         /\ proven' = IF passed THEN proven \cup {staged.tree} ELSE proven
    /\ UNCHANGED <<folders, versions, at, saw, lock, claim, cancelled, crashes>>
Fail(r) ==
    /\ claim = r /\ worker \in {"copy", "repair", "prove"} /\ worker' = "failed"
    /\ staged' = Gone
    /\ UNCHANGED <<project, backup, trees, at, saw, lock, claim, cancelled, good, crashes>>

\* The request gives up its claim and what it staged.
Over(r) == /\ at' = [at EXCEPT ![r] = "done"] /\ claim' = "free"
           /\ worker' = "none" /\ cancelled' = FALSE
Refuse(r) ==
    /\ \/ at[r] \in {"checking", "reviewing"}
       \/ at[r] = "working" /\ worker = "failed"
    /\ Over(r) /\ staged' = Gone
    /\ UNCHANGED <<project, backup, trees, saw, lock, good, crashes>>

\* A cancelled request leaves its thread behind, and the claim with it; the claim
\* is given up when the thread has ended.
Cancel(r) ==
    /\ Goes(r, "working", "done") /\ cancelled' = TRUE
    /\ UNCHANGED <<folders, trees, saw, lock, claim, worker, good, crashes>>
Release ==
    /\ cancelled /\ worker \in {"done", "failed"}
    /\ claim' = "free" /\ worker' = "none" /\ cancelled' = FALSE /\ staged' = Gone
    /\ UNCHANGED <<project, backup, trees, at, saw, lock, good, crashes>>

\* The candidate may be promoted when its proof passed and the project is still the
\* tree it was copied from.
Promotable(r) == good[r] /\ project.tree = saw[r]

\* The result is looked at: a candidate is promoted when the review is of this tree,
\* at once or after a fresh one.  Otherwise the manifest is written back.
Judge(r) ==
    /\ at[r] = "working" /\ worker = "done" /\ Present
    /\ \/ /\ Promotable(r)
          /\ \E next \in {"swapping", "reviewing"} : at' = [at EXCEPT ![r] = next]
          /\ UNCHANGED <<project, staged, claim, thread>>
       \/ /\ Over(r) /\ staged' = Gone /\ project' = [project EXCEPT !.verdict = "no_go"]
    /\ UNCHANGED <<backup, trees, saw, lock, good, crashes>>
Reviewed(r) ==
    /\ Goes(r, "reviewing", "swapping")
    /\ UNCHANGED <<folders, trees, saw, lock, claim, thread, good, crashes>>

\* The swap: the original steps aside and the candidate, with its verdict, takes
\* its place; either may be refused by the file system.
Aside(r) ==
    /\ at[r] = "swapping" /\ Present
    /\ \/ /\ backup' = project /\ project' = Gone
          /\ staged' = [staged EXCEPT !.verdict = "go"]
          /\ at' = [at EXCEPT ![r] = "aside"] /\ UNCHANGED <<claim, thread>>
       \/ /\ Over(r) /\ staged' = Gone /\ UNCHANGED <<project, backup>>
    /\ UNCHANGED <<trees, saw, lock, good, crashes>>
\* A refused second step is taken back; when that is refused too, the staging
\* folder is kept.
Place(r) ==
    /\ at[r] = "aside" /\ Over(r)
    /\ \/ project' \in {staged, backup} /\ staged' = Gone /\ backup' = Gone
       \/ UNCHANGED folders
    /\ UNCHANGED <<trees, saw, lock, good, crashes>>

\* The process dies: requests, lock, claim and thread are gone.
Crash ==
    /\ crashes < MaxCrashes /\ crashes' = crashes + 1
    /\ at' = [q \in DOMAIN at |-> IF at[q] = "new" THEN "new" ELSE "done"]
    /\ lock' = "free" /\ claim' = "free" /\ worker' = "none" /\ cancelled' = FALSE
    /\ UNCHANGED <<folders, trees, saw, good>>

Next ==
    \/ \E e \in Editor : Open(e) \/ Withdraw(e) \/ Edit(e) \/ Note(e) \/ Prove(e)
                         \/ Conclude(e) \/ Abandon(e)
    \/ \E r \in Verifier : Claim(r) \/ Start(r) \/ Copy(r) \/ Repair(r) \/ Examine(r)
                           \/ Fail(r) \/ Refuse(r) \/ Cancel(r) \/ Judge(r)
                           \/ Reviewed(r) \/ Aside(r) \/ Place(r)
    \/ Release \/ Crash

Spec == Init /\ [][Next]_vars

-----------------------------------------------------------------------------
Places == {"new", "done", "locked", "withdrawn", "edited", "proving", "proven",
           "checking", "working", "reviewing", "swapping", "aside"}

TypeOK ==
    /\ {project, staged, backup} \subseteq Folder \cup {Gone}
    /\ versions \in Tree /\ proven \subseteq 1..versions
    /\ lock \in Editor \cup {"free"} /\ claim \in Verifier \cup {"free"}
    /\ worker \in {"none", "copy", "repair", "prove", "done", "failed"}
    /\ cancelled \in BOOLEAN /\ crashes \in 0..MaxCrashes
    /\ saw \in [Editor \cup Verifier -> Tree \cup {0}]
    /\ good \in [Editor \cup Verifier -> BOOLEAN]
    /\ at \in [Editor \cup Verifier -> Places]

\* A project that says it is delivered is a tree some proof passed on: an edit, its
\* failure, a cancellation or a crash in the middle of either never leaves "go"
\* beside source nobody proved.
GoIsProven == project # Gone /\ project.verdict = "go" => project.tree \in proven

\* The thread of a cancelled re-verification still works in the staging folder: the
\* project stays claimed until it has ended, so no second one starts beside it.
ClaimCoversThread == worker # "none" => claim # "free"

\* Whatever step of the swap fails, and wherever a crash cuts it, the project is at
\* its own path or whole in the staging folder.
ProjectKept == project = Gone => backup # Gone

-----------------------------------------------------------------------------
(* The invariants behind them. *)

\* A request that holds the claim is where its thread lets it be; a thread that was
\* left behind has a claim that nobody else holds.
Holding == {"checking", "working", "reviewing", "swapping", "aside"}
ThreadInv ==
    /\ \A r \in Verifier : at[r] \in Holding => claim = r
    /\ worker # "none" =>
         /\ claim # "free"
         /\ at[claim] \in IF cancelled THEN {"done"}
                          ELSE {"working", "reviewing", "swapping", "aside"}
    /\ cancelled => worker # "none"
    /\ \A r \in Verifier : at[r] = "working" => worker # "none"
    /\ \A r \in Verifier : at[r] \in {"reviewing", "swapping", "aside"} => worker = "done"

\* No tree is newer than the newest; what is repaired, proven or swapped is there.
SwapInv ==
    /\ project.tree <= versions /\ staged.tree <= versions /\ backup.tree <= versions
    /\ worker \in {"repair", "prove", "done"} => staged # Gone
    /\ \A r \in Verifier : at[r] = "aside" => staged # Gone /\ backup # Gone
    /\ ProjectKept

\* While only requests of one kind come: an edit in progress has the lock and took the
\* verdict away, and whatever may come to the project's path as a go is proven.
Editing == {"locked", "withdrawn", "edited", "proving", "proven"}
OneKind ==
    \/ \A e \in Editor : at[e] = "done"
    \/ claim = "free" /\ \A r \in Verifier : at[r] = "done"
EditInv ==
    /\ \A e \in Editor : at[e] \in Editing => lock = e
    /\ \A e \in Editor : at[e] \in Editing \ {"locked"} => project.verdict = "no_go"
    /\ \A e \in Editor : at[e] = "proven" /\ good[e] => project.tree \in proven
SwapIsProven ==
    /\ claim # "free" /\ worker = "done" /\ good[claim] => staged.tree \in proven
    /\ \A r \in Verifier : at[r] \in {"reviewing", "swapping", "aside"} => good[r]
    /\ backup.verdict = "go" => backup.tree \in proven
    /\ project.verdict = "go" => project.tree \in proven
GoInv == OneKind /\ EditInv /\ SwapIsProven

-----------------------------------------------------------------------------
(* Proofs. *)

\* The first project is whole, nothing is staged, nobody is at work.
LEMMA TypeInit == Requests /\ Init => TypeOK /\ ThreadInv /\ SwapInv
<1>. SUFFICES ASSUME Requests, Init PROVE TypeOK /\ ThreadInv /\ SwapInv OBVIOUS
<1>. USE DEF Init, Gone, Requests
<1>1. 1 \in Tree /\ 0 \in 0..MaxCrashes BY DEF Tree
<1>2. TypeOK
  <2>1. project \in Folder BY <1>1 DEF Folder
  <2>2. at \in [Editor \cup Verifier -> Places] BY DEF Places
  <2>3. versions \in Tree /\ proven \subseteq 1..versions BY <1>1
  <2>4. saw \in [Editor \cup Verifier -> Tree \cup {0}] OBVIOUS
  <2>5. good \in [Editor \cup Verifier -> BOOLEAN] OBVIOUS
  <2>. QED BY <1>1, <2>1, <2>2, <2>3, <2>4, <2>5 DEF TypeOK
<1>3. ThreadInv BY DEF ThreadInv, Holding
<1>4. SwapInv BY DEF SwapInv, ProjectKept
<1>. QED BY <1>2, <1>3, <1>4

LEMMA TypeStep ==
  ASSUME Requests, TypeOK, ThreadInv, SwapInv, [Next]_vars
  PROVE  TypeOK'
<1>. USE DEF TypeOK, Requests, Goes, folders, trees, thread, Folder, Gone, Tree, Places, Present
<1>1. CASE UNCHANGED vars BY <1>1 DEF vars
<1>2. ASSUME NEW e \in Editor, Open(e) \/ Withdraw(e) \/ Note(e) \/ Conclude(e) \/ Abandon(e)
      PROVE  TypeOK'
  BY <1>2 DEF Open, Withdraw, Note, Conclude, Abandon
<1>3. ASSUME NEW e \in Editor, Edit(e) PROVE TypeOK'
  BY <1>3 DEF Edit
<1>4. ASSUME NEW e \in Editor, Prove(e) PROVE TypeOK'
  <2>1. project.tree \in 1..versions BY <1>4 DEF Prove, SwapInv
  <2>2. good' \in [Editor \cup Verifier -> BOOLEAN] BY <1>4 DEF Prove
  <2>3. proven' \subseteq 1..versions BY <1>4, <2>1 DEF Prove
  <2>4. at' \in [Editor \cup Verifier -> Places] BY <1>4 DEF Prove
  <2>. QED BY <1>4, <2>2, <2>3, <2>4 DEF Prove
<1>5. ASSUME NEW r \in Verifier, Claim(r) \/ Start(r) \/ Cancel(r) \/ Reviewed(r)
      PROVE  TypeOK'
  BY <1>5 DEF Claim, Start, Cancel, Reviewed
<1>6. ASSUME NEW r \in Verifier, Copy(r) PROVE TypeOK' BY <1>6 DEF Copy
<1>7. ASSUME NEW r \in Verifier, Fail(r) PROVE TypeOK' BY <1>7 DEF Fail
<1>8. ASSUME NEW r \in Verifier, Repair(r) PROVE TypeOK' BY <1>8 DEF Repair, SwapInv
<1>9. ASSUME NEW r \in Verifier, Examine(r) PROVE TypeOK'
  <2>1. staged \in Folder /\ staged.tree \in 1..versions BY <1>9 DEF Examine, SwapInv
  <2>2. proven' \subseteq 1..versions BY <1>9, <2>1 DEF Examine
  <2>3. good' \in [Editor \cup Verifier -> BOOLEAN] BY <1>9 DEF Examine
  <2>. QED BY <1>9, <2>2, <2>3 DEF Examine
<1>10. ASSUME NEW r \in Verifier, Refuse(r) PROVE TypeOK' BY <1>10 DEF Refuse, Over
<1>11. ASSUME NEW r \in Verifier, Judge(r) PROVE TypeOK'
  <2>1. [project EXCEPT !.verdict = "no_go"] \in Folder BY <1>11 DEF Judge
  <2>2. project' \in Folder \cup {Gone} /\ staged' \in Folder \cup {Gone}
    BY <1>11, <2>1 DEF Judge
  <2>3. at' \in [Editor \cup Verifier -> Places] BY <1>11 DEF Judge, Over
  <2>. QED BY <1>11, <2>2, <2>3 DEF Judge, Over
<1>12. ASSUME NEW r \in Verifier, Place(r) PROVE TypeOK' BY <1>12 DEF Place, Over
<1>13. ASSUME NEW r \in Verifier, Aside(r) PROVE TypeOK'
  <2>1. staged \in Folder BY <1>13 DEF Aside, SwapInv, ThreadInv
  <2>2. [staged EXCEPT !.verdict = "go"] \in Folder BY <2>1
  <2>3. {project', staged', backup'} \subseteq Folder \cup {Gone} BY <1>13, <2>2 DEF Aside
  <2>4. at' \in [Editor \cup Verifier -> Places] BY <1>13 DEF Aside, Over
  <2>. QED BY <1>13, <2>3, <2>4 DEF Aside, Over
<1>14. CASE Release BY <1>14 DEF Release
<1>15. CASE Crash
  <2>1. at' \in [Editor \cup Verifier -> Places] BY <1>15 DEF Crash
  <2>2. crashes' \in 0..MaxCrashes BY <1>15 DEF Crash
  <2>. QED BY <1>15, <2>1, <2>2 DEF Crash
<1>. QED BY <1>1, <1>2, <1>3, <1>4, <1>5, <1>6, <1>7, <1>8, <1>9, <1>10, <1>11, <1>12,
            <1>13, <1>14, <1>15 DEF Next

LEMMA ThreadStep ==
  ASSUME Requests, TypeOK, ThreadInv, [Next]_vars
  PROVE  ThreadInv'
<1>. USE DEF TypeOK, Requests, Goes, folders, trees, thread, ThreadInv, Holding
<1>1. CASE UNCHANGED vars BY <1>1 DEF vars
<1>2. ASSUME NEW e \in Editor, Open(e) \/ Withdraw(e) \/ Edit(e) \/ Note(e) \/ Prove(e)
                               \/ Conclude(e) \/ Abandon(e)
      PROVE  ThreadInv'
  <2>1. /\ \E p \in Editing \cup {"done"} : at' = [at EXCEPT ![e] = p] \/ at' = at
        /\ UNCHANGED <<claim, worker, cancelled>>
    BY <1>2 DEF Open, Withdraw, Edit, Note, Prove, Conclude, Abandon, Editing
  <2>2. \A r \in Verifier : at'[r] = at[r] BY <2>1
  <2>3. QED BY <2>1, <2>2
<1>3. ASSUME NEW r \in Verifier, Claim(r) \/ Start(r) \/ Reviewed(r)
      PROVE  ThreadInv'
  BY <1>3 DEF Claim, Start, Reviewed
<1>8. ASSUME NEW r \in Verifier, Cancel(r) PROVE ThreadInv'
  BY <1>8 DEF Cancel
<1>4. ASSUME NEW r \in Verifier, Copy(r) \/ Repair(r) \/ Examine(r) \/ Fail(r)
      PROVE  ThreadInv'
  BY <1>4 DEF Copy, Repair, Examine, Fail
<1>5. ASSUME NEW r \in Verifier, Refuse(r) \/ Judge(r) \/ Aside(r) \/ Place(r)
      PROVE  ThreadInv'
  BY <1>5 DEF Refuse, Judge, Aside, Place, Over
<1>6. CASE Release BY <1>6 DEF Release
<1>7. CASE Crash BY <1>7 DEF Crash
<1>. QED BY <1>1, <1>2, <1>3, <1>4, <1>5, <1>6, <1>7, <1>8 DEF Next

LEMMA SwapStep ==
  ASSUME Requests, TypeOK, ThreadInv, SwapInv, [Next]_vars
  PROVE  SwapInv'
<1>. USE DEF TypeOK, Requests, Goes, folders, trees, thread, SwapInv, ProjectKept, Folder,
             Gone, Tree, Present
<1>1. CASE UNCHANGED vars BY <1>1 DEF vars
<1>2. ASSUME NEW e \in Editor, Open(e) \/ Note(e) \/ Prove(e) \/ Abandon(e) PROVE SwapInv'
  BY <1>2 DEF Open, Note, Prove, Abandon
<1>3. ASSUME NEW e \in Editor, Withdraw(e) \/ Edit(e) \/ Conclude(e) PROVE SwapInv'
  BY <1>3 DEF Withdraw, Edit, Conclude
<1>4. ASSUME NEW r \in Verifier, Claim(r) \/ Start(r) \/ Cancel(r) \/ Reviewed(r) PROVE SwapInv'
  BY <1>4 DEF Claim, Start, Cancel, Reviewed
<1>5. ASSUME NEW r \in Verifier, Copy(r) \/ Repair(r) \/ Examine(r) \/ Fail(r) PROVE SwapInv'
  BY <1>5 DEF Copy, Repair, Examine, Fail, ThreadInv, Holding
<1>6. ASSUME NEW r \in Verifier, Refuse(r) \/ Judge(r) PROVE SwapInv'
  BY <1>6 DEF Refuse, Judge, Over, ThreadInv, Holding
<1>7. ASSUME NEW r \in Verifier, Aside(r) PROVE SwapInv'
  BY <1>7 DEF Aside, Over, ThreadInv, Holding
<1>8. ASSUME NEW r \in Verifier, Place(r) PROVE SwapInv'
  BY <1>8 DEF Place, Over, ThreadInv, Holding
<1>9. CASE Release BY <1>9 DEF Release, ThreadInv, Holding
<1>10. CASE Crash BY <1>10 DEF Crash
<1>. QED BY <1>1, <1>2, <1>3, <1>4, <1>5, <1>6, <1>7, <1>8, <1>9, <1>10 DEF Next

LEMMA Invariance == ASSUME Requests PROVE Spec => [](TypeOK /\ ThreadInv /\ SwapInv)
<1>1. TypeOK /\ ThreadInv /\ SwapInv /\ [Next]_vars => (TypeOK /\ ThreadInv /\ SwapInv)'
  BY TypeStep, ThreadStep, SwapStep
<1>. QED BY <1>1, TypeInit, PTL DEF Spec

-----------------------------------------------------------------------------
\* Requests of the other kind are over, and nothing they could do is left.
LEMMA GoInit == Requests /\ ~Together /\ Init => GoInv
<1>. SUFFICES ASSUME Requests, ~Together, Init PROVE GoInv OBVIOUS
<1>. USE DEF Init, Gone, Requests
<1>1. OneKind BY DEF OneKind
<1>2. EditInv BY DEF EditInv, Editing
<1>3. SwapIsProven BY DEF SwapIsProven
<1>. QED BY <1>1, <1>2, <1>3 DEF GoInv

LEMMA KindStep ==
  ASSUME Requests, TypeOK, ThreadInv, OneKind, [Next]_vars
  PROVE  OneKind'
<1>. USE DEF TypeOK, Requests, Goes, folders, trees, thread, OneKind
<1>1. CASE UNCHANGED vars BY <1>1 DEF vars
<1>2. ASSUME NEW e \in Editor, Open(e) \/ Withdraw(e) \/ Edit(e) \/ Note(e) \/ Prove(e)
                               \/ Conclude(e) \/ Abandon(e)
      PROVE  OneKind'
  <2>1. /\ at[e] # "done" /\ \E p \in Places : at' = [at EXCEPT ![e] = p]
        /\ UNCHANGED claim
    BY <1>2 DEF Open, Withdraw, Edit, Note, Prove, Conclude, Abandon, Places
  <2>. QED BY <2>1
<1>3. ASSUME NEW r \in Verifier, Claim(r) \/ Start(r) \/ Cancel(r) \/ Reviewed(r)
                                 \/ Refuse(r) \/ Judge(r) \/ Aside(r) \/ Place(r)
      PROVE  OneKind'
  <2>1. at[r] # "done" /\ \E p \in Places : at' = [at EXCEPT ![r] = p]
    BY <1>3 DEF Claim, Start, Cancel, Reviewed, Refuse, Judge, Aside, Place, Over, Places
  <2>. QED BY <2>1
<1>4. ASSUME NEW r \in Verifier, Copy(r) \/ Repair(r) \/ Examine(r) \/ Fail(r)
      PROVE  OneKind'
  BY <1>4 DEF Copy, Repair, Examine, Fail
<1>5. CASE Release BY <1>5 DEF Release
<1>6. CASE Crash BY <1>6 DEF Crash
<1>. QED BY <1>1, <1>2, <1>3, <1>4, <1>5, <1>6 DEF Next

\* What a re-verification puts at the project's path is never put there beside an edit.
LEMMA EditStep ==
  ASSUME Requests, TypeOK, ThreadInv, SwapInv, GoInv, [Next]_vars
  PROVE  EditInv'
<1>. USE DEF TypeOK, Requests, Goes, folders, trees, thread, EditInv, Editing, GoInv
<1>1. CASE UNCHANGED vars BY <1>1 DEF vars
<1>2. ASSUME NEW e \in Editor, Open(e) \/ Note(e) \/ Abandon(e) PROVE EditInv'
  BY <1>2 DEF Open, Note, Abandon
<1>3. ASSUME NEW e \in Editor, Withdraw(e) \/ Edit(e) \/ Conclude(e) PROVE EditInv'
  BY <1>3 DEF Withdraw, Edit, Conclude, Folder, Gone
<1>4. ASSUME NEW e \in Editor, Prove(e) PROVE EditInv'
  BY <1>4 DEF Prove
<1>5. ASSUME NEW r \in Verifier, Claim(r) \/ Start(r) \/ Cancel(r) \/ Reviewed(r)
      PROVE  EditInv'
  BY <1>5 DEF Claim, Start, Cancel, Reviewed
<1>6. ASSUME NEW r \in Verifier, Copy(r) \/ Repair(r) \/ Fail(r) PROVE EditInv'
  BY <1>6 DEF Copy, Repair, Fail
<1>7. ASSUME NEW r \in Verifier, Examine(r) PROVE EditInv'
  BY <1>7 DEF Examine
<1>8. ASSUME NEW r \in Verifier, Refuse(r) \/ Judge(r) \/ Aside(r) \/ Place(r) PROVE EditInv'
  <2>1. at[r] # "done" /\ \A e \in Editor : at'[e] = at[e]
    BY <1>8 DEF Refuse, Judge, Aside, Place, Over
  <2>2. \A e \in Editor : at'[e] = "done" BY <2>1 DEF OneKind
  <2>. QED BY <2>2
<1>9. CASE Release BY <1>9 DEF Release
<1>10. CASE Crash BY <1>10 DEF Crash
<1>. QED BY <1>1, <1>2, <1>3, <1>4, <1>5, <1>6, <1>7, <1>8, <1>9, <1>10 DEF Next

LEMMA SwapIsProvenStep ==
  ASSUME Requests, TypeOK, ThreadInv, SwapInv, GoInv, [Next]_vars
  PROVE  SwapIsProven'
<1>. USE DEF TypeOK, Requests, Goes, folders, trees, thread, SwapIsProven, GoInv
<1>1. CASE UNCHANGED vars BY <1>1 DEF vars
<1>2. ASSUME NEW e \in Editor, Open(e) \/ Note(e) \/ Abandon(e) PROVE SwapIsProven'
  <2>1. /\ \A r \in Verifier : at'[r] = at[r]
        /\ UNCHANGED <<folders, trees, claim, thread, good>>
    BY <1>2 DEF Open, Note, Abandon
  <2>. QED BY <2>1
<1>3. ASSUME NEW e \in Editor, Withdraw(e) \/ Edit(e) \/ Conclude(e) PROVE SwapIsProven'
  <2>1. at[e] # "done" /\ claim = "free" /\ \A r \in Verifier : at[r] = "done" /\ at'[r] = at[r]
    BY <1>3 DEF Withdraw, Edit, Conclude, OneKind
  <2>2. UNCHANGED <<staged, backup, proven, claim, worker, good>>
    BY <1>3 DEF Withdraw, Edit, Conclude
  <2>3. project'.verdict = "go" => project'.tree \in proven
    BY <1>3 DEF Withdraw, Edit, Conclude, EditInv, Editing, Folder, Gone
  <2>. QED BY <2>1, <2>2, <2>3
<1>4. ASSUME NEW e \in Editor, Prove(e) PROVE SwapIsProven'
  <2>1. at[e] # "done" /\ claim = "free" /\ \A r \in Verifier : at[r] = "done" /\ at'[r] = at[r]
    BY <1>4 DEF Prove, OneKind
  <2>2. UNCHANGED <<folders, claim, worker>> /\ proven \subseteq proven'
    BY <1>4 DEF Prove
  <2>. QED BY <2>1, <2>2
<1>5. ASSUME NEW r \in Verifier, Claim(r) \/ Start(r) \/ Cancel(r) \/ Reviewed(r)
      PROVE  SwapIsProven'
  BY <1>5 DEF Claim, Start, Cancel, Reviewed, ThreadInv, Holding
<1>6. ASSUME NEW r \in Verifier, Copy(r) \/ Repair(r) \/ Fail(r) PROVE SwapIsProven'
  BY <1>6 DEF Copy, Repair, Fail, ThreadInv, Holding
<1>7. ASSUME NEW r \in Verifier, Examine(r) PROVE SwapIsProven'
  BY <1>7 DEF Examine, ThreadInv, Holding
<1>8. ASSUME NEW r \in Verifier, Refuse(r) PROVE SwapIsProven'
  BY <1>8 DEF Refuse, Over, ThreadInv, Holding
<1>9. ASSUME NEW r \in Verifier, Judge(r) PROVE SwapIsProven'
  BY <1>9 DEF Judge, Promotable, Over, ThreadInv, Holding, Folder, Gone
<1>10. ASSUME NEW r \in Verifier, Aside(r) PROVE SwapIsProven'
  BY <1>10 DEF Aside, Over, ThreadInv, Holding, Folder, Gone
<1>11. ASSUME NEW r \in Verifier, Place(r) PROVE SwapIsProven'
  BY <1>11 DEF Place, Over, ThreadInv, Holding, Gone
<1>12. CASE Release BY <1>12 DEF Release, ThreadInv
<1>13. CASE Crash BY <1>13 DEF Crash
<1>. QED BY <1>1, <1>2, <1>3, <1>4, <1>5, <1>6, <1>7, <1>8, <1>9, <1>10, <1>11, <1>12, <1>13
         DEF Next

-----------------------------------------------------------------------------
\* The state of a project between two requests is well typed.
THEOREM TypeCorrect == ASSUME Requests PROVE Spec => []TypeOK
<1>. QED BY Invariance, PTL

\* reverify_project: while the thread of a cancelled re-verification runs, its project
\* is claimed; also when edits come to it meanwhile.
THEOREM ClaimCoversThreadHolds == ASSUME Requests PROVE Spec => []ClaimCoversThread
<1>1. ThreadInv => ClaimCoversThread BY DEF ThreadInv, ClaimCoversThread
<1>. QED BY <1>1, Invariance, PTL

\* The two renames of a promotion never lose the project, whichever of them fails and
\* wherever a crash comes; also when edits come meanwhile.
THEOREM ProjectKeptHolds == ASSUME Requests PROVE Spec => []ProjectKept
<1>1. SwapInv => ProjectKept BY DEF SwapInv
<1>. QED BY <1>1, Invariance, PTL

\* visual_editor_apply and reverify_project: unless requests of both kinds come to one
\* project, a project that says it is delivered is a tree that a proof passed on.
THEOREM GoIsProvenHolds == ASSUME Requests, ~Together PROVE Spec => []GoIsProven
<1>1. TypeOK /\ ThreadInv /\ SwapInv /\ GoInv /\ [Next]_vars => GoInv'
  BY KindStep, EditStep, SwapIsProvenStep DEF GoInv
<1>2. Init => GoInv BY GoInit
<1>3. GoInv => GoIsProven BY DEF GoInv, SwapIsProven, GoIsProven
<1>. QED BY <1>1, <1>2, <1>3, Invariance, PTL DEF Spec

=============================================================================

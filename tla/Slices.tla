------------------------------- MODULE Slices -------------------------------
(***************************************************************************)
(* The code stage as parallel slices (studio/slicer.py, slice_plan;        *)
(* studio/runner.py, StudioRunner._run_code_parallel_slices).  The planned *)
(* files are divided by kind; every slice is a session of the code agent   *)
(* in a worktree of its own, a copy of the build's; the tests are written  *)
(* last, against what the others wrote; and all worktrees are merged into  *)
(* the build's, first as they end and then once more in a fixed order.     *)
(*                                                                         *)
(* A file holds what it held "before" the stage, a "draft" or the "final"  *)
(* version of its owner, a "stray" write of another slice, or is "absent". *)
(***************************************************************************)
EXTENDS Naturals, Sequences, FiniteSets, SequencesExt

CONSTANTS
    Planned,    \* the files the architect may plan
    Kind,       \* their kinds (_classify)
    MinFiles,   \* parallel_code_slices_min_files
    Before      \* those of them an earlier stage may have written

MergeOrder == <<"frontend", "backend", "tests", "config">>

VARIABLES
    plan,       \* the files the architect planned
    main,       \* the build's worktree
    tree,       \* the worktree of a slice
    at,         \* of a slice: "new", "running", "ended" or "stopped"
    report,     \* of a slice: "none", "whole", "degraded" or "failed"
    ended,      \* the slices that ended and are not collected, in that order
    phase       \* "whole" (no slices), "first", "last", "stopping", "stopped", "done"

vars == <<plan, main, tree, at, report, ended, phase>>

Content == {"absent", "before", "draft", "final", "stray"}
Slice == {Kind[f] : f \in plan}
Owned(s) == {f \in plan : Kind[f] = s}

\* Files that are few, or all of a kind, stay one session.
Worthwhile == Cardinality(plan) >= MinFiles /\ Cardinality(Slice) >= 2

\* Every worktree begins as a copy of the build's.
Init ==
    /\ plan \in SUBSET Planned
    /\ main \in [Planned -> {"absent", "before"}]
    /\ \A f \in Planned : main[f] = "before" => f \in Before
    /\ tree = [s \in Slice |-> main]
    /\ at = [s \in Slice |-> "new"]
    /\ report = [s \in Slice |-> "none"]
    /\ ended = <<>>
    /\ phase = IF Worthwhile THEN "first" ELSE "whole"

-----------------------------------------------------------------------------
(* The sessions. *)

\* The tests wait for the others where there are others.
Wave == IF phase = "first" THEN Slice \ {"tests"} ELSE {"tests"}

\* What the other slices wrote of their files is copied into the tests' worktree.
Upstream(t) == [f \in Planned |->
    IF f \in plan /\ Kind[f] # "tests" /\ tree[Kind[f]][f] # "absent"
    THEN tree[Kind[f]][f] ELSE t[f]]

Start(s) ==
    /\ phase \in {"first", "last"} /\ s \in Wave \cap Slice
    /\ at[s] = "new" /\ at' = [at EXCEPT ![s] = "running"]
    /\ tree' = IF s = "tests" THEN [tree EXCEPT ![s] = Upstream(@)] ELSE tree
    /\ UNCHANGED <<plan, main, report, ended, phase>>

Touched(t, files, c) == [f \in Planned |-> IF f \in files THEN c ELSE t[f]]

\* A session has written a first version of its files.
Write(s) ==
    /\ at[s] = "running"
    /\ \A f \in Owned(s) : tree[s][f] # "draft"
    /\ tree' = [tree EXCEPT ![s] = Touched(@, Owned(s), "draft")]
    /\ UNCHANGED <<plan, main, at, report, ended, phase>>

Ends(s, outcome) ==
    /\ at[s] = "running" /\ at' = [at EXCEPT ![s] = "ended"]
    /\ report' = [report EXCEPT ![s] = outcome]
    /\ ended' = Append(ended, s)
    /\ UNCHANGED <<plan, main, phase>>

\* The code agent brings what is not the slice's back to what the session found,
\* and reports whether the slice has all of its files.
Finish(s) ==
    \E made \in SUBSET Owned(s) :
        /\ tree' = [tree EXCEPT ![s] =
                      Touched(Touched(@, Owned(s), "absent"), made, "final")]
        /\ Ends(s, IF made = Owned(s) THEN "whole" ELSE "degraded")

\* A session that raises leaves whatever it had written, anywhere.
Breaks(s) ==
    \E strays \in SUBSET (plan \ Owned(s)) :
        /\ tree' = [tree EXCEPT ![s] = Touched(@, strays, "stray")]
        /\ Ends(s, "failed")

-----------------------------------------------------------------------------
(* The stage. *)

\* merge_back, with and without overwrite.
Filled(m, t) == [f \in Planned |-> IF m[f] = "absent" THEN t[f] ELSE m[f]]
Over(m, t) == [f \in Planned |-> IF t[f] = "absent" THEN m[f] ELSE t[f]]

\* A slice that ended is shown at once, over nothing that is there.
Collect ==
    /\ phase \in {"first", "last"} /\ ended # <<>>
    /\ ended' = Tail(ended) /\ main' = Filled(main, tree[Head(ended)])
    /\ UNCHANGED <<plan, tree, at, report, phase>>

Collected(S) == ended = <<>> /\ \A s \in S : at[s] = "ended"

\* Mutant of TestsTurn: the tests begin when the first of the others is there.
TestsTurn_Early ==
    /\ phase = "first" /\ "tests" \in Slice
    /\ ended = <<>> /\ \E s \in Slice : at[s] = "ended"
    /\ phase' = "last"
    /\ UNCHANGED <<plan, main, tree, at, report, ended>>

\* The whole first wave is collected: it is the tests' turn.
TestsTurn ==
    /\ phase = "first" /\ "tests" \in Slice
    /\ Collected(Slice \ {"tests"})
    /\ phase' = "last"
    /\ UNCHANGED <<plan, main, tree, at, report, ended>>

\* All worktrees once more, in the order of their authority.
Order == SelectSeq(MergeOrder, LAMBDA s : s \in Slice)
Merge ==
    /\ phase \in {"first", "last"} /\ Collected(Slice)
    /\ main' = FoldLeft(LAMBDA m, s : Over(m, tree[s]), main, Order)
    /\ phase' = "done"
    /\ UNCHANGED <<plan, tree, at, report, ended>>

\* The build is cancelled, or the stage raises: every session is cancelled, and the
\* stage waits for all of them, also when it is cancelled again.
Cancel ==
    /\ phase \in {"first", "last"} /\ phase' = "stopping"
    /\ at' = [s \in Slice |-> IF at[s] = "new" THEN "stopped" ELSE at[s]]
    /\ UNCHANGED <<plan, main, tree, report, ended>>

Stops(s) ==
    /\ phase = "stopping" /\ at[s] = "running"
    /\ at' = [at EXCEPT ![s] = "stopped"]
    /\ UNCHANGED <<plan, main, tree, report, ended, phase>>

Stopped ==
    /\ phase = "stopping" /\ \A s \in Slice : at[s] # "running"
    /\ phase' = "stopped"
    /\ UNCHANGED <<plan, main, tree, at, report, ended>>

Next ==
    \/ \E s \in Slice : Start(s) \/ Write(s) \/ Finish(s) \/ Breaks(s) \/ Stops(s)
    \/ Collect \/ TestsTurn \/ Merge \/ Cancel \/ Stopped

Spec == Init /\ [][Next]_vars

-----------------------------------------------------------------------------
TypeOK ==
    /\ plan \subseteq Planned
    /\ main \in [Planned -> Content] /\ tree \in [Slice -> [Planned -> Content]]
    /\ at \in [Slice -> {"new", "running", "ended", "stopped"}]
    /\ report \in [Slice -> {"none", "whole", "degraded", "failed"}]
    /\ Range(ended) \subseteq Slice
    /\ phase \in {"whole", "first", "last", "stopping", "stopped", "done"}

\* A code stage in which no slice reported a failure or a degradation holds the
\* final version of every planned file: no early merge, no copy that the tests were
\* given, and no authority of a later slice puts an older one in its place.  A file
\* that was there before is excepted unless its owner is merged last: every slice has
\* a copy of it.
Exposed == {f \in plan \cap Before : Kind[f] # Last(Order)}
CleanIsWhole ==
    phase = "done" /\ (\A s \in Slice : report[s] = "whole") =>
        \A f \in plan \ Exposed : main[f] = "final"
=============================================================================

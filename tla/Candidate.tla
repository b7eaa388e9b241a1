------------------------------ MODULE Candidate ------------------------------
(***************************************************************************)
(* Changes the system makes to its own source (cortex/candidate_engine.py, *)
(* CortexCandidateEngine; candidate_service.py): each is applied and       *)
(* verified in a worktree of its own and, when merging is allowed, put on  *)
(* the main branch, from where a recorded merge can be reverted.           *)
(*                                                                         *)
(* One process runs one candidate at a time; other processes, and whoever  *)
(* works in the main worktree, commit when they like.  A tree is the set   *)
(* of changes in it; main is the sequence of its commits.                  *)
(***************************************************************************)
EXTENDS Naturals, Sequences, FiniteSets

CONSTANTS
    Cand,        \* candidates, one per process
    Other,       \* changes committed to main by others
    MaxCrashes   \* bound: crashes of an engine

Change == Cand \cup Other \cup {"hook"}   \* "hook": what a commit hook adds

VARIABLES
    squash,    \* the merge strategy: one squashed commit, or fast-forward only
    main,      \* sequence of [by, tree]; the first commit is nobody's
    dirty,     \* uncommitted changes in the main worktree
    at,        \* of a candidate: its place
    base,      \* the length of main its tree was made on
    verified,  \* the tree its commands passed on
    tip,       \* the commit recorded as its merge: a length of main, or 0
    report,    \* what its report on disk says
    undone,    \* the rollback its report records
    crashes

vars == <<squash, main, dirty, at, base, verified, tip, report, undone, crashes>>
mine == <<squash, base, verified>>
record == <<tip, report, undone>>

Tip == main[Len(main)]
Commit(who, tree) == main' = Append(main, [by |-> who, tree |-> tree])
Goes(c, from, to) == at[c] = from /\ at' = [at EXCEPT ![c] = to]

Init ==
    /\ squash \in BOOLEAN
    /\ main = <<[by |-> "nobody", tree |-> {}]>> /\ dirty = FALSE
    /\ at = [c \in Cand |-> "new"] /\ base = [c \in Cand |-> 0]
    /\ verified = [c \in Cand |-> {}] /\ tip = [c \in Cand |-> 0]
    /\ report = [c \in Cand |-> "none"] /\ undone = [c \in Cand |-> "no"] /\ crashes = 0

Report(c, status) == report' = [report EXCEPT ![c] = status]
End(c, status) == at' = [at EXCEPT ![c] = "ended"] /\ Report(c, status)

-----------------------------------------------------------------------------
\* A worktree at the tip of main.
Begin(c) ==
    /\ Goes(c, "new", "trying") /\ base' = [base EXCEPT ![c] = Len(main)]
    /\ Report(c, "preparing")
    /\ UNCHANGED <<squash, main, dirty, verified, tip, undone, crashes>>

\* The change is applied, its paths are looked at, it is committed there and every
\* command passes on exactly that commit; or one of these fails.
Try(c) ==
    /\ \/ /\ Goes(c, "trying", "tried") /\ UNCHANGED report
          /\ verified' = [verified EXCEPT ![c] = main[base[c]].tree \cup {c}]
       \/ /\ at[c] = "trying" /\ UNCHANGED verified
          /\ \E why \in {"apply_failed", "rejected_paths", "no_changes", "verify_failed"} :
               End(c, why)
    /\ UNCHANGED <<squash, main, dirty, base, tip, undone, crashes>>

\* Main moved meanwhile, or the candidate is ready and says so.
Ready(c) ==
    /\ at[c] = "tried"
    /\ IF Len(main) # base[c] THEN End(c, "stale_base")
       ELSE at' = [at EXCEPT ![c] = "ready"] /\ Report(c, "ready")
    /\ UNCHANGED <<main, dirty, mine, tip, undone, crashes>>

\* Merging is allowed, and the main worktree is on the base with no local changes.
Enter(c) ==
    /\ at[c] = "ready"
    /\ \/ End(c, "ready")
       \/ IF Len(main) = base[c] /\ ~dirty
          THEN at' = [at EXCEPT ![c] = "merging"] /\ UNCHANGED report
          ELSE End(c, "merge_failed")
    /\ UNCHANGED <<main, dirty, mine, tip, undone, crashes>>

\* A fast-forward: git refuses it on any other commit than the base.
Forward(c) ==
    /\ ~squash /\ at[c] = "merging"
    /\ \/ /\ Len(main) = base[c] /\ Commit(c, verified[c])
          /\ at' = [at EXCEPT ![c] = "merged"] /\ UNCHANGED report
       \/ End(c, "merge_failed") /\ UNCHANGED main
    /\ UNCHANGED <<dirty, mine, tip, undone, crashes>>

\* A squash: the change is staged in the main worktree, then committed on whatever
\* its tip is by then, with what a hook adds; a failure restores the tracked files
\* of the base, whatever the tip is.
Restore(c) == dirty' = (Len(main) # base[c])
Stage(c) ==
    /\ squash
    /\ \/ Goes(c, "merging", "staged") /\ ~dirty /\ dirty' = TRUE /\ UNCHANGED report
       \/ at[c] = "merging" /\ End(c, "merge_failed") /\ Restore(c)
    /\ UNCHANGED <<main, mine, tip, undone, crashes>>
Land(c) ==
    /\ at[c] = "staged"
    /\ \/ /\ dirty /\ c \notin Tip.tree /\ dirty' = FALSE
          /\ \E hook \in {{}, {"hook"}} : Commit(c, Tip.tree \cup {c} \cup hook)
          /\ at' = [at EXCEPT ![c] = "merged"] /\ UNCHANGED report
       \/ End(c, "merge_failed") /\ Restore(c) /\ UNCHANGED main
    /\ UNCHANGED <<mine, tip, undone, crashes>>

\* The tip that is found now is recorded as the merge, before it is compared.
Record(c) ==
    /\ Goes(c, "merged", "recorded") /\ tip' = [tip EXCEPT ![c] = Len(main)]
    /\ Report(c, "merged")
    /\ UNCHANGED <<main, dirty, mine, undone, crashes>>

\* Mutant of Compare: the recorded tip is taken for the verified tree.
Compare_Trusted(c) ==
    /\ at[c] = "recorded" /\ End(c, "merged intact")
    /\ UNCHANGED <<main, dirty, mine, tip, undone, crashes>>
Compare(c) ==
    /\ at[c] = "recorded"
    /\ IF main[tip[c]].tree = verified[c] THEN End(c, "merged intact")
       ELSE at' = [at EXCEPT ![c] = "undoing"] /\ UNCHANGED report
    /\ UNCHANGED <<main, dirty, mine, tip, undone, crashes>>

-----------------------------------------------------------------------------
(* Reverting a merge, at once when the comparison failed or on request later. *)

\* A commit without the changes of another, whatever came after it.
Reverted(i) == Tip.tree \ (main[i].tree \ main[i - 1].tree)
Undo(c, how) == undone' = [undone EXCEPT ![c] = how]

\* It is refused unless the recorded tip is still the tip, is the candidate's own
\* single commit on its base, and nothing is uncommitted.
Revertible(c) == tip[c] = Len(main) /\ tip[c] = base[c] + 1 /\ ~dirty

\* On request, for a report that says merged and whose tree is the verified one.
Rollback(c) ==
    /\ at[c] = "ended" /\ report[c] \in {"merged", "merged intact"}
    /\ undone[c] # "reverted"
    /\ main[tip[c]].tree = verified[c] /\ ~dirty
    /\ at' = [at EXCEPT ![c] = "asked"]
    /\ UNCHANGED <<main, dirty, mine, record, crashes>>
Decide(c) ==
    /\ at[c] \in {"undoing", "asked"}
    /\ IF Revertible(c)
       THEN at' = [at EXCEPT ![c] = IF at[c] = "asked" THEN "reverting" ELSE "taking back"]
            /\ Undo(c, "reverting") /\ UNCHANGED report
       ELSE /\ Undo(c, "refused")
            /\ IF at[c] = "asked" THEN at' = [at EXCEPT ![c] = "ended"] /\ UNCHANGED report
               ELSE End(c, "merge_failed")
    /\ UNCHANGED <<main, dirty, mine, tip, crashes>>

\* The revert commit, and what is found when it is compared with the base.
Revert(c) ==
    /\ at[c] \in {"reverting", "taking back"}
    /\ \/ /\ ~dirty /\ Commit(c, Reverted(tip[c]))
          /\ Undo(c, IF Len(main) = tip[c] THEN "reverted" ELSE "failed")
       \/ UNCHANGED main /\ Undo(c, "failed")
    /\ IF at[c] = "taking back" THEN End(c, "merge_failed")
       ELSE End(c, IF undone'[c] = "reverted" THEN "rolled_back" ELSE report[c])
    /\ UNCHANGED <<dirty, mine, tip, crashes>>

-----------------------------------------------------------------------------
\* Somebody edits in the main worktree, commits there, what is staged included, or
\* drops the edits.
Others ==
    \/ ~dirty /\ dirty' = TRUE /\ UNCHANGED main
    \/ /\ dirty' = FALSE
       /\ \E o \in Other :
            /\ \A i \in DOMAIN main : main[i].by # o
            /\ Commit(o, Tip.tree \cup {o} \cup {c \in Cand : at[c] = "staged"})
    \/ dirty /\ dirty' = FALSE /\ UNCHANGED main
Elsewhere == Others /\ UNCHANGED <<at, mine, record, crashes>>

\* The engine's process dies; git and the report keep what they have.
Crash(c) ==
    /\ crashes < MaxCrashes /\ crashes' = crashes + 1
    /\ at[c] \notin {"new", "ended"} /\ at' = [at EXCEPT ![c] = "ended"]
    /\ UNCHANGED <<main, dirty, mine, record>>

Next ==
    \/ \E c \in Cand : \/ Begin(c) \/ Try(c) \/ Ready(c) \/ Enter(c) \/ Forward(c)
                       \/ Stage(c) \/ Land(c) \/ Record(c) \/ Compare(c)
                       \/ Rollback(c) \/ Decide(c) \/ Revert(c) \/ Crash(c)
    \/ Elsewhere

Spec == Init /\ [][Next]_vars

-----------------------------------------------------------------------------
TypeOK ==
    /\ main \in Seq([by : Cand \cup Other \cup {"nobody"}, tree : SUBSET Change])
    /\ {squash, dirty} \subseteq BOOLEAN /\ base \in [Cand -> Nat] /\ tip \in [Cand -> Nat]
    /\ verified \in [Cand -> SUBSET Change]
    /\ undone \in [Cand -> {"no", "refused", "reverting", "reverted", "failed"}]
    /\ crashes \in 0..MaxCrashes

\* A report that says merged and intact names a commit of main whose tree is the one
\* the commands passed on, and "rolled back" one that main no longer shows.
MergedIsVerified ==
    \A c \in Cand :
        /\ report[c] = "merged intact" =>
              tip[c] \in DOMAIN main /\ main[tip[c]].tree = verified[c]
        /\ report[c] = "rolled_back" =>
              \E i \in DOMAIN main : i > tip[c] /\ main[i].tree = main[base[c]].tree

=============================================================================

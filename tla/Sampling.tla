------------------------------ MODULE Sampling ------------------------------
(***************************************************************************)
(* Best of N (studio/best_of_n.py, sample, select and the vision tie-break;*)
(* studio/runner.py, StudioRunner._run_code_best_of_n): the code stage runs*)
(* as candidates, each in a worktree of its own and each proven there; one *)
(* is chosen, by its proof first, and merged into the build's tree, and    *)
(* the others are removed.                                                 *)
(*                                                                         *)
(* A score is a number; what else distinguishes candidates is left to      *)
(* their index, the lower first.                                           *)
(***************************************************************************)
EXTENDS Integers, FiniteSets

CONSTANTS
    N,          \* plan.best_of_n
    MaxScore,   \* bound: scores are 0 .. MaxScore
    Epsilon     \* tie_epsilon

Candidate == 0 .. N - 1
Nobody == -1

VARIABLES
    at,         \* of a candidate: "coding", "proving", "judged" or "cancelled"
    session,    \* its result: "none", "complete", "degraded", "failed" or "raised"
    error,      \* the candidates with an error message
    proof,      \* "none", "passed" or "failed"
    score,
    trees,      \* the candidates whose worktrees are there
    winner, main, \* the candidate selected; the one whose files the build has
    report,     \* what the stage returns: "none", "success" or "failure"
    phase       \* "sampling", "judging", "chosen", "merged" or "cancelled"

vars == <<at, session, error, proof, score, trees, winner, main, report, phase>>
sampled == <<at, session, error, proof, score>>

\* All worktrees are made, and seeded from the build's, before the first session.
Init ==
    /\ at = [c \in Candidate |-> "coding"]
    /\ session = [c \in Candidate |-> "none"] /\ error = {}
    /\ proof = [c \in Candidate |-> "none"]
    /\ score = [c \in Candidate |-> 0]
    /\ trees = Candidate /\ winner = Nobody /\ main = Nobody
    /\ report = "none" /\ phase = "sampling"

-----------------------------------------------------------------------------
(* A candidate: its session, then its proof. *)

\* Whatever became of the session, what it left is proven. An exception is an error
\* when it says something.
Coded(c) ==
    /\ at[c] = "coding" /\ at' = [at EXCEPT ![c] = "proving"]
    /\ \E s \in {"complete", "degraded", "failed", "raised"} :
         /\ session' = [session EXCEPT ![c] = s]
         /\ error' \in {error, error \cup IF s = "raised" THEN {c} ELSE {}}
    /\ UNCHANGED <<proof, score, trees, winner, main, report, phase>>

\* A proof that raises counts as none, and as an error unless there is one already.
Proven(c) ==
    /\ at[c] = "proving" /\ at' = [at EXCEPT ![c] = "judged"]
    /\ \/ /\ \E p \in {"passed", "failed"} : proof' = [proof EXCEPT ![c] = p]
          /\ \E n \in 0 .. MaxScore : score' = [score EXCEPT ![c] = n]
          /\ UNCHANGED error
       \/ /\ error' = error \cup IF session[c] = "raised" THEN {} ELSE {c}
          /\ UNCHANGED <<proof, score>>
    /\ UNCHANGED <<session, trees, winner, main, report, phase>>

-----------------------------------------------------------------------------
(* The choice. *)

Degraded(c) == c \in error \/ session[c] \in {"degraded", "failed"}
Passed(c) == proof[c] = "passed"
Class(c) == <<Passed(c), Degraded(c)>>

\* rank_key: the proof, then the session, then the score, then the index.
Above(c, d) ==
    \/ Passed(c) /\ ~Passed(d)
    \/ Passed(c) = Passed(d) /\ ~Degraded(c) /\ Degraded(d)
    \/ Class(c) = Class(d) /\ score[c] > score[d]
    \/ Class(c) = Class(d) /\ score[c] = score[d] /\ c < d

Best(S) == CHOOSE c \in S : \A d \in S \ {c} : Above(c, d)

\* The best, and the next best when they tie: of one class and as good.
Leaders ==
    LET first == Best(Candidate)
        second == Best(Candidate \ {first})
    IN  IF N > 1 /\ Class(first) = Class(second) /\ score[first] - score[second] <= Epsilon
        THEN {first, second} ELSE {first}

\* The candidates that are not chosen are removed.
Choose(c) ==
    /\ winner' = c /\ trees' = {c} /\ phase' = "chosen"
    /\ UNCHANGED <<sampled, main, report>>

\* All are judged: the best is chosen, or a judge looks at the two that tie.
Select ==
    /\ phase = "sampling" /\ \A c \in Candidate : at[c] = "judged"
    /\ \/ Choose(Best(Candidate))
       \/ /\ Cardinality(Leaders) = 2
          /\ phase' = "judging"
          /\ UNCHANGED <<sampled, trees, winner, main, report>>

\* The judge prefers one, or has nothing to say.
Judge == phase = "judging" /\ \E c \in Leaders : Choose(c)

\* The winner's files are merged; where its session gave no result, the stage takes
\* the proof's word.
Merge ==
    /\ phase = "chosen" /\ phase' = "merged" /\ main' = winner
    /\ report' = IF IF session[winner] = "raised" THEN Class(winner) = <<TRUE, FALSE>>
                                                  ELSE session[winner] # "failed"
                 THEN "success" ELSE "failure"
    /\ UNCHANGED <<sampled, trees, winner>>

\* The build is cancelled: the sessions end, the trees stay for whoever rescues them.
Cancel ==
    /\ phase \in {"sampling", "judging"} /\ phase' = "cancelled"
    /\ at' = [c \in Candidate |-> IF at[c] = "judged" THEN "judged" ELSE "cancelled"]
    /\ UNCHANGED <<session, error, proof, score, trees, winner, main, report>>

Next ==
    \/ \E c \in Candidate : Coded(c) \/ Proven(c)
    \/ Select \/ Judge \/ Merge \/ Cancel

Spec == Init /\ [][Next]_vars

-----------------------------------------------------------------------------
TypeOK ==
    /\ at \in [Candidate -> {"coding", "proving", "judged", "cancelled"}]
    /\ session \in [Candidate -> {"none", "complete", "degraded", "failed", "raised"}]
    /\ error \subseteq Candidate /\ proof \in [Candidate -> {"none", "passed", "failed"}]
    /\ score \in [Candidate -> 0 .. MaxScore] /\ trees \subseteq Candidate
    /\ winner \in Candidate \cup {Nobody} /\ main \in Candidate \cup {Nobody}
    /\ report \in {"none", "success", "failure"}
    /\ phase \in {"sampling", "judging", "chosen", "merged", "cancelled"}

\* What is merged is no worse than what was thrown away, whichever sessions and
\* proofs failed, raised or tied and whatever the judge said: a proven tree before an
\* unproven one, then a complete session before an incomplete one, then a score that
\* no other of the class exceeds by more than a tie.  And the stage does not report
\* success for a session that gave no result unless its tree is proven.
ChosenIsBest ==
    phase = "merged" =>
        /\ \A c \in Candidate :
              /\ Passed(c) => Passed(main)
              /\ Passed(c) = Passed(main) /\ ~Degraded(c) => ~Degraded(main)
              /\ Class(c) = Class(main) => score[c] - score[main] <= Epsilon
        /\ report = "success" /\ session[main] = "raised" => Passed(main)
=============================================================================

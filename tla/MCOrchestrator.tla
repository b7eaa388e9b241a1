--------------------------- MODULE MCOrchestrator ---------------------------
(***************************************************************************)
(* Instances of Orchestrator: submissions of one key, or of two, on two    *)
(* agents.                                                                 *)
(***************************************************************************)
EXTENDS Orchestrator

CONSTANTS s1, s2, s3, s4, a1, a2, k1, k2

\* A leader, a joiner and one that comes later; and a key that takes their place in the
\* cache.
Keys == [s \in Submission |-> IF s = s4 THEN k2 ELSE k1]

AnyAgent == [s \in Submission |-> Agent]

\* a1 is of the type of every task, a2 only has its capabilities.
FirstAgent == [s \in Submission |-> {a1}]

\* Bound: three of the four are asked; those of one key, which are alike, in order.
Asked == {s \in Submission : pc[s] # "new"}
Turns ==
  /\ Cardinality(Asked') <= 3
  /\ s2 \in Asked' => s1 \in Asked'
  /\ s3 \in Asked' => s2 \in Asked'
=============================================================================

------------------------------ MODULE MCCortex ------------------------------
(***************************************************************************)
(* Instances of Cortex under every combination of its settings that makes  *)
(* a difference: two proposals of one key, a tuning and a feature, or two  *)
(* tunings.                                                                *)
(***************************************************************************)
EXTENDS Cortex

CONSTANTS p1, p2, c1, k1, k2

OneKey  == [p \in Proposal |-> k1]
TwoKeys == [p \in Proposal |-> IF p = p1 THEN k1 ELSE k2]

Mixed   == [p \in Proposal |-> IF p = p1 THEN "tuning" ELSE "feature"]
Tunings == [p \in Proposal |-> "tuning"]

\* A lab turns the approval gates off, whatever their flag says.
AnyFlags == {s \in Settings : s.lab_autonomy => s.approval_gates}
=============================================================================

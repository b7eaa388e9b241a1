---------------------------- MODULE GraphPromise ----------------------------
(***************************************************************************)
(* What a durable graph run promises to whoever reads its rows, with the   *)
(* driver, its tasks, attempts, cancellation signals and crashes left out: *)
(* successes are published one by one, each after its dependencies and     *)
(* only while the run is open, and a verdict is backed by what was         *)
(* published. A failed run may be reopened by resume(), a cancelled one is *)
(* closed for good, and a success verdict may only give way to CANCELLED.  *)
(***************************************************************************)
CONSTANTS Node, Deps, Required

VARIABLES published, verdict

vars == <<published, verdict>>

Init ==
  /\ published \in SUBSET Node
  /\ \A n \in published : Deps[n] \subseteq published
  /\ verdict = "open"

Publish(n) ==
  /\ verdict = "open"
  /\ n \notin published
  /\ Deps[n] \subseteq published
  /\ published' = published \cup {n}
  /\ UNCHANGED verdict

Succeed ==
  /\ verdict = "open"
  /\ Required \subseteq published
  /\ verdict' = "succeeded"
  /\ UNCHANGED published

Fail ==
  /\ verdict = "open"
  /\ verdict' = "failed"
  /\ UNCHANGED published

Reopen ==
  /\ verdict = "failed"
  /\ verdict' = "open"
  /\ UNCHANGED published

Cancel ==
  /\ verdict # "cancelled"
  /\ verdict' = "cancelled"
  /\ UNCHANGED published

Next == (\E n \in Node : Publish(n)) \/ Succeed \/ Fail \/ Reopen \/ Cancel

Spec == Init /\ [][Next]_vars
=============================================================================

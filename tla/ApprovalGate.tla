---------------------------- MODULE ApprovalGate ----------------------------
(***************************************************************************)
(* ApprovalGate of skyn3t/studio with its two users: the build, which      *)
(* pauses at the gate of each of its gated stages in turn, and the web     *)
(* control plane, whose answers reach whatever gate the build waits at.    *)
(* Both run on one event loop, so a step is the code between two awaits.   *)
(***************************************************************************)
EXTENDS Integers, FiniteSets

CONSTANTS
  Build,
  Gates,        \* gated stages of a build
  Enabled,      \* builds that started with approval_gates on
  AutoApprove,  \* builds that started with auto_approve on
  Timed,        \* stage_timeout is positive
  MaxCancels    \* bound: cancellations of a build

ASSUME GateAssumption ==
  /\ Gates \in Nat \ {0}
  /\ Enabled \subseteq Build
  /\ AutoApprove \subseteq Build
  /\ Timed \in BOOLEAN
  /\ MaxCancels \in Nat

VARIABLES
  pc,        \* where the build stands
  gate,      \* gate[b]: the gated stage it comes to, or waits at
  decision,  \* decision[b][g]: the approval of gate g in _pending
  fired,     \* the timer of the wait has fired, the waiter has not run yet
  told,      \* history, told[b][g]: the answer a caller was told is applied
  cancels    \* history: cancellations of b

vars == <<pc, gate, decision, fired, told, cancels>>

Answer == {"approved", "rejected"}
Waiting == {"announcing", "waiting"}
Ended == {"passed", "rejected", "cancelled"}

\* Builds that pause for a human.
Attended == Enabled \ AutoApprove

Pending(b) == {g \in 1 .. Gates : decision[b][g] = "pending"}

-----------------------------------------------------------------------------
Init ==
  /\ pc = [b \in Build |-> "building"]
  /\ gate = [b \in Build |-> 1]
  /\ decision = [b \in Build |-> [g \in 1 .. Gates |-> "none"]]
  /\ fired = [b \in Build |-> FALSE]
  /\ told = [b \in Build |-> [g \in 1 .. Gates |-> "none"]]
  /\ cancels = [b \in Build |-> 0]

\* A gated stage is done: request(), which decides at once for an unattended
\* build, and the event that announces it.
Request(b) ==
  /\ pc[b] = "building"
  /\ decision' = [decision EXCEPT ![b][gate[b]] =
                    IF b \in Attended THEN "pending" ELSE "approved"]
  /\ pc' = [pc EXCEPT ![b] = "announcing"]
  /\ UNCHANGED <<gate, fired, told, cancels>>

\* What the runner makes of the decision that wait() returns.
Conclude(b, d) ==
  IF d = "rejected"
    THEN pc' = [pc EXCEPT ![b] = "rejected"] /\ UNCHANGED gate
  ELSE IF gate[b] < Gates
    THEN pc' = [pc EXCEPT ![b] = "building"] /\ gate' = [gate EXCEPT ![b] = @ + 1]
    ELSE pc' = [pc EXCEPT ![b] = "passed"] /\ UNCHANGED gate

\* wait() begins: the gate may have been answered while it was announced. That it
\* is not found cannot be, only a cancellation clears it.
BeginWait(b) ==
  /\ pc[b] = "announcing"
  /\ IF decision[b][gate[b]] = "pending"
       THEN pc' = [pc EXCEPT ![b] = "waiting"] /\ UNCHANGED gate
       ELSE Conclude(b, decision[b][gate[b]])
  /\ UNCHANGED <<decision, fired, told, cancels>>

\* approve() or reject() of every approval of the build that is pending.
Decide(b, d) ==
  /\ Pending(b) # {}
  /\ decision' = [decision EXCEPT ![b] =
                    [g \in 1 .. Gates |-> IF g \in Pending(b) THEN d ELSE @[g]]]
  /\ told' = [told EXCEPT ![b] = [g \in 1 .. Gates |-> IF g \in Pending(b) THEN d ELSE @[g]]]

\* approve_build() of the control plane.
Resolve(b) ==
  /\ \E d \in Answer : Decide(b, d)
  /\ UNCHANGED <<pc, gate, fired, cancels>>

\* The timer fires; the answer may have been given, or come, in the same pass of
\* the loop, before the waiter runs.
TimerFires(b) ==
  /\ Timed
  /\ pc[b] = "waiting" /\ ~fired[b]
  /\ fired' = [fired EXCEPT ![b] = TRUE]
  /\ UNCHANGED <<pc, gate, decision, told, cancels>>

\* The event is set: wait() returns the decision. With the timer fired too, it
\* depends on their order, and on the version of asyncio, which of the two it is.
Wake(b) ==
  /\ pc[b] = "waiting"
  /\ decision[b][gate[b]] # "pending"
  /\ Conclude(b, decision[b][gate[b]])
  /\ fired' = [fired EXCEPT ![b] = FALSE]
  /\ UNCHANGED <<decision, told, cancels>>

\* Mutant: who does not answer approves.
Fallback_Ships(b) == "approved"

Fallback(b) == IF b \in AutoApprove THEN "approved" ELSE "rejected"

\* Mutant: the wait begins again.
WakeTimedOut_Again(b) ==
  /\ pc[b] = "waiting" /\ fired[b]
  /\ fired' = [fired EXCEPT ![b] = FALSE]
  /\ UNCHANGED <<pc, gate, decision, told, cancels>>

\* TimeoutError: the fallback is the decision, whatever it was.
WakeTimedOut(b) ==
  /\ pc[b] = "waiting" /\ fired[b]
  /\ decision' = [decision EXCEPT ![b][gate[b]] = Fallback(b)]
  /\ Conclude(b, Fallback(b))
  /\ fired' = [fired EXCEPT ![b] = FALSE]
  /\ UNCHANGED <<told, cancels>>

-----------------------------------------------------------------------------
\* Mutant: the approvals of a build that was cancelled are left.
Clear_Nothing(b) == UNCHANGED decision

\* clear()
Clear(b) == decision' = [decision EXCEPT ![b] = [g \in 1 .. Gates |-> "none"]]

\* The task of the build is cancelled, and the runner unwinds.
Cancel(b) ==
  /\ pc[b] \notin Ended
  /\ cancels[b] < MaxCancels
  /\ cancels' = [cancels EXCEPT ![b] = @ + 1]
  /\ pc' = [pc EXCEPT ![b] = "cancelled"]
  /\ fired' = [fired EXCEPT ![b] = FALSE]
  /\ Clear(b)
  /\ UNCHANGED <<gate, told>>

\* wait_for() of Python 3.11 gives a cancellation up when the event was set first.
CancelSwallowed(b) ==
  /\ pc[b] = "waiting"
  /\ cancels[b] < MaxCancels
  /\ decision[b][gate[b]] # "pending"
  /\ cancels' = [cancels EXCEPT ![b] = @ + 1]
  /\ Conclude(b, decision[b][gate[b]])
  /\ fired' = [fired EXCEPT ![b] = FALSE]
  /\ UNCHANGED <<decision, told>>

-----------------------------------------------------------------------------
Run(b) == Request(b) \/ BeginWait(b) \/ Wake(b) \/ WakeTimedOut(b)

Next ==
  \E b \in Build : Run(b) \/ TimerFires(b) \/ Resolve(b) \/ Cancel(b) \/ CancelSwallowed(b)

Spec == Init /\ [][Next]_vars

\* Stages end, timers fire and waiters run; no human need answer.
Fairness == \A b \in Build : WF_vars(Run(b)) /\ WF_vars(TimerFires(b))
FairSpec == Spec /\ Fairness

-----------------------------------------------------------------------------
TypeOK ==
  /\ pc \in [Build -> {"building"} \cup Waiting \cup Ended]
  /\ gate \in [Build -> 1 .. Gates]
  /\ decision \in [Build -> [1 .. Gates -> Answer \cup {"none", "pending"}]]
  /\ fired \in [Build -> BOOLEAN]
  /\ told \in [Build -> [1 .. Gates -> Answer \cup {"none"}]]
  /\ cancels \in [Build -> 0 .. MaxCancels]

Behind(b) == IF pc[b] = "passed" THEN 1 .. Gates ELSE 1 .. gate[b] - 1

\* "An unattended human gate that nobody answers should not silently ship": an
\* attended build is past a gate only if a caller was told that it is approved, and
\* no later answer, timeout or cancellation changed that.
NoSilentShip ==
  \A b \in Attended : \A g \in Behind(b) : told[b][g] = "approved"

\* An answer is only applied to a gate that a build waits at: none is pending once
\* it has ended, however it ended.
NoGhostGate == \A b \in Build : pc[b] \notin Waiting => Pending(b) = {}

\* With a timeout every build comes to an end without a human.
Over(b) == pc[b] \in Ended
Unattended == \A b \in Build : <>Over(b)

-----------------------------------------------------------------------------
\* What keeps NoSilentShip: an approval in the store is one that was given.
Given ==
  \A b \in Attended : \A g \in 1 .. Gates :
    decision[b][g] = "approved" => told[b][g] = "approved"

\* The build waits at one gate, the last that was registered, which is there.
OneGate ==
  \A b \in Build :
    /\ \A g \in 1 .. Gates : decision[b][g] # "none" => g <= gate[b]
    /\ pc[b] \in Waiting => decision[b][gate[b]] # "none"
    /\ pc[b] \notin Waiting => Pending(b) = {}
    /\ \A g \in Pending(b) : g = gate[b]

IInv == TypeOK /\ Given /\ OneGate /\ NoSilentShip

-----------------------------------------------------------------------------
\* "Returns how many gate decisions were applied": an answer a caller was told is
\* applied is the decision, as long as the build is not cancelled.
AnswerStands ==
  \A b \in Build : \A g \in 1 .. Gates :
    told[b][g] # "none" /\ decision[b][g] # "none" => decision[b][g] = told[b][g]
=============================================================================

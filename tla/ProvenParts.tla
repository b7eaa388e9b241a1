---------------------------- MODULE ProvenParts ----------------------------
(***************************************************************************)
(* Those of the parts of MCParts that theorems are proved about, for every *)
(* value of the constants: a behaviour chooses a part and is a behaviour   *)
(* of its module.  x1, x2, ... hold the variables of whichever part it is; *)
(* the gates of two builds (ApprovalGate, extended here) have their own.   *)
(***************************************************************************)
EXTENDS ApprovalGate, FiniteSetTheorems, SequenceTheorems,
  WellFoundedInduction, TLAPS

CONSTANTS
  b1, b2,
  RunIds, SourceFiles, Edits,               \* of several runs of improve()
  LoneRuns, LoneSources, LoneEdits,         \* and of fewer, over more
  MaxLate, MaxFaults,
  Editor, Verifier, MaxTrees, MaxCrashes,   \* of changes to a delivered project
  Attempts, RollbackIds,                    \* of deployments
  FewAttempts, MoreRollbacks, Home, KeepLast,
  Planned, Helper, Scans, TurnLimit, EmptyLimit, MaxCalls, Models, Second,
  Tasks, OwnedFiles, Delivered, Floor, Trivial, MaxRetries, MaxWrites,
  MaxHeals,                                 \* of a command line session
  Process, Thread, ProcessOf, Body, FirstBody,  \* of an advisory capability
  Admissible, MaxOperations,
  Launches, StopIds, RunKind, MaxRestarts,  \* of the preview of a project
  Canceller, FolderIds, MaxFailures, MaxDeletes  \* of the builds of a brief

VARIABLES part, x1, x2, x3, x4, x5, x6, x7, x8, x9, x10, x11, x12, x13, x14, x15,
  x16, x17, x18, x19, x20, x21, x22, x23, x24, x25, x26, x27

-----------------------------------------------------------------------------
(* The gates (ApprovalGate), for every set of builds, number of gates and  *)
(* cancellations, with and without a timeout.                              *)

\* Where a build goes with a decision; the gates behind it grow by this one at most,
\* and only with an approval.
LEMMA ConcludeStep ==
  ASSUME TypeOK, NEW b \in Build, NEW d \in Answer, Conclude(b, d)
  PROVE  /\ pc' \in [Build -> {"building"} \cup Waiting \cup Ended]
         /\ gate' \in [Build -> 1 .. Gates]
         /\ \A c \in Build \ {b} : pc'[c] = pc[c] /\ gate'[c] = gate[c]
         /\ pc'[b] \notin Waiting
         /\ gate'[b] >= gate[b]
         /\ \A g \in Behind(b)' : g < gate[b] \/ (g = gate[b] /\ d = "approved")
<1> USE GateAssumption
<1>1. /\ pc \in [Build -> {"building"} \cup Waiting \cup Ended]
      /\ gate \in [Build -> 1 .. Gates]
      /\ gate[b] \in Int /\ gate[b] >= 1 /\ gate[b] <= Gates /\ Gates \in Int
  BY DEF TypeOK
<1>2. CASE d = "rejected"
  <2>1. pc' = [pc EXCEPT ![b] = "rejected"] /\ gate' = gate
    BY <1>2 DEF Conclude
  <2>2. QED BY <1>1, <2>1 DEF Waiting, Ended, Behind
<1>3. CASE d # "rejected" /\ gate[b] < Gates
  <2>1. pc' = [pc EXCEPT ![b] = "building"] /\ gate' = [gate EXCEPT ![b] = gate[b] + 1]
    BY <1>3 DEF Conclude
  <2>2. gate[b] + 1 \in 1 .. Gates
    BY <1>1, <1>3
  <2>3. QED BY <1>1, <1>3, <2>1, <2>2 DEF Waiting, Ended, Behind, Answer
<1>4. CASE d # "rejected" /\ ~(gate[b] < Gates)
  <2>1. pc' = [pc EXCEPT ![b] = "passed"] /\ gate' = gate
    BY <1>4 DEF Conclude
  <2>2. QED BY <1>1, <1>4, <2>1 DEF Waiting, Ended, Behind, Answer
<1>5. QED BY <1>2, <1>3, <1>4

\* A build that goes on with a decision of its own gate.
LEMMA GoOn ==
  ASSUME IInv, NEW b \in Build, NEW d \in Answer, Conclude(b, d),
         d = "approved" /\ b \in Attended => told[b][gate[b]] = "approved",
         pc[b] \in Waiting,
         UNCHANGED told,
         decision' \in [Build -> [1 .. Gates -> Answer \cup {"none", "pending"}]],
         \A c \in Build : \A g \in 1 .. Gates :
           decision'[c][g] = decision[c][g] \/ (c = b /\ g = gate[b] /\ decision'[c][g] = d),
         decision'[b][gate[b]] = d,
         fired' \in [Build -> BOOLEAN],
         cancels' \in [Build -> 0 .. MaxCancels]
  PROVE  IInv'
<1> USE GateAssumption DEF IInv
<1>1. TypeOK'
  BY ConcludeStep DEF TypeOK
<1>2. Given'
  <2> SUFFICES ASSUME NEW c \in Attended, NEW g \in 1 .. Gates, decision'[c][g] = "approved"
               PROVE  told[c][g] = "approved"
    BY DEF Given
  <2>1. c \in Build
    BY DEF Attended
  <2>2. CASE decision'[c][g] = decision[c][g]
    BY <2>2 DEF Given
  <2>3. CASE c = b /\ g = gate[b] /\ decision'[c][g] = d
    BY <2>3
  <2>4. QED BY <2>1, <2>2, <2>3
<1>3. \A c \in Build : gate'[c] \in Int /\ gate[c] \in Int /\ gate'[c] >= gate[c]
  <2>1. gate \in [Build -> 1 .. Gates] /\ gate' \in [Build -> 1 .. Gates] /\ Gates \in Int
    BY <1>1 DEF TypeOK
  <2>2. gate'[b] >= gate[b] /\ \A c \in Build \ {b} : gate'[c] = gate[c]
    BY ConcludeStep
  <2>3. QED BY <2>1, <2>2
<1>4. OneGate'
  <2>1. \A c \in Build : \A g \in 1 .. Gates :
          decision'[c][g] # "none" => decision[c][g] # "none" \/ g = gate[c]
    OBVIOUS
  <2>2. \A c \in Build : \A g \in 1 .. Gates : decision'[c][g] # "none" => g <= gate'[c]
    <3> SUFFICES ASSUME NEW c \in Build, NEW g \in 1 .. Gates, decision'[c][g] # "none"
                 PROVE  g <= gate'[c]
      OBVIOUS
    <3>1. g <= gate[c]
      BY <1>3, <2>1 DEF OneGate
    <3>2. QED BY <1>3, <3>1
  <2>3. d # "pending"
    BY DEF Answer
  <2>4. Pending(b)' = {}
    BY <2>3 DEF OneGate, Pending
  <2>5. \A c \in Build \ {b} : /\ Pending(c)' = Pending(c) /\ pc'[c] = pc[c] /\ gate'[c] = gate[c]
                               /\ decision'[c][gate[c]] = decision[c][gate[c]]
    BY ConcludeStep DEF Pending, TypeOK
  <2>6. pc'[b] \notin Waiting
    BY ConcludeStep
  <2>7. \A c \in Build : /\ pc'[c] \in Waiting => decision'[c][gate'[c]] # "none"
                         /\ pc'[c] \notin Waiting => Pending(c)' = {}
                         /\ \A g \in Pending(c)' : g = gate'[c]
    <3> SUFFICES ASSUME NEW c \in Build
                 PROVE  /\ pc'[c] \in Waiting => decision'[c][gate'[c]] # "none"
                        /\ pc'[c] \notin Waiting => Pending(c)' = {}
                        /\ \A g \in Pending(c)' : g = gate'[c]
      OBVIOUS
    <3>1. CASE c = b
      BY <2>4, <2>6, <3>1
    <3>2. CASE c # b
      <4>1. /\ Pending(c)' = Pending(c) /\ pc'[c] = pc[c] /\ gate'[c] = gate[c]
            /\ decision'[c][gate[c]] = decision[c][gate[c]]
        BY <2>5, <3>2
      <4>2. /\ pc[c] \in Waiting => decision[c][gate[c]] # "none"
            /\ pc[c] \notin Waiting => Pending(c) = {}
            /\ \A g \in Pending(c) : g = gate[c]
        BY DEF OneGate
      <4>3. QED BY <4>1, <4>2
    <3>3. QED BY <3>1, <3>2
  <2>8. QED BY <2>2, <2>7 DEF OneGate
<1>5. NoSilentShip'
  <2> SUFFICES ASSUME NEW c \in Attended, NEW g \in Behind(c)'
               PROVE  told[c][g] = "approved"
    BY DEF NoSilentShip
  <2>1. c \in Build
    BY DEF Attended
  <2>2. CASE c = b
    <3>1. g \in Int /\ 1 <= g /\ (g < gate[b] \/ (g = gate[b] /\ d = "approved"))
      BY <1>1, <2>2, ConcludeStep DEF Behind, TypeOK
    <3>2. g < gate[b] => g \in Behind(b)
      BY <1>3, <3>1 DEF Behind, Waiting
    <3>3. QED BY <2>2, <3>1, <3>2 DEF NoSilentShip
  <2>3. CASE c # b
    <3>1. pc'[c] = pc[c] /\ gate'[c] = gate[c]
      BY <2>1, <2>3, ConcludeStep
    <3>2. g \in Behind(c)
      BY <3>1 DEF Behind
    <3>3. QED BY <3>2 DEF NoSilentShip
  <2>4. QED BY <2>2, <2>3
<1>6. QED BY <1>1, <1>2, <1>4, <1>5

\* An answer is given to gates that are pending, and those are not behind a build.
LEMMA DecideStep ==
  ASSUME IInv, NEW b \in Build, NEW d \in Answer, Decide(b, d),
         UNCHANGED <<pc, gate, fired, cancels>>
  PROVE  IInv'
<1> USE GateAssumption DEF IInv
<1>1. /\ decision \in [Build -> [1 .. Gates -> Answer \cup {"none", "pending"}]]
      /\ told \in [Build -> [1 .. Gates -> Answer \cup {"none"}]]
  BY DEF TypeOK
<1>2. /\ decision' = [decision EXCEPT ![b] =
                       [g \in 1 .. Gates |-> IF g \in Pending(b) THEN d ELSE decision[b][g]]]
      /\ told' = [told EXCEPT ![b] =
                   [g \in 1 .. Gates |-> IF g \in Pending(b) THEN d ELSE told[b][g]]]
  BY DEF Decide
<1>3. /\ \A c \in Build \ {b} : decision'[c] = decision[c] /\ told'[c] = told[c]
      /\ \A g \in 1 .. Gates :
           IF g \in Pending(b) THEN decision'[b][g] = d /\ told'[b][g] = d
                               ELSE decision'[b][g] = decision[b][g] /\ told'[b][g] = told[b][g]
  BY <1>1, <1>2
<1>4. TypeOK'
  <2>1. [g \in 1 .. Gates |-> IF g \in Pending(b) THEN d ELSE decision[b][g]]
          \in [1 .. Gates -> Answer \cup {"none", "pending"}]
    BY <1>1
  <2>2. [g \in 1 .. Gates |-> IF g \in Pending(b) THEN d ELSE told[b][g]]
          \in [1 .. Gates -> Answer \cup {"none"}]
    BY <1>1
  <2>3. /\ decision' \in [Build -> [1 .. Gates -> Answer \cup {"none", "pending"}]]
        /\ told' \in [Build -> [1 .. Gates -> Answer \cup {"none"}]]
    BY <1>1, <1>2, <2>1, <2>2
  <2>4. QED BY <2>3 DEF TypeOK
<1>5. Given'
  BY <1>3 DEF Given, Attended
<1>6. OneGate'
  <2>1. d # "pending" /\ d # "none"
    BY DEF Answer
  <2>2. \A g \in 1 .. Gates : decision'[b][g] # "none" <=> decision[b][g] # "none"
    BY <1>3, <2>1 DEF Pending
  <2>3. Pending(b)' = {}
    BY <1>3, <2>1 DEF Pending
  <2>4. \A c \in Build \ {b} : Pending(c)' = Pending(c)
    BY <1>3 DEF Pending
  <2>5. gate[b] \in 1 .. Gates
    BY DEF TypeOK
  <2>6. QED BY <1>3, <2>2, <2>3, <2>4, <2>5 DEF OneGate
<1>7. NoSilentShip'
  <2> SUFFICES ASSUME NEW c \in Attended, NEW g \in Behind(c) PROVE told'[c][g] = "approved"
    BY DEF NoSilentShip, Behind
  <2>1. c \in Build /\ told[c][g] = "approved"
    BY DEF Attended, NoSilentShip
  <2>2. CASE c = b
    <3>1. gate[b] \in Int /\ gate[b] <= Gates /\ g \in 1 .. Gates
      BY <2>2 DEF TypeOK, Behind
    <3>2. g \notin Pending(b)
      BY <2>2, <3>1 DEF OneGate, Behind, Waiting
    <3>3. QED BY <1>3, <2>1, <2>2, <3>1, <3>2
  <2>3. QED BY <1>3, <2>1, <2>2
<1>8. QED BY <1>4, <1>5, <1>6, <1>7

\* A gated stage is done: its gate is new.
LEMMA RequestStep ==
  ASSUME IInv, NEW b \in Build, Request(b)
  PROVE  IInv'
<1> USE GateAssumption DEF IInv
<1> DEFINE d == IF b \in Attended THEN "pending" ELSE "approved"
<1>1. /\ decision \in [Build -> [1 .. Gates -> Answer \cup {"none", "pending"}]]
      /\ pc \in [Build -> {"building"} \cup Waiting \cup Ended]
      /\ gate[b] \in 1 .. Gates
  BY DEF TypeOK
<1>2. /\ decision' = [decision EXCEPT ![b][gate[b]] = d]
      /\ pc[b] = "building" /\ pc' = [pc EXCEPT ![b] = "announcing"]
      /\ UNCHANGED <<gate, fired, told, cancels>>
  BY DEF Request
<1>3. /\ \A c \in Build \ {b} : decision'[c] = decision[c] /\ pc'[c] = pc[c]
      /\ \A g \in 1 .. Gates : g # gate[b] => decision'[b][g] = decision[b][g]
      /\ decision'[b][gate[b]] = d
      /\ pc'[b] = "announcing"
  BY <1>1, <1>2
<1>4. TypeOK'
  <2>1. d \in Answer \cup {"none", "pending"}
    BY DEF Answer
  <2>2. decision' \in [Build -> [1 .. Gates -> Answer \cup {"none", "pending"}]]
    BY <1>1, <1>2, <2>1
  <2>3. pc' \in [Build -> {"building"} \cup Waiting \cup Ended]
    BY <1>1, <1>2 DEF Waiting
  <2>4. QED BY <1>2, <2>2, <2>3 DEF TypeOK
<1>5. Given'
  BY <1>2, <1>3 DEF Given, Attended
<1>6. OneGate'
  <2>1. Pending(b) = {}
    BY <1>2 DEF OneGate, Waiting
  <2>2. Pending(b)' \subseteq {gate[b]}
    BY <1>3, <2>1 DEF Pending
  <2>3. \A c \in Build \ {b} : Pending(c)' = Pending(c)
    BY <1>3 DEF Pending
  <2>4. \A g \in 1 .. Gates : decision'[b][g] # "none" => g <= gate[b]
    <3> SUFFICES ASSUME NEW g \in 1 .. Gates, decision'[b][g] # "none" PROVE g <= gate[b]
      OBVIOUS
    <3>1. gate[b] <= gate[b]
      BY <1>1
    <3>2. g # gate[b] => decision[b][g] # "none"
      BY <1>3
    <3>3. QED BY <3>1, <3>2 DEF OneGate
  <2>5. QED BY <1>1, <1>2, <1>3, <2>2, <2>3, <2>4 DEF OneGate, Waiting
<1>7. NoSilentShip'
  <2>1. \A c \in Build : Behind(c)' = Behind(c)
    BY <1>2, <1>3 DEF Behind
  <2>2. QED BY <1>2, <2>1 DEF NoSilentShip, Attended
<1>8. QED BY <1>4, <1>5, <1>6, <1>7

\* A cancelled build is past no gate it was not past before, and has none pending.
LEMMA CancelStep ==
  ASSUME IInv, NEW b \in Build, Cancel(b)
  PROVE  IInv'
<1> USE GateAssumption DEF IInv
<1>1. /\ decision' = [decision EXCEPT ![b] = [g \in 1 .. Gates |-> "none"]]
      /\ pc[b] # "passed" /\ pc' = [pc EXCEPT ![b] = "cancelled"]
      /\ UNCHANGED <<gate, told>>
  BY DEF Cancel, Clear, Ended
<1>2. TypeOK'
  <2>1. cancels' \in [Build -> 0 .. MaxCancels]
    BY DEF Cancel, TypeOK
  <2>2. pc' \in [Build -> {"building"} \cup Waiting \cup Ended]
    BY <1>1 DEF TypeOK, Ended
  <2>3. decision' \in [Build -> [1 .. Gates -> Answer \cup {"none", "pending"}]]
    BY <1>1 DEF TypeOK
  <2>4. fired' \in [Build -> BOOLEAN]
    BY DEF Cancel, TypeOK
  <2>5. QED BY <1>1, <2>1, <2>2, <2>3, <2>4 DEF TypeOK
<1>3. /\ \A c \in Build \ {b} : decision'[c] = decision[c] /\ pc'[c] = pc[c]
      /\ \A g \in 1 .. Gates : decision'[b][g] = "none"
      /\ pc'[b] = "cancelled"
  BY <1>1 DEF TypeOK
<1>4. Given'
  BY <1>1, <1>3 DEF Given, Attended
<1>5. OneGate'
  <2>1. Pending(b)' = {}
    BY <1>3 DEF Pending
  <2>2. \A c \in Build \ {b} : Pending(c)' = Pending(c)
    BY <1>3 DEF Pending
  <2>3. QED BY <1>1, <1>3, <2>1, <2>2 DEF OneGate, Waiting
<1>6. NoSilentShip'
  <2>1. \A c \in Build : Behind(c)' = Behind(c)
    BY <1>1, <1>3 DEF Behind
  <2>2. QED BY <1>1, <2>1 DEF NoSilentShip, Attended
<1>7. QED BY <1>2, <1>4, <1>5, <1>6

\* The invariant holds at first and is kept by every step.
LEMMA InitInv == Init => IInv
<1> SUFFICES ASSUME Init PROVE IInv
  OBVIOUS
<1>1. TypeOK
  BY GateAssumption DEF Init, TypeOK
<1>2. Given /\ OneGate
  BY GateAssumption DEF Init, Given, OneGate, Pending, Waiting, Attended
<1>3. \A b \in Build : Behind(b) = {}
  BY DEF Init, Behind
<1>4. QED BY <1>1, <1>2, <1>3, GateAssumption DEF IInv, NoSilentShip, Attended

LEMMA NextInv == IInv /\ [Next]_vars => IInv'
<1> SUFFICES ASSUME IInv, [Next]_vars PROVE IInv'
  OBVIOUS
<1>1. CASE UNCHANGED vars
  <2>1. TypeOK' /\ Given' /\ OneGate'
    BY <1>1 DEF IInv, vars, TypeOK, Given, OneGate, Pending
  <2>2. NoSilentShip'
    BY <1>1 DEF IInv, vars, NoSilentShip, Behind
  <2>3. QED BY <2>1, <2>2 DEF IInv
<1>2. ASSUME NEW b \in Build, BeginWait(b) \/ Wake(b) \/ CancelSwallowed(b) PROVE IInv'
  <2>1. /\ decision[b][gate[b]] \in Answer \cup {"pending"}
        /\ pc[b] \in Waiting
        /\ UNCHANGED <<decision, told>>
        /\ gate[b] \in 1 .. Gates
    <3>1. pc[b] \in Waiting /\ UNCHANGED <<decision, told>>
      BY <1>2 DEF BeginWait, Wake, CancelSwallowed, Waiting
    <3>2. gate[b] \in 1 .. Gates /\ decision[b] \in [1 .. Gates -> Answer \cup {"none", "pending"}]
      BY DEF IInv, TypeOK
    <3>3. decision[b][gate[b]] # "none"
      BY <3>1 DEF IInv, OneGate
    <3>4. QED BY <3>1, <3>2, <3>3
  <2>2. fired' \in [Build -> BOOLEAN] /\ cancels' \in [Build -> 0 .. MaxCancels]
    <3>1. fired \in [Build -> BOOLEAN] /\ cancels \in [Build -> 0 .. MaxCancels]
      BY DEF IInv, TypeOK
    <3>2. CASE BeginWait(b) \/ Wake(b)
      BY <3>1, <3>2 DEF BeginWait, Wake
    <3>3. CASE CancelSwallowed(b)
      <4>1. cancels[b] \in 0 .. MaxCancels /\ cancels[b] < MaxCancels
        BY <3>1, <3>3 DEF CancelSwallowed
      <4>2. cancels[b] + 1 \in 0 .. MaxCancels
        BY <4>1, GateAssumption
      <4>3. /\ cancels' = [cancels EXCEPT ![b] = cancels[b] + 1]
            /\ fired' = [fired EXCEPT ![b] = FALSE]
        BY <3>3 DEF CancelSwallowed
      <4>4. QED BY <3>1, <4>2, <4>3
    <3>4. QED BY <1>2, <3>2, <3>3
  <2>3. CASE decision[b][gate[b]] = "pending"
    <3>1. pc' = [pc EXCEPT ![b] = "waiting"] /\ UNCHANGED <<gate, fired, cancels>> /\ pc[b] # "passed"
      BY <1>2, <2>3 DEF BeginWait, Wake, CancelSwallowed
    <3>2. \A c \in Build : /\ pc'[c] \in Waiting <=> pc[c] \in Waiting
                           /\ Behind(c)' = Behind(c)
      BY <2>1, <3>1 DEF IInv, TypeOK, Waiting, Behind
    <3>3. TypeOK'
      BY <2>1, <3>1 DEF IInv, TypeOK, Waiting
    <3>4. Given' /\ OneGate'
      BY <2>1, <3>1, <3>2 DEF IInv, Given, OneGate, Pending
    <3>5. NoSilentShip'
      BY <2>1, <3>2, GateAssumption DEF IInv, NoSilentShip, Attended
    <3>6. QED BY <3>3, <3>4, <3>5 DEF IInv
  <2>4. CASE decision[b][gate[b]] # "pending"
    <3>1. PICK d \in Answer : d = decision[b][gate[b]]
      BY <2>1, <2>4
    <3>2. Conclude(b, d)
      BY <1>2, <2>4, <3>1 DEF BeginWait, Wake, CancelSwallowed
    <3>3. d = "approved" /\ b \in Attended => told[b][gate[b]] = "approved"
      BY <2>1, <3>1 DEF IInv, Given
    <3>4. QED BY <2>1, <2>2, <3>1, <3>2, <3>3, GoOn DEF IInv, TypeOK
  <2>5. QED BY <2>3, <2>4
<1>3. ASSUME NEW b \in Build, WakeTimedOut(b) PROVE IInv'
  <2>1. PICK d \in Answer : d = Fallback(b) /\ (b \in Attended => d # "approved")
    BY DEF Fallback, Answer, Attended
  <2>2. /\ decision \in [Build -> [1 .. Gates -> Answer \cup {"none", "pending"}]]
        /\ gate[b] \in 1 .. Gates
    BY DEF IInv, TypeOK
  <2>3. decision' = [decision EXCEPT ![b][gate[b]] = d] /\ Conclude(b, d)
    BY <1>3, <2>1 DEF WakeTimedOut
  <2>4. /\ decision' \in [Build -> [1 .. Gates -> Answer \cup {"none", "pending"}]]
        /\ decision'[b][gate[b]] = d
        /\ \A c \in Build : \A g \in 1 .. Gates :
             decision'[c][g] = decision[c][g] \/ (c = b /\ g = gate[b] /\ decision'[c][g] = d)
    BY <2>2, <2>3
  <2>5. /\ pc[b] \in Waiting /\ UNCHANGED <<told, cancels>>
        /\ fired' \in [Build -> BOOLEAN]
    BY <1>3 DEF WakeTimedOut, Waiting, IInv, TypeOK
  <2>6. cancels' \in [Build -> 0 .. MaxCancels]
    BY <2>5 DEF IInv, TypeOK
  <2>7. QED BY <2>1, <2>3, <2>4, <2>5, <2>6, GoOn
<1>4. ASSUME NEW b \in Build, TimerFires(b) PROVE IInv'
  <2>1. UNCHANGED <<pc, gate, decision, told, cancels>> /\ fired' \in [Build -> BOOLEAN]
    BY <1>4 DEF TimerFires, IInv, TypeOK
  <2>2. TypeOK' /\ Given' /\ OneGate'
    BY <2>1 DEF IInv, TypeOK, Given, OneGate, Pending
  <2>3. NoSilentShip'
    BY <2>1 DEF IInv, NoSilentShip, Behind
  <2>4. QED BY <2>2, <2>3 DEF IInv
<1>5. ASSUME NEW b \in Build, Resolve(b) PROVE IInv'
  BY <1>5, DecideStep DEF Resolve
<1>6. QED
  BY <1>1, <1>2, <1>3, <1>4, <1>5, RequestStep, CancelStep DEF Next, Run

\* The inductive invariant holds in every state.
THEOREM Invariance == Spec => []IInv
  BY InitInv, NextInv, PTL DEF Spec

\* The state of the gate stays well typed; no gate past the last is come to.
THEOREM TypeCorrect == Spec => []TypeOK
<1>1. IInv => TypeOK
  BY DEF IInv
<1>2. QED BY <1>1, Invariance, PTL

\* No attended build ships past a gate that no human approved.
THEOREM NoSilentShipHolds == Spec => []NoSilentShip
<1>1. IInv => NoSilentShip
  BY DEF IInv
<1>2. QED BY <1>1, Invariance, PTL

\* No answer can be applied to a build that has ended.
THEOREM NoGhostGateHolds == Spec => []NoGhostGate
<1>1. IInv => NoGhostGate
  BY DEF IInv, OneGate, NoGhostGate
<1>2. QED BY <1>1, Invariance, PTL

-----------------------------------------------------------------------------
(* The command line session (CliSession).                                  *)

\* A command line agent and the one that heals it.
Agents == INSTANCE CliSession WITH
  MaxHeals <- MaxHeals, total <- x1, at <- x2, agent <- x3, cur <- x4,
  bytes <- x5, content <- x6, result <- x7, code <- x8, cut <- x9,
  stall <- x10, outcome <- x11

LEMMA AgentsInit == ASSUME MaxHeals \in Nat, Agents!Init PROVE Agents!IInv
BY DEF Agents!Init, Agents!IInv, Agents!TypeOK, Agents!WatchInv, Agents!VerdictInv, Agents!Agent

LEMMA StopFacts ==
  ASSUME MaxHeals \in Nat, Agents!IInv, Agents!Stop
  PROVE  /\ x3' \in [Agents!Agent -> {"none", "live", "closed", "gone", "stuck"}]
         /\ \A a \in Agents!Agent : a # x4 => x3'[a] = x3[a]
         /\ x4 > 0 => x3'[x4] # "live"
<1>1. /\ x3 \in [Agents!Agent -> {"none", "live", "closed", "gone", "stuck"}]
      /\ x4 \in 0 .. MaxHeals + 1 /\ (x4 > 0 => x4 \in Agents!Agent)
  BY DEF Agents!IInv, Agents!TypeOK, Agents!Agent
<1>2. CASE Agents!Running
  <2>1. PICK end \in {"gone", "stuck"} : x3' = [x3 EXCEPT ![x4] = end]
    BY <1>2 DEF Agents!Stop
  <2>2. QED BY <1>1, <2>1
<1>3. CASE ~Agents!Running
  BY <1>1, <1>3 DEF Agents!Stop, Agents!Running
<1>4. QED BY <1>2, <1>3

LEMMA AgentsNext == ASSUME MaxHeals \in Nat, Agents!IInv, [Agents!Next]_(Agents!vars) PROVE Agents!IInv'
<1> USE DEF Agents!IInv, Agents!TypeOK, Agents!WatchInv, Agents!VerdictInv, Agents!Agent,
            Agents!stream, Agents!receipt
<1>1. CASE Agents!Refuse
  BY <1>1 DEF Agents!Refuse, Agents!Return
<1>2. CASE Agents!Spawn
  BY <1>2 DEF Agents!Spawn
<1>3. CASE Agents!Event
  BY <1>3 DEF Agents!Event
<1>4. CASE Agents!Exit
  BY <1>4 DEF Agents!Exit, Agents!Running
<1>5. CASE Agents!Close
  BY <1>5 DEF Agents!Close
<1>6. CASE Agents!Idle
  BY <1>6, StopFacts DEF Agents!Idle
<1>7. CASE Agents!Overrun
  BY <1>7, StopFacts DEF Agents!Overrun
<1>8. CASE Agents!Reap
  BY <1>8 DEF Agents!Reap
<1>9. CASE Agents!Judge
  BY <1>9 DEF Agents!Judge
<1>10. CASE Agents!Heal
  BY <1>10 DEF Agents!Heal
<1>11. CASE Agents!Finish
  BY <1>11 DEF Agents!Finish, Agents!Good, Agents!Return
<1>12. CASE Agents!Break
  <2>1. /\ x3' \in [Agents!Agent -> {"none", "live", "closed", "gone", "stuck"}]
        /\ \A a \in Agents!Agent : a # x4 => x3'[a] = x3[a]
        /\ x4 > 0 => x3'[x4] # "live"
    BY <1>12, StopFacts DEF Agents!Break
  <2>2. x2' = "returned" /\ x11' \in {"failed", "cancelled", "timed out"}
    BY <1>12 DEF Agents!Break, Agents!Return
  <2>3. UNCHANGED <<x1, x4, x5, x6, x7, x8, x9, x10>>
    BY <1>12 DEF Agents!Break
  <2>4. Agents!TypeOK' /\ Agents!VerdictInv'
    BY <2>1, <2>2, <2>3
  <2>5. Agents!WatchInv'
    <3>1. \A a \in Agents!Agent : a > x4 => x3'[a] = "none"
      BY <2>1
    <3>2. \A a \in Agents!Agent : a < x4 => x3'[a] # "live"
      BY <2>1
    <3>3. QED BY <2>1, <2>2, <2>3, <3>1, <3>2
  <2>6. QED BY <2>4, <2>5
<1>13. CASE UNCHANGED Agents!vars
  BY <1>13 DEF Agents!vars
<1>14. QED
  BY <1>1, <1>2, <1>3, <1>4, <1>5, <1>6, <1>7, <1>8, <1>9, <1>10, <1>11, <1>12, <1>13 DEF Agents!Next

LEMMA AgentsSafe == ASSUME MaxHeals \in Nat, Agents!IInv PROVE Agents!NoAgentLeft
<1>1. x4 \in 0 .. MaxHeals + 1 /\ \A a \in Agents!Agent : a \in Nat
  BY DEF Agents!IInv, Agents!TypeOK, Agents!Agent
<1>2. ASSUME x2 = "returned", NEW a \in Agents!Agent PROVE x3[a] # "live"
  <2>1. CASE a = x4
    BY <1>1, <1>2, <2>1 DEF Agents!IInv, Agents!WatchInv, Agents!Agent
  <2>2. CASE a < x4
    BY <1>2, <2>2 DEF Agents!IInv, Agents!WatchInv
  <2>3. CASE a > x4
    BY <1>2, <2>3 DEF Agents!IInv, Agents!WatchInv
  <2>4. QED BY <1>1, <1>2, <2>1, <2>2, <2>3
<1>3. QED
  BY <1>2 DEF Agents!IInv, Agents!WatchInv, Agents!VerdictInv, Agents!NoAgentLeft

-----------------------------------------------------------------------------
(* The session of an agent (AgentSession).                                 *)

\* The sessions of the parts session, scanned and batches.
SessionRuns == 1 .. 3

\* Two planned files and a helper, two models, guards that bite at once; then without
\* the helper, and a scan of the finished tree.
Session(n) == INSTANCE AgentSession WITH
  Planned <- Planned[n], Helper <- Helper[n], Plain <- {}, Model <- Models,
  MaxFallbacks <- 1, TurnLimit <- TurnLimit[n], Window <- 2, Churn <- 2, AuxChurn <- 1,
  Scans <- Scans[n], Second <- Second, EmptyLimit <- EmptyLimit[n], MaxCalls <- MaxCalls[n],
  phase <- x1, model <- x2, exhausted <- x3, ready <- x4,
  tree <- x5, wrote <- x6, calls <- x7, gained <- x8, idle <- x9,
  doom <- x10, doomWarned <- x11, window <- x12, churned <- x13,
  aux <- x14, auxWarned <- x15, missing <- x16, stagnant <- x17,
  stagnationWarned <- x18, finishNudged <- x19, completeNudged <- x20,
  denials <- x21, empties <- x22, cuts <- x23, rejects <- x24,
  finished <- x25, error <- x26

\* The operators of FiniteSets are the same in every instance.
LEMMA SameSets ==
  ASSUME NEW n \in SessionRuns
  PROVE  /\ \A S : Session(n)!IsFiniteSet(S) = IsFiniteSet(S)
         /\ \A S : Session(n)!Cardinality(S) = Cardinality(S)
BY DEF Session!IsFiniteSet, IsFiniteSet, Session!Cardinality, Cardinality

\* The invariant in the terms of this module, before and after a step.
LEMMA WorkIs ==
  ASSUME NEW n \in SessionRuns
  PROVE  /\ Session(n)!Limits =>
              IsFiniteSet(Planned[n]) /\ Scans[n] \subseteq {"stub", "defect"} /\ Second \in Nat
         /\ Session(n)!WorkInv <=>
              /\ x4 \subseteq Planned[n] /\ x5 \subseteq Scans[n] /\ x16 \in Nat
              /\ Cardinality(Planned[n] \ x4) <= x16 /\ x21 \in [Scans[n] -> 0 .. Second]
         /\ Session(n)!WorkInv' <=>
              /\ x4' \subseteq Planned[n] /\ x5' \subseteq Scans[n] /\ x16' \in Nat
              /\ Cardinality(Planned[n] \ x4') <= x16' /\ x21' \in [Scans[n] -> 0 .. Second]
BY SameSets DEF Session!Limits, Session!WorkInv, Session!Missing

\* What is missing can be counted, and less is missing of more.
LEMMA MissingCounts ==
  ASSUME NEW n \in SessionRuns, Session(n)!Limits, NEW R
  PROVE  /\ IsFiniteSet(Planned[n] \ R) /\ Cardinality(Planned[n] \ R) \in Nat
         /\ \A S : R \subseteq S => Cardinality(Planned[n] \ S) <= Cardinality(Planned[n] \ R)
<1>1. IsFiniteSet(Planned[n])
  BY WorkIs
<1>2. Planned[n] \ R \in SUBSET Planned[n]
  OBVIOUS
<1>3. IsFiniteSet(Planned[n] \ R)
  BY <1>1, <1>2, FS_Subset
<1>4. ASSUME NEW S, R \subseteq S
      PROVE  Cardinality(Planned[n] \ S) <= Cardinality(Planned[n] \ R)
  <2>1. Planned[n] \ S \in SUBSET (Planned[n] \ R)
    BY <1>4
  <2>2. QED BY <1>3, <2>1, FS_Subset
<1>5. Cardinality(Planned[n] \ R) \in Nat
  BY <1>3, FS_CardinalityType
<1>6. QED BY <1>3, <1>4, <1>5

\* Nothing is missing when the count of the missing is zero.
LEMMA NothingMissing ==
  ASSUME NEW n \in SessionRuns, Session(n)!Limits, Session(n)!WorkInv, x16 = 0
  PROVE  x4 = Planned[n]
<1>1. x4 \subseteq Planned[n] /\ Cardinality(Planned[n] \ x4) <= 0
  BY WorkIs
<1>2. IsFiniteSet(Planned[n] \ x4) /\ Cardinality(Planned[n] \ x4) \in Nat
  BY MissingCounts
<1>3. Planned[n] \ x4 = {}
  BY <1>1, <1>2, FS_EmptySet
<1>4. QED BY <1>1, <1>3

\* A step that touches neither the work nor its accounts, and does not end well.
LEMMA OtherTurn ==
  ASSUME NEW n \in SessionRuns, Session(n)!IInv,
         UNCHANGED <<x4, x5, x16, x21>>, x1' # "done" \/ x26' # "none"
  PROVE  Session(n)!IInv'
BY WorkIs DEF Session!IInv, Session!OkIsWhole, Session!Ok, Session!Done

\* A call of a batch: what it writes is on disk, and what the loop counts is no less.
LEMMA CallStep ==
  ASSUME NEW n \in SessionRuns, Session(n)!Limits, Session(n)!IInv,
         Session(n)!Write \/ Session(n)!Breaks
  PROVE  Session(n)!IInv'
<1> USE DEF Session!Calling
<1>1. /\ x4 \subseteq Planned[n] /\ x16 \in Nat /\ Cardinality(Planned[n] \ x4) <= x16
      /\ x21 \in [Scans[n] -> 0 .. Second]
  BY WorkIs DEF Session!IInv
<1>2. /\ x4' \subseteq Planned[n] /\ x5' \subseteq Scans[n] /\ x16' \in Nat
      /\ Cardinality(Planned[n] \ x4') <= x16' /\ x21' = x21 /\ x1' = "tools"
  <2>1. CASE Session(n)!Write
    <3>1. PICK S \in SUBSET Session(n)!Path : Session(n)!Writes(S)
      BY <2>1 DEF Session!Write
    <3>2. /\ x4' = x4 \cup (S \cap Planned[n]) /\ x5' \subseteq Scans[n]
          /\ x16' = Cardinality(Planned[n] \ (x4 \cup S))
          /\ x1' = "tools" /\ x21' = x21
      BY <3>1, SameSets DEF Session!Writes, Session!Landed
    <3>3. Planned[n] \ x4' = Planned[n] \ (x4 \cup S)
      BY <3>2
    <3>4. Cardinality(Planned[n] \ x4') \in Nat
      BY MissingCounts
    <3>5. QED BY <1>1, <3>2, <3>3, <3>4
  <2>2. CASE Session(n)!Breaks
    <3>1. PICK p \in Session(n)!Path : x4' = x4 \cup ({p} \cap Planned[n])
      BY <2>2 DEF Session!Breaks
    <3>2. x5' \subseteq Scans[n] /\ x16' = x16 /\ x1' = "tools" /\ x21' = x21
      BY <2>2 DEF Session!Breaks, Session!nudges
    <3>3. /\ Cardinality(Planned[n] \ x4') <= Cardinality(Planned[n] \ x4)
          /\ Cardinality(Planned[n] \ x4') \in Nat /\ Cardinality(Planned[n] \ x4) \in Nat
      BY <3>1, MissingCounts
    <3>4. QED BY <1>1, <3>1, <3>2, <3>3
  <2>3. QED BY <2>1, <2>2
<1>3. QED BY <1>1, <1>2, WorkIs DEF Session!IInv, Session!OkIsWhole, Session!Ok, Session!Done

\* The two actions that can end a session well, and deny it.
LEMMA EndStep ==
  ASSUME NEW n \in SessionRuns, Session(n)!Limits, Session(n)!IInv,
         Session(n)!PlanComplete \/ Session(n)!Finish
  PROVE  Session(n)!IInv'
<1>1. x4' = x4 /\ x5' = x5 /\ x16' = x16
  BY DEF Session!PlanComplete, Session!Finish, Session!work, Session!guards
<1>2. /\ x5 \subseteq Scans[n] /\ x21 \in [Scans[n] -> 0 .. Second] /\ x16 \in Nat
      /\ Scans[n] \subseteq {"stub", "defect"} /\ Second \in Nat
  BY WorkIs DEF Session!IInv
<1>3. CASE Session(n)!Deny /\ Session(n)!Unfit # {}
  <2>1. PICK c \in Scans[n] : x21[c] < Second /\ x21' = [x21 EXCEPT ![c] = @ + 1]
    BY <1>2, <1>3 DEF Session!Deny, Session!Unfit
  <2>2. x21[c] + 1 \in 0 .. Second
    BY <1>2, <2>1
  <2>3. x21' \in [Scans[n] -> 0 .. Second]
    BY <1>2, <2>1, <2>2
  <2>4. x1' = "ask"
    BY <1>3 DEF Session!Deny
  <2>5. QED
    BY <1>1, <2>3, <2>4, WorkIs DEF Session!IInv, Session!OkIsWhole, Session!Ok, Session!Done
<1>4. CASE x21' = x21 /\ (x1' # "done" \/ x26' # "none")
  BY <1>1, <1>4, OtherTurn
<1>5. CASE x21' = x21 /\ x16 = 0 /\ Session(n)!Unfit = {}
  <2>1. x4 = Planned[n]
    BY <1>5, NothingMissing DEF Session!IInv
  <2>2. \A c \in x5 : x21[c] = Second
    BY <1>2, <1>5 DEF Session!Unfit
  <2>3. QED BY <1>1, <1>5, <2>1, <2>2, WorkIs DEF Session!IInv, Session!OkIsWhole
<1>6. CASE Session(n)!PlanComplete
  BY <1>3, <1>4, <1>5, <1>6 DEF Session!PlanComplete, Session!Covered
<1>7. x16 = 0 \/ x16 > 0
  BY <1>2
<1>8. CASE Session(n)!Finish
  BY <1>3, <1>4, <1>5, <1>7, <1>8 DEF Session!Finish, Session!Abort
<1>9. QED BY <1>6, <1>8

LEMMA SessionInit ==
  ASSUME NEW n \in SessionRuns, Session(n)!Limits, Session(n)!Init PROVE Session(n)!IInv
<1>1. Cardinality(Planned[n] \ x4) \in Nat
  BY MissingCounts
<1>2. Second \in Nat
  BY WorkIs
<1>3. x16 = Cardinality(Planned[n] \ x4)
  BY SameSets DEF Session!Init, Session!Missing
<1>4. /\ x1 = "ask" /\ x4 \subseteq Planned[n] /\ x5 \subseteq Scans[n]
      /\ x21 = [c \in Scans[n] |-> 0]
  BY DEF Session!Init
<1>5. x21 \in [Scans[n] -> 0 .. Second]
  BY <1>2, <1>4
<1>6. x16 \in Nat /\ Cardinality(Planned[n] \ x4) <= x16
  BY <1>1, <1>3
<1>7. Session(n)!WorkInv
  BY <1>4, <1>5, <1>6, WorkIs
<1>8. QED
  BY <1>4, <1>7 DEF Session!IInv, Session!OkIsWhole, Session!Ok, Session!Done

LEMMA SessionStep ==
  ASSUME NEW n \in SessionRuns, Session(n)!Limits, Session(n)!IInv,
         [Session(n)!Next]_(Session(n)!vars)
  PROVE  Session(n)!IInv'
<1> USE DEF Session!work, Session!guards, Session!nudges, Session!faults, Session!routing,
            Session!Answered, Session!Abort
<1>1. CASE Session(n)!TimeUp \/ Session(n)!Fails
  BY <1>1, OtherTurn DEF Session!TimeUp, Session!Fails
<1>2. CASE Session(n)!Stalls \/ Session(n)!Doom
  BY <1>2, OtherTurn DEF Session!Stalls, Session!Doom, Session!Switch
<1>3. CASE Session(n)!Truncated \/ Session(n)!Rejected
  BY <1>3, OtherTurn DEF Session!Truncated, Session!Rejected
<1>4. CASE Session(n)!Batch \/ Session(n)!Text \/ Session(n)!Silence
  BY <1>4, OtherTurn DEF Session!Batch, Session!Text, Session!Silence
<1>5. CASE Session(n)!FinishCall \/ Session(n)!Look
  BY <1>5, OtherTurn DEF Session!FinishCall, Session!Look, Session!Calling
<1>6. CASE Session(n)!Write \/ Session(n)!Breaks
  BY <1>6, CallStep
<1>7. CASE Session(n)!Settle
  BY <1>7, OtherTurn DEF Session!Settle
<1>8. CASE Session(n)!PathChurn
  BY <1>8, OtherTurn DEF Session!PathChurn
<1>9. CASE Session(n)!Auxiliary \/ Session(n)!Stagnation
  BY <1>9, OtherTurn DEF Session!Auxiliary, Session!Stagnation
<1>10. CASE Session(n)!PlanComplete \/ Session(n)!Finish
  BY <1>10, EndStep
<1>11. CASE Session(n)!GoOn
  BY <1>11, OtherTurn DEF Session!GoOn
<1>12. CASE UNCHANGED Session(n)!vars
  BY <1>12, WorkIs DEF Session!vars, Session!IInv, Session!OkIsWhole, Session!Ok, Session!Done
<1>13. QED
  BY <1>1, <1>2, <1>3, <1>4, <1>5, <1>6, <1>7, <1>8, <1>9, <1>10, <1>11, <1>12 DEF Session!Next

-----------------------------------------------------------------------------
(* The tasks of a worktree (CodeAgent).                                    *)

\* The worktrees of the parts tasks and retries.
TreeRuns == 1 .. 2

\* Three tasks of a worktree, one of them a slice; then two whose sessions may be tried
\* again.
Worktree(n) == INSTANCE CodeAgent WITH
  Tasks <- Tasks[n], Owned <- OwnedFiles, Planned <- Delivered, Floor <- Floor,
  Trivial <- Trivial, MaxRetries <- MaxRetries[n], MaxWrites <- MaxWrites,
  at <- x1, entry <- x2, mine <- x3, holder <- x4, tree <- x5, was <- x6,
  attempt <- x7, writes <- x8, degraded <- x9

\* The operators of FiniteSets are the same in every instance.
LEMMA SameNumbers ==
  ASSUME NEW n \in TreeRuns
  PROVE  /\ \A S : Worktree(n)!IsFiniteSet(S) = IsFiniteSet(S)
         /\ \A S : Worktree(n)!Cardinality(S) = Cardinality(S)
BY DEF Worktree!IsFiniteSet, IsFiniteSet, Worktree!Cardinality, Cardinality

\* There is an entry for every task.
LEMMA Room ==
  ASSUME NEW n \in TreeRuns, Worktree(n)!Deliverables
  PROVE  /\ Worktree(n)!Cardinality(Tasks[n]) \in Nat
         /\ \A r \in Tasks[n] : \A S \in SUBSET (Tasks[n] \ {r}) :
              1 + Worktree(n)!Cardinality(S) \in 1 .. Worktree(n)!Cardinality(Tasks[n])
<1>1. IsFiniteSet(Tasks[n])
  BY SameNumbers DEF Worktree!Deliverables
<1>2. Cardinality(Tasks[n]) \in Nat
  BY <1>1, FS_CardinalityType
<1>3. ASSUME NEW r \in Tasks[n], NEW S \in SUBSET (Tasks[n] \ {r})
      PROVE  1 + Cardinality(S) \in 1 .. Cardinality(Tasks[n])
  <2>1. IsFiniteSet(Tasks[n] \ {r}) /\ Cardinality(Tasks[n] \ {r}) = Cardinality(Tasks[n]) - 1
    BY <1>1, FS_RemoveElement
  <2>2. IsFiniteSet(S) /\ Cardinality(S) <= Cardinality(Tasks[n] \ {r})
    BY <2>1, FS_Subset
  <2>3. Cardinality(S) \in Nat
    BY <2>2, FS_CardinalityType
  <2>4. QED BY <1>2, <2>1, <2>2, <2>3
<1>4. QED BY <1>2, <1>3, SameNumbers

\* The tree as the task brings it back after a session.
LEMMA CleanedFacts ==
  ASSUME NEW n \in TreeRuns, Worktree(n)!Deliverables, Worktree(n)!TypeOK,
         NEW r \in Tasks[n], x6[r]["contract"] = "old", NEW t, t = Worktree(n)!Cleaned(r, x5)
  PROVE  /\ t \in [Worktree(n)!File -> Worktree(n)!Content]
         /\ t["contract"] = x6[r]["contract"]
         /\ \A f \in Worktree(n)!Task(r) :
              t[f] = "prose" => r \notin Worktree(n)!Sliced /\ f \in Floor
         /\ r \in Worktree(n)!Sliced =>
              \A f \in Worktree(n)!File \ Worktree(n)!Task(r) : t[f] = x6[r][f]
<1> DEFINE c == [x5 EXCEPT !["contract"] = x6[r]["contract"]]
<1> USE DEF Worktree!File, Worktree!Content
<1>1. /\ x5 \in [Worktree(n)!File -> Worktree(n)!Content]
      /\ x6[r] \in [Worktree(n)!File -> Worktree(n)!Content]
  BY DEF Worktree!TypeOK
<1>2. c \in [Worktree(n)!File -> Worktree(n)!Content] /\ c["contract"] = x6[r]["contract"]
  BY <1>1
<1>3. /\ Floor \subseteq Delivered /\ Trivial \subseteq Delivered
      /\ "contract" \notin Delivered /\ "asset" \notin Delivered /\ "stray" \notin Delivered
      /\ Worktree(n)!Task(r) \subseteq Delivered
  BY DEF Worktree!Deliverables, Worktree!Task, Worktree!Sliced
<1>4. CASE r \in Worktree(n)!Sliced
  <2>1. t = [f \in Worktree(n)!File |->
               IF f \notin Worktree(n)!Task(r) THEN x6[r][f]
               ELSE IF c[f] = "prose" THEN "absent" ELSE c[f]]
    BY <1>4 DEF Worktree!Cleaned, Worktree!Slice, Worktree!Contracts
  <2> HIDE DEF c
  <2>2. QED BY <1>1, <1>2, <1>3, <1>4, <2>1
<1>5. CASE r \notin Worktree(n)!Sliced
  <2> DEFINE v(f) ==
               CASE f = "asset" /\ x6[r][f] # "absent" -> x6[r][f]
                 [] f = "stray" /\ x6[r][f] = "absent" -> "absent"
                 [] f \in Trivial /\ c[f] = "absent" -> "code"
                 [] c[f] = "prose" /\ f \notin Floor /\ f # "asset" ->
                      IF f \in Trivial THEN "code" ELSE "absent"
                 [] OTHER -> c[f]
  <2>1. t = [f \in Worktree(n)!File |-> v(f)]
    BY <1>5 DEF Worktree!Cleaned, Worktree!Whole, Worktree!Contracts
  <2> HIDE DEF c
  <2>2. \A f \in Worktree(n)!File : t[f] = v(f)
    BY <2>1
  <2>3. ASSUME NEW f \in Worktree(n)!File
        PROVE  /\ t[f] \in Worktree(n)!Content
               /\ f = "contract" => t[f] = c[f]
               /\ f \in Worktree(n)!Task(r) => (t[f] = "prose" => f \in Floor)
    <3>1. /\ c[f] \in {"old", "code", "prose", "absent"} /\ x6[r][f] \in {"old", "code", "prose", "absent"}
          /\ c["contract"] = "old"
      BY <1>1, <1>2
    <3>2. \/ f = "asset" /\ t[f] = x6[r][f]
          \/ f = "stray" /\ t[f] = "absent"
          \/ f \in Trivial /\ t[f] = "code"
          \/ c[f] = "prose" /\ t[f] \in {"code", "absent"}
          \/ t[f] = c[f] /\ (c[f] = "prose" => f \in Floor \/ f = "asset")
      BY <2>2
    <3>3. QED BY <1>3, <3>1, <3>2
  <2>4. t \in [Worktree(n)!File -> Worktree(n)!Content]
    <3> HIDE DEF v
    <3>1. t = [f \in Worktree(n)!File |-> v(f)] /\ \A f \in Worktree(n)!File : v(f) \in Worktree(n)!Content
      BY <2>1, <2>2, <2>3
    <3>2. QED BY <3>1
  <2>5. QED BY <1>2, <1>3, <1>5, <2>3, <2>4
<1>6. QED BY <1>4, <1>5

\* The entry a task uses is one of those there can be.
LEMMA EntryExists ==
  ASSUME NEW n \in TreeRuns, Worktree(n)!Deliverables, Worktree(n)!TypeOK,
         NEW r \in Tasks[n], x3[r] # 0
  PROVE  x3[r] \in DOMAIN x4
<1>1. /\ x3[r] \in 0 .. Worktree(n)!Cardinality(Tasks[n])
      /\ DOMAIN x4 = 1 .. Worktree(n)!Cardinality(Tasks[n])
  BY DEF Worktree!TypeOK
<1>2. Worktree(n)!Cardinality(Tasks[n]) \in Nat
  BY Room
<1>3. QED BY <1>1, <1>2

\* Tasks that are at work hold the lock of one entry: there is one of them.
LEMMA Alone ==
  ASSUME NEW n \in TreeRuns, Worktree(n)!LockInv, NEW r \in Tasks[n], NEW s \in Tasks[n],
         x1[r] \in Worktree(n)!Active, x1[s] \in Worktree(n)!Active
  PROVE  r = s
BY DEF Worktree!LockInv, Worktree!Active

LEMMA LockIsFree ==
  ASSUME NEW n \in TreeRuns, Worktree(n)!LockInv, Worktree(n)!Deliverables,
         NEW r \in Tasks[n], x1[r] = "waiting", x4[x3[r]] = "nobody", NEW s \in Tasks[n]
  PROVE  x1[s] \notin Worktree(n)!Active
BY DEF Worktree!LockInv, Worktree!Active, Worktree!Deliverables

\* A task at work goes on: it keeps its lock.
LEMMA WorkKeepsLock ==
  ASSUME NEW n \in TreeRuns, Worktree(n)!TypeOK, Worktree(n)!LockInv, NEW r \in Tasks[n],
         x1[r] \in Worktree(n)!Active, UNCHANGED <<x2, x3, x4>>,
         NEW a \in Worktree(n)!Active, x1' = [x1 EXCEPT ![r] = a]
  PROVE  Worktree(n)!LockInv'
<1>1. /\ x1' \in [Tasks[n] -> {"new", "waiting", "session", "writing", "done", "broken", "gone"}]
      /\ x1'[r] \in Worktree(n)!Active /\ \A s \in Tasks[n] : s # r => x1'[s] = x1[s]
  BY DEF Worktree!TypeOK, Worktree!Active
<1>2. \A s \in Tasks[n] : /\ x1'[s] \in Worktree(n)!Active <=> x1[s] \in Worktree(n)!Active
                          /\ x1'[s] \in {"new", "gone"} <=> x1[s] \in {"new", "gone"}
  BY <1>1 DEF Worktree!Active
<1>3. \A e \in DOMAIN x4 : x4[e] # "nobody" => x4[e] \in Tasks[n]
  BY DEF Worktree!TypeOK
<1>4. QED BY <1>2, <1>3 DEF Worktree!LockInv

LEMMA EnterStep ==
  ASSUME NEW n \in TreeRuns, Worktree(n)!Deliverables, Worktree(n)!IInv,
         NEW r \in Tasks[n], Worktree(n)!Enter(r)
  PROVE  Worktree(n)!IInv'
<1> DEFINE fresh == 1 + Worktree(n)!Cardinality({s \in Tasks[n] : x1[s] # "new"})
           joined == IF x2 = 0 THEN fresh ELSE x2
           N == Worktree(n)!Cardinality(Tasks[n])
<1>1. /\ x1[r] = "new" /\ x1' = [x1 EXCEPT ![r] = "waiting"]
      /\ x2' = joined /\ x3' = [x3 EXCEPT ![r] = joined]
      /\ UNCHANGED <<x4, x5, x6, x7, x8, x9>>
  BY DEF Worktree!Enter
<1>2. N \in Nat /\ fresh \in 1 .. N
  <2>1. {s \in Tasks[n] : x1[s] # "new"} \in SUBSET (Tasks[n] \ {r})
    BY <1>1
  <2>2. QED BY <2>1, Room
<1>3. /\ x1 \in [Tasks[n] -> {"new", "waiting", "session", "writing", "done", "broken", "gone"}]
      /\ x2 \in 0 .. N /\ x3 \in [Tasks[n] -> 0 .. N]
      /\ x4 \in [1 .. N -> Tasks[n] \cup {"nobody"}]
  BY DEF Worktree!IInv, Worktree!TypeOK
<1> HIDE DEF fresh, N
<1>4. joined \in 1 .. N
  BY <1>2, <1>3
<1>5. /\ x3[r] = 0 /\ (\A s \in Tasks[n] : x3[s] # 0 => x3[s] = x2)
      /\ \A e \in DOMAIN x4 : x4[e] # "nobody" => x3[x4[e]] = e /\ x4[e] # r /\ x4[e] \in Tasks[n]
  BY <1>1, <1>3 DEF Worktree!IInv, Worktree!LockInv, Worktree!Active
<1>6. \A s \in Tasks[n] : x3[s] # 0 => x3[s] = joined
  BY <1>3, <1>4, <1>5
<1> HIDE DEF joined
<1>7. /\ x1'[r] = "waiting" /\ \A s \in Tasks[n] : s # r => x1'[s] = x1[s]
      /\ x3'[r] = joined /\ \A s \in Tasks[n] : s # r => x3'[s] = x3[s]
  BY <1>1, <1>3
<1>8. Worktree(n)!TypeOK'
  <2>1. /\ x1' \in [Tasks[n] -> {"new", "waiting", "session", "writing", "done", "broken", "gone"}]
        /\ x2' \in 0 .. N /\ x3' \in [Tasks[n] -> 0 .. N]
    BY <1>1, <1>2, <1>3, <1>4
  <2>2. QED BY <1>1, <2>1 DEF Worktree!IInv, Worktree!TypeOK, N
<1>9. Worktree(n)!LockInv'
  <2>1. \A s \in Tasks[n] : IF x1'[s] \in {"new", "gone"} THEN x3'[s] = 0
                            ELSE x3'[s] # 0 /\ x3'[s] = x2'
    BY <1>1, <1>4, <1>6, <1>7 DEF Worktree!IInv, Worktree!LockInv
  <2>2. \A s \in Tasks[n] : x1'[s] \in Worktree(n)!Active => x4'[x3'[s]] = s
    BY <1>1, <1>7 DEF Worktree!IInv, Worktree!LockInv, Worktree!Active
  <2>3. \A e \in DOMAIN x4' : x4'[e] # "nobody" =>
          x1'[x4'[e]] \in Worktree(n)!Active /\ x3'[x4'[e]] = e
    BY <1>1, <1>5, <1>7 DEF Worktree!IInv, Worktree!LockInv
  <2>4. QED BY <1>1, <1>7, <2>1, <2>2, <2>3 DEF Worktree!LockInv
<1>10. /\ Worktree(n)!FoundInv' /\ Worktree(n)!WritingInv'
       /\ Worktree(n)!ContractsStand' /\ Worktree(n)!ReportIsTrue'
  BY <1>1, <1>7 DEF Worktree!IInv, Worktree!FoundInv, Worktree!WritingInv,
     Worktree!ContractsStand, Worktree!ReportIsTrue
<1>11. QED BY <1>8, <1>9, <1>10 DEF Worktree!IInv

LEMMA AcquireStep ==
  ASSUME NEW n \in TreeRuns, Worktree(n)!Deliverables, Worktree(n)!IInv,
         NEW r \in Tasks[n], Worktree(n)!Acquire(r)
  PROVE  Worktree(n)!IInv'
<1> USE DEF Worktree!IInv
<1>1. /\ x1[r] = "waiting" /\ x1' = [x1 EXCEPT ![r] = "session"]
      /\ x4[x3[r]] = "nobody" /\ x4' = [x4 EXCEPT ![x3[r]] = r]
      /\ x6' = [x6 EXCEPT ![r] = x5] /\ x7' = 0 /\ x8' = 0
      /\ UNCHANGED <<x2, x3, x5, x9>>
  BY DEF Worktree!Acquire
<1>2. \A s \in Tasks[n] : x1[s] \notin Worktree(n)!Active
  BY <1>1, LockIsFree
<1>3. Worktree(n)!TypeOK'
  <2>1. /\ x1' \in [Tasks[n] -> {"new", "waiting", "session", "writing", "done", "broken", "gone"}]
        /\ x4' \in [1 .. Worktree(n)!Cardinality(Tasks[n]) -> Tasks[n] \cup {"nobody"}]
        /\ x6' \in [Tasks[n] -> [Worktree(n)!File -> Worktree(n)!Content]]
    BY <1>1 DEF Worktree!TypeOK
  <2>2. x7' \in 0 .. MaxRetries[n] /\ x8' \in 0 .. MaxWrites
    BY <1>1 DEF Worktree!Deliverables
  <2>3. QED BY <1>1, <2>1, <2>2 DEF Worktree!TypeOK
<1>4. x1'[r] = "session" /\ \A s \in Tasks[n] : s # r => x1'[s] = x1[s]
  BY <1>1 DEF Worktree!TypeOK
<1>5. x3[r] \in DOMAIN x4 /\ x4'[x3[r]] = r /\ \A e \in DOMAIN x4 : e # x3[r] => x4'[e] = x4[e]
  <2>1. x3[r] # 0
    BY <1>1 DEF Worktree!LockInv
  <2>2. x3[r] \in DOMAIN x4
    BY <2>1, EntryExists
  <2>3. QED BY <1>1, <2>2 DEF Worktree!TypeOK
<1>6. Worktree(n)!LockInv'
  <2>1. \A s \in Tasks[n] : IF x1'[s] \in {"new", "gone"} THEN x3'[s] = 0
                            ELSE x3'[s] # 0 /\ x3'[s] = x2'
    BY <1>1, <1>4 DEF Worktree!LockInv
  <2>2. \A s \in Tasks[n] : x1'[s] \in Worktree(n)!Active => x4'[x3'[s]] = s
    BY <1>1, <1>2, <1>4, <1>5
  <2>3. \A e \in DOMAIN x4' : x4'[e] # "nobody" =>
          x1'[x4'[e]] \in Worktree(n)!Active /\ x3'[x4'[e]] = e
    <3>1. \A e \in DOMAIN x4 : x4[e] = "nobody"
      BY <1>2 DEF Worktree!LockInv, Worktree!TypeOK
    <3>2. QED BY <1>1, <1>4, <1>5, <3>1 DEF Worktree!Active
  <2>4. QED BY <1>1, <2>1, <2>2, <2>3 DEF Worktree!LockInv
<1>7. x5["contract"] = "old"
  BY <1>2 DEF Worktree!ContractsStand, Worktree!Active
<1>8. x6'[r] = x5
  BY <1>1 DEF Worktree!TypeOK
<1>9. Worktree(n)!FoundInv'
  BY <1>1, <1>2, <1>4, <1>7, <1>8 DEF Worktree!FoundInv, Worktree!Active
<1>10. /\ Worktree(n)!WritingInv' /\ Worktree(n)!ContractsStand' /\ Worktree(n)!ReportIsTrue'
  BY <1>2, <1>4 DEF Worktree!WritingInv, Worktree!ContractsStand, Worktree!ReportIsTrue,
     Worktree!Active
<1>11. QED BY <1>3, <1>6, <1>9, <1>10

LEMMA LeaveStep ==
  ASSUME NEW n \in TreeRuns, Worktree(n)!Deliverables, Worktree(n)!IInv,
         NEW r \in Tasks[n], Worktree(n)!Leave(r)
  PROVE  Worktree(n)!IInv'
<1> USE DEF Worktree!IInv
<1>1. /\ x1[r] \in {"waiting", "done", "broken"} /\ x1' = [x1 EXCEPT ![r] = "gone"]
      /\ x3' = [x3 EXCEPT ![r] = 0]
      /\ x4' = [e \in DOMAIN x4 |-> IF x4[e] = r THEN "nobody" ELSE x4[e]]
      /\ x2' = IF {s \in Tasks[n] : x3[s] = x3[r]} = {r} /\ x2 = x3[r] THEN 0 ELSE x2
      /\ x9' = [x9 EXCEPT ![r] = FALSE]
      /\ x6' = [x6 EXCEPT ![r] = Worktree(n)!Unseen] /\ UNCHANGED <<x5, x7, x8>>
  BY DEF Worktree!Leave, Worktree!Depart, Worktree!Users
<1>2. Worktree(n)!Unseen \in [Worktree(n)!File -> Worktree(n)!Content]
  BY DEF Worktree!Unseen, Worktree!Content
<1>3. /\ x1'[r] = "gone" /\ \A s \in Tasks[n] : s # r => x1'[s] = x1[s]
      /\ x3'[r] = 0 /\ \A s \in Tasks[n] : s # r => x3'[s] = x3[s]
      /\ \A s \in Tasks[n] : s # r => x6'[s] = x6[s] /\ x9'[s] = x9[s]
  BY <1>1 DEF Worktree!TypeOK
<1>4. /\ DOMAIN x4' = DOMAIN x4 /\ "nobody" \notin Tasks[n]
      /\ \A e \in DOMAIN x4 : IF x4[e] = r THEN x4'[e] = "nobody" ELSE x4'[e] = x4[e]
      /\ \A e \in DOMAIN x4 : x4[e] # "nobody" => x4[e] \in Tasks[n]
  BY <1>1 DEF Worktree!TypeOK, Worktree!Deliverables
<1>5. Worktree(n)!TypeOK'
  <2>1. x2' \in 0 .. Worktree(n)!Cardinality(Tasks[n])
    BY <1>1, Room DEF Worktree!TypeOK
  <2>2. x3' \in [Tasks[n] -> 0 .. Worktree(n)!Cardinality(Tasks[n])]
    BY <1>1, Room DEF Worktree!TypeOK
  <2>3. /\ x1' \in [Tasks[n] -> {"new", "waiting", "session", "writing", "done", "broken", "gone"}]
        /\ x9' \in [Tasks[n] -> BOOLEAN]
    BY <1>1 DEF Worktree!TypeOK
  <2>4. x4' \in [1 .. Worktree(n)!Cardinality(Tasks[n]) -> Tasks[n] \cup {"nobody"}]
    BY <1>1 DEF Worktree!TypeOK
  <2>5. x6' \in [Tasks[n] -> [Worktree(n)!File -> Worktree(n)!Content]]
    BY <1>1, <1>2 DEF Worktree!TypeOK
  <2>6. QED BY <1>1, <2>1, <2>2, <2>3, <2>4, <2>5 DEF Worktree!TypeOK
<1>6. Worktree(n)!LockInv'
  <2>1. x3[r] # 0 /\ x3[r] = x2
    BY <1>1 DEF Worktree!LockInv
  <2>2. \A s \in Tasks[n] : x3[s] # 0 => x3[s] = x2
    BY DEF Worktree!LockInv
  <2>3. \A s \in Tasks[n] : s # r /\ x3[s] # 0 => x2' = x2
    BY <1>1, <2>1, <2>2
  <2>4. \A s \in Tasks[n] : IF x1'[s] \in {"new", "gone"} THEN x3'[s] = 0
                            ELSE x3'[s] # 0 /\ x3'[s] = x2'
    BY <1>3, <2>3 DEF Worktree!LockInv
  <2>5. \A s \in Tasks[n] : x1'[s] \in Worktree(n)!Active => x4'[x3'[s]] = s
    <3> SUFFICES ASSUME NEW s \in Tasks[n], x1'[s] \in Worktree(n)!Active
                 PROVE  x4'[x3'[s]] = s
      OBVIOUS
    <3>1. s # r /\ x1[s] = x1'[s] /\ x3'[s] = x3[s] /\ x4[x3[s]] = s
      BY <1>3 DEF Worktree!LockInv, Worktree!Active
    <3>2. x3[s] \in DOMAIN x4
      BY <3>1, EntryExists DEF Worktree!LockInv, Worktree!Active
    <3>3. x4[x3[s]] # r
      BY <3>1
    <3> DEFINE e == x3[s]
    <3>4. e \in DOMAIN x4 /\ x4[e] # r
      BY <3>2, <3>3
    <3> HIDE DEF e
    <3>5. x4'[e] = x4[e]
      BY <1>4, <3>4
    <3>6. QED BY <3>1, <3>5 DEF e
  <2>6. \A e \in DOMAIN x4' : x4'[e] # "nobody" =>
          x1'[x4'[e]] \in Worktree(n)!Active /\ x3'[x4'[e]] = e
    BY <1>3, <1>4 DEF Worktree!LockInv
  <2>7. x2' # 0 => \E s \in Tasks[n] : x3'[s] = x2'
    <3> SUFFICES ASSUME x2' # 0
                 PROVE  \E s \in Tasks[n] : x3'[s] = x2'
      OBVIOUS
    <3>1. x2' = x2 /\ {s \in Tasks[n] : x3[s] = x3[r]} # {r}
      BY <1>1, <2>1
    <3>2. PICK s \in Tasks[n] : s # r /\ x3[s] = x3[r]
      BY <3>1
    <3>3. QED BY <1>3, <2>1, <3>1, <3>2
  <2>8. QED BY <2>4, <2>5, <2>6, <2>7 DEF Worktree!LockInv
<1>7. Worktree(n)!FoundInv'
  BY <1>1, <1>3 DEF Worktree!FoundInv
<1>8. Worktree(n)!WritingInv' /\ Worktree(n)!ReportIsTrue'
  BY <1>1, <1>3 DEF Worktree!WritingInv, Worktree!ReportIsTrue
<1>9. Worktree(n)!ContractsStand'
  BY <1>1, <1>3 DEF Worktree!ContractsStand
<1>10. QED BY <1>5, <1>6, <1>7, <1>8, <1>9

\* What a task at work may leave: nobody else is at work, so only its own promises count.
LEMMA WorkStep ==
  ASSUME NEW n \in TreeRuns, Worktree(n)!Deliverables, Worktree(n)!IInv, NEW r \in Tasks[n],
         x1[r] \in {"session", "writing"}, UNCHANGED <<x2, x3, x4, x6>>,
         NEW a \in Worktree(n)!Active, x1' = [x1 EXCEPT ![r] = a],
         x5' \in [Worktree(n)!File -> Worktree(n)!Content],
         x7' \in 0 .. MaxRetries[n], x8' \in 0 .. MaxWrites,
         x9' \in [Tasks[n] -> BOOLEAN],
         a # "session" => x5'["contract"] = "old",
         a = "session" /\ x7' = 0 /\ x8' = 0 => x5' = x6[r],
         a \in {"writing", "done"} /\ ~x9'[r] =>
           \A f \in Worktree(n)!Task(r) :
             /\ x5'[f] # "absent"
             /\ x5'[f] = "prose" =>
                  a = "writing" /\ r \notin Worktree(n)!Sliced /\ f \in Floor,
         a \in {"writing", "done"} /\ r \in Worktree(n)!Sliced =>
           \A f \in Worktree(n)!File \ Worktree(n)!Task(r) : x5'[f] = x6[r][f]
  PROVE  Worktree(n)!IInv'
<1> USE DEF Worktree!IInv
<1>1. x1[r] \in Worktree(n)!Active
  BY DEF Worktree!Active
<1>2. Worktree(n)!TypeOK'
  BY DEF Worktree!TypeOK, Worktree!Active
<1>3. Worktree(n)!LockInv'
  BY <1>1, WorkKeepsLock
<1>4. /\ x1'[r] = a
      /\ \A s \in Tasks[n] : s # r => x1'[s] = x1[s] /\ x1[s] \notin Worktree(n)!Active
  BY <1>1, Alone DEF Worktree!TypeOK
<1>5. x6[r]["contract"] = "old"
  BY DEF Worktree!FoundInv
<1>6. Worktree(n)!FoundInv'
  BY <1>4, <1>5 DEF Worktree!FoundInv, Worktree!Active
<1>7. Worktree(n)!WritingInv' /\ Worktree(n)!ReportIsTrue'
  BY <1>4 DEF Worktree!WritingInv, Worktree!ReportIsTrue, Worktree!Active
<1>8. Worktree(n)!ContractsStand'
  BY <1>4 DEF Worktree!ContractsStand
<1>9. QED BY <1>2, <1>3, <1>6, <1>7, <1>8

LEMMA WriteStep ==
  ASSUME NEW n \in TreeRuns, Worktree(n)!Deliverables, Worktree(n)!IInv,
         NEW r \in Tasks[n], Worktree(n)!Write(r) \/ Worktree(n)!Break(r)
  PROVE  Worktree(n)!IInv'
<1>1. x5 \in [Worktree(n)!File -> Worktree(n)!Content] /\ "contract" \in Worktree(n)!File
      /\ x7 \in 0 .. MaxRetries[n] /\ x8 \in 0 .. MaxWrites /\ x9 \in [Tasks[n] -> BOOLEAN]
      /\ x1 \in [Tasks[n] -> {"new", "waiting", "session", "writing", "done", "broken", "gone"}]
      /\ MaxWrites \in Nat
  BY DEF Worktree!IInv, Worktree!TypeOK, Worktree!File, Worktree!Deliverables
<1>2. CASE Worktree(n)!Write(r)
  <2>1. /\ x1[r] = "session" /\ x8 < MaxWrites /\ x8' = x8 + 1
        /\ UNCHANGED <<x1, x2, x3, x4, x6, x7, x9>>
    BY <1>2 DEF Worktree!Write, Worktree!locks
  <2>2. PICK f \in Worktree(n)!File, c \in {"code", "prose", "absent"} : x5' = [x5 EXCEPT ![f] = c]
    BY <1>2 DEF Worktree!Write
  <2>3. /\ x1' = [x1 EXCEPT ![r] = "session"] /\ "session" \in Worktree(n)!Active
        /\ x5' \in [Worktree(n)!File -> Worktree(n)!Content]
        /\ x8' \in 0 .. MaxWrites /\ x8' # 0
    BY <1>1, <2>1, <2>2 DEF Worktree!Active, Worktree!Content
  <2>4. QED BY <1>1, <2>1, <2>3, WorkStep
<1>3. CASE Worktree(n)!Break(r)
  <2>1. /\ x1[r] = "session" /\ x1' = [x1 EXCEPT ![r] = "broken"]
        /\ x5' = [x5 EXCEPT !["contract"] = x6[r]["contract"]]
        /\ UNCHANGED <<x2, x3, x4, x6, x7, x8, x9>>
    BY <1>3 DEF Worktree!Break, Worktree!locks, Worktree!Contracts
  <2>2. x6[r]["contract"] = "old"
    BY <2>1 DEF Worktree!IInv, Worktree!FoundInv
  <2>3. /\ "broken" \in Worktree(n)!Active /\ x5'["contract"] = "old"
        /\ x5' \in [Worktree(n)!File -> Worktree(n)!Content]
    BY <1>1, <2>1, <2>2 DEF Worktree!Active, Worktree!Content
  <2>4. QED BY <1>1, <2>1, <2>3, WorkStep
<1>4. QED BY <1>2, <1>3

LEMMA SettleStep ==
  ASSUME NEW n \in TreeRuns, Worktree(n)!Deliverables, Worktree(n)!IInv,
         NEW r \in Tasks[n], Worktree(n)!Settle(r)
  PROVE  Worktree(n)!IInv'
<1>1. /\ x7 \in 0 .. MaxRetries[n] /\ x8 \in 0 .. MaxWrites /\ x9 \in [Tasks[n] -> BOOLEAN]
      /\ x1 \in [Tasks[n] -> {"new", "waiting", "session", "writing", "done", "broken", "gone"}]
      /\ MaxWrites \in Nat /\ MaxRetries[n] \in Nat
  BY DEF Worktree!IInv, Worktree!TypeOK, Worktree!Deliverables
<1>2. /\ x1[r] = "session" /\ x5' = Worktree(n)!Cleaned(r, x5)
      /\ UNCHANGED <<x2, x3, x4, x6>>
  BY DEF Worktree!Settle, Worktree!locks
<1>3. /\ x5' \in [Worktree(n)!File -> Worktree(n)!Content]
      /\ x5'["contract"] = x6[r]["contract"]
      /\ \A f \in Worktree(n)!Task(r) :
           x5'[f] = "prose" => r \notin Worktree(n)!Sliced /\ f \in Floor
      /\ r \in Worktree(n)!Sliced =>
           \A f \in Worktree(n)!File \ Worktree(n)!Task(r) : x5'[f] = x6[r][f]
  <2>1. x6[r]["contract"] = "old"
    BY <1>2 DEF Worktree!IInv, Worktree!FoundInv
  <2>2. QED BY <1>2, <2>1, CleanedFacts DEF Worktree!IInv
<1>4. x5'["contract"] = "old"
  BY <1>2, <1>3 DEF Worktree!IInv, Worktree!FoundInv
<1>5. PICK whole \in BOOLEAN :
        /\ whole => Worktree(n)!Missing(r, x5') = {}
        /\ IF whole \/ x7 = MaxRetries[n]
           THEN /\ x1' = [x1 EXCEPT ![r] = "writing"] /\ UNCHANGED <<x7, x8>>
                /\ x9' = [x9 EXCEPT ![r] = ~whole]
           ELSE x7' = x7 + 1 /\ x8' = 0 /\ UNCHANGED <<x1, x9>>
  BY DEF Worktree!Settle
<1>6. CASE whole \/ x7 = MaxRetries[n]
  <2>1. /\ x1' = [x1 EXCEPT ![r] = "writing"] /\ UNCHANGED <<x7, x8>>
        /\ x9' = [x9 EXCEPT ![r] = ~whole] /\ "writing" \in Worktree(n)!Active
    BY <1>5, <1>6 DEF Worktree!Active
  <2>2. x9' \in [Tasks[n] -> BOOLEAN] /\ (~x9'[r] => whole)
    BY <1>1, <2>1
  <2>3. ~x9'[r] => \A f \in Worktree(n)!Task(r) : x5'[f] # "absent"
    BY <1>5, <2>2 DEF Worktree!Missing
  <2>4. QED BY <1>1, <1>2, <1>3, <1>4, <2>1, <2>2, <2>3, WorkStep
<1>7. CASE ~(whole \/ x7 = MaxRetries[n])
  <2>1. x7' = x7 + 1 /\ x8' = 0 /\ UNCHANGED <<x1, x9>>
    BY <1>5, <1>7
  <2>2. /\ x7' \in 0 .. MaxRetries[n] /\ x7' # 0 /\ x8' \in 0 .. MaxWrites
        /\ x1' = [x1 EXCEPT ![r] = "session"] /\ "session" \in Worktree(n)!Active
    BY <1>1, <1>2, <1>7, <2>1 DEF Worktree!Active
  <2>3. QED BY <1>1, <1>2, <1>3, <1>4, <2>1, <2>2, WorkStep
<1>8. QED BY <1>6, <1>7

LEMMA GenerateStep ==
  ASSUME NEW n \in TreeRuns, Worktree(n)!Deliverables, Worktree(n)!IInv,
         NEW r \in Tasks[n], Worktree(n)!Generate(r)
  PROVE  Worktree(n)!IInv'
<1>1. /\ x7 \in 0 .. MaxRetries[n] /\ x8 \in 0 .. MaxWrites /\ x9 \in [Tasks[n] -> BOOLEAN]
      /\ x5 \in [Worktree(n)!File -> Worktree(n)!Content]
  BY DEF Worktree!IInv, Worktree!TypeOK
<1>2. /\ x1[r] = "session" /\ x7 = 0 /\ x8 = 0 /\ x1' = [x1 EXCEPT ![r] = "writing"]
      /\ UNCHANGED <<x2, x3, x4, x6, x7, x8>>
  BY DEF Worktree!Generate, Worktree!locks
<1>3. x5 = x6[r] /\ x6[r]["contract"] = "old"
  BY <1>2 DEF Worktree!IInv, Worktree!FoundInv
<1>4. PICK made \in SUBSET Worktree(n)!Task(r) :
        /\ x5' = [f \in Worktree(n)!File |-> IF f \in made THEN "code" ELSE x5[f]]
        /\ x9' = [x9 EXCEPT ![r] = made # Worktree(n)!Task(r)]
  BY DEF Worktree!Generate
<1>5. /\ Worktree(n)!Task(r) \subseteq Worktree(n)!File
      /\ "contract" \in Worktree(n)!File /\ "contract" \notin Worktree(n)!Task(r)
  BY DEF Worktree!Task, Worktree!File, Worktree!Deliverables, Worktree!Sliced
<1>6. /\ x5' \in [Worktree(n)!File -> Worktree(n)!Content] /\ x5'["contract"] = "old"
      /\ x9' \in [Tasks[n] -> BOOLEAN]
      /\ ~x9'[r] => \A f \in Worktree(n)!Task(r) : x5'[f] = "code"
      /\ \A f \in Worktree(n)!File \ Worktree(n)!Task(r) : x5'[f] = x6[r][f]
  BY <1>1, <1>3, <1>4, <1>5 DEF Worktree!Content
<1>7. "writing" \in Worktree(n)!Active
  BY DEF Worktree!Active
<1>8. QED BY <1>1, <1>2, <1>6, <1>7, WorkStep

LEMMA DeliverStep ==
  ASSUME NEW n \in TreeRuns, Worktree(n)!Deliverables, Worktree(n)!IInv,
         NEW r \in Tasks[n], Worktree(n)!Deliver(r)
  PROVE  Worktree(n)!IInv'
<1> DEFINE kept == [f \in Worktree(n)!File |->
              IF r \notin Worktree(n)!Sliced /\ f \in Floor
                 /\ (x5[f] = "prose" \/ (x5[f] = "absent" /\ x9[r]))
              THEN "code" ELSE x5[f]]
<1>1. /\ x7 \in 0 .. MaxRetries[n] /\ x8 \in 0 .. MaxWrites /\ x9 \in [Tasks[n] -> BOOLEAN]
      /\ x5 \in [Worktree(n)!File -> Worktree(n)!Content]
  BY DEF Worktree!IInv, Worktree!TypeOK
<1>2. /\ x1[r] = "writing" /\ x1' = [x1 EXCEPT ![r] = "done"]
      /\ UNCHANGED <<x2, x3, x4, x6, x7, x8, x9>>
      /\ x5' = [kept EXCEPT !["contract"] = x6[r]["contract"]]
  BY DEF Worktree!Deliver, Worktree!locks, Worktree!Contracts
<1>3. x6[r]["contract"] = "old"
  BY <1>2 DEF Worktree!IInv, Worktree!FoundInv
<1>4. /\ Worktree(n)!Task(r) \subseteq Worktree(n)!File
      /\ "contract" \in Worktree(n)!File /\ "contract" \notin Worktree(n)!Task(r)
  BY DEF Worktree!Task, Worktree!File, Worktree!Deliverables, Worktree!Sliced
<1>5. /\ ~x9[r] => \A f \in Worktree(n)!Task(r) :
           x5[f] # "absent" /\ (x5[f] = "prose" => r \notin Worktree(n)!Sliced /\ f \in Floor)
      /\ r \in Worktree(n)!Sliced =>
           \A f \in Worktree(n)!File \ Worktree(n)!Task(r) : x5[f] = x6[r][f]
  BY <1>2 DEF Worktree!IInv, Worktree!WritingInv
<1>6. /\ kept \in [Worktree(n)!File -> Worktree(n)!Content]
      /\ ~x9[r] => \A f \in Worktree(n)!Task(r) : kept[f] \notin {"absent", "prose"}
      /\ r \in Worktree(n)!Sliced => kept = x5
  BY <1>1, <1>4, <1>5 DEF Worktree!Content
<1> HIDE DEF kept
<1>7. /\ x5' \in [Worktree(n)!File -> Worktree(n)!Content] /\ x5'["contract"] = "old"
      /\ ~x9[r] => \A f \in Worktree(n)!Task(r) : x5'[f] \notin {"absent", "prose"}
      /\ r \in Worktree(n)!Sliced =>
           \A f \in Worktree(n)!File \ Worktree(n)!Task(r) : x5'[f] = x6[r][f]
  BY <1>2, <1>3, <1>4, <1>5, <1>6 DEF Worktree!Content
<1>8. "done" \in Worktree(n)!Active
  BY DEF Worktree!Active
<1>9. QED BY <1>1, <1>2, <1>7, <1>8, WorkStep

LEMMA WorktreeInit ==
  ASSUME NEW n \in TreeRuns, Worktree(n)!Deliverables, Worktree(n)!Init
  PROVE  Worktree(n)!IInv
<1>1. Worktree(n)!TypeOK
  BY Room DEF Worktree!Init, Worktree!TypeOK, Worktree!Deliverables, Worktree!Content,
     Worktree!Unseen
<1>2. Worktree(n)!LockInv /\ Worktree(n)!FoundInv /\ Worktree(n)!WritingInv
  BY DEF Worktree!Init, Worktree!LockInv, Worktree!FoundInv, Worktree!WritingInv, Worktree!Active
<1>3. Worktree(n)!ContractsStand /\ Worktree(n)!ReportIsTrue
  BY DEF Worktree!Init, Worktree!ContractsStand, Worktree!ReportIsTrue, Worktree!File
<1>4. QED BY <1>1, <1>2, <1>3 DEF Worktree!IInv

LEMMA WorktreeStep ==
  ASSUME NEW n \in TreeRuns, Worktree(n)!Deliverables, Worktree(n)!IInv,
         [Worktree(n)!Next]_(Worktree(n)!vars)
  PROVE  Worktree(n)!IInv'
<1>1. ASSUME NEW r \in Tasks[n],
             Worktree(n)!Enter(r) \/ Worktree(n)!Acquire(r) \/ Worktree(n)!Leave(r)
      PROVE  Worktree(n)!IInv'
  BY <1>1, EnterStep, AcquireStep, LeaveStep
<1>2. ASSUME NEW r \in Tasks[n],
             Worktree(n)!Write(r) \/ Worktree(n)!Break(r) \/ Worktree(n)!Settle(r)
      PROVE  Worktree(n)!IInv'
  BY <1>2, WriteStep, SettleStep
<1>3. ASSUME NEW r \in Tasks[n], Worktree(n)!Generate(r) \/ Worktree(n)!Deliver(r)
      PROVE  Worktree(n)!IInv'
  BY <1>3, GenerateStep, DeliverStep
<1>4. CASE UNCHANGED Worktree(n)!vars
  BY <1>4 DEF Worktree!vars, Worktree!IInv, Worktree!TypeOK, Worktree!LockInv, Worktree!FoundInv,
     Worktree!WritingInv, Worktree!ContractsStand, Worktree!ReportIsTrue
<1>5. QED BY <1>1, <1>2, <1>3, <1>4 DEF Worktree!Next

\* One at work at most: the set of those at work has one member or none.
LEMMA OneWorks ==
  ASSUME NEW n \in TreeRuns, Worktree(n)!IInv
  PROVE  Worktree(n)!OneAtATime
<1> DEFINE working == {r \in Tasks[n] : x1[r] \in {"session", "writing", "done", "broken"}}
<1>1. \A r, s \in working : r = s
  BY Alone DEF Worktree!IInv, Worktree!Active
<1>2. Cardinality(working) <= 1
  <2>1. CASE working = {}
    BY <2>1, FS_EmptySet
  <2>2. CASE working # {}
    <3>1. PICK r \in working : working = {r}
      BY <1>1, <2>2
    <3> HIDE DEF working
    <3>2. Cardinality({r}) = 1
      BY FS_Singleton
    <3>3. QED BY <3>1, <3>2
  <2>3. QED BY <2>1, <2>2
<1>3. QED BY <1>2, SameNumbers DEF Worktree!OneAtATime

-----------------------------------------------------------------------------
(* An advisory capability (Skills).                                        *)

\* Operations of two processes on a capability of two texts: three, or two and a fault.
Advice == INSTANCE Skills WITH
  Process <- Process, Thread <- Thread, Home <- ProcessOf, Body <- Body, First <- FirstBody,
  Admissible <- Admissible, MaxCalls <- MaxOperations, MaxFaults <- MaxFaults, file <- x1, receipt <- x2,
  evidence <- x3, journal <- x4, current <- x5, held <- x6, doing <- x7,
  calls <- x8, faults <- x9, vetoed <- x10, hasty <- x11

\* The greatest of some places of a sequence is one of them, or none of them is past 0.
LEMMA GreatestIs ==
  ASSUME NEW n \in Nat, NEW S \in SUBSET (0 .. n), S # {}
  PROVE  Advice!Max(S) \in S /\ \A j \in S : Advice!Max(S) >= j
<1> DEFINE T == {n - j : j \in S}
<1>1. T \subseteq Nat /\ T # {}
  <2>1. \A j \in S : n - j \in Nat
    OBVIOUS
  <2>2. QED BY <2>1
<1>2. PICK x \in T : \A y \in T : ~(<<y, x>> \in OpToRel(<, Nat))
  BY <1>1, NatLessThanWellFounded, WFMin
<1>3. \A y \in T : ~(y < x)
  BY <1>1, <1>2 DEF OpToRel
<1>4. PICK i \in S : x = n - i
  OBVIOUS
<1>5. \A j \in S : i >= j
  <2>1. TAKE j \in S
  <2>2. n - j \in T
    OBVIOUS
  <2>3. ~(n - j < n - i)
    BY <2>2, <1>3, <1>4
  <2>4. QED BY <2>3
<1>6. QED BY <1>4, <1>5 DEF Advice!Max

\* The place of the last record of a kind, and how a new record moves it.
LEMMA LatestIs ==
  ASSUME NEW s \in Seq(Advice!Records), NEW K, NEW S \in SUBSET (0 .. Len(s)), 0 \in S,
         \A j \in 1 .. Len(s) : j \in S <=> s[j]["kind"] \in K
  PROVE  /\ Advice!Max(S) \in 0 .. Len(s)
         /\ Advice!Max(S) > 0 => s[Advice!Max(S)]["kind"] \in K
         /\ \A j \in 1 .. Len(s) : s[j]["kind"] \in K => Advice!Max(S) >= j
<1>1. Len(s) \in Nat
  OBVIOUS
<1>2. Advice!Max(S) \in S /\ \A j \in S : Advice!Max(S) >= j
  BY <1>1, GreatestIs
<1> DEFINE m == Advice!Max(S)
<1>3. m \in 0 .. Len(s) /\ m \in S /\ \A j \in S : m >= j
  BY <1>2
<1> HIDE DEF m
<1>4. m > 0 => m \in 1 .. Len(s)
  BY <1>1, <1>3
<1>5. /\ m \in 0 .. Len(s) /\ (m > 0 => s[m]["kind"] \in K)
      /\ \A j \in 1 .. Len(s) : s[j]["kind"] \in K => m >= j
  BY <1>3, <1>4
<1>6. QED BY <1>5 DEF m

LEMMA LatestMoves ==
  ASSUME Advice!TypeOK, NEW r \in Advice!Records, x4' = Append(x4, r), Advice!TypeOK'
  PROVE  Advice!RolledBack' <=>
           r["kind"] = "rollback" \/ (r["kind"] # "activation" /\ Advice!RolledBack)
<1> DEFINE K == {"activation", "rollback"}
           n == Len(x4)
           i == Advice!Latest(K)
           k == Advice!Latest(K)'
<1>1. /\ n \in Nat /\ Len(x4') = n + 1 /\ x4'[n + 1] = r
      /\ \A j \in 1 .. n : x4'[j] = x4[j]
  BY DEF Advice!TypeOK
<1>2. /\ i \in 0 .. n /\ (i > 0 => x4[i]["kind"] \in K)
      /\ \A j \in 1 .. n : x4[j]["kind"] \in K => i >= j
  <2> DEFINE S == {0} \cup {j \in 1 .. Len(x4) : x4[j]["kind"] \in K}
  <2>1. x4 \in Seq(Advice!Records) /\ i = Advice!Max(S)
    BY DEF Advice!TypeOK, Advice!Latest
  <2>2. /\ S \in SUBSET (0 .. Len(x4)) /\ 0 \in S
        /\ \A j \in 1 .. Len(x4) : j \in S <=> x4[j]["kind"] \in K
    BY <2>1
  <2> HIDE DEF i, K, S
  <2>3. QED BY <2>1, <2>2, LatestIs
<1>3. /\ k \in 0 .. n + 1 /\ (k > 0 => x4'[k]["kind"] \in K)
      /\ \A j \in 1 .. n + 1 : x4'[j]["kind"] \in K => k >= j
  <2> DEFINE S == {0} \cup {j \in 1 .. Len(x4') : x4'[j]["kind"] \in K}
  <2>1. x4' \in Seq(Advice!Records) /\ k = Advice!Max(S)
    BY DEF Advice!TypeOK, Advice!Latest
  <2>2. /\ S \in SUBSET (0 .. Len(x4')) /\ 0 \in S
        /\ \A j \in 1 .. Len(x4') : j \in S <=> x4'[j]["kind"] \in K
    BY <2>1
  <2> HIDE DEF k, K, S
  <2>3. QED BY <1>1, <2>1, <2>2, LatestIs
<1>4. /\ Advice!RolledBack <=> i > 0 /\ x4[i]["kind"] = "rollback"
      /\ Advice!RolledBack' <=> k > 0 /\ x4'[k]["kind"] = "rollback"
  BY DEF Advice!RolledBack
<1> HIDE DEF n, i, k
<1>5. CASE r["kind"] \in K
  <2>1. k = n + 1
    BY <1>1, <1>3, <1>5
  <2>2. QED BY <1>1, <1>4, <1>5, <2>1
<1>6. CASE r["kind"] \notin K
  <2>1. k \in 0 .. n
    BY <1>1, <1>3, <1>6
  <2>2. k = i
    <3>1. k > 0 => i >= k
      BY <1>1, <1>2, <1>3, <2>1
    <3>2. i > 0 => k >= i
      BY <1>1, <1>2, <1>3
    <3>3. QED BY <1>1, <1>2, <2>1, <3>1, <3>2
  <2>3. QED BY <1>1, <1>2, <1>4, <1>6, <2>2
<1>7. QED BY <1>5, <1>6

\* The operation of a thread goes on, and what it becomes is of its type.
LEMMA GoesOn ==
  ASSUME Advice!TypeOK, NEW t \in Thread,
         NEW d, d \in [op : Advice!Operators \cup Advice!Automatic \cup {Advice!None},
                       at : Advice!Steps \cup {"idle"}, obj : Body,
                       found : {Advice!None, "ok", "bad"}, named : Nat],
         Advice!Libraries, Advice!Become(t, d)
  PROVE  /\ x7' \in [Thread -> [op : Advice!Operators \cup Advice!Automatic \cup {Advice!None},
                                at : Advice!Steps \cup {"idle"}, obj : Body,
                                found : {Advice!None, "ok", "bad"}, named : Nat]]
         /\ x7'[t] = IF d["at"] = "idle" THEN Advice!Idle ELSE d
         /\ \A u \in Thread : u # t => x7'[u] = x7[u]
BY DEF Advice!Become, Advice!TypeOK, Advice!Idle, Advice!Libraries

\* A step that leaves the journal alone keeps a rollback in force: automation that may
\* not go on stands at none of the steps it would go on from.
LEMMA QuietStep ==
  ASSUME Advice!IInv, NEW t \in Thread, Advice!TypeOK', UNCHANGED <<x4, x11>>,
         x10' => x10,
         \A u \in Thread : u # t => x7'[u] = x7[u],
         x7'[t]["at"] # "idle" =>
           /\ x7'[t]["op"] \in Advice!Operators \cup Advice!Automatic
           /\ x7'[t]["op"] \in Advice!Automatic /\ x10' /\ ~x11
                => x7'[t]["at"] \in {"tick", "distill", "add"},
         x7'[t]["at"] = "idle" => x7'[t]["op"] = Advice!None
  PROVE  Advice!IInv'
<1>1. Advice!RolledBack' <=> Advice!RolledBack
  BY DEF Advice!RolledBack, Advice!Latest
<1>2. Advice!None \notin Advice!Operators \cup Advice!Automatic
  BY DEF Advice!None, Advice!Operators, Advice!Automatic
<1>3. QED BY <1>1, <1>2 DEF Advice!IInv, Advice!StandsInv, Advice!Step

LEMMA AdviceInit == ASSUME Advice!Libraries, Advice!Init PROVE Advice!IInv
<1>1. Advice!TypeOK
  BY DEF Advice!Libraries, Advice!Init, Advice!TypeOK, Advice!Idle
<1>2. Advice!StandsInv
  BY DEF Advice!Init, Advice!StandsInv, Advice!Step, Advice!Idle
<1>3. QED BY <1>1, <1>2 DEF Advice!IInv


LEMMA LatestType ==
  ASSUME Advice!TypeOK, NEW K
  PROVE  /\ Advice!Latest(K) \in 0 .. Len(x4) /\ Advice!Latest(K) \in Nat
         /\ \A j \in 1 .. Len(x4) : x4[j]["kind"] \in K => Advice!Latest(K) >= j
<1> DEFINE S == {0} \cup {j \in 1 .. Len(x4) : x4[j]["kind"] \in K}
<1>1. x4 \in Seq(Advice!Records) /\ Advice!Latest(K) = Advice!Max(S) /\ Len(x4) \in Nat
  BY DEF Advice!TypeOK, Advice!Latest
<1>2. S \in SUBSET (0 .. Len(x4)) /\ 0 \in S
  BY <1>1
<1>3. Advice!Max(S) \in S /\ \A j \in S : Advice!Max(S) >= j
  BY <1>1, <1>2, GreatestIs
<1>4. QED BY <1>1, <1>2, <1>3

\* What is saved of an object.
LEMMA SavedIs ==
  ASSUME NEW t \in Thread, x7[t]["obj"] \in Body, x2 \in Body,
         x1 \in [body : Body, held : BOOLEAN], Advice!Saved(t)
  PROVE  x1' \in [body : Body, held : BOOLEAN] /\ x2' \in Body
<1> DEFINE h == x7[t]["obj"] \in x6'[ProcessOf[t]]
<1>1. h \in BOOLEAN
  OBVIOUS
<1>2. /\ x1' = [body |-> x7[t]["obj"], held |-> h] \/ x1' = x1
      /\ x2' = x7[t]["obj"] \/ x2' = x2
  BY DEF Advice!Saved
<1> HIDE DEF h
<1>3. QED BY <1>1, <1>2

LEMMA AdviceTypes ==
  ASSUME Advice!Libraries, Advice!TypeOK, [Advice!Next]_(Advice!vars)
  PROVE  Advice!TypeOK'
<1> DEFINE D == [op : Advice!Operators \cup Advice!Automatic \cup {Advice!None},
                 at : Advice!Steps \cup {"idle"}, obj : Body,
                 found : {Advice!None, "ok", "bad"}, named : Nat]
<1> USE DEF Advice!Libraries, Advice!files, Advice!memory, Advice!history, Advice!Get,
            Advice!Step
<1>1. /\ x1 \in [body : Body, held : BOOLEAN] /\ x2 \in Body /\ x3 \subseteq Body
      /\ x4 \in Seq(Advice!Records) /\ x5 \in [Process -> Body]
      /\ x6 \in [Process -> SUBSET Body] /\ x7 \in [Thread -> D]
      /\ ProcessOf \in [Thread -> Process] /\ FirstBody \in Body
  BY DEF Advice!TypeOK
<1>2. \A t \in Thread, d \in D : Advice!Become(t, d) => x7' \in [Thread -> D]
  BY GoesOn
<1>3. ASSUME NEW t \in Thread, NEW s \in Advice!Steps \cup {"idle"}, Advice!Go(t, s)
      PROVE  x7' \in [Thread -> D]
  <2>1. [x7[t] EXCEPT !.at = s] \in D
    BY <1>1
  <2>2. QED BY <1>2, <1>3, <2>1 DEF Advice!Go
<1>4. ASSUME NEW t \in Thread, NEW o \in Advice!Operators \cup Advice!Automatic, Advice!Begin(t, o)
      PROVE  Advice!TypeOK'
  <2>1. PICK d \in D : Advice!Become(t, d)
    <3> DEFINE s == CASE o = "evaluate" -> "check" [] o = "activate" -> "ask"
                      [] o = "rollback" -> "veto" [] OTHER -> o
    <3>1. s \in Advice!Steps
      BY DEF Advice!Operators, Advice!Automatic, Advice!Steps
    <3>2. Advice!Become(t, [Advice!Idle EXCEPT !.op = o, !.obj = x5[ProcessOf[t]], !.at = s])
      BY <1>4 DEF Advice!Begin
    <3> HIDE DEF s
    <3>3. [Advice!Idle EXCEPT !.op = o, !.obj = x5[ProcessOf[t]], !.at = s] \in D
      BY <1>1, <3>1 DEF Advice!Idle
    <3>4. QED BY <3>2, <3>3
  <2>2. QED BY <1>1, <1>2, <1>4, <2>1 DEF Advice!Begin, Advice!TypeOK
<1>5. ASSUME NEW t \in Thread, Advice!Check(t) PROVE Advice!TypeOK'
  <2>1. x7' \in [Thread -> D]
    <3> DEFINE d == [x7[t] EXCEPT !.at = "verdict", !.obj = x5[ProcessOf[t]],
                       !.found = IF Advice!Sound(ProcessOf[t], x5[ProcessOf[t]]) THEN "ok" ELSE "bad"]
    <3>1. d \in D /\ Advice!Become(t, d)
      BY <1>1, <1>5 DEF Advice!Check, Advice!Steps
    <3>2. QED BY <1>2, <3>1
  <2>2. QED BY <1>1, <1>5, <2>1 DEF Advice!Check, Advice!TypeOK
<1>6. ASSUME NEW t \in Thread, NEW k \in {"evaluation", "activation", "rollback"},
             NEW ok \in BOOLEAN, NEW i \in Nat, Advice!Record(k, t, ok, i)
      PROVE  x4' \in Seq(Advice!Records)
  <2>1. [kind |-> k, body |-> x7[t]["obj"], ok |-> ok, of |-> i] \in Advice!Records
    BY <1>1 DEF Advice!Records
  <2>2. QED BY <1>1, <1>6, <2>1 DEF Advice!Record
<1>7. ASSUME NEW t \in Thread, Advice!Verdict(t) \/ Advice!Veto(t) PROVE Advice!TypeOK'
  <2>1. "hold" \in Advice!Steps
    BY DEF Advice!Steps
  <2>2. x7' \in [Thread -> D]
    BY <1>3, <1>7, <2>1 DEF Advice!Verdict, Advice!Veto
  <2>3. x4' \in Seq(Advice!Records)
    BY <1>6, <1>7 DEF Advice!Verdict, Advice!Veto
  <2>4. QED BY <1>1, <1>7, <2>2, <2>3 DEF Advice!Verdict, Advice!Veto, Advice!TypeOK
<1>8. ASSUME NEW t \in Thread, Advice!Activate(t) PROVE Advice!TypeOK'
  <2>1. x7' \in [Thread -> D]
    BY <1>3, <1>8 DEF Advice!Activate, Advice!Steps
  <2>2. x4' \in Seq(Advice!Records)
    BY <1>1, <1>6, <1>8 DEF Advice!Activate
  <2>3. QED BY <1>1, <1>8, <2>1, <2>2 DEF Advice!Activate, Advice!TypeOK
<1>9. ASSUME NEW t \in Thread, Advice!Hold(t) \/ Advice!Open(t) PROVE Advice!TypeOK'
  <2>1. x7' \in [Thread -> D]
    BY <1>3, <1>9 DEF Advice!Hold, Advice!Open, Advice!AfterHold, Advice!Steps
  <2>2. x1' \in [body : Body, held : BOOLEAN] /\ x2' \in Body
    BY <1>1, <1>9, SavedIs DEF Advice!Hold, Advice!Open
  <2>3. x6' \in [Process -> SUBSET Body]
    <3>1. x7[t]["obj"] \in Body /\ ProcessOf[t] \in Process /\ x6[ProcessOf[t]] \in SUBSET Body
      BY <1>1
    <3>2. CASE Advice!Hold(t)
      BY <1>1, <3>1, <3>2 DEF Advice!Hold
    <3>3. CASE Advice!Open(t)
      <4>1. x6' = [x6 EXCEPT ![ProcessOf[t]] = x6[ProcessOf[t]] \ {x7[t]["obj"]}]
        BY <3>3 DEF Advice!Open
      <4>2. x6[ProcessOf[t]] \ {x7[t]["obj"]} \in SUBSET Body
        BY <3>1
      <4> HIDE DEF D
      <4>3. QED BY <1>1, <4>1, <4>2
    <3>4. QED BY <1>9, <3>2, <3>3
  <2>4. QED BY <1>1, <1>9, <2>1, <2>2, <2>3 DEF Advice!Hold, Advice!Open, Advice!TypeOK
<1>10. ASSUME NEW t \in Thread, Advice!Ask(t) \/ Advice!Name(t) \/ Advice!Tick(t)
       PROVE Advice!TypeOK'
  <2>1. x7' \in [Thread -> D]
    <3>1. PICK d \in D : Advice!Become(t, d)
      <4>1. /\ Advice!Latest({"evaluation"}) \in Nat /\ {"name", "idle", "activate", "look"} \subseteq Advice!Steps \cup {"idle"}
        BY LatestType DEF Advice!Steps
      <4>2. CASE Advice!Ask(t)
        BY <1>1, <4>1, <4>2 DEF Advice!Ask
      <4>3. CASE Advice!Name(t)
        BY <1>1, <4>1, <4>3 DEF Advice!Name
      <4>4. CASE Advice!Tick(t)
        BY <1>1, <4>1, <4>4 DEF Advice!Tick
      <4>5. QED BY <1>10, <4>2, <4>3, <4>4
    <3>2. QED BY <1>2, <3>1
  <2>2. QED BY <1>1, <1>10, <2>1 DEF Advice!Ask, Advice!Name, Advice!Tick, Advice!TypeOK
<1>11. ASSUME NEW t \in Thread,
              Advice!Confirm(t) \/ Advice!Look(t) \/ Advice!Again(t) \/ Advice!Distill(t)
       PROVE  Advice!TypeOK'
  <2>1. \E s \in Advice!Steps \cup {"idle"} : Advice!Go(t, s)
    BY <1>11 DEF Advice!Confirm, Advice!Look, Advice!Again, Advice!Distill, Advice!Onward,
       Advice!Steps
  <2>2. QED BY <1>1, <1>3, <1>11, <2>1 DEF Advice!Confirm, Advice!Look, Advice!Again,
     Advice!Distill, Advice!TypeOK
<1>12. ASSUME NEW t \in Thread, NEW b \in Body, Advice!Retain(t, b) PROVE Advice!TypeOK'
  <2>1. x7' \in [Thread -> D]
    <3>1. [x7[t] EXCEPT !.at = "add", !.obj = b] \in D
      BY <1>1 DEF Advice!Steps
    <3>2. QED BY <1>2, <1>12, <3>1 DEF Advice!Retain
  <2>2. QED BY <1>1, <1>12, <2>1 DEF Advice!Retain, Advice!TypeOK
<1>13. ASSUME NEW t \in Thread, Advice!Add(t) PROVE Advice!TypeOK'
  <2>1. x7' \in [Thread -> D]
    BY <1>3, <1>13 DEF Advice!Add, Advice!Steps
  <2>2. x1' \in [body : Body, held : BOOLEAN] /\ x2' \in Body
    BY <1>1, <1>13, SavedIs DEF Advice!Add
  <2>3. x6' \in [Process -> SUBSET Body] /\ x5' \in [Process -> Body]
    BY <1>1, <1>13 DEF Advice!Add
  <2>4. QED BY <1>1, <1>13, <2>1, <2>2, <2>3 DEF Advice!Add, Advice!TypeOK
<1>14. ASSUME NEW b \in Body, Advice!LoseEvidence(b) PROVE Advice!TypeOK'
  BY <1>1, <1>14 DEF Advice!LoseEvidence, Advice!TypeOK
<1>15. ASSUME NEW p \in Process, Advice!Restart(p) PROVE Advice!TypeOK'
  <2>1. x7' \in [Thread -> D]
    BY <1>1, <1>15 DEF Advice!Restart, Advice!Idle
  <2>2. x2' \in Body /\ x5' \in [Process -> Body] /\ x6' \in [Process -> SUBSET Body]
    BY <1>1, <1>15 DEF Advice!Restart
  <2>3. QED BY <1>1, <1>15, <2>1, <2>2 DEF Advice!Restart, Advice!TypeOK
<1>16. CASE UNCHANGED Advice!vars
  BY <1>1, <1>16 DEF Advice!vars, Advice!TypeOK
<1>17. QED
  BY <1>4, <1>5, <1>7, <1>8, <1>9, <1>10, <1>11, <1>12, <1>13, <1>14, <1>15, <1>16
  DEF Advice!Next

\* A rollback stays in force: automation that read it goes no further, and what was under
\* way when it came makes it hasty.
LEMMA AdviceStep ==
  ASSUME Advice!Libraries, Advice!IInv, [Advice!Next]_(Advice!vars)
  PROVE  Advice!IInv'
<1> USE DEF Advice!files, Advice!memory, Advice!history, Advice!Step
<1>1. Advice!TypeOK /\ Advice!TypeOK'
  BY AdviceTypes DEF Advice!IInv
<1>2. /\ \A t \in Thread : x7[t]["at"] # "idle" => x7[t]["op"] # Advice!None
      /\ x10 /\ ~x11 => \A t \in Thread :
           x7[t]["op"] \in Advice!Automatic => x7[t]["at"] \in {"tick", "distill", "add"}
      /\ x10 /\ ~x11 => Advice!RolledBack
      /\ \A t \in Thread : x7[t]["op"] \in Advice!Operators \cup Advice!Automatic \cup {Advice!None}
  BY <1>1 DEF Advice!IInv, Advice!StandsInv, Advice!TypeOK
<1>3. ASSUME NEW t \in Thread, NEW d, Advice!Become(t, d)
      PROVE  /\ x7'[t] = IF d["at"] = "idle" THEN Advice!Idle ELSE d
             /\ \A u \in Thread : u # t => x7'[u] = x7[u]
  BY <1>1, <1>3 DEF Advice!Become, Advice!TypeOK
<1>4. ASSUME NEW t \in Thread, NEW s, Advice!Go(t, s)
      PROVE  /\ IF s = "idle" THEN x7'[t]["at"] = "idle" /\ x7'[t]["op"] = Advice!None
                ELSE x7'[t]["at"] = s /\ x7'[t]["op"] = x7[t]["op"]
             /\ \A u \in Thread : u # t => x7'[u] = x7[u]
  BY <1>1, <1>3, <1>4 DEF Advice!Go, Advice!Idle, Advice!TypeOK
<1>5. \A t \in Thread : x7[t]["at"] # "idle" => x7[t]["op"] \in Advice!Operators \cup Advice!Automatic
  BY <1>2
<1>6. ASSUME NEW t \in Thread, NEW o \in Advice!Operators \cup Advice!Automatic, Advice!Begin(t, o)
      PROVE  Advice!IInv'
  <2> DEFINE s == CASE o = "evaluate" -> "check" [] o = "activate" -> "ask"
                    [] o = "rollback" -> "veto" [] OTHER -> o
             d == [Advice!Idle EXCEPT !.op = o, !.obj = Advice!Get(t), !.at = s]
  <2>1. Advice!Become(t, d) /\ UNCHANGED <<x4, x10, x11>>
    BY <1>6 DEF Advice!Begin
  <2>2. d["op"] = o /\ d["at"] = s
    BY DEF Advice!Idle
  <2>3. o \in Advice!Automatic => s \in {"tick", "distill"}
    BY DEF Advice!Automatic
  <2> HIDE DEF d, s
  <2>4. IF s = "idle" THEN x7'[t] = Advice!Idle ELSE x7'[t] = d
    BY <1>3, <2>1, <2>2
  <2>5. QED BY <1>1, <1>3, <2>1, <2>2, <2>3, <2>4, QuietStep DEF Advice!Idle
<1>7. ASSUME NEW t \in Thread, NEW s, Advice!Go(t, s), UNCHANGED <<x4, x11>>, x10' => x10,
             x7[t]["at"] # "idle",
             x10' /\ ~x11 => x7[t]["at"] \notin {"tick", "distill", "add"} \/ s = "idle"
      PROVE  Advice!IInv'
  BY <1>1, <1>2, <1>4, <1>5, <1>7, QuietStep
<1>8. ASSUME NEW t \in Thread,
             \/ Advice!Hold(t) \/ Advice!Open(t) \/ Advice!Confirm(t) \/ Advice!Look(t)
             \/ Advice!Again(t)
      PROVE  Advice!IInv'
  BY <1>7, <1>8 DEF Advice!Hold, Advice!Open, Advice!Confirm, Advice!Look, Advice!Again
<1>9. ASSUME NEW t \in Thread, Advice!Add(t) PROVE Advice!IInv'
  <2>1. x9' = x9 => ~x10'
    BY <1>9 DEF Advice!Add, Advice!Whole
  <2>2. QED BY <1>7, <1>9, <2>1 DEF Advice!Add, Advice!Whole
<1>10. Advice!RolledBack => x4 # <<>>
  BY <1>1, LatestType DEF Advice!RolledBack
<1>11. ASSUME NEW t \in Thread, Advice!Distill(t) PROVE Advice!IInv'
  <2>1. PICK s : Advice!Go(t, s) /\ (x10 /\ ~x11 => s = "idle")
    BY <1>2, <1>10, <1>11 DEF Advice!Distill
  <2>2. UNCHANGED <<x4, x10, x11>> /\ x7[t]["at"] # "idle"
    BY <1>11 DEF Advice!Distill
  <2>3. QED BY <1>7, <2>1, <2>2
<1>12. ASSUME NEW t \in Thread,
              Advice!Check(t) \/ Advice!Ask(t) \/ Advice!Name(t) \/ Advice!Tick(t)
              \/ \E b \in Body : Advice!Retain(t, b)
       PROVE  Advice!IInv'
  <2>1. UNCHANGED <<x4, x10, x11>> /\ x7[t]["at"] # "idle"
    BY <1>12 DEF Advice!Check, Advice!Ask, Advice!Name, Advice!Tick, Advice!Retain
  <2>2. PICK d : /\ Advice!Become(t, d) /\ d["op"] = x7[t]["op"]
                 /\ x7[t]["at"] \in {"tick", "distill"} /\ x10 /\ ~x11 => d["at"] \in {"idle", "add"}
    <3>1. DOMAIN x7[t] = {"op", "at", "obj", "found", "named"}
      BY <1>1 DEF Advice!TypeOK
    <3>2. CASE Advice!Check(t)
      BY <3>1, <3>2 DEF Advice!Check
    <3>3. CASE Advice!Ask(t)
      BY <3>1, <3>3 DEF Advice!Ask
    <3>4. CASE Advice!Name(t)
      BY <3>1, <3>4 DEF Advice!Name
    <3>5. CASE Advice!Tick(t)
      <4> DEFINE a == IF Advice!RolledBack THEN "idle" ELSE "look"
                 l == Advice!Latest({"evaluation"})
                 d == [x7[t] EXCEPT !.obj = Advice!Get(t), !.named = l, !.at = a]
      <4>1. Advice!Become(t, d)
        BY <3>5 DEF Advice!Tick
      <4>2. x10 /\ ~x11 => a = "idle"
        BY <1>2
      <4> HIDE DEF a, l
      <4>3. d["op"] = x7[t]["op"] /\ d["at"] = a
        BY <3>1
      <4> HIDE DEF d
      <4>4. QED BY <4>1, <4>2, <4>3
    <3>6. CASE \E b \in Body : Advice!Retain(t, b)
      <4>1. PICK b \in Body : Advice!Retain(t, b)
        BY <3>6
      <4> DEFINE d == [x7[t] EXCEPT !.at = "add", !.obj = b]
      <4>2. Advice!Become(t, d)
        BY <4>1 DEF Advice!Retain
      <4>3. d["op"] = x7[t]["op"] /\ d["at"] = "add"
        BY <3>1
      <4> HIDE DEF d
      <4>4. QED BY <4>2, <4>3
    <3>7. QED BY <1>12, <3>2, <3>3, <3>4, <3>5, <3>6
  <2>3. IF d["at"] = "idle" THEN x7'[t] = Advice!Idle ELSE x7'[t] = d
    BY <1>3, <2>2
  <2>4. x7[t]["at"] = "add" => Advice!IInv'
    BY <1>12 DEF Advice!Check, Advice!Ask, Advice!Name, Advice!Tick, Advice!Retain
  <2>5. QED BY <1>1, <1>2, <1>3, <1>5, <2>1, <2>2, <2>3, <2>4, QuietStep DEF Advice!Idle
<1>13. ASSUME NEW t \in Thread, NEW r \in Advice!Records, x4' = Append(x4, r), Advice!Go(t, "hold") \/ Advice!Go(t, "open"),
              x7[t]["at"] \notin {"idle", "tick", "distill", "add"}, x10' => x10 \/ r["kind"] = "rollback",
              r["kind"] = "rollback" => (~x11' => ~x11 /\ \A u \in Thread :
                x7[u]["op"] \in Advice!Automatic => x7[u]["at"] \in {"tick", "distill"}),
              r["kind"] # "rollback" => x11' = x11,
              r["kind"] = "activation" => ~x10' \/ x7[t]["op"] \in Advice!Automatic
       PROVE  Advice!IInv'
  <2>1. Advice!RolledBack' <=>
           r["kind"] = "rollback" \/ (r["kind"] # "activation" /\ Advice!RolledBack)
    BY <1>1, <1>13, LatestMoves
  <2>2. /\ x7'[t]["at"] # "idle" /\ x7'[t]["op"] = x7[t]["op"]
        /\ \A u \in Thread : u # t => x7'[u] = x7[u]
    BY <1>4, <1>13
  <2>3. \A u \in Thread : x7'[u]["at"] # "idle" => x7'[u]["op"] # Advice!None
    BY <1>2, <1>13, <2>2
  <2>4. ASSUME x10', ~x11'
        PROVE  /\ Advice!RolledBack'
               /\ \A u \in Thread : x7'[u]["op"] \in Advice!Automatic =>
                    x7'[u]["at"] \in {"tick", "distill", "add"}
    <3>1. ~x11 /\ (x10 \/ r["kind"] = "rollback")
      BY <1>13, <2>4
    <3>2. x7[t]["op"] \notin Advice!Automatic
      BY <1>2, <1>13, <2>4, <3>1
    <3>3. \A u \in Thread : x7[u]["op"] \in Advice!Automatic =>
            x7[u]["at"] \in {"tick", "distill", "add"}
      BY <1>2, <1>13, <2>4, <3>1
    <3>4. Advice!RolledBack'
      BY <1>2, <1>13, <2>1, <2>4, <3>1, <3>2
    <3>5. QED BY <2>2, <3>2, <3>3, <3>4
  <2>5. QED BY <1>1, <2>3, <2>4 DEF Advice!IInv, Advice!StandsInv
<1>14. ASSUME NEW t \in Thread, Advice!Verdict(t) PROVE Advice!IInv'
  <2> DEFINE r == [kind |-> "evaluation", body |-> x7[t]["obj"],
                   ok |-> x7[t]["found"] = "ok", of |-> 0]
  <2>1. r \in Advice!Records /\ r["kind"] = "evaluation"
    BY <1>1 DEF Advice!Records, Advice!TypeOK
  <2>2. x4' = Append(x4, r) /\ Advice!Go(t, "hold") /\ x7[t]["at"] = "verdict" /\ UNCHANGED <<x10, x11>>
    BY <1>14 DEF Advice!Verdict, Advice!Record
  <2> HIDE DEF r
  <2>3. QED BY <1>13, <2>1, <2>2
<1>15. ASSUME NEW t \in Thread, Advice!Activate(t) PROVE Advice!IInv'
  <2> DEFINE r == [kind |-> "activation", body |-> x7[t]["obj"], ok |-> TRUE, of |-> x7[t]["named"]]
  <2>1. r \in Advice!Records /\ r["kind"] = "activation"
    BY <1>1 DEF Advice!Records, Advice!TypeOK
  <2>2. /\ x4' = Append(x4, r) /\ Advice!Go(t, "open") /\ x7[t]["at"] = "activate" /\ UNCHANGED x11
        /\ x10' <=> x10 /\ x7[t]["op"] \notin Advice!Operators
    BY <1>15 DEF Advice!Activate, Advice!Record
  <2>3. x10' => x7[t]["op"] \in Advice!Automatic
    BY <1>5, <2>2
  <2> HIDE DEF r
  <2>4. QED BY <1>13, <2>1, <2>2, <2>3
<1>16. ASSUME NEW t \in Thread, Advice!Veto(t) PROVE Advice!IInv'
  <2> DEFINE r == [kind |-> "rollback", body |-> x7[t]["obj"], ok |-> TRUE, of |-> 0]
  <2>1. r \in Advice!Records /\ r["kind"] = "rollback"
    BY <1>1 DEF Advice!Records, Advice!TypeOK
  <2>2. /\ x4' = Append(x4, r) /\ Advice!Go(t, "hold") /\ x7[t]["at"] = "veto"
        /\ x11' <=> x11 \/ \E u \in Thread : Advice!Automated(u)
    BY <1>16 DEF Advice!Veto, Advice!Record
  <2>3. ~x11' => ~x11 /\ \A u \in Thread :
                x7[u]["op"] \in Advice!Automatic => x7[u]["at"] \in {"tick", "distill"}
    BY <2>2 DEF Advice!Automated
  <2> HIDE DEF r
  <2>4. QED BY <1>13, <2>1, <2>2, <2>3
<1>17. ASSUME NEW p \in Process, Advice!Restart(p) PROVE Advice!IInv'
  <2>1. /\ UNCHANGED <<x4, x10, x11>>
        /\ \A t \in Thread : x7'[t] = Advice!Idle \/ x7'[t] = x7[t]
    BY <1>17 DEF Advice!Restart, Advice!Fault
  <2>2. Advice!RolledBack' <=> Advice!RolledBack
    BY <2>1 DEF Advice!RolledBack, Advice!Latest
  <2>3. Advice!Idle["at"] = "idle" /\ Advice!Idle["op"] \notin Advice!Automatic
    BY DEF Advice!Idle, Advice!None, Advice!Automatic
  <2>4. QED BY <1>1, <1>2, <2>1, <2>2, <2>3 DEF Advice!IInv, Advice!StandsInv
<1>18. CASE UNCHANGED Advice!vars \/ \E b \in Body : Advice!LoseEvidence(b)
  <2>1. UNCHANGED <<x4, x7, x10, x11>>
    BY <1>18 DEF Advice!vars, Advice!LoseEvidence, Advice!Fault
  <2>2. Advice!RolledBack' <=> Advice!RolledBack
    BY <2>1 DEF Advice!RolledBack, Advice!Latest
  <2>3. QED BY <1>1, <1>2, <2>1, <2>2 DEF Advice!IInv, Advice!StandsInv
<1>19. QED
  BY <1>6, <1>8, <1>9, <1>11, <1>12, <1>14, <1>15, <1>16, <1>17, <1>18 DEF Advice!Next

\* What a build is given was activated last of all, and is what was found sound.
LEMMA AdvisedIs ==
  ASSUME Advice!IInv, NEW p \in Process, Advice!Advised(p)
  PROVE  ~Advice!RolledBack /\ Advice!Sound(p, x5[p])
<1>1. /\ Advice!StatusOf(x5[p], Advice!Sound(p, x5[p])) = "passed"
      /\ x4[Len(x4)]["kind"] = "activation"
  BY DEF Advice!Advised, Advice!Active, Advice!ActiveOf
<1>2. Advice!Sound(p, x5[p]) /\ Advice!Latest({"evaluation"}) # 0
  BY <1>1 DEF Advice!StatusOf
<1>3. Advice!TypeOK /\ Len(x4) \in Nat
  BY DEF Advice!IInv, Advice!TypeOK
<1>4. Len(x4) > 0
  BY <1>2, <1>3, LatestType
<1>5. ASSUME Advice!RolledBack PROVE FALSE
  <2> DEFINE K == {"activation", "rollback"}
             i == Advice!Latest(K)
  <2>1. i >= Len(x4)
    BY <1>1, <1>3, <1>4, LatestType
  <2>2. i \in 0 .. Len(x4) /\ x4[i]["kind"] = "rollback"
    BY <1>3, <1>5, LatestType DEF Advice!RolledBack
  <2> HIDE DEF i
  <2>3. i = Len(x4)
    BY <1>3, <2>1, <2>2
  <2>4. QED BY <1>1, <2>2, <2>3
<1>6. QED BY <1>2, <1>5

LEMMA AdviceSafe == ASSUME Advice!IInv PROVE Advice!LaterAutomationYields /\ Advice!OneText
BY AdvisedIs DEF Advice!LaterAutomationYields, Advice!OneText, Advice!Sound, Advice!Admitted,
   Advice!IInv, Advice!StandsInv

-----------------------------------------------------------------------------
(* The preview of a project (Previews).                                    *)

\* Two launches of a project's preview, a stop, and a docker command that fails
\* or a restart of the dashboard.
Preview == INSTANCE Previews WITH
  Launches <- Launches, Stops <- StopIds, Kind <- RunKind,
  MaxFaults <- MaxFaults, MaxRestarts <- MaxRestarts, registry <- x1, tasks <- x2,
  history <- x3, launched <- x4, pc <- x5, step <- x6, cancelled <- x7,
  docker <- x8, resources <- x9, target <- x10, todo <- x11, dirty <- x12,
  awaited <- x13, survivors <- x14, faults <- x15, restarts <- x16

\* The plan starts with the volume and ends with the probe; it makes the four parts of a
\* whole preview, and dependencies only where there are some to install.
LEMMA PlanIs ==
  /\ Len(Preview!Plan) \in Nat /\ Len(Preview!Plan) > 0
  /\ Preview!Plan[1] = "volume"
  /\ \A i \in 1 .. Len(Preview!Plan) : Preview!Plan[i] = "ready" <=> i = Len(Preview!Plan)
  /\ \A i \in 1 .. Len(Preview!Plan) : Preview!Plan[i] \in Preview!Resource =>
       \/ Preview!Plan[i] \in {"volume", "gateway", "network"} \cup Preview!Anonymous
       \/ Preview!Plan[i] = "deps" /\ RunKind = "python_web"
  /\ \A r \in Preview!Whole : \E i \in 1 .. Len(Preview!Plan) - 1 : Preview!Plan[i] = r
<1>1. CASE RunKind = "python_web"
  <2> DEFINE s == <<"volume", "deps", "prepare", "copy", "network", "runtime", "gateway",
                    "connect", "ready">>
  <2>1. Preview!Plan = s /\ Len(s) = 9
    BY <1>1 DEF Preview!Plan
  <2>2. /\ s[1] = "volume" /\ s[2] = "deps" /\ s[3] = "prepare" /\ s[4] = "copy"
        /\ s[5] = "network" /\ s[6] = "runtime" /\ s[7] = "gateway" /\ s[8] = "connect"
        /\ s[9] = "ready"
    OBVIOUS
  <2> HIDE DEF s
  <2>3. QED BY <1>1, <2>1, <2>2 DEF Preview!Resource, Preview!Anonymous, Preview!Whole
<1>2. CASE RunKind # "python_web"
  <2> DEFINE s == <<"volume", "prepare", "network", "runtime", "gateway", "connect", "ready">>
  <2>1. Preview!Plan = s /\ Len(s) = 7
    BY <1>2 DEF Preview!Plan
  <2>2. /\ s[1] = "volume" /\ s[2] = "prepare" /\ s[3] = "network" /\ s[4] = "runtime"
        /\ s[5] = "gateway" /\ s[6] = "connect" /\ s[7] = "ready"
    OBVIOUS
  <2> HIDE DEF s
  <2>3. QED BY <1>2, <2>1, <2>2 DEF Preview!Resource, Preview!Anonymous, Preview!Whole
<1>3. QED BY <1>1, <1>2

LEMMA PlanMakes ==
  \A i \in 1 .. Len(Preview!Plan) :
    Preview!Plan[i] \notin Preview!Resource => Preview!Plan[i] \in {"connect", "ready"}
<1>1. CASE RunKind = "python_web"
  BY <1>1 DEF Preview!Plan, Preview!Resource
<1>2. CASE RunKind # "python_web"
  BY <1>2 DEF Preview!Plan, Preview!Resource
<1>3. QED BY <1>1, <1>2

\* What stands for no launch, or for one, and the places of a launch or a stop.
LEMMA PreviewNames ==
  /\ {} \in Preview!Slots
  /\ \A l \in Launches : {<<"claim", l>>} \in Preview!Slots /\ {<<"app", l>>} \in Preview!Slots
  /\ {} \in Preview!Entries /\ \A l \in Launches : {l} \in Preview!Entries
  /\ \A T \in Preview!Entries : T \subseteq Launches /\ \A l : T \ {l} \in Preview!Entries
  /\ {"none", "starting", "running", "failed", "cancelled", "stopped", "interrupted"}
       \subseteq Preview!Statuses
  /\ {"unborn", "ended", "failing", "unwinding", "yielding", "stopping", "created",
      "starting", "announcing", "validating", "reporting", "awaiting"} \subseteq Preview!Places
<1>1. \A T \in Preview!Entries : T \subseteq Launches /\ \A l : T \ {l} = T \/ T \ {l} = {}
  BY DEF Preview!Entries
<1>2. {} \in Preview!Entries /\ \A l \in Launches : {l} \in Preview!Entries
  BY DEF Preview!Entries
<1>3. \A T \in Preview!Entries : \A l : T \ {l} \in Preview!Entries
  BY <1>1, <1>2
<1>4. {} \in Preview!Slots
  BY DEF Preview!Slots
<1>5. ASSUME NEW l \in Launches
      PROVE  {<<"claim", l>>} \in Preview!Slots /\ {<<"app", l>>} \in Preview!Slots
  BY DEF Preview!Slots
<1>6. QED BY <1>1, <1>2, <1>3, <1>4, <1>5
      DEF Preview!Statuses, Preview!Places, Preview!Idle, Preview!Cleaning

LEMMA PreviewInit == Preview!Init => Preview!IInv
<1> SUFFICES ASSUME Preview!Init PROVE Preview!IInv
  OBVIOUS
<1> USE DEF Preview!Init
<1>1. Preview!TypeOK
  BY PlanIs, PreviewNames DEF Preview!TypeOK
<1>2. Preview!Begins /\ Preview!Grows /\ Preview!Shown /\ Preview!Removing /\ Preview!Known
  BY DEF Preview!Begins, Preview!Grows, Preview!Shown, Preview!Removing, Preview!Known,
     Preview!Actor
<1>3. QED BY <1>1, <1>2 DEF Preview!IInv

LEMMA PreviewTypes ==
  ASSUME Preview!TypeOK, [Preview!Next]_(Preview!vars)
  PROVE  Preview!TypeOK'
<1> USE PreviewNames DEF Preview!TypeOK, Preview!Actor
\* What most of the actions do to the registry, the removals and the histories.
<1>1. ASSUME NEW a \in Launches \cup StopIds, Preview!AbandonRemoval(a) PROVE
        /\ x10' \in [Launches \cup StopIds -> SUBSET Launches]
        /\ x11' \in [Launches \cup StopIds -> SUBSET Preview!Resource]
        /\ x12' \in SUBSET (Launches \cup StopIds)
  BY <1>1 DEF Preview!AbandonRemoval
<1>2. ASSUME NEW a \in Launches \cup StopIds, NEW l \in Launches, Preview!BeginRemoval(a, l) PROVE
        /\ x10' \in [Launches \cup StopIds -> SUBSET Launches]
        /\ x11' \in [Launches \cup StopIds -> SUBSET Preview!Resource]
        /\ x12' \in SUBSET (Launches \cup StopIds)
  BY <1>2 DEF Preview!BeginRemoval, Preview!Resource
<1>3. ASSUME Preview!NoRemoval PROVE
        /\ x10' \in [Launches \cup StopIds -> SUBSET Launches]
        /\ x11' \in [Launches \cup StopIds -> SUBSET Preview!Resource]
        /\ x12' \in SUBSET (Launches \cup StopIds)
  BY <1>3 DEF Preview!NoRemoval
<1>4. ASSUME NEW a \in Launches \cup StopIds, Preview!Forget(a)
      PROVE  x9' \in [Launches -> SUBSET Preview!Resource]
  BY <1>4 DEF Preview!Forget
<1>5. ASSUME NEW l \in Launches, Preview!Finally(l) PROVE
        /\ x1' \in Preview!Slots /\ x2' \in Preview!Entries
        /\ x5' \in [Launches \cup StopIds -> Preview!Places]
  BY <1>5 DEF Preview!Finally
<1>6. ASSUME NEW l \in Launches, NEW running \in BOOLEAN, Preview!Return(l, running) PROVE
        /\ x1' \in Preview!Slots /\ x3' \in [Launches -> Preview!Statuses]
        /\ x5' \in [Launches \cup StopIds -> Preview!Places]
        /\ x10' \in [Launches \cup StopIds -> SUBSET Launches]
        /\ x11' \in [Launches \cup StopIds -> SUBSET Preview!Resource]
        /\ x12' \in SUBSET (Launches \cup StopIds)
  <2>1. CASE running /\ Preview!Claimed(l)
    <3>1. /\ x1' = {<<"app", l>>} /\ UNCHANGED x3 /\ x5' = [x5 EXCEPT ![l] = "announcing"]
          /\ Preview!NoRemoval
      BY <1>6, <2>1 DEF Preview!Return
    <3>2. QED BY <1>3, <3>1
  <2>2. CASE running /\ ~Preview!Claimed(l)
    <3>1. /\ UNCHANGED <<x1, x3>> /\ x5' = [x5 EXCEPT ![l] = "yielding"]
          /\ Preview!BeginRemoval(l, l)
      BY <1>6, <2>2 DEF Preview!Return
    <3>2. QED BY <1>2, <3>1
  <2>3. CASE ~running
    <3>1. /\ x1' \in {{}, x1} /\ x3' = [x3 EXCEPT ![l] = "failed"]
          /\ x5' = [x5 EXCEPT ![l] = "reporting"] /\ Preview!AbandonRemoval(l)
      BY <1>6, <2>3 DEF Preview!Return
    <3>2. x1' \in Preview!Slots
      BY <3>1
    <3>3. QED BY <1>1, <3>1, <3>2
  <2>4. QED BY <2>1, <2>2, <2>3
<1>7. ASSUME NEW l \in Launches, Preview!Accept(l) PROVE Preview!TypeOK'
  BY <1>3, <1>7 DEF Preview!Accept, Preview!Env
<1>8. ASSUME NEW l \in Launches, Preview!Claim(l) PROVE Preview!TypeOK'
  BY <1>3, <1>8 DEF Preview!Claim, Preview!Env
<1>9. ASSUME NEW l \in Launches, Preview!Prepare(l) PROVE Preview!TypeOK'
  BY <1>3, <1>9 DEF Preview!Prepare, Preview!Env, Preview!Resource
<1>10. ASSUME NEW l \in Launches, Preview!Refuse(l) PROVE Preview!TypeOK'
  BY <1>6, <1>10 DEF Preview!Refuse, Preview!Env
<1>11. ASSUME NEW l \in Launches, Preview!Advance(l) PROVE Preview!TypeOK'
  <2>1. x6[l] \in 1 .. Len(Preview!Plan) /\ x6[l] # Len(Preview!Plan)
    BY <1>11, PlanIs DEF Preview!Advance, Preview!Stage
  <2>2. x6' \in [Launches -> 1 .. Len(Preview!Plan)]
    BY <1>11, <2>1, PlanIs DEF Preview!Advance
  <2>3. Preview!Created(Preview!Stage(l)) \subseteq Preview!Resource
    BY <2>1, PlanMakes DEF Preview!Created, Preview!Stage
  <2>4. x8' \in [Launches -> SUBSET Preview!Resource]
    BY <1>11, <2>3 DEF Preview!Advance
  <2>5. x9' \in [Launches -> SUBSET Preview!Resource]
    BY <1>11 DEF Preview!Advance, Preview!Resource
  <2>6. QED BY <1>3, <1>11, <2>2, <2>4, <2>5 DEF Preview!Advance, Preview!Env
<1>12. ASSUME NEW l \in Launches, Preview!FailStage(l) PROVE Preview!TypeOK'
  <2>1. x8' \in [Launches -> SUBSET Preview!Resource] /\ x15' \in Nat
    <3>1. PICK made \in SUBSET Preview!Resource : x8' = x8 \/ x8' = [x8 EXCEPT ![l] = @ \cup made]
      BY <1>12 DEF Preview!FailStage, Preview!Fresh
    <3>2. x15' \in Nat
      BY <1>12 DEF Preview!FailStage
    <3>3. x8[l] \cup made \in SUBSET Preview!Resource
      OBVIOUS
    <3>4. CASE x8' = x8
      BY <3>2, <3>4
    <3>5. CASE x8' = [x8 EXCEPT ![l] = @ \cup made]
      BY <3>2, <3>3, <3>5
    <3>6. QED BY <3>1, <3>4, <3>5
  <2>2. QED BY <1>2, <1>12, <2>1 DEF Preview!FailStage, Preview!Env
<1>13. ASSUME NEW l \in Launches, Preview!Failed(l) PROVE Preview!TypeOK'
  BY <1>4, <1>6, <1>13 DEF Preview!Failed, Preview!Env
<1>14. ASSUME NEW l \in Launches, Preview!Ready(l) PROVE Preview!TypeOK'
  BY <1>6, <1>14 DEF Preview!Ready, Preview!Env
<1>15. ASSUME NEW l \in Launches, Preview!Announced(l) PROVE Preview!TypeOK'
  BY <1>3, <1>5, <1>15 DEF Preview!Announced, Preview!Env
<1>16. ASSUME NEW l \in Launches, Preview!Yielded(l) PROVE Preview!TypeOK'
  <2>1. Preview!AbandonRemoval(l) /\ Preview!Forget(l)
    BY <1>16 DEF Preview!Yielded, Preview!Removed
  <2>2. x3' \in [Launches -> Preview!Statuses]
    BY <1>16 DEF Preview!Yielded
  <2>3. /\ x1' \in Preview!Slots /\ x2' \in Preview!Entries
        /\ x5' \in [Launches \cup StopIds -> Preview!Places]
    <3>1. CASE l \in x12
      <4>1. Preview!Finally(l)
        BY <1>16, <3>1 DEF Preview!Yielded
      <4>2. QED BY <1>5, <4>1
    <3>2. CASE l \notin x12
      <4>1. x5' = [x5 EXCEPT ![l] = "reporting"] /\ UNCHANGED <<x1, x2>>
        BY <1>16, <3>2 DEF Preview!Yielded
      <4>2. QED BY <4>1
    <3>3. QED BY <3>1, <3>2
  <2>4. QED BY <1>1, <1>4, <1>16, <2>1, <2>2, <2>3 DEF Preview!Yielded, Preview!Env
<1>17. ASSUME NEW l \in Launches, Preview!Reported(l) PROVE Preview!TypeOK'
  BY <1>3, <1>5, <1>17 DEF Preview!Reported, Preview!Env
<1>18. ASSUME NEW l \in Launches, Preview!NeverRan(l) PROVE Preview!TypeOK'
  BY <1>3, <1>18 DEF Preview!NeverRan, Preview!Env
<1>19. ASSUME NEW l \in Launches, Preview!Unwind(l) PROVE Preview!TypeOK'
  BY <1>2, <1>19 DEF Preview!Unwind, Preview!Env, Preview!Fresh
<1>20. ASSUME NEW l \in Launches, Preview!Unwound(l) PROVE Preview!TypeOK'
  BY <1>1, <1>4, <1>20 DEF Preview!Unwound, Preview!Removed, Preview!Env
<1>21. ASSUME NEW l \in Launches, Preview!CutShort(l) PROVE Preview!TypeOK'
  BY <1>1, <1>21 DEF Preview!CutShort, Preview!Env
<1>22. ASSUME NEW s \in StopIds, Preview!Stop(s) \/ Preview!Resume(s) PROVE Preview!TypeOK'
  <2>1. ASSUME Preview!Pop(s), UNCHANGED <<x2, x7>> PROVE Preview!TypeOK'
    <3>1. x10' \in [Launches \cup StopIds -> SUBSET Launches]
          /\ x11' \in [Launches \cup StopIds -> SUBSET Preview!Resource]
          /\ x12' \in SUBSET (Launches \cup StopIds)
      BY <1>2, <1>3, <2>1 DEF Preview!Pop
    <3>2. \E p \in Preview!Places : x5' = [x5 EXCEPT ![s] = p]
      BY <2>1 DEF Preview!Pop
    <3>3. x5' \in [Launches \cup StopIds -> Preview!Places]
      BY <3>2
    <3>4. QED BY <2>1, <3>1, <3>3 DEF Preview!Pop
  <2>2. ASSUME Preview!Stop(s), x2 # {} PROVE Preview!TypeOK'
    <3>1. /\ x2' = {} /\ x7' = x7 \cup x2 /\ x13' = [x13 EXCEPT ![s] = x2]
          /\ x5' = [x5 EXCEPT ![s] = "awaiting"] /\ Preview!NoRemoval
          /\ UNCHANGED <<x1, x3, x4, x6, x8, x9, x14, x15, x16>>
      BY <2>2 DEF Preview!Stop
    <3>2. x2 \subseteq Launches
      OBVIOUS
    <3>3. QED BY <1>3, <3>1, <3>2
  <2>3. QED BY <1>22, <2>1, <2>2 DEF Preview!Stop, Preview!Resume
<1>23. ASSUME NEW s \in StopIds, Preview!Stopped(s) PROVE Preview!TypeOK'
  BY <1>1, <1>4, <1>23 DEF Preview!Stopped, Preview!Removed, Preview!Env
<1>24. ASSUME NEW a \in Launches \cup StopIds, Preview!Remove(a) PROVE Preview!TypeOK'
  <2>1. PICK l \in Launches, r \in Preview!Resource : x11' = [x11 EXCEPT ![a] = @ \ {r}] /\
          (x8' = x8 \/ x8' = [x8 EXCEPT ![l] = @ \ {r}])
    <3>1. PICK l \in x10[a], r \in x11[a] : x11' = [x11 EXCEPT ![a] = @ \ {r}] /\
            (x8' = x8 \/ x8' = [x8 EXCEPT ![l] = @ \ {r}])
      <4> HIDE DEF Preview!TypeOK
      <4>1. QED BY <1>24 DEF Preview!Remove
    <3>2. l \in Launches /\ r \in Preview!Resource
      OBVIOUS
    <3>3. QED BY <3>1, <3>2
  <2>2. x12' \in SUBSET (Launches \cup StopIds) /\ x15' \in Nat
    <3>1. x12' \in {x12, x12 \cup {a}}
      BY <1>24 DEF Preview!Remove
    <3>2. x15' \in {x15, x15 + 1}
      BY <1>24 DEF Preview!Remove
    <3>3. QED BY <3>1, <3>2
  <2>3. UNCHANGED <<x1, x2, x3, x4, x5, x6, x7, x9, x10, x13, x14, x16>>
    BY <1>24 DEF Preview!Remove
  <2>4. x8' \in [Launches -> SUBSET Preview!Resource]
    <3>1. x8[l] \ {r} \in SUBSET Preview!Resource
      OBVIOUS
    <3>2. CASE x8' = x8
      BY <3>2
    <3>3. CASE x8' = [x8 EXCEPT ![l] = @ \ {r}]
      BY <3>1, <3>3
    <3>4. QED BY <2>1, <3>2, <3>3
  <2>5. x11' \in [Launches \cup StopIds -> SUBSET Preview!Resource]
    BY <2>1
  <2>6. QED BY <2>2, <2>3, <2>4, <2>5
<1>25. ASSUME Preview!Restart PROVE Preview!TypeOK'
  BY <1>25 DEF Preview!Restart
<1>26. CASE UNCHANGED Preview!vars
  BY <1>26 DEF Preview!vars
<1>27. QED
  BY <1>7, <1>8, <1>9, <1>10, <1>11, <1>12, <1>13, <1>14, <1>15, <1>16, <1>17, <1>18, <1>19,
     <1>20, <1>21, <1>22, <1>23, <1>24, <1>25, <1>26 DEF Preview!Next, Preview!LaunchTask

\* A preview that is shown is whole, and what there is of one is remembered.
LEMMA PreviewStep ==
  ASSUME Preview!Apart, Preview!IInv, [Preview!Next]_(Preview!vars)
  PROVE  Preview!IInv'
<1> DEFINE A == Launches \cup StopIds
           Late == {"announcing", "reporting", "ended"}
           Early == {"unborn", "created", "validating"}
           Left == {"failing", "unwinding", "yielding"}
<1>1. Preview!TypeOK /\ Preview!TypeOK'
  BY PreviewTypes DEF Preview!IInv
<1>2. /\ x5 \in [A -> Preview!Places] /\ x6 \in [Launches -> 1 .. Len(Preview!Plan)]
      /\ x8 \in [Launches -> SUBSET Preview!Resource]
      /\ x9 \in [Launches -> SUBSET Preview!Resource]
      /\ x10 \in [A -> SUBSET Launches] /\ x11 \in [A -> SUBSET Preview!Resource]
      /\ \A a \in Launches : a \notin StopIds
  BY <1>1 DEF Preview!TypeOK, Preview!Actor, Preview!Apart
<1>3. /\ \A l \in Launches : x5[l] \in Early => x8[l] = {} /\ x6[l] = 1
      /\ \A l \in Launches : x5[l] = "starting" =>
           /\ {"volume", "gateway"} \subseteq x9[l]
           /\ RunKind = "python_web" => "deps" \in x9[l]
           /\ \A i \in 1 .. x6[l] :
                Preview!Plan[i] \in Preview!Resource => Preview!Plan[i] \in x9[l] \cup Preview!Anonymous
           /\ \A i \in 1 .. x6[l] - 1 :
                Preview!Plan[i] \in Preview!Whole => Preview!Plan[i] \in x8[l]
      /\ \A l \in Launches : x1 = {<<"app", l>>} =>
           x5[l] \in Late /\ Preview!Whole \subseteq x8[l] /\ \A a \in A : l \notin x10[a]
      /\ \A a \in A, l \in Launches : l \in x10[a] =>
           /\ x10[a] = {l}
           /\ (a = l /\ x5[l] \in Left) \/ (a \in StopIds /\ x5[l] \in Late)
           /\ l \in x14 \/ a \in x12 \/ x8[l] \subseteq x11[a]
      /\ \A l \in Launches : l \notin x14 /\ x8[l] # {} =>
           x9[l] # {} /\ x8[l] \subseteq x9[l] \cup Preview!Anonymous
  BY DEF Preview!IInv, Preview!Begins, Preview!Grows, Preview!Shown, Preview!Removing,
     Preview!Known, Preview!Actor
<1>4. ASSUME /\ \A l \in Launches : x5'[l] \in Early => x8'[l] = {} /\ x6'[l] = 1
             /\ \A l \in Launches : x5'[l] = "starting" =>
                  /\ {"volume", "gateway"} \subseteq x9'[l]
                  /\ RunKind = "python_web" => "deps" \in x9'[l]
                  /\ \A i \in 1 .. x6'[l] : Preview!Plan[i] \in Preview!Resource =>
                       Preview!Plan[i] \in x9'[l] \cup Preview!Anonymous
                  /\ \A i \in 1 .. x6'[l] - 1 :
                       Preview!Plan[i] \in Preview!Whole => Preview!Plan[i] \in x8'[l],
             \A l \in Launches : x1' = {<<"app", l>>} =>
               x5'[l] \in Late /\ Preview!Whole \subseteq x8'[l] /\ \A a \in A : l \notin x10'[a],
             \A a \in A, l \in Launches : l \in x10'[a] =>
               /\ x10'[a] = {l}
               /\ (a = l /\ x5'[l] \in Left) \/ (a \in StopIds /\ x5'[l] \in Late)
               /\ l \in x14' \/ a \in x12' \/ x8'[l] \subseteq x11'[a],
             \A l \in Launches : l \notin x14' /\ x8'[l] # {} =>
               x9'[l] # {} /\ x8'[l] \subseteq x9'[l] \cup Preview!Anonymous
      PROVE  Preview!IInv'
  BY <1>1, <1>4 DEF Preview!IInv, Preview!Begins, Preview!Grows, Preview!Shown, Preview!Removing,
     Preview!Known, Preview!Actor
<1>5. ASSUME NEW a \in A, NEW p, x5' = [x5 EXCEPT ![a] = p]
      PROVE  x5'[a] = p /\ \A m \in A : m # a => x5'[m] = x5[m]
  BY <1>2, <1>5
\* A launch or a stop goes on and removes nothing.
<1>6. ASSUME NEW a \in A, NEW p, x5' = [x5 EXCEPT ![a] = p], Preview!NoRemoval,
             UNCHANGED <<x6, x8, x9, x14>>, x1' = x1 \/ \A l \in Launches : x1' # {<<"app", l>>},
             a \in Launches => /\ p \in Early => x5[a] \in Early
                               /\ x5[a] \in Late => p \in Late
                               /\ x5[a] \notin Left /\ p # "starting"
      PROVE  Preview!IInv'
  <2>1. UNCHANGED <<x10, x11, x12>>
    BY <1>6 DEF Preview!NoRemoval
  <2>2. QED BY <1>2, <1>3, <1>4, <1>5, <1>6, <2>1
\* It gives up its removal, or is done with it.
<1>7. ASSUME NEW a \in A, NEW p, x5' = [x5 EXCEPT ![a] = p], Preview!AbandonRemoval(a),
             UNCHANGED <<x6, x8, x14>>, x1' = x1 \/ x1' = {},
             a \in Launches => p \in Late /\ x5[a] \in Left \cup Late \cup {"validating"},
             x9' = x9 \/ (Preview!Forget(a) /\ x11[a] = {})
      PROVE  Preview!IInv'
  <2>1. /\ x10'[a] = {} /\ \A b \in A : b # a => x10'[b] = x10[b] /\ x11'[b] = x11[b]
        /\ x12' = x12 \ {a}
    BY <1>2, <1>7 DEF Preview!AbandonRemoval
  <2>2. \A l \in Launches : x9'[l] = x9[l] \/ ((l \in x14 \/ x8[l] = {}) /\ l \in x10[a])
    BY <1>2, <1>3, <1>7 DEF Preview!Forget
  <2>3. \A l \in Launches : x5[l] = "starting" => x9'[l] = x9[l]
    BY <1>3, <2>2
  <2>4. x5'[a] = p /\ \A m \in A : m # a => x5'[m] = x5[m]
    BY <1>5, <1>7
  <2>5. \A a2 \in A, l \in Launches : l \in x10'[a2] =>
               /\ x10'[a2] = {l}
               /\ (a2 = l /\ x5'[l] \in Left) \/ (a2 \in StopIds /\ x5'[l] \in Late)
               /\ l \in x14' \/ a2 \in x12' \/ x8'[l] \subseteq x11'[a2]
    BY <1>2, <1>3, <1>7, <2>1, <2>4
  <2>6. \A l \in Launches : (x5'[l] \in Early => x5[l] \in Early) /\ (x5'[l] = "starting" => x5[l] = "starting")
    BY <1>2, <1>7, <2>4
  <2>7. \A l \in Launches : x1' = {<<"app", l>>} =>
          x5'[l] \in Late /\ Preview!Whole \subseteq x8'[l] /\ \A b \in A : l \notin x10'[b]
    <3> SUFFICES ASSUME NEW l \in Launches, x1' = {<<"app", l>>}
                 PROVE  x5'[l] \in Late /\ Preview!Whole \subseteq x8'[l] /\ \A b \in A : l \notin x10'[b]
      OBVIOUS
    <3>1. x1 = {<<"app", l>>} /\ x8' = x8
      BY <1>7
    <3>2. x5[l] \in Late /\ Preview!Whole \subseteq x8[l] /\ \A b \in A : l \notin x10[b]
      BY <1>3, <3>1
    <3>3. x5'[l] \in Late
      BY <1>7, <2>4, <3>2
    <3>4. \A b \in A : l \notin x10'[b]
      BY <2>1, <3>2
    <3>5. QED BY <3>1, <3>2, <3>3, <3>4
  <2>8. \A l \in Launches : l \notin x14' /\ x8'[l] # {} =>
          x9'[l] # {} /\ x8'[l] \subseteq x9'[l] \cup Preview!Anonymous
    BY <1>3, <1>7, <2>2
  <2>9. UNCHANGED <<x6, x8>>
    BY <1>7
  <2> HIDE DEF A, Early, Late, Left
  <2>10. QED BY <1>3, <1>4, <2>3, <2>5, <2>6, <2>7, <2>8, <2>9
\* It begins one.
<1>8. ASSUME NEW a \in A, NEW l \in Launches, NEW p, x5' = [x5 EXCEPT ![a] = p],
             Preview!BeginRemoval(a, l), UNCHANGED <<x6, x9, x14>>,
             \/ a = l /\ p \in Left /\ x5[l] \in {"starting", "failing"} /\ x1' = x1
             \/ a \in StopIds /\ x1 = {<<"app", l>>} /\ x1' = {},
             \A m \in Launches : m # l => x8'[m] = x8[m],
             l \notin x14 /\ x8'[l] # {} => x9[l] # {} /\ x8'[l] \subseteq x9[l] \cup Preview!Anonymous
      PROVE  Preview!IInv'
  <2>1. /\ x10'[a] = {l} /\ x11'[a] = x9[l] \cup Preview!Anonymous /\ x12' = x12 \ {a}
        /\ \A b \in A : b # a => x10'[b] = x10[b] /\ x11'[b] = x11[b]
    BY <1>2, <1>8 DEF Preview!BeginRemoval, Preview!Anonymous
  <2>2. x5'[a] = p /\ \A m \in A : m # a => x5'[m] = x5[m]
    BY <1>5, <1>8
  <2>3. \A b \in A : b # a => l \notin x10[b]
    BY <1>2, <1>3, <1>8
  <2>4. x5[l] \notin Early /\ x5'[l] \notin Early \cup {"starting"} /\ l \in A
    BY <1>2, <1>3, <1>8, <2>2
  <2>5. \A m \in Launches : m # l => x5'[m] = x5[m] /\ x8'[m] = x8[m]
    BY <1>2, <1>8, <2>2
  <2>6. \A m \in Launches : x1' = {<<"app", m>>} =>
          x5'[m] \in Late /\ Preview!Whole \subseteq x8'[m] /\ \A b \in A : m \notin x10'[b]
    <3> SUFFICES ASSUME NEW m \in Launches, x1' = {<<"app", m>>}
                 PROVE  x5'[m] \in Late /\ Preview!Whole \subseteq x8'[m] /\ \A b \in A : m \notin x10'[b]
      OBVIOUS
    <3>1. a = l /\ x1 = {<<"app", m>>} /\ x5[l] \notin Late
      BY <1>8
    <3>2. m # l /\ x5[m] \in Late /\ Preview!Whole \subseteq x8[m] /\ \A b \in A : m \notin x10[b]
      BY <1>3, <3>1
    <3>3. QED BY <2>1, <2>5, <3>2
  <2>7. \A b \in A, m \in Launches : m \in x10'[b] =>
          /\ x10'[b] = {m}
          /\ (b = m /\ x5'[m] \in Left) \/ (b \in StopIds /\ x5'[m] \in Late)
          /\ m \in x14' \/ b \in x12' \/ x8'[m] \subseteq x11'[b]
    <3> SUFFICES ASSUME NEW b \in A, NEW m \in Launches, m \in x10'[b]
                 PROVE  /\ x10'[b] = {m}
                        /\ (b = m /\ x5'[m] \in Left) \/ (b \in StopIds /\ x5'[m] \in Late)
                        /\ m \in x14' \/ b \in x12' \/ x8'[m] \subseteq x11'[b]
      OBVIOUS
    <3>1. CASE b = a
      BY <1>2, <1>3, <1>8, <2>1, <2>2, <3>1
    <3>2. CASE b # a
      BY <1>3, <1>8, <2>1, <2>3, <2>5, <3>2
    <3>3. QED BY <3>1, <3>2
  <2>8. \A m \in Launches : m \notin x14' /\ x8'[m] # {} =>
          x9'[m] # {} /\ x8'[m] \subseteq x9'[m] \cup Preview!Anonymous
    BY <1>3, <1>8
  <2>9. UNCHANGED <<x6, x9>>
    BY <1>8
  <2> HIDE DEF A, Early, Late, Left
  <2>10. QED BY <1>3, <1>4, <2>4, <2>5, <2>6, <2>7, <2>8, <2>9
<1>9. ASSUME NEW l \in Launches, \/ Preview!Accept(l) \/ Preview!Claim(l) \/ Preview!Announced(l)
                                 \/ Preview!Reported(l) \/ Preview!NeverRan(l)
      PROVE  Preview!IInv'
  <2>1. \A k, m : {<<"claim", k>>} # {<<"app", m>>}
    <3> SUFFICES ASSUME NEW k, NEW m, {<<"claim", k>>} = {<<"app", m>>} PROVE FALSE
      OBVIOUS
    <3>1. <<"claim", k>> = <<"app", m>>
      OBVIOUS
    <3>2. QED BY <3>1
  <2>2. CASE Preview!Accept(l)
    BY <1>6, <2>2 DEF Preview!Accept, Preview!Env
  <2>3. CASE Preview!Claim(l)
    BY <1>6, <2>1, <2>3 DEF Preview!Claim, Preview!Env
  <2>4. CASE Preview!Announced(l)
    BY <1>6, <2>4 DEF Preview!Announced, Preview!Finally, Preview!Env
  <2>5. CASE Preview!Reported(l)
    BY <1>6, <2>5 DEF Preview!Reported, Preview!Finally, Preview!Env
  <2>6. CASE Preview!NeverRan(l)
    BY <1>6, <2>6 DEF Preview!NeverRan, Preview!Env
  <2>7. QED BY <1>9, <2>2, <2>3, <2>4, <2>5, <2>6
<1>10. ASSUME NEW l \in Launches, \/ Preview!Refuse(l) \/ Preview!Failed(l) \/ Preview!Yielded(l)
                                  \/ Preview!Unwound(l) \/ Preview!CutShort(l)
       PROVE  Preview!IInv'
  <2>1. CASE Preview!Refuse(l)
    BY <1>7, <2>1 DEF Preview!Refuse, Preview!Return, Preview!Env
  <2>2. CASE Preview!Failed(l)
    BY <1>7, <2>2 DEF Preview!Failed, Preview!Return, Preview!Env
  <2>3. CASE Preview!Yielded(l)
    BY <1>7, <2>3 DEF Preview!Yielded, Preview!Removed, Preview!Finally, Preview!Env
  <2>4. CASE Preview!Unwound(l)
    BY <1>7, <2>4 DEF Preview!Unwound, Preview!Removed, Preview!Env
  <2>5. CASE Preview!CutShort(l)
    BY <1>7, <2>5 DEF Preview!CutShort, Preview!Env
  <2>6. QED BY <1>10, <2>1, <2>2, <2>3, <2>4, <2>5
<1>11. ASSUME NEW l \in Launches, Preview!FailStage(l) \/ Preview!Unwind(l) PROVE Preview!IInv'
  <2>1. x5[l] = "starting" => Preview!Fresh(l) \subseteq x9[l] \cup Preview!Anonymous /\ x9[l] # {}
    BY <1>2, <1>3 DEF Preview!Fresh, Preview!Stage
  <2>2. /\ x5[l] \in {"starting", "failing"} /\ x1' = x1 /\ Preview!BeginRemoval(l, l)
        /\ UNCHANGED <<x6, x9, x14>>
        /\ \E made : /\ made # {} => x5[l] = "starting" /\ made \subseteq Preview!Fresh(l)
                     /\ x8' = [x8 EXCEPT ![l] = @ \cup made]
    <3>1. x8 = [x8 EXCEPT ![l] = @ \cup {}]
      BY <1>2
    <3>2. QED BY <1>11, <3>1 DEF Preview!FailStage, Preview!Unwind, Preview!Env
  <2>3. /\ \A m \in Launches : m # l => x8'[m] = x8[m]
        /\ l \notin x14 /\ x8'[l] # {} => x9[l] # {} /\ x8'[l] \subseteq x9[l] \cup Preview!Anonymous
    BY <1>2, <1>3, <2>1, <2>2
  <2>4. \E p \in Left : x5' = [x5 EXCEPT ![l] = p]
    BY <1>11 DEF Preview!FailStage, Preview!Unwind
  <2>5. QED BY <1>8, <2>2, <2>3, <2>4
<1>12. ASSUME NEW l \in Launches, Preview!Prepare(l) PROVE Preview!IInv'
  <2>1. /\ x5[l] = "validating" /\ x5' = [x5 EXCEPT ![l] = "starting"]
        /\ UNCHANGED <<x1, x6, x8, x10, x11, x12, x14>>
        /\ {"volume", "gateway"} \subseteq x9'[l] /\ (RunKind = "python_web" => "deps" \in x9'[l])
        /\ \A m \in Launches : m # l => x9'[m] = x9[m]
    BY <1>2, <1>12 DEF Preview!Prepare, Preview!NoRemoval, Preview!Env
  <2>2. x5'[l] = "starting" /\ \A m \in A : m # l => x5'[m] = x5[m]
    BY <1>5, <2>1
  <2>3. QED BY <1>2, <1>3, <1>4, <2>1, <2>2, PlanIs
<1>13. ASSUME NEW l \in Launches, Preview!Advance(l) PROVE Preview!IInv'
  <2>1. /\ x5[l] = "starting" /\ x6[l] \in 1 .. Len(Preview!Plan) /\ x6[l] # Len(Preview!Plan)
        /\ UNCHANGED <<x1, x5, x10, x11, x12, x14>>
        /\ x8' = [x8 EXCEPT ![l] = @ \cup Preview!Created(Preview!Plan[x6[l]])]
        /\ x6' = [x6 EXCEPT ![l] = @ + 1]
        /\ x9' = [x9 EXCEPT ![l] = @ \cup IF Preview!Plan[x6[l] + 1] = "network" THEN {"network"} ELSE {}]
    BY <1>2, <1>13, PlanIs DEF Preview!Advance, Preview!NoRemoval, Preview!Env, Preview!Stage
  <2>2. /\ x6'[l] = x6[l] + 1 /\ x9[l] \subseteq x9'[l] /\ x8[l] \subseteq x8'[l]
        /\ Preview!Plan[x6[l] + 1] = "network" => "network" \in x9'[l]
        /\ x8'[l] = x8[l] \cup Preview!Created(Preview!Plan[x6[l]])
        /\ \A m \in Launches : m # l => x6'[m] = x6[m] /\ x8'[m] = x8[m] /\ x9'[m] = x9[m]
    BY <1>2, <2>1
  <2>3. /\ Preview!Created(Preview!Plan[x6[l]]) \subseteq x9[l] \cup Preview!Anonymous
        /\ Preview!Plan[x6[l]] \in Preview!Whole =>
             Preview!Plan[x6[l]] \in Preview!Created(Preview!Plan[x6[l]])
    BY <1>2, <1>3, <2>1, PlanMakes DEF Preview!Created, Preview!Whole
  <2>4. \A i \in 1 .. x6'[l] :
          Preview!Plan[i] \in Preview!Resource => Preview!Plan[i] \in x9'[l] \cup Preview!Anonymous
    <3>1. CASE x6[l] + 1 \in 1 .. Len(Preview!Plan)
      BY <1>2, <1>3, <2>1, <2>2, <3>1, PlanIs
    <3>2. QED BY <2>1, <3>1
  <2>5. \A i \in 1 .. x6'[l] - 1 : Preview!Plan[i] \in Preview!Whole => Preview!Plan[i] \in x8'[l]
    BY <1>2, <1>3, <2>1, <2>2, <2>3
  <2>6. \A a \in A : l \notin x10[a]
    BY <1>2, <1>3, <2>1
  <2>7. {"volume", "gateway"} \subseteq x9'[l] /\ (RunKind = "python_web" => "deps" \in x9'[l])
    BY <1>3, <2>1, <2>2
  <2>8. l \notin x14 => x9'[l] # {} /\ x8'[l] \subseteq x9'[l] \cup Preview!Anonymous
    BY <1>3, <2>1, <2>2, <2>3, <2>7
  <2>9. x1 # {<<"app", l>>} /\ x5[l] \notin Early
    BY <1>3, <2>1
  <2> HIDE DEF A, Early, Late, Left
  <2>10. UNCHANGED <<x1, x5, x10, x11, x12, x14>>
    BY <2>1
  <2>11. QED BY <1>3, <1>4, <2>2, <2>4, <2>5, <2>6, <2>7, <2>8, <2>9, <2>10
<1>14. ASSUME NEW l \in Launches, Preview!Ready(l) PROVE Preview!IInv'
  <2>1. x5[l] = "starting" /\ UNCHANGED <<x6, x8, x9, x14>> /\ Preview!Return(l, TRUE)
        /\ x6[l] = Len(Preview!Plan)
    BY <1>2, <1>14, PlanIs DEF Preview!Ready, Preview!Env, Preview!Stage
  <2>2. CASE Preview!Claimed(l)
    <3>1. /\ x1' = {<<"app", l>>} /\ x5' = [x5 EXCEPT ![l] = "announcing"]
          /\ UNCHANGED <<x10, x11, x12>>
      BY <2>1, <2>2 DEF Preview!Return, Preview!NoRemoval
    <3>2. x5'[l] = "announcing" /\ \A m \in A : m # l => x5'[m] = x5[m]
      BY <1>5, <3>1
    <3>3. Preview!Whole \subseteq x8[l]
      BY <1>2, <1>3, <2>1, PlanIs DEF Preview!Whole, Preview!Resource
    <3>4. ASSUME NEW m \in Launches, x1' = {<<"app", m>>} PROVE m = l
      <4>1. <<"app", m>> = <<"app", l>>
        BY <3>1, <3>4
      <4>2. QED BY <4>1
    <3>5. \A m \in Launches : x1' = {<<"app", m>>} =>
            x5'[m] \in Late /\ Preview!Whole \subseteq x8'[m] /\ \A a \in A : m \notin x10'[a]
      BY <1>3, <2>1, <3>1, <3>2, <3>3, <3>4
    <3>6. \A a \in A, m \in Launches : m \in x10'[a] =>
            /\ x10'[a] = {m}
            /\ (a = m /\ x5'[m] \in Left) \/ (a \in StopIds /\ x5'[m] \in Late)
            /\ m \in x14' \/ a \in x12' \/ x8'[m] \subseteq x11'[a]
      BY <1>3, <2>1, <3>1, <3>2
    <3>7. \A m \in Launches : (x5'[m] \in Early => x5[m] \in Early)
                             /\ (x5'[m] = "starting" => x5[m] = "starting")
      BY <3>2
    <3>8. UNCHANGED <<x6, x8, x9, x14>>
      BY <2>1
    <3> HIDE DEF A, Early, Late, Left
    <3>9. QED BY <1>3, <1>4, <3>5, <3>6, <3>7, <3>8
  <2>3. CASE ~Preview!Claimed(l)
    <3>1. x1' = x1 /\ x5' = [x5 EXCEPT ![l] = "yielding"] /\ Preview!BeginRemoval(l, l)
      BY <2>1, <2>3 DEF Preview!Return
    <3>2. l \notin x14 /\ x8'[l] # {} => x9[l] # {} /\ x8'[l] \subseteq x9[l] \cup Preview!Anonymous
      BY <1>3, <2>1
    <3>3. QED BY <1>8, <2>1, <3>1, <3>2
  <2>4. QED BY <2>2, <2>3
<1>15. ASSUME NEW s \in StopIds, Preview!Stop(s) \/ Preview!Resume(s) PROVE Preview!IInv'
  <2>1. CASE x5' = [x5 EXCEPT ![s] = "awaiting"] /\ Preview!NoRemoval /\ UNCHANGED <<x1, x6, x8, x9, x14>>
    BY <1>2, <1>6, <2>1
  <2>2. ASSUME Preview!Pop(s) PROVE Preview!IInv'
    <3>1. CASE x5' = [x5 EXCEPT ![s] = "ended"] /\ Preview!NoRemoval
      BY <1>2, <1>6, <2>2, <3>1 DEF Preview!Pop
    <3>2. ASSUME NEW l \in Launches, x1 = {<<"app", l>>}, x5' = [x5 EXCEPT ![s] = "stopping"],
                 Preview!BeginRemoval(s, l)
          PROVE  Preview!IInv'
      <4>1. x1' = {} /\ UNCHANGED <<x6, x8, x9, x14>>
        BY <2>2 DEF Preview!Pop
      <4>2. l \notin x14 /\ x8'[l] # {} => x9[l] # {} /\ x8'[l] \subseteq x9[l] \cup Preview!Anonymous
        BY <1>3, <4>1
      <4>3. QED BY <1>8, <3>2, <4>1, <4>2
    <3>3. QED BY <2>2, <3>1, <3>2 DEF Preview!Pop
  <2>3. QED BY <1>15, <2>1, <2>2 DEF Preview!Stop, Preview!Resume
<1>16. ASSUME NEW s \in StopIds, Preview!Stopped(s) PROVE Preview!IInv'
  <2>1. /\ x5' = [x5 EXCEPT ![s] = "ended"] /\ Preview!AbandonRemoval(s) /\ x11[s] = {}
        /\ Preview!Forget(s) /\ UNCHANGED <<x1, x6, x8, x14>>
    BY <1>16 DEF Preview!Stopped, Preview!Removed, Preview!Env
  <2>2. QED BY <1>2, <1>7, <2>1
<1>17. ASSUME NEW a \in A, Preview!Remove(a) PROVE Preview!IInv'
  <2>1. PICK l \in x10[a], r \in x11[a] :
          /\ x11' = [x11 EXCEPT ![a] = @ \ {r}]
          /\ \/ x8' = [x8 EXCEPT ![l] = @ \ {r}] /\ x12' = x12
             \/ x8' = x8 /\ x12' = x12 \cup {a}
             \/ x8' = [x8 EXCEPT ![l] = @ \ {r}] /\ x12' = x12 \cup {a}
    BY <1>17 DEF Preview!Remove
  <2>2. UNCHANGED <<x1, x5, x6, x9, x10, x14>>
    BY <1>17 DEF Preview!Remove
  <2>3. l \in Launches /\ x5[l] \in Left \cup Late /\ x1 # {<<"app", l>>}
    BY <1>2, <1>3, <2>1
  <2>4. /\ \A m \in Launches : x8'[m] \subseteq x8[m] /\ (m # l => x8'[m] = x8[m])
        /\ \A b \in A : b # a => x11'[b] = x11[b]
        /\ x12 \subseteq x12' /\ (a \in x12' \/ x8'[l] \subseteq x8[l] \ {r})
        /\ x11'[a] = x11[a] \ {r}
    BY <1>2, <2>1, <2>3
  <2>5. QED BY <1>2, <1>3, <1>4, <2>1, <2>2, <2>3, <2>4
<1>18. ASSUME Preview!Restart PROVE Preview!IInv'
  <2>1. /\ x1' = {} /\ x14' = {l \in Launches : x8[l] # {}} /\ UNCHANGED <<x6, x8>>
        /\ \A a \in A : x10'[a] = {}
        /\ \A a \in A : x5'[a] = IF x5[a] = "unborn" THEN "unborn" ELSE "ended"
    BY <1>18 DEF Preview!Restart, Preview!Actor
  <2>2. QED BY <1>2, <1>3, <1>4, <2>1
<1>19. CASE UNCHANGED Preview!vars
  <2>1. UNCHANGED <<x1, x5, x6, x8, x9, x10, x11, x12, x14>>
    BY <1>19 DEF Preview!vars
  <2>2. QED BY <1>3, <1>4, <2>1
<1>20. QED
  BY <1>9, <1>10, <1>11, <1>12, <1>13, <1>14, <1>15, <1>16, <1>17, <1>18, <1>19
  DEF Preview!Next, Preview!LaunchTask, Preview!Actor

LEMMA PreviewSafe ==
  ASSUME Preview!IInv PROVE Preview!ShownIsWhole /\ Preview!Retained
BY DEF Preview!IInv, Preview!Shown, Preview!Known, Preview!ShownIsWhole, Preview!Retained,
   Preview!Whole

-----------------------------------------------------------------------------
(* The builds of a brief (Builds).                                         *)

\* Two builds of one brief, a cancellation, a failure, a deletion and a crash.
TwoBuilds == INSTANCE Builds WITH
  Build <- Build, Canceller <- Canceller, Folder <- FolderIds,
  MaxFailures <- MaxFailures, MaxDeletes <- MaxDeletes, MaxRestarts <- MaxRestarts, pc <- x1,
  cancelled <- x2, folder <- x3, dir <- x4, worktrees <- x5, work <- x6,
  recovered <- x7, status <- x8, delivered <- x9, disk <- x10, row <- x11,
  rec <- x12, tasks <- x13, calls <- x14, place <- x15, entered <- x16,
  undermined <- x17, failures <- x18, deletes <- x19, restarts <- x20

\* Of some folders one is the first.
LEMMA FirstIs ==
  ASSUME NEW S \in SUBSET Nat, S # {}
  PROVE  TwoBuilds!Min(S) \in S
<1>1. PICK x \in S : \A y \in S : ~(<<y, x>> \in OpToRel(<, Nat))
  BY NatLessThanWellFounded, WFMin
<1>2. ASSUME NEW y \in S PROVE x <= y
  <2>1. x \in Nat /\ y \in Nat
    OBVIOUS
  <2>2. ~(y < x)
    BY <1>1, <2>1 DEF OpToRel
  <2>3. QED BY <2>1, <2>2
<1>3. QED BY <1>2 DEF TwoBuilds!Min

\* Where a build may stand, and what its record and its row may say.
LEMMA BuildNames ==
  /\ TwoBuilds!Early = {"created", "selecting", "saved", "checkpoint"}
  /\ TwoBuilds!Guarded = {"stages", "sampling", "settling", "saving", "announcing"}
  /\ TwoBuilds!Failing = {"failing", "failed"} /\ TwoBuilds!Cancelling = {"cancelling", "recorded"}
  /\ TwoBuilds!Alive = {"created", "selecting", "saved", "checkpoint", "stages", "sampling",
       "settling", "saving", "announcing", "failing", "failed", "cancelling", "recorded", "unwinding"}
  /\ TwoBuilds!Final = {"completed", "failed", "cancelled"}
  /\ TwoBuilds!None = "none" /\ TwoBuilds!Main = "main" /\ TwoBuilds!Candidate = "candidate"
BY
   DEF TwoBuilds!Early, TwoBuilds!Guarded, TwoBuilds!Failing, TwoBuilds!Cancelling, TwoBuilds!Alive,
   TwoBuilds!Final, TwoBuilds!None, TwoBuilds!Main, TwoBuilds!Candidate

LEMMA BuildsInit == ASSUME TwoBuilds!Countable PROVE TwoBuilds!Init => TwoBuilds!IInv
<1> SUFFICES ASSUME TwoBuilds!Init PROVE TwoBuilds!IInv
  OBVIOUS
<1> USE BuildNames DEF TwoBuilds!Init
<1>1. TwoBuilds!TypeOK
  BY DEF TwoBuilds!TypeOK, TwoBuilds!Countable
<1>2. TwoBuilds!Tabled
  BY DEF TwoBuilds!Tabled
<1>3. TwoBuilds!Active
  BY DEF TwoBuilds!Active
<1>4. TwoBuilds!Keeps /\ TwoBuilds!Listed
  BY DEF TwoBuilds!Keeps, TwoBuilds!Listed
<1>5. TwoBuilds!Settles
  BY DEF TwoBuilds!Settles
<1>6. QED BY <1>1, <1>2, <1>3, <1>4, <1>5 DEF TwoBuilds!IInv

LEMMA BuildsTypes ==
  ASSUME TwoBuilds!Countable, TwoBuilds!TypeOK, TwoBuilds!Tabled, TwoBuilds!Active,
         [TwoBuilds!Next]_(TwoBuilds!vars)
  PROVE  TwoBuilds!TypeOK'
<1> DEFINE P == TwoBuilds!Alive \cup {"new", "ended"}
           W == SUBSET {TwoBuilds!Main, TwoBuilds!Candidate}
           S == {"running"} \cup TwoBuilds!Final
           K == TwoBuilds!Final \cup {TwoBuilds!None}
           R == TwoBuilds!Final \cup {TwoBuilds!None, "running", "interrupted"}
           C == TwoBuilds!Final \cup {TwoBuilds!None, "queued", "running"}
           Q == {"new", "waiting", "insisting", "settled", "ended"}
<1>1. /\ x1 \in [Build -> P] /\ x2 \subseteq Build /\ \A b \in x2 : x1[b] \in TwoBuilds!Alive
      /\ x3 \in [Build -> FolderIds \cup {0}] /\ x4 \in [FolderIds -> Build \cup {TwoBuilds!None}]
      /\ x5 \in [Build -> W] /\ x6 \in [Build -> W] /\ x7 \in [Build -> W]
      /\ x8 \in [Build -> S] /\ x9 \subseteq Build /\ x16 \subseteq Build /\ x17 \subseteq Build
      /\ x10 \in [FolderIds -> K] /\ x11 \in [Build -> R] /\ x12 \in [Build -> C]
      /\ x13 \subseteq Build /\ x14 \in [Canceller -> SUBSET Build] /\ x15 \in [Canceller -> Q]
      /\ x18 \in 0 .. MaxFailures /\ x19 \in 0 .. MaxDeletes /\ x20 \in 0 .. MaxRestarts
  BY DEF TwoBuilds!TypeOK
<1>2. ASSUME /\ x1' \in [Build -> P] /\ x2' \subseteq Build /\ \A b \in x2' : x1'[b] \in TwoBuilds!Alive
             /\ x3' \in [Build -> FolderIds \cup {0}] /\ x4' \in [FolderIds -> Build \cup {TwoBuilds!None}]
             /\ x5' \in [Build -> W] /\ x6' \in [Build -> W] /\ x7' \in [Build -> W]
             /\ x8' \in [Build -> S] /\ x9' \subseteq Build /\ x16' \subseteq Build /\ x17' \subseteq Build
             /\ x10' \in [FolderIds -> K] /\ x11' \in [Build -> R] /\ x12' \in [Build -> C]
             /\ x13' \subseteq Build /\ x14' \in [Canceller -> SUBSET Build] /\ x15' \in [Canceller -> Q]
             /\ x18' \in 0 .. MaxFailures /\ x19' \in 0 .. MaxDeletes /\ x20' \in 0 .. MaxRestarts
      PROVE  TwoBuilds!TypeOK'
  BY <1>2 DEF TwoBuilds!TypeOK
<1>3. /\ MaxFailures \in Nat /\ MaxDeletes \in Nat /\ MaxRestarts \in Nat /\ FolderIds \subseteq Nat
  BY DEF TwoBuilds!Countable
<1>4. /\ TwoBuilds!Alive \subseteq P /\ {"new", "ended"} \subseteq P
      /\ TwoBuilds!Alive = {"created", "selecting", "saved", "checkpoint", "stages", "sampling",
           "settling", "saving", "announcing", "failing", "failed", "cancelling", "recorded", "unwinding"}
      /\ {"completed", "failed", "cancelled"} \subseteq S \cap K \cap R \cap C
      /\ TwoBuilds!Final \subseteq K /\ S \subseteq R \cap C /\ S \ {"running"} \subseteq K
      /\ "running" \in S \cap R \cap C /\ TwoBuilds!None \in K \cap R \cap C /\ "queued" \in C
      /\ "interrupted" \in R /\ Q = {"new", "waiting", "insisting", "settled", "ended"}
      /\ TwoBuilds!Main # TwoBuilds!Candidate
  BY BuildNames
<1>5. /\ {} \in W /\ {TwoBuilds!Main} \in W
      /\ \A s \in W, t \in W : s \cup t \in W /\ s \cap t \in W
      /\ \A s \in W : s \cup {TwoBuilds!Main} \in W /\ s \cup {TwoBuilds!Candidate} \in W
  OBVIOUS
<1> HIDE DEF P, W, S, K, R, C, Q
\* A build goes from one place to another, and its cancellation goes on or ends.
<1>6. ASSUME NEW b \in Build, NEW p \in P, x1' = [x1 EXCEPT ![b] = p],
             x2' = x2 \ {b} \/ (x2' = x2 /\ (b \notin x2 \/ p \in TwoBuilds!Alive))
      PROVE  /\ x1' \in [Build -> P] /\ x2' \subseteq Build
             /\ \A m \in x2' : x1'[m] \in TwoBuilds!Alive
  BY <1>1, <1>6
\* A manifest file is written.
<1>7. ASSUME NEW b \in Build, NEW v \in K, TwoBuilds!SaveManifest(b, v)
      PROVE  /\ x4' \in [FolderIds -> Build \cup {TwoBuilds!None}] /\ x10' \in [FolderIds -> K]
             /\ x3' \in [Build -> FolderIds \cup {0}]
  BY <1>1, <1>7 DEF TwoBuilds!SaveManifest
<1> USE DEF TwoBuilds!Goto, TwoBuilds!At, TwoBuilds!Fails, TwoBuilds!Files, TwoBuilds!Trees,
      TwoBuilds!Web, TwoBuilds!Bounds, TwoBuilds!Task, TwoBuilds!SaveManifest
<1>8. ASSUME NEW b \in Build, TwoBuilds!Submit(b) PROVE TwoBuilds!TypeOK'
  BY <1>1, <1>2, <1>3, <1>4, <1>5, <1>6, <1>8 DEF TwoBuilds!Submit
<1>9. ASSUME NEW b \in Build, TwoBuilds!Reserve(b) PROVE TwoBuilds!TypeOK'
  <2>1. x1' \in [Build -> P] /\ x2' \subseteq Build /\ \A m \in x2' : x1'[m] \in TwoBuilds!Alive
    BY <1>1, <1>4, <1>6, <1>9 DEF TwoBuilds!Reserve
  <2>2. TwoBuilds!Min(TwoBuilds!Free) \in FolderIds
    <3>1. TwoBuilds!Free # {} /\ TwoBuilds!Free \in SUBSET Nat /\ TwoBuilds!Free \subseteq FolderIds
      BY <1>3, <1>9 DEF TwoBuilds!Reserve, TwoBuilds!Free
    <3>2. QED BY <3>1, FirstIs
  <2>3. x3' \in [Build -> FolderIds \cup {0}] /\ x4' \in [FolderIds -> Build \cup {TwoBuilds!None}]
    BY <1>1, <1>9, <2>2 DEF TwoBuilds!Reserve
  <2>4. QED BY <1>1, <1>2, <1>9, <2>1, <2>3 DEF TwoBuilds!Reserve
<1>10. ASSUME NEW b \in Build, TwoBuilds!SaveRow(b) PROVE TwoBuilds!TypeOK'
  BY <1>1, <1>2, <1>3, <1>4, <1>5, <1>6, <1>10 DEF TwoBuilds!SaveRow
<1>11. ASSUME NEW b \in Build, TwoBuilds!OpenTree(b) PROVE TwoBuilds!TypeOK'
  BY <1>1, <1>2, <1>3, <1>4, <1>5, <1>6, <1>11 DEF TwoBuilds!OpenTree
<1>12. ASSUME NEW b \in Build, TwoBuilds!Escape(b) PROVE TwoBuilds!TypeOK'
  BY <1>1, <1>2, <1>3, <1>4, <1>5, <1>6, <1>12 DEF TwoBuilds!Escape
<1>13. ASSUME NEW b \in Build, TwoBuilds!Enter(b) PROVE TwoBuilds!TypeOK'
  BY <1>1, <1>2, <1>3, <1>4, <1>5, <1>6, <1>13 DEF TwoBuilds!Enter
<1>14. ASSUME NEW b \in Build, TwoBuilds!Write(b) PROVE TwoBuilds!TypeOK'
  BY <1>1, <1>2, <1>3, <1>4, <1>5, <1>6, <1>14 DEF TwoBuilds!Write
<1>15. ASSUME NEW b \in Build, TwoBuilds!Sample(b) PROVE TwoBuilds!TypeOK'
  BY <1>1, <1>2, <1>3, <1>4, <1>5, <1>6, <1>15 DEF TwoBuilds!Sample
<1>16. ASSUME NEW b \in Build, TwoBuilds!Merge(b) PROVE TwoBuilds!TypeOK'
  BY <1>1, <1>2, <1>3, <1>4, <1>5, <1>6, <1>16 DEF TwoBuilds!Merge
<1>17. ASSUME NEW b \in Build, TwoBuilds!Deliver(b) PROVE TwoBuilds!TypeOK'
  BY <1>1, <1>2, <1>3, <1>4, <1>5, <1>6, <1>17 DEF TwoBuilds!Deliver
<1>18. ASSUME NEW b \in Build, TwoBuilds!Shortfall(b) PROVE TwoBuilds!TypeOK'
  <2>1. x1' \in [Build -> P] /\ x2' \subseteq Build /\ \A m \in x2' : x1'[m] \in TwoBuilds!Alive
    BY <1>1, <1>4, <1>6, <1>18 DEF TwoBuilds!Shortfall
  <2>2. x4' \in [FolderIds -> Build \cup {TwoBuilds!None}] /\ x8' \in [Build -> S]
    BY <1>1, <1>4, <1>18 DEF TwoBuilds!Shortfall
  <2>3. x7' \in [Build -> W] /\ x18' \in 0 .. MaxFailures
    <3>1. x7' = [x7 EXCEPT ![b] = @ \cup {TwoBuilds!Main}] /\ x7[b] \cup {TwoBuilds!Main} \in W
      BY <1>1, <1>5, <1>18 DEF TwoBuilds!Shortfall
    <3>2. x18' \in 0 .. MaxFailures
      BY <1>1, <1>3, <1>18 DEF TwoBuilds!Shortfall
    <3>3. QED BY <1>1, <3>1, <3>2
  <2>4. QED BY <1>1, <1>2, <1>18, <2>1, <2>2, <2>3 DEF TwoBuilds!Shortfall
<1>19. ASSUME NEW b \in Build, TwoBuilds!Fail(b) PROVE TwoBuilds!TypeOK'
  BY <1>1, <1>2, <1>3, <1>4, <1>5, <1>6, <1>19 DEF TwoBuilds!Fail
<1>20. ASSUME NEW b \in Build, TwoBuilds!Finalize(b) PROVE TwoBuilds!TypeOK'
  <2>1. x1' \in [Build -> P] /\ x2' \subseteq Build /\ \A m \in x2' : x1'[m] \in TwoBuilds!Alive
    BY <1>1, <1>4, <1>6, <1>20 DEF TwoBuilds!Finalize
  <2>2. TwoBuilds!SaveManifest(b, x8[b]) /\ x8[b] \in K
    BY <1>1, <1>4, <1>20 DEF TwoBuilds!Finalize, TwoBuilds!Active
  <2>3. QED BY <1>1, <1>2, <1>7, <1>20, <2>1, <2>2 DEF TwoBuilds!Finalize
<1>21. ASSUME NEW b \in Build, TwoBuilds!SaveFinal(b) PROVE TwoBuilds!TypeOK'
  BY <1>1, <1>2, <1>3, <1>4, <1>5, <1>6, <1>21 DEF TwoBuilds!SaveFinal
<1>22. ASSUME NEW b \in Build, TwoBuilds!Announce(b) PROVE TwoBuilds!TypeOK'
  BY <1>1, <1>2, <1>3, <1>4, <1>5, <1>6, <1>22 DEF TwoBuilds!Announce
<1>23. ASSUME NEW b \in Build, TwoBuilds!SaveFailed(b) PROVE TwoBuilds!TypeOK'
  BY <1>1, <1>2, <1>3, <1>4, <1>5, <1>6, <1>23 DEF TwoBuilds!SaveFailed
<1>24. ASSUME NEW b \in Build, TwoBuilds!FileFailed(b) PROVE TwoBuilds!TypeOK'
  BY <1>1, <1>2, <1>3, <1>4, <1>5, <1>6, <1>24 DEF TwoBuilds!FileFailed
<1>25. ASSUME NEW b \in Build, TwoBuilds!Abandon(b) PROVE TwoBuilds!TypeOK'
  BY <1>1, <1>2, <1>3, <1>4, <1>5, <1>6, <1>25 DEF TwoBuilds!Abandon
<1>26. ASSUME NEW b \in Build, TwoBuilds!Recover(b) PROVE TwoBuilds!TypeOK'
  <2>1. x1' \in [Build -> P] /\ x2' \subseteq Build /\ \A m \in x2' : x1'[m] \in TwoBuilds!Alive
    BY <1>1, <1>4, <1>6, <1>26 DEF TwoBuilds!Recover
  <2>2. x7' \in [Build -> W]
    BY <1>1, <1>5, <1>26 DEF TwoBuilds!Recover, TwoBuilds!Rescue
  <2>3. x8' \in [Build -> S]
    BY <1>1, <1>4, <1>26 DEF TwoBuilds!Recover
  <2>4. TwoBuilds!SaveManifest(b, "cancelled")
    BY <1>26 DEF TwoBuilds!Recover
  <2>5. QED BY <1>1, <1>2, <1>4, <1>7, <1>26, <2>1, <2>2, <2>3, <2>4 DEF TwoBuilds!Recover
<1>27. ASSUME NEW b \in Build, TwoBuilds!SaveCancelled(b) PROVE TwoBuilds!TypeOK'
  BY <1>1, <1>2, <1>3, <1>4, <1>5, <1>6, <1>27 DEF TwoBuilds!SaveCancelled
<1>28. ASSUME NEW b \in Build, TwoBuilds!AnnounceCancelled(b) PROVE TwoBuilds!TypeOK'
  BY <1>1, <1>2, <1>3, <1>4, <1>5, <1>6, <1>28 DEF TwoBuilds!AnnounceCancelled
<1>29. ASSUME NEW b \in Build, TwoBuilds!Interrupt(b) PROVE TwoBuilds!TypeOK'
  BY <1>1, <1>2, <1>3, <1>4, <1>5, <1>6, <1>29 DEF TwoBuilds!Interrupt
<1>30. ASSUME NEW b \in Build, TwoBuilds!Unwind(b) PROVE TwoBuilds!TypeOK'
  BY <1>1, <1>2, <1>3, <1>4, <1>5, <1>6, <1>30 DEF TwoBuilds!Unwind
<1>31. ASSUME NEW b \in Build, TwoBuilds!DeleteBuild(b) PROVE TwoBuilds!TypeOK'
  <2> DEFINE own == x11[b] # TwoBuilds!None /\ b \in x9 /\ x4[x3[b]] = b
  <2>1. x4' \in [FolderIds -> Build \cup {TwoBuilds!None}] /\ x10' \in [FolderIds -> K]
    <3>1. CASE own
      BY <1>1, <1>4, <1>31, <3>1 DEF TwoBuilds!DeleteBuild
    <3>2. CASE ~own
      BY <1>1, <1>31, <3>2 DEF TwoBuilds!DeleteBuild
    <3>3. QED BY <3>1, <3>2
  <2>2. x11' \in [Build -> R] /\ x12' \in [Build -> C] /\ x19' \in 0 .. MaxDeletes
    BY <1>1, <1>3, <1>4, <1>31 DEF TwoBuilds!DeleteBuild
  <2>3. QED BY <1>1, <1>2, <1>31, <2>1, <2>2 DEF TwoBuilds!DeleteBuild
<1>32. ASSUME NEW c \in Canceller, TwoBuilds!Insist(c) PROVE TwoBuilds!TypeOK'
  BY <1>1, <1>2, <1>3, <1>4, <1>32 DEF TwoBuilds!Insist
<1>33. ASSUME NEW c \in Canceller, TwoBuilds!Conclude(c) PROVE TwoBuilds!TypeOK'
  BY <1>1, <1>2, <1>3, <1>4, <1>33 DEF TwoBuilds!Conclude
<1>34. ASSUME NEW c \in Canceller, NEW b \in Build, TwoBuilds!Cancel(c, b) PROVE TwoBuilds!TypeOK'
  <2>1. x14' \in [Canceller -> SUBSET Build] /\ x15' \in [Canceller -> Q]
    BY <1>1, <1>4, <1>34 DEF TwoBuilds!Cancel
  <2>2. x2' \subseteq Build /\ x13' \subseteq Build
    BY <1>1, <1>34 DEF TwoBuilds!Cancel
  <2>3. \A m \in x2' : x1'[m] \in TwoBuilds!Alive
    BY <1>1, <1>34 DEF TwoBuilds!Cancel, TwoBuilds!Tabled
  <2>4. QED BY <1>1, <1>2, <1>34, <2>1, <2>2, <2>3 DEF TwoBuilds!Cancel
<1>35. ASSUME NEW f \in FolderIds, TwoBuilds!DeleteProject(f) PROVE TwoBuilds!TypeOK'
  BY <1>1, <1>2, <1>3, <1>4, <1>35 DEF TwoBuilds!DeleteProject
<1>36. ASSUME TwoBuilds!Restart PROVE TwoBuilds!TypeOK'
  BY <1>1, <1>2, <1>3, <1>4, <1>5, <1>36 DEF TwoBuilds!Restart
<1>37. CASE UNCHANGED TwoBuilds!vars
  BY <1>1, <1>2, <1>37 DEF TwoBuilds!vars
<1>38. QED
  BY <1>8, <1>9, <1>10, <1>11, <1>12, <1>13, <1>14, <1>15, <1>16, <1>17, <1>18, <1>19, <1>20,
     <1>21, <1>22, <1>23, <1>24, <1>25, <1>26, <1>27, <1>28, <1>29, <1>30, <1>31, <1>32, <1>33,
     <1>34, <1>35, <1>36, <1>37 DEF TwoBuilds!Next, TwoBuilds!BuildStep

\* The state of a build in the terms of this module; what it is to be after a step.
LEMMA BuildsStep ==
  ASSUME TwoBuilds!Countable, TwoBuilds!IInv, [TwoBuilds!Next]_(TwoBuilds!vars)
  PROVE  TwoBuilds!IInv'
<1> DEFINE Early == {"created", "selecting", "saved", "checkpoint"}
           Guarded == {"stages", "sampling", "settling", "saving", "announcing"}
           Kept == {"selecting", "saved", "checkpoint"} \cup Guarded
           Ran == {"settling", "saving", "announcing"}
           Rowed == {"saved", "checkpoint", "stages", "sampling", "settling", "saving"}
           Final == {"completed", "failed", "cancelled"}
           None == "none"
           Tabled(b) ==
             /\ x1'[b] = "new" => x12'[b] = None /\ x11'[b] = None
             /\ x1'[b] = "new" \/ b \in x13' => \A c \in Canceller : b \notin x14'[c]
             /\ b \in x13' => x1'[b] \in TwoBuilds!Alive
             /\ \A c \in Canceller : b \in x14'[c] => x14'[c] = {b}
             /\ b \in x2' => TwoBuilds!Waited(b)'
             /\ x1'[b] \in Early \cup Guarded \cup {"failing", "failed"} /\ b \notin x2' => b \in x13'
           Active(b) ==
             b \notin x2' =>
             /\ x1'[b] \in {"created", "selecting", "saved"} => x12'[b] = "queued"
             /\ x1'[b] \in {"checkpoint"} \cup Guarded => x12'[b] = "running"
             /\ x1'[b] \in Rowed => x11'[b] = "running"
             /\ x1'[b] \in Ran => x8'[b] \in Final
             /\ x1'[b] = "announcing" => x11'[b] = x8'[b]
           Keeps(b) ==
             /\ x1'[b] \in {"new", "created"} => b \notin x17'
             /\ x1'[b] \in TwoBuilds!Alive \ {"created"} => x3'[b] \in FolderIds
             /\ x1'[b] \in Kept /\ b \notin x2' => x4'[x3'[b]] = b \/ \E u \in x17' : x3'[u] = x3'[b]
           Listed(b) ==
             /\ x1'[b] \in {"new"} \cup Early => x6'[b] = {} /\ x8'[b] = "running"
             /\ x1'[b] = "checkpoint" => "main" \in x5'[b]
             /\ x1'[b] \in Guarded => x6'[b] \subseteq x5'[b] /\ "main" \in x5'[b] /\ x8'[b] # "cancelled"
             /\ x8'[b] = "cancelled" =>
                  x6'[b] \subseteq x7'[b] /\ x1'[b] \in {"cancelling", "recorded", "unwinding", "ended"}
           Settles(b) ==
             /\ x1'[b] \in {"new"} \cup Early => b \notin x16'
             /\ b \in x16' /\ x1'[b] \in {"failed", "unwinding", "ended"} =>
                  TwoBuilds!Agree(b)' \/ TwoBuilds!Waited(b)'
             /\ x1'[b] = "recorded" => x11'[b] \in {"cancelled", None}
           Good(b) == Tabled(b) /\ Active(b) /\ Keeps(b) /\ Listed(b) /\ Settles(b)
<1>1. TwoBuilds!TypeOK /\ TwoBuilds!TypeOK'
  BY BuildsTypes DEF TwoBuilds!IInv
<1>2. /\ x1 \in [Build -> TwoBuilds!Alive \cup {"new", "ended"}] /\ x2 \subseteq Build
      /\ x3 \in [Build -> FolderIds \cup {0}] /\ x4 \in [FolderIds -> Build \cup {None}]
      /\ DOMAIN x5 = Build /\ DOMAIN x6 = Build /\ DOMAIN x7 = Build /\ DOMAIN x8 = Build
      /\ x5 = [m \in Build |-> x5[m]] /\ x6 = [m \in Build |-> x6[m]] /\ x7 = [m \in Build |-> x7[m]]
      /\ x8 = [m \in Build |-> x8[m]]
      /\ x11 \in [Build -> Final \cup {None, "running", "interrupted"}]
      /\ x12 \in [Build -> Final \cup {None, "queued", "running"}]
      /\ x14 \in [Canceller -> SUBSET Build]
      /\ DOMAIN x15 = Canceller /\ x15 = [c \in Canceller |-> x15[c]] /\ x16 \subseteq Build /\ x17 \subseteq Build
      /\ None \notin Build /\ \A b \in x2 : x1[b] \in TwoBuilds!Alive
  BY <1>1, BuildNames DEF TwoBuilds!TypeOK, TwoBuilds!Countable
<1>3. \A b \in Build :
        /\ x1[b] = "new" => x12[b] = None /\ x11[b] = None
        /\ x1[b] = "new" \/ b \in x13 => \A c \in Canceller : b \notin x14[c]
        /\ b \in x13 => x1[b] \in TwoBuilds!Alive
        /\ \A c \in Canceller : b \in x14[c] => x14[c] = {b}
        /\ b \in x2 => TwoBuilds!Waited(b)
        /\ x1[b] \in Early \cup Guarded \cup {"failing", "failed"} /\ b \notin x2 => b \in x13
  BY BuildNames DEF TwoBuilds!IInv, TwoBuilds!Tabled
<1>4. \A b \in Build : b \notin x2 =>
        /\ x1[b] \in {"created", "selecting", "saved"} => x12[b] = "queued"
        /\ x1[b] \in {"checkpoint"} \cup Guarded => x12[b] = "running"
        /\ x1[b] \in Rowed => x11[b] = "running"
        /\ x1[b] \in Ran => x8[b] \in Final
        /\ x1[b] = "announcing" => x11[b] = x8[b]
  BY BuildNames DEF TwoBuilds!IInv, TwoBuilds!Active
<1>5. \A b \in Build :
        /\ x1[b] \in {"new", "created"} => b \notin x17
        /\ x1[b] \in TwoBuilds!Alive \ {"created"} => x3[b] \in FolderIds
        /\ x1[b] \in Kept /\ b \notin x2 => x4[x3[b]] = b \/ TwoBuilds!Undermined(x3[b])
  BY BuildNames DEF TwoBuilds!IInv, TwoBuilds!Keeps
<1>6. \A b \in Build :
        /\ x1[b] \in {"new"} \cup Early => x6[b] = {} /\ x8[b] = "running"
        /\ x1[b] = "checkpoint" => "main" \in x5[b]
        /\ x1[b] \in Guarded => x6[b] \subseteq x5[b] /\ "main" \in x5[b] /\ x8[b] # "cancelled"
        /\ x8[b] = "cancelled" =>
             x6[b] \subseteq x7[b] /\ x1[b] \in {"cancelling", "recorded", "unwinding", "ended"}
  BY BuildNames DEF TwoBuilds!IInv, TwoBuilds!Listed
<1>7. \A b \in Build :
        /\ x1[b] \in {"new"} \cup Early => b \notin x16
        /\ b \in x16 /\ x1[b] \in {"failed", "unwinding", "ended"} =>
             TwoBuilds!Agree(b) \/ TwoBuilds!Waited(b)
        /\ x1[b] = "recorded" => x11[b] \in {"cancelled", None}
  BY BuildNames DEF TwoBuilds!IInv, TwoBuilds!Settles
<1>8. ASSUME \A b \in Build : Good(b)
      PROVE  TwoBuilds!IInv'
  <2>1. TwoBuilds!Tabled' /\ TwoBuilds!Active'
    BY <1>8, BuildNames DEF TwoBuilds!Tabled, TwoBuilds!Active
  <2>2. TwoBuilds!Keeps' /\ TwoBuilds!Listed' /\ TwoBuilds!Settles'
    BY <1>8, BuildNames
       DEF TwoBuilds!Keeps, TwoBuilds!Undermined, TwoBuilds!Listed, TwoBuilds!Settles
  <2>3. QED BY <1>1, <2>1, <2>2 DEF TwoBuilds!IInv
\* A step of one build b leaves every other as it was, and its folder unless that was b's,
\* nobody's, or undermined.
<1>9. ASSUME NEW b \in Build, UNCHANGED <<x14, x15, x17>>,
             \A m \in Build \ {b} :
               /\ x1'[m] = x1[m] /\ x3'[m] = x3[m] /\ x5'[m] = x5[m] /\ x6'[m] = x6[m]
               /\ x7'[m] = x7[m] /\ x8'[m] = x8[m] /\ x11'[m] = x11[m] /\ x12'[m] = x12[m]
               /\ (m \in x2') = (m \in x2) /\ (m \in x13') = (m \in x13) /\ (m \in x16') = (m \in x16),
             x3'[b] = x3[b] \/ b \notin x17,
             \A f \in FolderIds : x4'[f] = x4[f] \/ x4[f] \in {None, b} \/ TwoBuilds!Undermined(f),
             Good(b)
      PROVE  TwoBuilds!IInv'
  <2> SUFFICES ASSUME NEW m \in Build \ {b} PROVE Good(m)
    BY <1>8, <1>9
  <2>1. TwoBuilds!Waited(m)' = TwoBuilds!Waited(m)
    BY <1>9 DEF TwoBuilds!Waited
  <2>2. TwoBuilds!Agree(m)' = TwoBuilds!Agree(m)
    BY <1>9 DEF TwoBuilds!Agree
  <2>3. Tabled(m) /\ Active(m)
    BY <1>3, <1>4, <1>9, <2>1
  <2>4. Listed(m)
    BY <1>6, <1>9
  <2>5. Settles(m)
    BY <1>7, <1>9, <2>1, <2>2
  <2>6. Keeps(m)
    <3>1. \A f \in FolderIds : TwoBuilds!Undermined(f) => \E u \in x17' : x3'[u] = f
      BY <1>2, <1>9 DEF TwoBuilds!Undermined
    <3>2. /\ x1'[m] \in {"new", "created"} => m \notin x17'
          /\ x1'[m] \in TwoBuilds!Alive \ {"created"} => x3'[m] \in FolderIds
      BY <1>5, <1>9
    <3>3. ASSUME x1'[m] \in Kept, m \notin x2'
          PROVE  x4'[x3'[m]] = m \/ \E u \in x17' : x3'[u] = x3'[m]
      <4>1. x3[m] \in FolderIds /\ (x4[x3[m]] = m \/ TwoBuilds!Undermined(x3[m])) /\ x3'[m] = x3[m]
        BY <1>5, <1>9, <3>3, BuildNames
      <4>2. QED BY <1>2, <1>9, <3>1, <4>1
    <3>4. QED BY <3>2, <3>3
  <2>7. QED BY <2>3, <2>4, <2>5, <2>6
<1> USE DEF TwoBuilds!Goto, TwoBuilds!At, TwoBuilds!Fails, TwoBuilds!Files, TwoBuilds!Trees,
      TwoBuilds!Web, TwoBuilds!Bounds, TwoBuilds!Task, TwoBuilds!SaveManifest
<1>10. ASSUME NEW b \in Build, TwoBuilds!Submit(b) PROVE TwoBuilds!IInv'
  <2>1. /\ UNCHANGED <<x14, x15, x17>> /\ (x3'[b] = x3[b] \/ b \notin x17)
        /\ \A m \in Build \ {b} :
             /\ x1'[m] = x1[m] /\ x3'[m] = x3[m] /\ x5'[m] = x5[m] /\ x6'[m] = x6[m]
             /\ x7'[m] = x7[m] /\ x8'[m] = x8[m] /\ x11'[m] = x11[m] /\ x12'[m] = x12[m]
             /\ (m \in x2') = (m \in x2) /\ (m \in x13') = (m \in x13) /\ (m \in x16') = (m \in x16)
    BY <1>2, <1>5, <1>10 DEF TwoBuilds!Submit
  <2>2. \A f \in FolderIds : x4'[f] = x4[f] \/ x4[f] \in {None, b} \/ TwoBuilds!Undermined(f)
    BY <1>2, <1>5, <1>10, BuildNames DEF TwoBuilds!Submit
  <2>3. Tabled(b) /\ Active(b)
    BY <1>2, <1>3, <1>4, <1>10, <2>1, BuildNames DEF TwoBuilds!Submit, TwoBuilds!Waited
  <2>4. Keeps(b)
    BY <1>2, <1>5, <1>10, <2>1, BuildNames DEF TwoBuilds!Submit, TwoBuilds!Undermined
  <2>5. Listed(b)
    BY <1>2, <1>6, <1>10, BuildNames DEF TwoBuilds!Submit
  <2>6. Settles(b)
    BY <1>2, <1>3, <1>4, <1>7, <1>10, BuildNames
       DEF TwoBuilds!Submit, TwoBuilds!Agree, TwoBuilds!Waited
  <2>7. QED BY <1>9, <2>1, <2>2, <2>3, <2>4, <2>5, <2>6
<1>11. ASSUME NEW b \in Build, TwoBuilds!Reserve(b) PROVE TwoBuilds!IInv'
  <2>1. /\ UNCHANGED <<x14, x15, x17>> /\ (x3'[b] = x3[b] \/ b \notin x17)
        /\ \A m \in Build \ {b} :
             /\ x1'[m] = x1[m] /\ x3'[m] = x3[m] /\ x5'[m] = x5[m] /\ x6'[m] = x6[m]
             /\ x7'[m] = x7[m] /\ x8'[m] = x8[m] /\ x11'[m] = x11[m] /\ x12'[m] = x12[m]
             /\ (m \in x2') = (m \in x2) /\ (m \in x13') = (m \in x13) /\ (m \in x16') = (m \in x16)
    BY <1>2, <1>5, <1>11 DEF TwoBuilds!Reserve
  <2>0. TwoBuilds!Min(TwoBuilds!Free) \in FolderIds /\ x4[TwoBuilds!Min(TwoBuilds!Free)] = None
    <3>1. TwoBuilds!Free # {} /\ TwoBuilds!Free \in SUBSET Nat
      BY <1>11 DEF TwoBuilds!Reserve, TwoBuilds!Free, TwoBuilds!Countable
    <3>2. TwoBuilds!Min(TwoBuilds!Free) \in TwoBuilds!Free
      BY <3>1, FirstIs
    <3>3. QED BY <3>2, BuildNames DEF TwoBuilds!Free
  <2>2. \A f \in FolderIds : x4'[f] = x4[f] \/ x4[f] \in {None, b} \/ TwoBuilds!Undermined(f)
    BY <1>2, <2>0, <1>11 DEF TwoBuilds!Reserve
  <2>3. Tabled(b) /\ Active(b)
    BY <1>2, <1>3, <1>4, <1>11, <2>1, BuildNames DEF TwoBuilds!Reserve, TwoBuilds!Waited
  <2>4. Keeps(b)
    <3>1. x1'[b] = "selecting" /\ x3'[b] \in FolderIds /\ x4'[x3'[b]] = b
      BY <1>2, <2>0, <1>11 DEF TwoBuilds!Reserve
    <3>2. QED BY <3>1
  <2>5. Listed(b)
    BY <1>2, <1>6, <1>11, BuildNames DEF TwoBuilds!Reserve
  <2>6. Settles(b)
    BY <1>2, <1>3, <1>4, <1>7, <1>11, BuildNames
       DEF TwoBuilds!Reserve, TwoBuilds!Agree, TwoBuilds!Waited
  <2>7. QED BY <1>9, <2>1, <2>2, <2>3, <2>4, <2>5, <2>6
<1>12. ASSUME NEW b \in Build, TwoBuilds!SaveRow(b) PROVE TwoBuilds!IInv'
  <2>1. /\ UNCHANGED <<x14, x15, x17>> /\ (x3'[b] = x3[b] \/ b \notin x17)
        /\ \A m \in Build \ {b} :
             /\ x1'[m] = x1[m] /\ x3'[m] = x3[m] /\ x5'[m] = x5[m] /\ x6'[m] = x6[m]
             /\ x7'[m] = x7[m] /\ x8'[m] = x8[m] /\ x11'[m] = x11[m] /\ x12'[m] = x12[m]
             /\ (m \in x2') = (m \in x2) /\ (m \in x13') = (m \in x13) /\ (m \in x16') = (m \in x16)
    BY <1>2, <1>5, <1>12 DEF TwoBuilds!SaveRow
  <2>2. \A f \in FolderIds : x4'[f] = x4[f] \/ x4[f] \in {None, b} \/ TwoBuilds!Undermined(f)
    BY <1>2, <1>5, <1>12, BuildNames DEF TwoBuilds!SaveRow
  <2>3. Tabled(b) /\ Active(b)
    BY <1>2, <1>3, <1>4, <1>12, <2>1, BuildNames DEF TwoBuilds!SaveRow, TwoBuilds!Waited
  <2>4. Keeps(b)
    BY <1>2, <1>5, <1>12, <2>1, BuildNames DEF TwoBuilds!SaveRow, TwoBuilds!Undermined
  <2>5. Listed(b)
    BY <1>2, <1>6, <1>12, BuildNames DEF TwoBuilds!SaveRow
  <2>6. Settles(b)
    BY <1>2, <1>3, <1>4, <1>7, <1>12, BuildNames
       DEF TwoBuilds!SaveRow, TwoBuilds!Agree, TwoBuilds!Waited
  <2>7. QED BY <1>9, <2>1, <2>2, <2>3, <2>4, <2>5, <2>6
<1>13. ASSUME NEW b \in Build, TwoBuilds!OpenTree(b) PROVE TwoBuilds!IInv'
  <2>1. /\ UNCHANGED <<x14, x15, x17>> /\ (x3'[b] = x3[b] \/ b \notin x17)
        /\ \A m \in Build \ {b} :
             /\ x1'[m] = x1[m] /\ x3'[m] = x3[m] /\ x5'[m] = x5[m] /\ x6'[m] = x6[m]
             /\ x7'[m] = x7[m] /\ x8'[m] = x8[m] /\ x11'[m] = x11[m] /\ x12'[m] = x12[m]
             /\ (m \in x2') = (m \in x2) /\ (m \in x13') = (m \in x13) /\ (m \in x16') = (m \in x16)
    BY <1>2, <1>5, <1>13 DEF TwoBuilds!OpenTree
  <2>2. \A f \in FolderIds : x4'[f] = x4[f] \/ x4[f] \in {None, b} \/ TwoBuilds!Undermined(f)
    BY <1>2, <1>5, <1>13, BuildNames DEF TwoBuilds!OpenTree
  <2>3. Tabled(b) /\ Active(b)
    BY <1>2, <1>3, <1>4, <1>13, <2>1, BuildNames DEF TwoBuilds!OpenTree, TwoBuilds!Waited
  <2>4. Keeps(b)
    BY <1>2, <1>5, <1>13, <2>1, BuildNames DEF TwoBuilds!OpenTree, TwoBuilds!Undermined
  <2>5. Listed(b)
    BY <1>2, <1>6, <1>13, BuildNames DEF TwoBuilds!OpenTree
  <2>6. Settles(b)
    BY <1>2, <1>3, <1>4, <1>7, <1>13, BuildNames
       DEF TwoBuilds!OpenTree, TwoBuilds!Agree, TwoBuilds!Waited
  <2>7. QED BY <1>9, <2>1, <2>2, <2>3, <2>4, <2>5, <2>6
<1>14. ASSUME NEW b \in Build, TwoBuilds!Escape(b) PROVE TwoBuilds!IInv'
  <2>1. /\ UNCHANGED <<x14, x15, x17>> /\ (x3'[b] = x3[b] \/ b \notin x17)
        /\ \A m \in Build \ {b} :
             /\ x1'[m] = x1[m] /\ x3'[m] = x3[m] /\ x5'[m] = x5[m] /\ x6'[m] = x6[m]
             /\ x7'[m] = x7[m] /\ x8'[m] = x8[m] /\ x11'[m] = x11[m] /\ x12'[m] = x12[m]
             /\ (m \in x2') = (m \in x2) /\ (m \in x13') = (m \in x13) /\ (m \in x16') = (m \in x16)
    BY <1>2, <1>5, <1>14 DEF TwoBuilds!Escape
  <2>2. \A f \in FolderIds : x4'[f] = x4[f] \/ x4[f] \in {None, b} \/ TwoBuilds!Undermined(f)
    BY <1>2, <1>5, <1>14, BuildNames DEF TwoBuilds!Escape
  <2>3. Tabled(b) /\ Active(b)
    BY <1>2, <1>3, <1>4, <1>14, <2>1, BuildNames DEF TwoBuilds!Escape, TwoBuilds!Waited
  <2>4. Keeps(b)
    BY <1>2, <1>5, <1>14, <2>1, BuildNames DEF TwoBuilds!Escape, TwoBuilds!Undermined
  <2>5. Listed(b)
    BY <1>2, <1>6, <1>14, BuildNames DEF TwoBuilds!Escape
  <2>6. Settles(b)
    BY <1>2, <1>3, <1>4, <1>7, <1>14, BuildNames
       DEF TwoBuilds!Escape, TwoBuilds!Agree, TwoBuilds!Waited
  <2>7. QED BY <1>9, <2>1, <2>2, <2>3, <2>4, <2>5, <2>6
<1>15. ASSUME NEW b \in Build, TwoBuilds!Enter(b) PROVE TwoBuilds!IInv'
  <2>1. /\ UNCHANGED <<x14, x15, x17>> /\ (x3'[b] = x3[b] \/ b \notin x17)
        /\ \A m \in Build \ {b} :
             /\ x1'[m] = x1[m] /\ x3'[m] = x3[m] /\ x5'[m] = x5[m] /\ x6'[m] = x6[m]
             /\ x7'[m] = x7[m] /\ x8'[m] = x8[m] /\ x11'[m] = x11[m] /\ x12'[m] = x12[m]
             /\ (m \in x2') = (m \in x2) /\ (m \in x13') = (m \in x13) /\ (m \in x16') = (m \in x16)
    BY <1>2, <1>5, <1>15 DEF TwoBuilds!Enter
  <2>2. \A f \in FolderIds : x4'[f] = x4[f] \/ x4[f] \in {None, b} \/ TwoBuilds!Undermined(f)
    BY <1>2, <1>5, <1>15, BuildNames DEF TwoBuilds!Enter
  <2>3. Tabled(b) /\ Active(b)
    BY <1>2, <1>3, <1>4, <1>15, <2>1, BuildNames DEF TwoBuilds!Enter, TwoBuilds!Waited
  <2>4. Keeps(b)
    BY <1>2, <1>5, <1>15, <2>1, BuildNames DEF TwoBuilds!Enter, TwoBuilds!Undermined
  <2>5. Listed(b)
    BY <1>2, <1>6, <1>15, BuildNames DEF TwoBuilds!Enter
  <2>6. Settles(b)
    BY <1>2, <1>3, <1>4, <1>7, <1>15, BuildNames
       DEF TwoBuilds!Enter, TwoBuilds!Agree, TwoBuilds!Waited
  <2>7. QED BY <1>9, <2>1, <2>2, <2>3, <2>4, <2>5, <2>6
<1>16. ASSUME NEW b \in Build, TwoBuilds!Write(b) PROVE TwoBuilds!IInv'
  <2>1. /\ UNCHANGED <<x14, x15, x17>> /\ (x3'[b] = x3[b] \/ b \notin x17)
        /\ \A m \in Build \ {b} :
             /\ x1'[m] = x1[m] /\ x3'[m] = x3[m] /\ x5'[m] = x5[m] /\ x6'[m] = x6[m]
             /\ x7'[m] = x7[m] /\ x8'[m] = x8[m] /\ x11'[m] = x11[m] /\ x12'[m] = x12[m]
             /\ (m \in x2') = (m \in x2) /\ (m \in x13') = (m \in x13) /\ (m \in x16') = (m \in x16)
    BY <1>2, <1>5, <1>16 DEF TwoBuilds!Write
  <2>2. \A f \in FolderIds : x4'[f] = x4[f] \/ x4[f] \in {None, b} \/ TwoBuilds!Undermined(f)
    BY <1>2, <1>5, <1>16, BuildNames DEF TwoBuilds!Write
  <2>3. Tabled(b) /\ Active(b)
    BY <1>2, <1>3, <1>4, <1>16, <2>1, BuildNames DEF TwoBuilds!Write, TwoBuilds!Waited
  <2>4. Keeps(b)
    BY <1>2, <1>5, <1>16, <2>1, BuildNames DEF TwoBuilds!Write, TwoBuilds!Undermined
  <2>5. Listed(b)
    BY <1>2, <1>6, <1>16, BuildNames DEF TwoBuilds!Write
  <2>6. Settles(b)
    BY <1>2, <1>3, <1>4, <1>7, <1>16, BuildNames
       DEF TwoBuilds!Write, TwoBuilds!Agree, TwoBuilds!Waited
  <2>7. QED BY <1>9, <2>1, <2>2, <2>3, <2>4, <2>5, <2>6
<1>17. ASSUME NEW b \in Build, TwoBuilds!Sample(b) PROVE TwoBuilds!IInv'
  <2>1. /\ UNCHANGED <<x14, x15, x17>> /\ (x3'[b] = x3[b] \/ b \notin x17)
        /\ \A m \in Build \ {b} :
             /\ x1'[m] = x1[m] /\ x3'[m] = x3[m] /\ x5'[m] = x5[m] /\ x6'[m] = x6[m]
             /\ x7'[m] = x7[m] /\ x8'[m] = x8[m] /\ x11'[m] = x11[m] /\ x12'[m] = x12[m]
             /\ (m \in x2') = (m \in x2) /\ (m \in x13') = (m \in x13) /\ (m \in x16') = (m \in x16)
    BY <1>2, <1>5, <1>17 DEF TwoBuilds!Sample
  <2>2. \A f \in FolderIds : x4'[f] = x4[f] \/ x4[f] \in {None, b} \/ TwoBuilds!Undermined(f)
    BY <1>2, <1>5, <1>17, BuildNames DEF TwoBuilds!Sample
  <2>3. Tabled(b) /\ Active(b)
    BY <1>2, <1>3, <1>4, <1>17, <2>1, BuildNames DEF TwoBuilds!Sample, TwoBuilds!Waited
  <2>4. Keeps(b)
    BY <1>2, <1>5, <1>17, <2>1, BuildNames DEF TwoBuilds!Sample, TwoBuilds!Undermined
  <2>5. Listed(b)
    BY <1>2, <1>6, <1>17, BuildNames DEF TwoBuilds!Sample
  <2>6. Settles(b)
    BY <1>2, <1>3, <1>4, <1>7, <1>17, BuildNames
       DEF TwoBuilds!Sample, TwoBuilds!Agree, TwoBuilds!Waited
  <2>7. QED BY <1>9, <2>1, <2>2, <2>3, <2>4, <2>5, <2>6
<1>18. ASSUME NEW b \in Build, TwoBuilds!Merge(b) PROVE TwoBuilds!IInv'
  <2>1. /\ UNCHANGED <<x14, x15, x17>> /\ (x3'[b] = x3[b] \/ b \notin x17)
        /\ \A m \in Build \ {b} :
             /\ x1'[m] = x1[m] /\ x3'[m] = x3[m] /\ x5'[m] = x5[m] /\ x6'[m] = x6[m]
             /\ x7'[m] = x7[m] /\ x8'[m] = x8[m] /\ x11'[m] = x11[m] /\ x12'[m] = x12[m]
             /\ (m \in x2') = (m \in x2) /\ (m \in x13') = (m \in x13) /\ (m \in x16') = (m \in x16)
    BY <1>2, <1>5, <1>18 DEF TwoBuilds!Merge
  <2>2. \A f \in FolderIds : x4'[f] = x4[f] \/ x4[f] \in {None, b} \/ TwoBuilds!Undermined(f)
    BY <1>2, <1>5, <1>18, BuildNames DEF TwoBuilds!Merge
  <2>3. Tabled(b) /\ Active(b)
    BY <1>2, <1>3, <1>4, <1>18, <2>1, BuildNames DEF TwoBuilds!Merge, TwoBuilds!Waited
  <2>4. Keeps(b)
    BY <1>2, <1>5, <1>18, <2>1, BuildNames DEF TwoBuilds!Merge, TwoBuilds!Undermined
  <2>5. Listed(b)
    BY <1>2, <1>6, <1>18, BuildNames DEF TwoBuilds!Merge
  <2>6. Settles(b)
    BY <1>2, <1>3, <1>4, <1>7, <1>18, BuildNames
       DEF TwoBuilds!Merge, TwoBuilds!Agree, TwoBuilds!Waited
  <2>7. QED BY <1>9, <2>1, <2>2, <2>3, <2>4, <2>5, <2>6
<1>19. ASSUME NEW b \in Build, TwoBuilds!Deliver(b) PROVE TwoBuilds!IInv'
  <2>1. /\ UNCHANGED <<x14, x15, x17>> /\ (x3'[b] = x3[b] \/ b \notin x17)
        /\ \A m \in Build \ {b} :
             /\ x1'[m] = x1[m] /\ x3'[m] = x3[m] /\ x5'[m] = x5[m] /\ x6'[m] = x6[m]
             /\ x7'[m] = x7[m] /\ x8'[m] = x8[m] /\ x11'[m] = x11[m] /\ x12'[m] = x12[m]
             /\ (m \in x2') = (m \in x2) /\ (m \in x13') = (m \in x13) /\ (m \in x16') = (m \in x16)
    BY <1>2, <1>5, <1>19 DEF TwoBuilds!Deliver
  <2>2. \A f \in FolderIds : x4'[f] = x4[f] \/ x4[f] \in {None, b} \/ TwoBuilds!Undermined(f)
    BY <1>2, <1>5, <1>19, BuildNames DEF TwoBuilds!Deliver
  <2>3. Tabled(b) /\ Active(b)
    BY <1>2, <1>3, <1>4, <1>19, <2>1, BuildNames DEF TwoBuilds!Deliver, TwoBuilds!Waited
  <2>4. Keeps(b)
    BY <1>2, <1>5, <1>19, <2>1, BuildNames DEF TwoBuilds!Deliver, TwoBuilds!Undermined
  <2>5. Listed(b)
    BY <1>2, <1>6, <1>19, BuildNames DEF TwoBuilds!Deliver
  <2>6. Settles(b)
    BY <1>2, <1>3, <1>4, <1>7, <1>19, BuildNames
       DEF TwoBuilds!Deliver, TwoBuilds!Agree, TwoBuilds!Waited
  <2>7. QED BY <1>9, <2>1, <2>2, <2>3, <2>4, <2>5, <2>6
<1>20. ASSUME NEW b \in Build, TwoBuilds!Shortfall(b) PROVE TwoBuilds!IInv'
  <2>1. /\ UNCHANGED <<x14, x15, x17>> /\ (x3'[b] = x3[b] \/ b \notin x17)
        /\ \A m \in Build \ {b} :
             /\ x1'[m] = x1[m] /\ x3'[m] = x3[m] /\ x5'[m] = x5[m] /\ x6'[m] = x6[m]
             /\ x7'[m] = x7[m] /\ x8'[m] = x8[m] /\ x11'[m] = x11[m] /\ x12'[m] = x12[m]
             /\ (m \in x2') = (m \in x2) /\ (m \in x13') = (m \in x13) /\ (m \in x16') = (m \in x16)
    BY <1>2, <1>5, <1>20 DEF TwoBuilds!Shortfall
  <2>2. \A f \in FolderIds : x4'[f] = x4[f] \/ x4[f] \in {None, b} \/ TwoBuilds!Undermined(f)
    BY <1>2, <1>5, <1>20, BuildNames DEF TwoBuilds!Shortfall
  <2>3. Tabled(b) /\ Active(b)
    BY <1>2, <1>3, <1>4, <1>20, <2>1, BuildNames DEF TwoBuilds!Shortfall, TwoBuilds!Waited
  <2>4. Keeps(b)
    BY <1>2, <1>5, <1>20, <2>1, BuildNames DEF TwoBuilds!Shortfall, TwoBuilds!Undermined
  <2>5. Listed(b)
    BY <1>2, <1>6, <1>20, BuildNames DEF TwoBuilds!Shortfall
  <2>6. Settles(b)
    BY <1>2, <1>3, <1>4, <1>7, <1>20, BuildNames
       DEF TwoBuilds!Shortfall, TwoBuilds!Agree, TwoBuilds!Waited
  <2>7. QED BY <1>9, <2>1, <2>2, <2>3, <2>4, <2>5, <2>6
<1>21. ASSUME NEW b \in Build, TwoBuilds!Fail(b) PROVE TwoBuilds!IInv'
  <2>1. /\ UNCHANGED <<x14, x15, x17>> /\ (x3'[b] = x3[b] \/ b \notin x17)
        /\ \A m \in Build \ {b} :
             /\ x1'[m] = x1[m] /\ x3'[m] = x3[m] /\ x5'[m] = x5[m] /\ x6'[m] = x6[m]
             /\ x7'[m] = x7[m] /\ x8'[m] = x8[m] /\ x11'[m] = x11[m] /\ x12'[m] = x12[m]
             /\ (m \in x2') = (m \in x2) /\ (m \in x13') = (m \in x13) /\ (m \in x16') = (m \in x16)
    BY <1>2, <1>5, <1>21 DEF TwoBuilds!Fail
  <2>2. \A f \in FolderIds : x4'[f] = x4[f] \/ x4[f] \in {None, b} \/ TwoBuilds!Undermined(f)
    BY <1>2, <1>5, <1>21, BuildNames DEF TwoBuilds!Fail
  <2>3. Tabled(b) /\ Active(b)
    BY <1>2, <1>3, <1>4, <1>21, <2>1, BuildNames DEF TwoBuilds!Fail, TwoBuilds!Waited
  <2>4. Keeps(b)
    BY <1>2, <1>5, <1>21, <2>1, BuildNames DEF TwoBuilds!Fail, TwoBuilds!Undermined
  <2>5. Listed(b)
    BY <1>2, <1>6, <1>21, BuildNames DEF TwoBuilds!Fail
  <2>6. Settles(b)
    BY <1>2, <1>3, <1>4, <1>7, <1>21, BuildNames
       DEF TwoBuilds!Fail, TwoBuilds!Agree, TwoBuilds!Waited
  <2>7. QED BY <1>9, <2>1, <2>2, <2>3, <2>4, <2>5, <2>6
<1>22. ASSUME NEW b \in Build, TwoBuilds!Finalize(b) PROVE TwoBuilds!IInv'
  <2>1. /\ UNCHANGED <<x14, x15, x17>> /\ (x3'[b] = x3[b] \/ b \notin x17)
        /\ \A m \in Build \ {b} :
             /\ x1'[m] = x1[m] /\ x3'[m] = x3[m] /\ x5'[m] = x5[m] /\ x6'[m] = x6[m]
             /\ x7'[m] = x7[m] /\ x8'[m] = x8[m] /\ x11'[m] = x11[m] /\ x12'[m] = x12[m]
             /\ (m \in x2') = (m \in x2) /\ (m \in x13') = (m \in x13) /\ (m \in x16') = (m \in x16)
    BY <1>2, <1>5, <1>22 DEF TwoBuilds!Finalize
  <2>2. \A f \in FolderIds : x4'[f] = x4[f] \/ x4[f] \in {None, b} \/ TwoBuilds!Undermined(f)
    BY <1>2, <1>5, <1>22, BuildNames DEF TwoBuilds!Finalize
  <2>3. Tabled(b) /\ Active(b)
    BY <1>2, <1>3, <1>4, <1>22, <2>1, BuildNames DEF TwoBuilds!Finalize, TwoBuilds!Waited
  <2>4. Keeps(b)
    BY <1>2, <1>5, <1>22, <2>1, BuildNames DEF TwoBuilds!Finalize, TwoBuilds!Undermined
  <2>5. Listed(b)
    BY <1>2, <1>6, <1>22, BuildNames DEF TwoBuilds!Finalize
  <2>6. Settles(b)
    BY <1>2, <1>3, <1>4, <1>7, <1>22, BuildNames
       DEF TwoBuilds!Finalize, TwoBuilds!Agree, TwoBuilds!Waited
  <2>7. QED BY <1>9, <2>1, <2>2, <2>3, <2>4, <2>5, <2>6
<1>23. ASSUME NEW b \in Build, TwoBuilds!SaveFinal(b) PROVE TwoBuilds!IInv'
  <2>1. /\ UNCHANGED <<x14, x15, x17>> /\ (x3'[b] = x3[b] \/ b \notin x17)
        /\ \A m \in Build \ {b} :
             /\ x1'[m] = x1[m] /\ x3'[m] = x3[m] /\ x5'[m] = x5[m] /\ x6'[m] = x6[m]
             /\ x7'[m] = x7[m] /\ x8'[m] = x8[m] /\ x11'[m] = x11[m] /\ x12'[m] = x12[m]
             /\ (m \in x2') = (m \in x2) /\ (m \in x13') = (m \in x13) /\ (m \in x16') = (m \in x16)
    BY <1>2, <1>5, <1>23 DEF TwoBuilds!SaveFinal
  <2>2. \A f \in FolderIds : x4'[f] = x4[f] \/ x4[f] \in {None, b} \/ TwoBuilds!Undermined(f)
    BY <1>2, <1>5, <1>23, BuildNames DEF TwoBuilds!SaveFinal
  <2>3. Tabled(b) /\ Active(b)
    BY <1>2, <1>3, <1>4, <1>23, <2>1, BuildNames DEF TwoBuilds!SaveFinal, TwoBuilds!Waited
  <2>4. Keeps(b)
    BY <1>2, <1>5, <1>23, <2>1, BuildNames DEF TwoBuilds!SaveFinal, TwoBuilds!Undermined
  <2>5. Listed(b)
    BY <1>2, <1>6, <1>23, BuildNames DEF TwoBuilds!SaveFinal
  <2>6. Settles(b)
    BY <1>2, <1>3, <1>4, <1>7, <1>23, BuildNames
       DEF TwoBuilds!SaveFinal, TwoBuilds!Agree, TwoBuilds!Waited
  <2>7. QED BY <1>9, <2>1, <2>2, <2>3, <2>4, <2>5, <2>6
<1>24. ASSUME NEW b \in Build, TwoBuilds!Announce(b) PROVE TwoBuilds!IInv'
  <2>1. /\ UNCHANGED <<x14, x15, x17>> /\ (x3'[b] = x3[b] \/ b \notin x17)
        /\ \A m \in Build \ {b} :
             /\ x1'[m] = x1[m] /\ x3'[m] = x3[m] /\ x5'[m] = x5[m] /\ x6'[m] = x6[m]
             /\ x7'[m] = x7[m] /\ x8'[m] = x8[m] /\ x11'[m] = x11[m] /\ x12'[m] = x12[m]
             /\ (m \in x2') = (m \in x2) /\ (m \in x13') = (m \in x13) /\ (m \in x16') = (m \in x16)
    BY <1>2, <1>5, <1>24 DEF TwoBuilds!Announce
  <2>2. \A f \in FolderIds : x4'[f] = x4[f] \/ x4[f] \in {None, b} \/ TwoBuilds!Undermined(f)
    BY <1>2, <1>5, <1>24, BuildNames DEF TwoBuilds!Announce
  <2>3. Tabled(b) /\ Active(b)
    BY <1>2, <1>3, <1>4, <1>24, <2>1, BuildNames DEF TwoBuilds!Announce, TwoBuilds!Waited
  <2>4. Keeps(b)
    BY <1>2, <1>5, <1>24, <2>1, BuildNames DEF TwoBuilds!Announce, TwoBuilds!Undermined
  <2>5. Listed(b)
    BY <1>2, <1>6, <1>24, BuildNames DEF TwoBuilds!Announce
  <2>6. Settles(b)
    BY <1>2, <1>3, <1>4, <1>7, <1>24, BuildNames
       DEF TwoBuilds!Announce, TwoBuilds!Agree, TwoBuilds!Waited
  <2>7. QED BY <1>9, <2>1, <2>2, <2>3, <2>4, <2>5, <2>6
<1>25. ASSUME NEW b \in Build, TwoBuilds!SaveFailed(b) PROVE TwoBuilds!IInv'
  <2>1. /\ UNCHANGED <<x14, x15, x17>> /\ (x3'[b] = x3[b] \/ b \notin x17)
        /\ \A m \in Build \ {b} :
             /\ x1'[m] = x1[m] /\ x3'[m] = x3[m] /\ x5'[m] = x5[m] /\ x6'[m] = x6[m]
             /\ x7'[m] = x7[m] /\ x8'[m] = x8[m] /\ x11'[m] = x11[m] /\ x12'[m] = x12[m]
             /\ (m \in x2') = (m \in x2) /\ (m \in x13') = (m \in x13) /\ (m \in x16') = (m \in x16)
    BY <1>2, <1>5, <1>25 DEF TwoBuilds!SaveFailed
  <2>2. \A f \in FolderIds : x4'[f] = x4[f] \/ x4[f] \in {None, b} \/ TwoBuilds!Undermined(f)
    BY <1>2, <1>5, <1>25, BuildNames DEF TwoBuilds!SaveFailed
  <2>3. Tabled(b) /\ Active(b)
    BY <1>2, <1>3, <1>4, <1>25, <2>1, BuildNames DEF TwoBuilds!SaveFailed, TwoBuilds!Waited
  <2>4. Keeps(b)
    BY <1>2, <1>5, <1>25, <2>1, BuildNames DEF TwoBuilds!SaveFailed, TwoBuilds!Undermined
  <2>5. Listed(b)
    BY <1>2, <1>6, <1>25, BuildNames DEF TwoBuilds!SaveFailed
  <2>6. Settles(b)
    BY <1>2, <1>3, <1>4, <1>7, <1>25, BuildNames
       DEF TwoBuilds!SaveFailed, TwoBuilds!Agree, TwoBuilds!Waited
  <2>7. QED BY <1>9, <2>1, <2>2, <2>3, <2>4, <2>5, <2>6
<1>26. ASSUME NEW b \in Build, TwoBuilds!FileFailed(b) PROVE TwoBuilds!IInv'
  <2>1. /\ UNCHANGED <<x14, x15, x17>> /\ (x3'[b] = x3[b] \/ b \notin x17)
        /\ \A m \in Build \ {b} :
             /\ x1'[m] = x1[m] /\ x3'[m] = x3[m] /\ x5'[m] = x5[m] /\ x6'[m] = x6[m]
             /\ x7'[m] = x7[m] /\ x8'[m] = x8[m] /\ x11'[m] = x11[m] /\ x12'[m] = x12[m]
             /\ (m \in x2') = (m \in x2) /\ (m \in x13') = (m \in x13) /\ (m \in x16') = (m \in x16)
    BY <1>2, <1>5, <1>26 DEF TwoBuilds!FileFailed
  <2>2. \A f \in FolderIds : x4'[f] = x4[f] \/ x4[f] \in {None, b} \/ TwoBuilds!Undermined(f)
    BY <1>2, <1>5, <1>26, BuildNames DEF TwoBuilds!FileFailed
  <2>3. Tabled(b) /\ Active(b)
    BY <1>2, <1>3, <1>4, <1>26, <2>1, BuildNames DEF TwoBuilds!FileFailed, TwoBuilds!Waited
  <2>4. Keeps(b)
    BY <1>2, <1>5, <1>26, <2>1, BuildNames DEF TwoBuilds!FileFailed, TwoBuilds!Undermined
  <2>5. Listed(b)
    BY <1>2, <1>6, <1>26, BuildNames DEF TwoBuilds!FileFailed
  <2>6. Settles(b)
    BY <1>2, <1>3, <1>4, <1>7, <1>26, BuildNames
       DEF TwoBuilds!FileFailed, TwoBuilds!Agree, TwoBuilds!Waited
  <2>7. QED BY <1>9, <2>1, <2>2, <2>3, <2>4, <2>5, <2>6
<1>27. ASSUME NEW b \in Build, TwoBuilds!Abandon(b) PROVE TwoBuilds!IInv'
  <2>1. /\ UNCHANGED <<x14, x15, x17>> /\ (x3'[b] = x3[b] \/ b \notin x17)
        /\ \A m \in Build \ {b} :
             /\ x1'[m] = x1[m] /\ x3'[m] = x3[m] /\ x5'[m] = x5[m] /\ x6'[m] = x6[m]
             /\ x7'[m] = x7[m] /\ x8'[m] = x8[m] /\ x11'[m] = x11[m] /\ x12'[m] = x12[m]
             /\ (m \in x2') = (m \in x2) /\ (m \in x13') = (m \in x13) /\ (m \in x16') = (m \in x16)
    BY <1>2, <1>5, <1>27 DEF TwoBuilds!Abandon
  <2>2. \A f \in FolderIds : x4'[f] = x4[f] \/ x4[f] \in {None, b} \/ TwoBuilds!Undermined(f)
    BY <1>2, <1>5, <1>27, BuildNames DEF TwoBuilds!Abandon
  <2>3. Tabled(b) /\ Active(b)
    BY <1>2, <1>3, <1>4, <1>27, <2>1, BuildNames DEF TwoBuilds!Abandon, TwoBuilds!Waited
  <2>4. Keeps(b)
    BY <1>2, <1>5, <1>27, <2>1, BuildNames DEF TwoBuilds!Abandon, TwoBuilds!Undermined
  <2>5. Listed(b)
    BY <1>2, <1>6, <1>27, BuildNames DEF TwoBuilds!Abandon
  <2>6. Settles(b)
    BY <1>2, <1>3, <1>4, <1>7, <1>27, BuildNames
       DEF TwoBuilds!Abandon, TwoBuilds!Agree, TwoBuilds!Waited
  <2>7. QED BY <1>9, <2>1, <2>2, <2>3, <2>4, <2>5, <2>6
<1>28. ASSUME NEW b \in Build, TwoBuilds!Recover(b) PROVE TwoBuilds!IInv'
  <2>1. /\ UNCHANGED <<x14, x15, x17>> /\ (x3'[b] = x3[b] \/ b \notin x17)
        /\ \A m \in Build \ {b} :
             /\ x1'[m] = x1[m] /\ x3'[m] = x3[m] /\ x5'[m] = x5[m] /\ x6'[m] = x6[m]
             /\ x7'[m] = x7[m] /\ x8'[m] = x8[m] /\ x11'[m] = x11[m] /\ x12'[m] = x12[m]
             /\ (m \in x2') = (m \in x2) /\ (m \in x13') = (m \in x13) /\ (m \in x16') = (m \in x16)
    BY <1>2, <1>5, <1>28 DEF TwoBuilds!Recover
  <2>2. \A f \in FolderIds : x4'[f] = x4[f] \/ x4[f] \in {None, b} \/ TwoBuilds!Undermined(f)
    BY <1>2, <1>5, <1>28, BuildNames DEF TwoBuilds!Recover
  <2>3. Tabled(b) /\ Active(b)
    BY <1>2, <1>3, <1>4, <1>28, <2>1, BuildNames DEF TwoBuilds!Recover, TwoBuilds!Waited
  <2>4. Keeps(b)
    BY <1>2, <1>5, <1>28, <2>1, BuildNames DEF TwoBuilds!Recover, TwoBuilds!Undermined
  <2>5. Listed(b)
    BY <1>2, <1>6, <1>28, BuildNames DEF TwoBuilds!Recover, TwoBuilds!Rescue
  <2>6. Settles(b)
    BY <1>2, <1>3, <1>4, <1>7, <1>28, BuildNames
       DEF TwoBuilds!Recover, TwoBuilds!Agree, TwoBuilds!Waited
  <2>7. QED BY <1>9, <2>1, <2>2, <2>3, <2>4, <2>5, <2>6
<1>29. ASSUME NEW b \in Build, TwoBuilds!SaveCancelled(b) PROVE TwoBuilds!IInv'
  <2>1. /\ UNCHANGED <<x14, x15, x17>> /\ (x3'[b] = x3[b] \/ b \notin x17)
        /\ \A m \in Build \ {b} :
             /\ x1'[m] = x1[m] /\ x3'[m] = x3[m] /\ x5'[m] = x5[m] /\ x6'[m] = x6[m]
             /\ x7'[m] = x7[m] /\ x8'[m] = x8[m] /\ x11'[m] = x11[m] /\ x12'[m] = x12[m]
             /\ (m \in x2') = (m \in x2) /\ (m \in x13') = (m \in x13) /\ (m \in x16') = (m \in x16)
    BY <1>2, <1>5, <1>29 DEF TwoBuilds!SaveCancelled
  <2>2. \A f \in FolderIds : x4'[f] = x4[f] \/ x4[f] \in {None, b} \/ TwoBuilds!Undermined(f)
    BY <1>2, <1>5, <1>29, BuildNames DEF TwoBuilds!SaveCancelled
  <2>3. Tabled(b) /\ Active(b)
    BY <1>2, <1>3, <1>4, <1>29, <2>1, BuildNames DEF TwoBuilds!SaveCancelled, TwoBuilds!Waited
  <2>4. Keeps(b)
    BY <1>2, <1>5, <1>29, <2>1, BuildNames DEF TwoBuilds!SaveCancelled, TwoBuilds!Undermined
  <2>5. Listed(b)
    BY <1>2, <1>6, <1>29, BuildNames DEF TwoBuilds!SaveCancelled
  <2>6. Settles(b)
    BY <1>2, <1>3, <1>4, <1>7, <1>29, BuildNames
       DEF TwoBuilds!SaveCancelled, TwoBuilds!Agree, TwoBuilds!Waited
  <2>7. QED BY <1>9, <2>1, <2>2, <2>3, <2>4, <2>5, <2>6
<1>30. ASSUME NEW b \in Build, TwoBuilds!AnnounceCancelled(b) PROVE TwoBuilds!IInv'
  <2>1. /\ UNCHANGED <<x14, x15, x17>> /\ (x3'[b] = x3[b] \/ b \notin x17)
        /\ \A m \in Build \ {b} :
             /\ x1'[m] = x1[m] /\ x3'[m] = x3[m] /\ x5'[m] = x5[m] /\ x6'[m] = x6[m]
             /\ x7'[m] = x7[m] /\ x8'[m] = x8[m] /\ x11'[m] = x11[m] /\ x12'[m] = x12[m]
             /\ (m \in x2') = (m \in x2) /\ (m \in x13') = (m \in x13) /\ (m \in x16') = (m \in x16)
    BY <1>2, <1>5, <1>30 DEF TwoBuilds!AnnounceCancelled
  <2>2. \A f \in FolderIds : x4'[f] = x4[f] \/ x4[f] \in {None, b} \/ TwoBuilds!Undermined(f)
    BY <1>2, <1>5, <1>30, BuildNames DEF TwoBuilds!AnnounceCancelled
  <2>3. Tabled(b) /\ Active(b)
    BY <1>2, <1>3, <1>4, <1>30, <2>1, BuildNames
       DEF TwoBuilds!AnnounceCancelled, TwoBuilds!Waited
  <2>4. Keeps(b)
    BY <1>2, <1>5, <1>30, <2>1, BuildNames DEF TwoBuilds!AnnounceCancelled, TwoBuilds!Undermined
  <2>5. Listed(b)
    BY <1>2, <1>6, <1>30, BuildNames DEF TwoBuilds!AnnounceCancelled
  <2>6. Settles(b)
    BY <1>2, <1>3, <1>4, <1>7, <1>30, BuildNames
       DEF TwoBuilds!AnnounceCancelled, TwoBuilds!Agree, TwoBuilds!Waited
  <2>7. QED BY <1>9, <2>1, <2>2, <2>3, <2>4, <2>5, <2>6
<1>31. ASSUME NEW b \in Build, TwoBuilds!Interrupt(b) PROVE TwoBuilds!IInv'
  <2>1. /\ UNCHANGED <<x14, x15, x17>> /\ (x3'[b] = x3[b] \/ b \notin x17)
        /\ \A m \in Build \ {b} :
             /\ x1'[m] = x1[m] /\ x3'[m] = x3[m] /\ x5'[m] = x5[m] /\ x6'[m] = x6[m]
             /\ x7'[m] = x7[m] /\ x8'[m] = x8[m] /\ x11'[m] = x11[m] /\ x12'[m] = x12[m]
             /\ (m \in x2') = (m \in x2) /\ (m \in x13') = (m \in x13) /\ (m \in x16') = (m \in x16)
    BY <1>2, <1>5, <1>31 DEF TwoBuilds!Interrupt
  <2>2. \A f \in FolderIds : x4'[f] = x4[f] \/ x4[f] \in {None, b} \/ TwoBuilds!Undermined(f)
    BY <1>2, <1>5, <1>31, BuildNames DEF TwoBuilds!Interrupt
  <2>3. Tabled(b) /\ Active(b)
    BY <1>2, <1>3, <1>4, <1>31, <2>1, BuildNames DEF TwoBuilds!Interrupt, TwoBuilds!Waited
  <2>4. Keeps(b)
    BY <1>2, <1>5, <1>31, <2>1, BuildNames DEF TwoBuilds!Interrupt, TwoBuilds!Undermined
  <2>5. Listed(b)
    BY <1>2, <1>6, <1>31, BuildNames DEF TwoBuilds!Interrupt
  <2>6. Settles(b)
    BY <1>2, <1>3, <1>4, <1>7, <1>31, BuildNames
       DEF TwoBuilds!Interrupt, TwoBuilds!Agree, TwoBuilds!Waited
  <2>7. QED BY <1>9, <2>1, <2>2, <2>3, <2>4, <2>5, <2>6
<1>32. ASSUME NEW b \in Build, TwoBuilds!Unwind(b) PROVE TwoBuilds!IInv'
  <2>1. /\ UNCHANGED <<x14, x15, x17>> /\ (x3'[b] = x3[b] \/ b \notin x17)
        /\ \A m \in Build \ {b} :
             /\ x1'[m] = x1[m] /\ x3'[m] = x3[m] /\ x5'[m] = x5[m] /\ x6'[m] = x6[m]
             /\ x7'[m] = x7[m] /\ x8'[m] = x8[m] /\ x11'[m] = x11[m] /\ x12'[m] = x12[m]
             /\ (m \in x2') = (m \in x2) /\ (m \in x13') = (m \in x13) /\ (m \in x16') = (m \in x16)
    BY <1>2, <1>5, <1>32 DEF TwoBuilds!Unwind
  <2>2. \A f \in FolderIds : x4'[f] = x4[f] \/ x4[f] \in {None, b} \/ TwoBuilds!Undermined(f)
    BY <1>2, <1>5, <1>32, BuildNames DEF TwoBuilds!Unwind
  <2>3. Tabled(b) /\ Active(b)
    BY <1>2, <1>3, <1>4, <1>32, <2>1, BuildNames DEF TwoBuilds!Unwind, TwoBuilds!Waited
  <2>4. Keeps(b)
    BY <1>2, <1>5, <1>32, <2>1, BuildNames DEF TwoBuilds!Unwind, TwoBuilds!Undermined
  <2>5. Listed(b)
    BY <1>2, <1>6, <1>32, BuildNames DEF TwoBuilds!Unwind
  <2>6. Settles(b)
    BY <1>2, <1>3, <1>4, <1>7, <1>32, BuildNames
       DEF TwoBuilds!Unwind, TwoBuilds!Agree, TwoBuilds!Waited
  <2>7. QED BY <1>9, <2>1, <2>2, <2>3, <2>4, <2>5, <2>6
<1>33. ASSUME NEW b \in Build, TwoBuilds!DeleteBuild(b) PROVE TwoBuilds!IInv'
  <2>1. /\ UNCHANGED <<x14, x15, x17>> /\ (x3'[b] = x3[b] \/ b \notin x17)
        /\ \A m \in Build \ {b} :
             /\ x1'[m] = x1[m] /\ x3'[m] = x3[m] /\ x5'[m] = x5[m] /\ x6'[m] = x6[m]
             /\ x7'[m] = x7[m] /\ x8'[m] = x8[m] /\ x11'[m] = x11[m] /\ x12'[m] = x12[m]
             /\ (m \in x2') = (m \in x2) /\ (m \in x13') = (m \in x13) /\ (m \in x16') = (m \in x16)
    BY <1>2, <1>5, <1>33 DEF TwoBuilds!DeleteBuild
  <2>2. \A f \in FolderIds : x4'[f] = x4[f] \/ x4[f] \in {None, b} \/ TwoBuilds!Undermined(f)
    BY <1>2, <1>5, <1>33, BuildNames DEF TwoBuilds!DeleteBuild
  <2>3. Tabled(b) /\ Active(b)
    BY <1>2, <1>3, <1>4, <1>33, <2>1, BuildNames DEF TwoBuilds!DeleteBuild, TwoBuilds!Waited
  <2>4. Keeps(b)
    BY <1>2, <1>4, <1>5, <1>33, <2>1, BuildNames DEF TwoBuilds!DeleteBuild, TwoBuilds!Undermined
  <2>5. Listed(b)
    BY <1>2, <1>6, <1>33, BuildNames DEF TwoBuilds!DeleteBuild
  <2>6. Settles(b)
    BY <1>2, <1>3, <1>4, <1>7, <1>33, BuildNames
       DEF TwoBuilds!DeleteBuild, TwoBuilds!Agree, TwoBuilds!Waited
  <2>7. QED BY <1>9, <2>1, <2>2, <2>3, <2>4, <2>5, <2>6
<1>34. ASSUME NEW c \in Canceller, TwoBuilds!Insist(c) PROVE TwoBuilds!IInv'
  <2> SUFFICES ASSUME NEW b \in Build PROVE Good(b)
    BY <1>8
  <2>1. /\ UNCHANGED <<x1, x3, x4, x5, x6, x7, x8, x11, x12, x13, x14, x16, x17>>
        /\ x2 \subseteq x2' /\ x2' = x2 \cup x14[c]
        /\ x15[c] = "waiting" /\ x15' = [x15 EXCEPT ![c] = "insisting"]
    BY <1>34 DEF TwoBuilds!Insist
  <2>2. TwoBuilds!Waited(b)' = TwoBuilds!Waited(b)
    BY <1>2, <2>1 DEF TwoBuilds!Waited
  <2>3. b \in x14[c] => TwoBuilds!Waited(b)
    BY <2>1 DEF TwoBuilds!Waited
  <2>4. Tabled(b)
    BY <1>3, <2>1, <2>2, <2>3
  <2>5. Active(b) /\ Keeps(b)
    BY <1>4, <1>5, <2>1 DEF TwoBuilds!Undermined
  <2>6. Listed(b)
    BY <1>6, <2>1
  <2>7. Settles(b)
    BY <1>7, <2>1, <2>2 DEF TwoBuilds!Agree
  <2>8. QED BY <2>4, <2>5, <2>6, <2>7
<1>35. ASSUME NEW c \in Canceller, TwoBuilds!Conclude(c) PROVE TwoBuilds!IInv'
  <2>1. PICK b \in x14[c] :
          /\ x12' = [x12 EXCEPT ![b] = IF @ = None THEN None ELSE "cancelled"]
          /\ x11' = [x11 EXCEPT ![b] = "cancelled"]
    BY <1>35, BuildNames DEF TwoBuilds!Conclude
  <2>2. /\ UNCHANGED <<x1, x2, x3, x4, x5, x6, x7, x8, x13, x14, x16, x17>>
        /\ x15' = [x15 EXCEPT ![c] = "ended"]
        /\ x15[c] = "settled" \/ \A d \in x14[c] : x1[d] = "ended"
    BY <1>35 DEF TwoBuilds!Conclude, TwoBuilds!Over
  <2>3. b \in Build /\ x14[c] = {b} /\ x1[b] # "new" /\ b \notin x13
    BY <1>2, <1>3, <2>1
  <2>4. \A m \in Build \ {b} :
          /\ x11'[m] = x11[m] /\ x12'[m] = x12[m] /\ m \notin x14[c]
          /\ TwoBuilds!Agree(m)' = TwoBuilds!Agree(m) /\ TwoBuilds!Waited(m)' = TwoBuilds!Waited(m)
    <3>1. \A m \in Build \ {b} : x11'[m] = x11[m] /\ x12'[m] = x12[m] /\ m \notin x14[c]
      BY <1>2, <2>1, <2>3
    <3>2. QED BY <1>2, <2>2, <3>1 DEF TwoBuilds!Agree, TwoBuilds!Waited
  <2>5. x11'[b] = "cancelled" /\ x12'[b] \in {None, "cancelled"} /\ TwoBuilds!Agree(b)'
    BY <1>2, <2>1, <2>3, BuildNames DEF TwoBuilds!Agree
  <2>6. b \in x2 => TwoBuilds!Waited(b)'
    <3> SUFFICES ASSUME b \in x2 PROVE TwoBuilds!Waited(b)'
      OBVIOUS
    <3>1. x15[c] = "settled"
      BY <1>2, <2>2, <2>3, BuildNames
    <3>2. QED BY <1>2, <1>3, <2>2, <2>3, <3>1 DEF TwoBuilds!Waited
  <2> SUFFICES ASSUME NEW m \in Build PROVE Good(m)
    BY <1>8
  <2>7. Tabled(m)
    BY <1>3, <2>2, <2>3, <2>4, <2>6
  <2>8. Active(m)
    BY <1>3, <1>4, <2>2, <2>3, <2>4
  <2>9. Keeps(m) /\ Listed(m)
    BY <1>5, <1>6, <2>2 DEF TwoBuilds!Undermined
  <2>10. Settles(m)
    BY <1>7, <2>2, <2>4, <2>5
  <2>11. QED BY <2>7, <2>8, <2>9, <2>10
<1>36. ASSUME NEW c \in Canceller, NEW b \in Build, TwoBuilds!Cancel(c, b) PROVE TwoBuilds!IInv'
  <2>1. /\ UNCHANGED <<x1, x3, x4, x5, x6, x7, x8, x11, x12, x16, x17>>
        /\ x15[c] = "new" /\ (x12[b] # None \/ x11[b] # None)
        /\ x14' = [x14 EXCEPT ![c] = {b}] /\ x13' = x13 \ {b} /\ x2 \subseteq x2'
        /\ \A m \in Build : m \in x2' \ x2 => m = b /\ x15'[c] = "waiting"
        /\ b \in x13 => b \in x2'
        /\ \A d \in Canceller \ {c} : x15'[d] = x15[d]
    BY <1>2, <1>36, BuildNames DEF TwoBuilds!Cancel
  <2>2. x1[b] # "new"
    BY <1>3, <2>1
  <2> SUFFICES ASSUME NEW m \in Build PROVE Good(m)
    BY <1>8
  <2>3. TwoBuilds!Waited(m) => TwoBuilds!Waited(m)'
    BY <1>2, <2>1 DEF TwoBuilds!Waited
  <2>4. m \in x2' \ x2 => TwoBuilds!Waited(m)'
    BY <1>2, <2>1 DEF TwoBuilds!Waited
  <2>5. Tabled(m)
    BY <1>2, <1>3, <2>1, <2>2, <2>3, <2>4
  <2>6. Active(m) /\ Keeps(m)
    BY <1>4, <1>5, <2>1 DEF TwoBuilds!Undermined
  <2>7. Listed(m)
    BY <1>6, <2>1
  <2>8. Settles(m)
    BY <1>7, <2>1, <2>3 DEF TwoBuilds!Agree
  <2>9. QED BY <2>5, <2>6, <2>7, <2>8
<1>37. ASSUME NEW f \in FolderIds, TwoBuilds!DeleteProject(f) PROVE TwoBuilds!IInv'
  <2>1. /\ UNCHANGED <<x1, x2, x3, x5, x6, x7, x8, x11, x12, x13, x14, x15, x16>>
        /\ x4' = [x4 EXCEPT ![f] = None]
        /\ x17' = x17 \cup {m \in Build : x3[m] = f /\ x1[m] = "selecting"}
        /\ \A m \in Build : x3[m] = f => x12[m] # "running" /\ x11[m] # "running"
    BY <1>37, BuildNames DEF TwoBuilds!DeleteProject, TwoBuilds!InUse
  <2> SUFFICES ASSUME NEW m \in Build PROVE Good(m)
    BY <1>8
  <2>2. TwoBuilds!Waited(m)' = TwoBuilds!Waited(m) /\ TwoBuilds!Agree(m)' = TwoBuilds!Agree(m)
    BY <2>1 DEF TwoBuilds!Waited, TwoBuilds!Agree
  <2>3. Tabled(m) /\ Active(m)
    BY <1>3, <1>4, <2>1, <2>2
  <2>4. Listed(m) /\ Settles(m)
    BY <1>6, <1>7, <2>1, <2>2
  <2>5. Keeps(m)
    <3>1. x1[m] \in Kept /\ m \notin x2 /\ x3[m] = f => m \in x17'
      BY <1>4, <2>1
    <3>2. QED BY <1>2, <1>5, <2>1, <3>1 DEF TwoBuilds!Undermined
  <2>6. QED BY <2>3, <2>4, <2>5
<1>38. ASSUME TwoBuilds!Restart PROVE TwoBuilds!IInv'
  <2>1. /\ UNCHANGED <<x6, x7, x8, x14, x16, x17>> /\ x2' = {} /\ x13' = {}
        /\ \A m \in Build :
             /\ x1'[m] \in {"new", "ended"} /\ (x1'[m] = "new") = (x1[m] = "new")
             /\ x12'[m] = None
             /\ x11'[m] \in Final \cup {None, "interrupted"} /\ (x11[m] = None => x11'[m] = None)
    BY <1>2, <1>38, BuildNames DEF TwoBuilds!Restart
  <2> SUFFICES ASSUME NEW m \in Build PROVE Good(m)
    BY <1>8
  <2>2. TwoBuilds!Agree(m)'
    BY <2>1, BuildNames DEF TwoBuilds!Agree
  <2>3. Tabled(m) /\ Active(m)
    BY <1>3, <2>1
  <2>4. Listed(m) /\ Settles(m)
    BY <1>6, <1>7, <2>1, <2>2
  <2>5. Keeps(m)
    BY <1>5, <2>1, BuildNames
  <2>6. QED BY <2>3, <2>4, <2>5
<1>39. CASE UNCHANGED TwoBuilds!vars
  <2> SUFFICES ASSUME NEW m \in Build PROVE Good(m)
    BY <1>8
  <2>1. UNCHANGED <<x1, x2, x3, x4, x5, x6, x7, x8, x11, x12, x13, x14, x15, x16, x17>>
    BY <1>39 DEF TwoBuilds!vars
  <2>2. TwoBuilds!Waited(m)' = TwoBuilds!Waited(m) /\ TwoBuilds!Agree(m)' = TwoBuilds!Agree(m)
    BY <2>1 DEF TwoBuilds!Waited, TwoBuilds!Agree
  <2>3. Tabled(m) /\ Active(m) /\ Keeps(m)
    BY <1>3, <1>4, <1>5, <2>1, <2>2 DEF TwoBuilds!Undermined
  <2>4. Listed(m) /\ Settles(m)
    BY <1>6, <1>7, <2>1, <2>2
  <2>5. QED BY <2>3, <2>4
<1>40. QED
  BY <1>10, <1>11, <1>12, <1>13, <1>14, <1>15, <1>16, <1>17, <1>18, <1>19, <1>20, <1>21,
     <1>22, <1>23, <1>24, <1>25, <1>26, <1>27, <1>28, <1>29, <1>30, <1>31, <1>32, <1>33, <1>34,
     <1>35, <1>36, <1>37, <1>38, <1>39 DEF TwoBuilds!Next, TwoBuilds!BuildStep

\* Its promises to a build follow.
LEMMA BuildsSafe ==
  ASSUME TwoBuilds!IInv
  PROVE  TwoBuilds!Recovered /\ TwoBuilds!FolderKept /\ TwoBuilds!Settled
<1>1. TwoBuilds!Recovered
  BY DEF TwoBuilds!IInv, TwoBuilds!Listed, TwoBuilds!Recovered
<1>2. TwoBuilds!FolderKept
  BY BuildNames DEF TwoBuilds!IInv, TwoBuilds!Keeps, TwoBuilds!Undermined, TwoBuilds!FolderKept
<1>3. TwoBuilds!Settled
  BY BuildNames DEF TwoBuilds!IInv, TwoBuilds!TypeOK, TwoBuilds!Settles, TwoBuilds!Agree,
     TwoBuilds!Waited, TwoBuilds!Settled
<1>4. QED BY <1>1, <1>2, <1>3

-----------------------------------------------------------------------------
(* The parts together: whichever is chosen.                                *)

\* Two runs of improve(), and one of: an edit by somebody else, a late write of a child,
\* a failing file operation; then one run, two edits, and three in all.
TwoRuns == INSTANCE Improve WITH
  Runs <- RunIds, Sources <- SourceFiles, Edits <- Edits,
  MaxLate <- MaxLate, MaxFaults <- MaxFaults, project <- x1, owner <- x2, pc <- x3,
  candidate <- x4, proven <- x5, preimage <- x6, staged <- x7,
  backup <- x8, displaced <- x9, failed <- x10, expected <- x11,
  mutated <- x12, committed <- x13, confirmed <- x14, result <- x15,
  owed <- x16, edits <- x17, lates <- x18, faults <- x19

OneRun == INSTANCE Improve WITH
  Runs <- LoneRuns, Sources <- LoneSources, Edits <- LoneEdits,
  MaxLate <- MaxLate, MaxFaults <- MaxFaults,
  project <- x1, owner <- x2, pc <- x3, candidate <- x4, proven <- x5,
  preimage <- x6, staged <- x7, backup <- x8, displaced <- x9,
  failed <- x10, expected <- x11, mutated <- x12, committed <- x13,
  confirmed <- x14, result <- x15, owed <- x16, edits <- x17,
  lates <- x18, faults <- x19

\* Two visual edits, or two re-verifications, and a crash.
Changes == INSTANCE Reverify WITH
  Editor <- Editor, Verifier <- Verifier, Together <- FALSE,
  MaxTrees <- MaxTrees, MaxCrashes <- MaxCrashes, project <- x1, staged <- x2,
  backup <- x3, versions <- x4, proven <- x5, at <- x6, saw <- x7,
  lock <- x8, claim <- x9, worker <- x10, cancelled <- x11, good <- x12,
  crashes <- x13

\* Three attempts and a rollback from two processes, with room for two records; then two
\* of each.
Releases == INSTANCE Deployments WITH
  Attempt <- Attempts, Rollback <- RollbackIds, Home <- Home,
  KeepLast <- KeepLast, checked <- x1, manifest <- x2, copy <- x3, at <- x4,
  result <- x5, remote <- x6, fit <- x7

Rollbacks == INSTANCE Deployments WITH
  Attempt <- FewAttempts, Rollback <- MoreRollbacks, Home <- Home,
  KeepLast <- KeepLast, checked <- x1, manifest <- x2, copy <- x3, at <- x4,
  result <- x5, remote <- x6, fit <- x7

\* The instances satisfy what their theorems assume.

ASSUME InstancesAllowed ==
  /\ MaxHeals \in Nat
  /\ TwoRuns!Parameters /\ OneRun!Parameters
  /\ Changes!Requests
  /\ Releases!Requests /\ Rollbacks!Requests
  /\ \A n \in SessionRuns : Session(n)!Limits
  /\ \A n \in TreeRuns : Worktree(n)!Deliverables
  /\ Advice!Libraries
  /\ Preview!Apart
  /\ TwoBuilds!Countable

partsVars == <<vars, part, x1, x2, x3, x4, x5, x6, x7, x8, x9, x10, x11, x12, x13, x14, x15,
  x16, x17, x18, x19, x20, x21, x22, x23, x24, x25, x26, x27>>

\* A behaviour of one of these parts, or of any other: PartsSpec of MCParts adds the bounds
\* of a run and the other parts.
PartBegins ==
  /\ part = "improve" => TwoRuns!Init
  /\ part = "one" => OneRun!Init
  /\ part = "changes" => Changes!Init
  /\ part = "releases" => Releases!Init
  /\ part = "rollbacks" => Rollbacks!Init
  /\ part = "cli" => Agents!Init
  /\ part = "session" => Session(1)!Init
  /\ part = "scanned" => Session(2)!Init
  /\ part = "batches" => Session(3)!Init
  /\ part = "tasks" => Worktree(1)!Init
  /\ part = "retries" => Worktree(2)!Init
  /\ part = "skills" => Advice!Init
  /\ part = "previews" => Preview!Init
  /\ part = "builds" => TwoBuilds!Init

PartGoesOn ==
  /\ part' = part
  /\ part = "improve" => [TwoRuns!Next]_(TwoRuns!vars)
  /\ part = "one" => [OneRun!Next]_(OneRun!vars)
  /\ part = "changes" => [Changes!Next]_(Changes!vars)
  /\ part = "releases" => [Releases!Next]_(Releases!vars)
  /\ part = "rollbacks" => [Rollbacks!Next]_(Rollbacks!vars)
  /\ part = "cli" => [Agents!Next]_(Agents!vars)
  /\ part = "session" => [Session(1)!Next]_(Session(1)!vars)
  /\ part = "scanned" => [Session(2)!Next]_(Session(2)!vars)
  /\ part = "batches" => [Session(3)!Next]_(Session(3)!vars)
  /\ part = "tasks" => [Worktree(1)!Next]_(Worktree(1)!vars)
  /\ part = "retries" => [Worktree(2)!Next]_(Worktree(2)!vars)
  /\ part = "skills" => [Advice!Next]_(Advice!vars)
  /\ part = "previews" => [Preview!Next]_(Preview!vars)
  /\ part = "builds" => [TwoBuilds!Next]_(TwoBuilds!vars)

ProvenSpec == PartBegins /\ [][PartGoesOn]_partsVars

-----------------------------------------------------------------------------
\* What a lingering child of the proof wrote into the worktree never reaches the project; a
\* run that changed the project without committing leaves the whole project it found in its
\* backup, an edit of somebody else is never lost, and a run that reports the project as
\* preserved has preserved it (the snapshots that ImproveEngine._improve_scoped compares,
\* _deliver and _restore).
OriginalsSafe ==
  /\ part = "improve" =>
       /\ TwoRuns!NothingUnproven /\ TwoRuns!Recoverable
       /\ TwoRuns!NoEditLost /\ TwoRuns!PreservedIsTrue
  /\ part = "one" =>
       /\ OneRun!NothingUnproven /\ OneRun!Recoverable
       /\ OneRun!NoEditLost /\ OneRun!PreservedIsTrue

\* A project that says it is delivered is a tree some proof passed on, a project that
\* is being re-verified stays claimed while its thread works, and it is never lost
\* between the two renames of a promotion (visual_editor_apply, reverify_project).
GoIsProven ==
  part = "changes" =>
    Changes!GoIsProven /\ Changes!ClaimCoversThread /\ Changes!ProjectKept

\* The live URL is up and passed its check, and the active record is the live one
\* (record_deployment, rollback_deployment).
LiveIsFit ==
  /\ part = "releases" => Releases!LiveIsFit
  /\ part = "rollbacks" => Rollbacks!LiveIsFit

\* An agentic session that reports completion wrote every planned file and passes the
\* scans of the finished tree (LLMClient._openrouter_agentic).
OkIsWhole ==
  /\ part = "session" => Session(1)!OkIsWhole
  /\ part = "scanned" => Session(2)!OkIsWhole
  /\ part = "batches" => Session(3)!OkIsWhole

\* A command line session that returned left no agent working in the tree.
NoAgentLeft == part = "cli" => Agents!NoAgentLeft

\* Of the tasks of a worktree one works at a time, none changes an acceptance contract
\* for good, and a task that reports success left what it was to leave (CodeAgent).
ReportIsTrue ==
  /\ part = "tasks" =>
       Worktree(1)!OneAtATime /\ Worktree(1)!ContractsStand /\ Worktree(1)!ReportIsTrue
  /\ part = "retries" =>
       Worktree(2)!OneAtATime /\ Worktree(2)!ContractsStand /\ Worktree(2)!ReportIsTrue

\* A preview that is shown is whole, and what Docker still holds for a launch of this
\* process is known by name (serve_project, stop_serve, PreviewSupervisor).
ShownIsWhole == part = "previews" => Preview!ShownIsWhole /\ Preview!Retained

\* No work of a cancelled build is thrown away without a copy, a folder holds the files
\* of the build that was delivered into it, unless it was deleted under a build that
\* could not be seen yet, and when all is over the build's row and its record agree on
\* how it ended (StudioRunner._start_build, cancel_build, delete_project).
WorkKept ==
  part = "builds" => TwoBuilds!Recovered /\ TwoBuilds!FolderKept /\ TwoBuilds!Settled

\* Automation that reads the journal of a capability after an operator rolled it back
\* gives it to no build until an operator activates it again, or its text changes, unless
\* the rollback found other automation past that reading; and, always, the processes that
\* advise it advise the text on disk (SkillLibrary).
LaterAutomationYields ==
  part = "skills" => Advice!LaterAutomationYields /\ Advice!OneText

\* A rollback by an operator stays in force against all automation: it does not, see
\* Skills (evaluate_pending_capabilities).
RollbackStands == part = "skills" => Advice!RollbackStands

-----------------------------------------------------------------------------
(* A behaviour of a part is a behaviour of its module.                     *)

LEMMA Stutters == [PartGoesOn]_partsVars => PartGoesOn
<1>1. UNCHANGED partsVars => PartGoesOn
  BY DEF partsVars, PartGoesOn, TwoRuns!vars, OneRun!vars, Changes!vars, Releases!vars,
     Rollbacks!vars, Agents!vars, Session!vars, Worktree!vars,
     Session!routing, Session!work, Session!guards, Session!nudges, Session!faults,
     Advice!vars, Advice!files, Advice!memory, Advice!history,
     Preview!vars, TwoBuilds!vars
<1>2. QED BY <1>1

LEMMA TwoRunsImplemented ==
  ProvenSpec => []~(part = "improve") \/ ([](part = "improve") /\ TwoRuns!Spec)
<1>1. PartBegins => (part = "improve" => TwoRuns!Init)
  BY DEF PartBegins
<1>2. [PartGoesOn]_partsVars => part' = part /\ (part = "improve" => [TwoRuns!Next]_(TwoRuns!vars))
  BY Stutters DEF PartGoesOn
<1>3. part' = part => ((part = "improve")' <=> part = "improve")
  OBVIOUS
<1>4. QED BY <1>1, <1>2, <1>3, PTL DEF ProvenSpec, TwoRuns!Spec

LEMMA OneRunImplemented ==
  ProvenSpec => []~(part = "one") \/ ([](part = "one") /\ OneRun!Spec)
<1>1. PartBegins => (part = "one" => OneRun!Init)
  BY DEF PartBegins
<1>2. [PartGoesOn]_partsVars => part' = part /\ (part = "one" => [OneRun!Next]_(OneRun!vars))
  BY Stutters DEF PartGoesOn
<1>3. part' = part => ((part = "one")' <=> part = "one")
  OBVIOUS
<1>4. QED BY <1>1, <1>2, <1>3, PTL DEF ProvenSpec, OneRun!Spec

LEMMA ChangesImplemented ==
  ProvenSpec => []~(part = "changes") \/ ([](part = "changes") /\ Changes!Spec)
<1>1. PartBegins => (part = "changes" => Changes!Init)
  BY DEF PartBegins
<1>2. [PartGoesOn]_partsVars => part' = part /\ (part = "changes" => [Changes!Next]_(Changes!vars))
  BY Stutters DEF PartGoesOn
<1>3. part' = part => ((part = "changes")' <=> part = "changes")
  OBVIOUS
<1>4. QED BY <1>1, <1>2, <1>3, PTL DEF ProvenSpec, Changes!Spec

LEMMA ReleasesImplemented ==
  ProvenSpec => []~(part = "releases") \/ ([](part = "releases") /\ Releases!Spec)
<1>1. PartBegins => (part = "releases" => Releases!Init)
  BY DEF PartBegins
<1>2. [PartGoesOn]_partsVars => part' = part /\ (part = "releases" => [Releases!Next]_(Releases!vars))
  BY Stutters DEF PartGoesOn
<1>3. part' = part => ((part = "releases")' <=> part = "releases")
  OBVIOUS
<1>4. QED BY <1>1, <1>2, <1>3, PTL DEF ProvenSpec, Releases!Spec

LEMMA RollbacksImplemented ==
  ProvenSpec => []~(part = "rollbacks") \/ ([](part = "rollbacks") /\ Rollbacks!Spec)
<1>1. PartBegins => (part = "rollbacks" => Rollbacks!Init)
  BY DEF PartBegins
<1>2. [PartGoesOn]_partsVars => part' = part /\ (part = "rollbacks" => [Rollbacks!Next]_(Rollbacks!vars))
  BY Stutters DEF PartGoesOn
<1>3. part' = part => ((part = "rollbacks")' <=> part = "rollbacks")
  OBVIOUS
<1>4. QED BY <1>1, <1>2, <1>3, PTL DEF ProvenSpec, Rollbacks!Spec

\* Nothing unproven reaches a project, what was there can be recovered, no edit is lost, and
\* the reports are true, of any number of runs, edits and faults.
THEOREM OriginalsSafeHolds == ProvenSpec => []OriginalsSafe
<1>1. TwoRuns!Spec => /\ []TwoRuns!NothingUnproven /\ []TwoRuns!Recoverable
                 /\ []TwoRuns!NoEditLost /\ []TwoRuns!PreservedIsTrue
  BY TwoRuns!NothingUnprovenHolds, TwoRuns!RecoverableHolds, TwoRuns!NoEditLostHolds,
     TwoRuns!PreservedIsTrueHolds, InstancesAllowed
<1>2. OneRun!Spec => /\ []OneRun!NothingUnproven /\ []OneRun!Recoverable
                 /\ []OneRun!NoEditLost /\ []OneRun!PreservedIsTrue
  BY OneRun!NothingUnprovenHolds, OneRun!RecoverableHolds, OneRun!NoEditLostHolds,
     OneRun!PreservedIsTrueHolds, InstancesAllowed
<1>3. QED BY TwoRunsImplemented, OneRunImplemented, <1>1, <1>2, PTL DEF OriginalsSafe

\* A delivered project is proven, claimed while it is re-verified, and kept, of any number
\* of editors, re-verifications and crashes.
THEOREM GoIsProvenHolds == ProvenSpec => []GoIsProven
<1>1. Changes!Spec => /\ []Changes!GoIsProven /\ []Changes!ClaimCoversThread
                      /\ []Changes!ProjectKept
  BY Changes!GoIsProvenHolds, Changes!ClaimCoversThreadHolds, Changes!ProjectKeptHolds,
     InstancesAllowed
<1>2. QED BY ChangesImplemented, <1>1, PTL DEF GoIsProven

\* What is live is fit, of any number of attempts, rollbacks and records that are kept.
THEOREM LiveIsFitHolds == ProvenSpec => []LiveIsFit
<1>1. Releases!Spec => []Releases!LiveIsFit
  BY Releases!LiveIsFitHolds, InstancesAllowed
<1>2. Rollbacks!Spec => []Rollbacks!LiveIsFit
  BY Rollbacks!LiveIsFitHolds, InstancesAllowed
<1>3. QED BY ReleasesImplemented, RollbacksImplemented, <1>1, <1>2, PTL DEF LiveIsFit

-----------------------------------------------------------------------------
(* The promises of these parts.                                            *)

\* The invariant of whichever of these parts it is.
AgentsInv ==
  /\ part = "cli" => Agents!IInv

\* No session that returned left an agent at work, of any number of healing agents: the one
\* it watches is the only one that lives, and it returns after that one was stopped.
THEOREM NoAgentLeftHolds == ProvenSpec => []NoAgentLeft
<1>1. PartBegins => AgentsInv
  BY InstancesAllowed, AgentsInit DEF PartBegins, AgentsInv
<1>2. AgentsInv /\ [PartGoesOn]_partsVars => AgentsInv'
  <2> SUFFICES ASSUME AgentsInv, [PartGoesOn]_partsVars PROVE AgentsInv'
    OBVIOUS
  <2>1. ASSUME part' = "cli" PROVE Agents!IInv'
    <3>1. part = "cli" /\ Agents!IInv /\ [Agents!Next]_(Agents!vars)
      BY <2>1, Stutters DEF PartGoesOn, AgentsInv
    <3>2. QED BY <3>1, AgentsNext, InstancesAllowed
  <2>2. QED BY <2>1 DEF AgentsInv
<1>3. AgentsInv => NoAgentLeft
  BY InstancesAllowed, AgentsSafe DEF AgentsInv, NoAgentLeft
<1>4. QED BY <1>1, <1>2, <1>3, PTL DEF ProvenSpec

\* The invariant of whichever of these parts it is.
SessionsInv ==
  /\ part = "session" => Session(1)!IInv
  /\ part = "scanned" => Session(2)!IInv
  /\ part = "batches" => Session(3)!IInv

\* A session that reports completion is complete, of any set of planned files and any
\* limits: the count of the missing never falls below what is missing.
THEOREM OkIsWholeHolds == ProvenSpec => []OkIsWhole
<1>1. PartBegins => SessionsInv
  BY InstancesAllowed, SessionInit DEF PartBegins, SessionsInv, SessionRuns
<1>2. SessionsInv /\ [PartGoesOn]_partsVars => SessionsInv'
  <2> SUFFICES ASSUME SessionsInv, [PartGoesOn]_partsVars PROVE SessionsInv'
    OBVIOUS
  <2>1. ASSUME part' = "session" PROVE Session(1)!IInv'
    <3>1. part = "session" /\ Session(1)!IInv /\ [Session(1)!Next]_(Session(1)!vars)
      BY <2>1, Stutters DEF PartGoesOn, SessionsInv
    <3>2. QED BY <3>1, SessionStep, InstancesAllowed DEF SessionRuns
  <2>2. ASSUME part' = "scanned" PROVE Session(2)!IInv'
    <3>1. part = "scanned" /\ Session(2)!IInv /\ [Session(2)!Next]_(Session(2)!vars)
      BY <2>2, Stutters DEF PartGoesOn, SessionsInv
    <3>2. QED BY <3>1, SessionStep, InstancesAllowed DEF SessionRuns
  <2>3. ASSUME part' = "batches" PROVE Session(3)!IInv'
    <3>1. part = "batches" /\ Session(3)!IInv /\ [Session(3)!Next]_(Session(3)!vars)
      BY <2>3, Stutters DEF PartGoesOn, SessionsInv
    <3>2. QED BY <3>1, SessionStep, InstancesAllowed DEF SessionRuns
  <2>4. QED BY <2>1, <2>2, <2>3 DEF SessionsInv
<1>3. SessionsInv => OkIsWhole
  BY DEF SessionsInv, OkIsWhole, Session!IInv
<1>4. QED BY <1>1, <1>2, <1>3, PTL DEF ProvenSpec

\* The invariant of whichever of these parts it is.
TasksInv ==
  /\ part = "tasks" => Worktree(1)!IInv
  /\ part = "retries" => Worktree(2)!IInv

\* The tasks of a worktree work one at a time, leave its contracts alone and report what
\* they left, of any tasks, slices, files, retries and writes.
THEOREM ReportIsTrueHolds == ProvenSpec => []ReportIsTrue
<1>1. PartBegins => TasksInv
  BY InstancesAllowed, WorktreeInit DEF PartBegins, TasksInv, TreeRuns
<1>2. TasksInv /\ [PartGoesOn]_partsVars => TasksInv'
  <2> SUFFICES ASSUME TasksInv, [PartGoesOn]_partsVars PROVE TasksInv'
    OBVIOUS
  <2>1. ASSUME part' = "tasks" PROVE Worktree(1)!IInv'
    <3>1. part = "tasks" /\ Worktree(1)!IInv /\ [Worktree(1)!Next]_(Worktree(1)!vars)
      BY <2>1, Stutters DEF PartGoesOn, TasksInv
    <3>2. QED BY <3>1, WorktreeStep, InstancesAllowed DEF TreeRuns
  <2>2. ASSUME part' = "retries" PROVE Worktree(2)!IInv'
    <3>1. part = "retries" /\ Worktree(2)!IInv /\ [Worktree(2)!Next]_(Worktree(2)!vars)
      BY <2>2, Stutters DEF PartGoesOn, TasksInv
    <3>2. QED BY <3>1, WorktreeStep, InstancesAllowed DEF TreeRuns
  <2>3. QED BY <2>1, <2>2 DEF TasksInv
<1>3. TasksInv => ReportIsTrue
  BY OneWorks DEF TasksInv, ReportIsTrue, TreeRuns, Worktree!IInv
<1>4. QED BY <1>1, <1>2, <1>3, PTL DEF ProvenSpec

\* The invariant of whichever of these parts it is.
AdvicesInv ==
  /\ part = "skills" => Advice!IInv

\* A rollback that found no automation past its reading of the journal stands, of any
\* processes, threads and texts and any number of operations, lost files and restarts: it
\* is the last word of the journal, and automation that has not read the journal yet goes
\* no further.  What automation does that read the journal first is excepted, and is what
\* RollbackStands fails on.
THEOREM LaterAutomationYieldsHolds == ProvenSpec => []LaterAutomationYields
<1>1. PartBegins => AdvicesInv
  BY InstancesAllowed, AdviceInit DEF PartBegins, AdvicesInv
<1>2. AdvicesInv /\ [PartGoesOn]_partsVars => AdvicesInv'
  <2> SUFFICES ASSUME AdvicesInv, [PartGoesOn]_partsVars PROVE AdvicesInv'
    OBVIOUS
  <2>1. ASSUME part' = "skills" PROVE Advice!IInv'
    <3>1. part = "skills" /\ Advice!IInv /\ [Advice!Next]_(Advice!vars)
      BY <2>1, Stutters DEF PartGoesOn, AdvicesInv
    <3>2. QED BY <3>1, AdviceStep, InstancesAllowed
  <2>2. QED BY <2>1 DEF AdvicesInv
<1>3. AdvicesInv => LaterAutomationYields
  BY AdviceSafe DEF AdvicesInv, LaterAutomationYields
<1>4. QED BY <1>1, <1>2, <1>3, PTL DEF ProvenSpec

\* The invariant of whichever of these parts it is.
PreviewsInv ==
  /\ part = "previews" => Preview!IInv

\* What is shown is whole and what is there is remembered, of any number of launches, stops,
\* failing commands and restarts, and either kind of project.
THEOREM ShownIsWholeHolds == ProvenSpec => []ShownIsWhole
<1>1. PartBegins => PreviewsInv
  BY InstancesAllowed, PreviewInit DEF PartBegins, PreviewsInv
<1>2. PreviewsInv /\ [PartGoesOn]_partsVars => PreviewsInv'
  <2> SUFFICES ASSUME PreviewsInv, [PartGoesOn]_partsVars PROVE PreviewsInv'
    OBVIOUS
  <2>1. ASSUME part' = "previews" PROVE Preview!IInv'
    <3>1. part = "previews" /\ Preview!IInv /\ [Preview!Next]_(Preview!vars)
      BY <2>1, Stutters DEF PartGoesOn, PreviewsInv
    <3>2. QED BY <3>1, PreviewStep, InstancesAllowed
  <2>2. QED BY <2>1 DEF PreviewsInv
<1>3. PreviewsInv => ShownIsWhole
  BY PreviewSafe DEF PreviewsInv, ShownIsWhole
<1>4. QED BY <1>1, <1>2, <1>3, PTL DEF ProvenSpec

\* The invariant of whichever of these parts it is.
BuildsInv ==
  /\ part = "builds" => TwoBuilds!IInv

\* Work is kept, a folder stays with its build, and record and row agree in the end, of any
\* number of builds, folders, calls that cancel or delete, failures and restarts.
THEOREM WorkKeptHolds == ProvenSpec => []WorkKept
<1>1. PartBegins => BuildsInv
  BY InstancesAllowed, BuildsInit DEF PartBegins, BuildsInv
<1>2. BuildsInv /\ [PartGoesOn]_partsVars => BuildsInv'
  <2> SUFFICES ASSUME BuildsInv, [PartGoesOn]_partsVars PROVE BuildsInv'
    OBVIOUS
  <2>1. ASSUME part' = "builds" PROVE TwoBuilds!IInv'
    <3>1. part = "builds" /\ TwoBuilds!IInv /\ [TwoBuilds!Next]_(TwoBuilds!vars)
      BY <2>1, Stutters DEF PartGoesOn, BuildsInv
    <3>2. QED BY <3>1, BuildsStep, InstancesAllowed
  <2>2. QED BY <2>1 DEF BuildsInv
<1>3. BuildsInv => WorkKept
  BY InstancesAllowed, BuildsSafe DEF BuildsInv, WorkKept
<1>4. QED BY <1>1, <1>2, <1>3, PTL DEF ProvenSpec

=============================================================================

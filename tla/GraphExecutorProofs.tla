------------------------- MODULE GraphExecutorProofs -------------------------
(***************************************************************************)
(* Proofs about GraphExecutor for every graph, limit and bound: the state  *)
(* is well typed, the inductive invariant IInv holds, and with it the      *)
(* safety properties and the refinement of GraphPromise.  At the end, the  *)
(* two halves of a build side by side: its graph, or its delivery, about   *)
(* which DeliveryProofs has the theorems.                                  *)
(***************************************************************************)
EXTENDS GraphExecutor, TLAPS, FiniteSetTheorems, WellFoundedInduction, SequenceTheorems

-----------------------------------------------------------------------------
(***************************************************************************)
(* The rows of the attempts.                                               *)
(***************************************************************************)
\* Closing an attempt keeps a sequence of attempts one.
LEMMA CloseType ==
  ASSUME NEW s \in Seq(AttemptStatus), NEW o \in AttemptStatus
  PROVE  Close(s, o) \in Seq(AttemptStatus) /\ Len(Close(s, o)) = Len(s)
<1>1. CASE s = <<>>
  <2>1. Close(s, o) = s
    BY <1>1 DEF Close
  <2>2. QED BY <2>1
<1>2. CASE s # <<>>
  <2>1. Len(s) \in 1 .. Len(s)
    BY <1>2, EmptySeq, LenProperties
  <2>2. QED BY <2>1, ExceptSeq DEF Close
<1>3. QED BY <1>1, <1>2

\* A transaction appends to a node's attempts or rewrites the last one.
LEMMA AttemptWriteType ==
  ASSUME NEW p, NEW s \in Seq(AttemptStatus)
  PROVE  AttemptWrite(p, s) \in Seq(AttemptStatus)
  BY CloseType, AppendProperties DEF AttemptWrite, AttemptStatus

\* Recovery rewrites the attempts in place.
LEMMA InterruptedType ==
  ASSUME NEW s \in Seq(AttemptStatus)
  PROVE  Interrupted(s) \in Seq(AttemptStatus) /\ Len(Interrupted(s)) = Len(s)
<1> DEFINE e(k) == IF s[k] = "running" THEN "failed" ELSE s[k]
<1>1. Len(s) \in Nat /\ DOMAIN s = 1 .. Len(s) /\ \A i \in 1 .. Len(s) : s[i] \in AttemptStatus
  BY LenProperties, ElementOfSeq
<1>2. \A i \in 1 .. Len(s) : e(i) \in AttemptStatus
  BY <1>1 DEF AttemptStatus
<1>3. Interrupted(s) = [i \in 1 .. Len(s) |-> e(i)]
  BY <1>1 DEF Interrupted
<1>4. Interrupted(s) \in [1 .. Len(s) -> AttemptStatus]
  BY <1>2, <1>3
<1>5. QED BY <1>1, <1>4

-----------------------------------------------------------------------------
(***************************************************************************)
(* Types.                                                                  *)
(***************************************************************************)
\* A run that was just created is well typed, fresh or forked.
LEMMA InitType == Init => TypeOK
<1> SUFFICES ASSUME Init PROVE TypeOK
  OBVIOUS
<1>1. nodeStatus \in [Node -> NodeStatus] /\ forceNodes \in SUBSET Node
  <2>1. CASE Fresh
    BY <2>1 DEF Fresh, AllPending, NodeStatus
  <2>2. CASE Forked
    BY <2>2 DEF Forked, CompletedStatuses, NodeStatus, Success
  <2>3. QED BY <2>1, <2>2 DEF Init
<1>2. attempts \in [Node -> Seq(AttemptStatus)]
  BY EmptySeq DEF Init
<1>3. /\ statuses \in [Node -> NodeStatus]
      /\ task \in [Node -> Phase \cup Result \cup {"none"}]
      /\ offset \in [Node -> Nat]
  BY DEF Init, NoDrive, AllPending, NodeStatus
<1>4. /\ runStatus \in RunStatus
      /\ driver \in Driver
  BY DEF Init, RunStatus, Driver
<1>5. /\ cache \in SUBSET Cacheable
      /\ published \in SUBSET Node
  BY DEF Init
<1>6. /\ cancelRequested \in BOOLEAN
      /\ madeProgress \in BOOLEAN
      /\ interrupted \in SUBSET Node
      /\ cancelEvent \in BOOLEAN
      /\ cancelWatcher \in {"off", "polling", "done"}
      /\ cancelCall \in BOOLEAN
  BY DEF Init, NoDrive
<1>7. cancels \in Nat /\ aborts \in Nat /\ crashes \in Nat /\ resumes \in Nat
  BY DEF Init
<1>8. QED
  BY <1>1, <1>2, <1>3, <1>4, <1>5, <1>6, <1>7 DEF TypeOK

\* What a task commits is well typed.
LEMMA WriteType ==
  ASSUME TypeOK, NEW n \in Node, Write(n) \/ UNCHANGED rows
  PROVE  /\ runStatus' \in RunStatus
         /\ cancelRequested' \in BOOLEAN
         /\ nodeStatus' \in [Node -> NodeStatus]
         /\ attempts' \in [Node -> Seq(AttemptStatus)]
         /\ cache' \in SUBSET Cacheable
         /\ published' \in SUBSET Node
<1>1. CASE UNCHANGED rows
  BY <1>1 DEF TypeOK, rows
<1>2. CASE Write(n)
  <2>1. NodeWrite(task[n], nodeStatus[n]) \in NodeStatus
    BY DEF TypeOK, NodeWrite, NodeStatus
  <2>2. AttemptWrite(task[n], attempts[n]) \in Seq(AttemptStatus)
    BY AttemptWriteType DEF TypeOK
  <2>3. nodeStatus' \in [Node -> NodeStatus] /\ attempts' \in [Node -> Seq(AttemptStatus)]
    BY <1>2, <2>1, <2>2 DEF Write, TypeOK
  <2>4. QED
    BY <1>2, <2>3 DEF Write, TypeOK
<1>3. QED BY <1>1, <1>2

\* The steps of a task keep the types.
LEMMA TaskType ==
  ASSUME TypeOK, NEW n \in Node, TaskStep(n)
  PROVE  TypeOK'
<1> USE DEF TaskFrame, signals, counters
<1>1. CASE TaskWrite(n)
  <2>1. task[n] \in Phase \ {"lookup", "handler"}
    BY <1>1 DEF TaskWrite, Live
  <2>2. AfterWrite(n) \in Phase \cup Result
    BY <2>1 DEF AfterWrite, Phase, Result
  <2>3. task' \in [Node -> Phase \cup Result \cup {"none"}]
    BY <1>1, <2>2 DEF TaskWrite, TypeOK
  <2>4. offset' \in [Node -> Nat]
    BY <1>1 DEF TaskWrite, TypeOK
  <2>5. QED
    BY <1>1, <2>3, <2>4, WriteType DEF TaskWrite, TypeOK
<1>2. CASE Interrupt(n)
  <2>1. task' \in [Node -> Phase \cup Result \cup {"none"}]
    BY <1>2 DEF Interrupt, TypeOK, Phase, Result
  <2>2. QED
    BY <1>2, <2>1, WriteType DEF Interrupt, TypeOK
<1>3. ASSUME NEW from, NEW to \in Phase, Goto(n, from, to) PROVE TypeOK'
  <2>1. task' \in [Node -> Phase \cup Result \cup {"none"}]
    BY <1>3 DEF Goto, TypeOK
  <2>2. QED
    BY <1>3, <2>1 DEF Goto, rows, TypeOK
<1>4. CASE LookUp(n) \/ HandlerReturns(n) \/ HandlerRaises(n) \/ CommitFails(n)
  <2>1. PICK from, to \in Phase : Goto(n, from, to)
    BY <1>4 DEF LookUp, HandlerReturns, HandlerRaises, CommitFails, Phase
  <2>2. QED BY <2>1, <1>3
<1>5. QED BY <1>1, <1>2, <1>4 DEF TaskStep

\* So does every other step.
LEMMA TypeStep == TypeOK /\ [Next]_vars => TypeOK'
<1> SUFFICES ASSUME TypeOK, [Next]_vars PROVE TypeOK'
  OBVIOUS
<1> USE DEF TypeOK, rows, taskVars, signals, counters
<1>1. CASE MarkReady
  BY <1>1 DEF MarkReady, RunStatus, Driver
<1>2. CASE Load
  BY <1>2 DEF Load, Driver
<1>3. CASE Start
  BY <1>3 DEF Start, RunStatus, Driver
<1>4. CASE LoopTop
  BY <1>4 DEF LoopTop, Driver, Awaiting, Live
<1>5. CASE EndPass
  BY <1>5 DEF EndPass, Driver, Awaiting
<1>6. CASE WakeOnCancel
  BY <1>6 DEF WakeOnCancel, Driver
<1>7. CASE Harvest
  BY <1>7 DEF Harvest, Driver, Result, NodeStatus
<1>8. CASE Gathered
  BY <1>8 DEF Gathered, Driver, Awaiting
<1>9. CASE RunCancelled
  BY <1>9 DEF RunCancelled, Forget, AllPending, RunStatus, Driver, Idle, NodeStatus
<1>10. CASE Finish
  BY <1>10 DEF Finish, FinalStatus, Forget, AllPending, RunStatus, Driver, Idle, NodeStatus
<1>11. CASE LeaveOpen
  BY <1>11 DEF LeaveOpen, Forget, AllPending, Driver, Idle, NodeStatus
<1>12. ASSUME NEW n \in Node, Schedule(n) PROVE TypeOK'
  BY <1>12 DEF Schedule, Transition, NodeRow, NodeStatus
<1>13. ASSUME NEW n \in Node, Launch(n) PROVE TypeOK'
  BY <1>13 DEF Launch, NodeStatus, Phase
<1>14. ASSUME NEW n \in Node, Sweep(n) PROVE TypeOK'
  BY <1>14 DEF Sweep, Transition, NodeRow, NodeStatus
<1>15. CASE Resume
  <2>1. nodeStatus' \in [Node -> NodeStatus]
    BY <1>15 DEF Resume, RecoverRun, NodeStatus
  <2>2. attempts' \in [Node -> Seq(AttemptStatus)]
    BY <1>15, InterruptedType DEF Resume, RecoverRun
  <2>3. /\ runStatus' \in RunStatus
        /\ cancelRequested' \in BOOLEAN
        /\ driver' \in Driver
    BY <1>15 DEF Resume, RecoverRun, RunStatus, Driver
  <2>4. UNCHANGED <<cache, published, forceNodes, statuses, madeProgress, task, offset,
                    interrupted, cancelEvent, cancelWatcher, cancelCall, cancels,
                    aborts, crashes>>
        /\ resumes' \in Nat
    BY <1>15 DEF Resume
  <2>5. QED
    BY <2>1, <2>2, <2>3, <2>4
<1>16. CASE Cancel
  <2>1. cancelEvent' \in BOOLEAN /\ cancelCall' \in BOOLEAN
    BY <1>16 DEF Cancel
  <2>2. cancels' \in Nat
    BY <1>16 DEF Cancel
  <2>3. QED
    BY <1>16, <2>1, <2>2 DEF Cancel
<1>17. CASE RequestCancel
  BY <1>17 DEF RequestCancel
<1>18. CASE Watch
  BY <1>18 DEF Watch
<1>19. CASE Abort
  <2>1. runStatus' \in RunStatus /\ nodeStatus' \in [Node -> NodeStatus]
    BY <1>19 DEF Abort, DriverWrite, NodeRow, FinalStatus, RunStatus, NodeStatus
  <2>2. /\ driver' \in Driver /\ interrupted' \in SUBSET Node /\ aborts' \in Nat
        /\ cancelEvent' \in BOOLEAN
    BY <1>19 DEF Abort, Driver, Awaiting, Live
  <2>3. UNCHANGED <<cancelRequested, attempts, cache, published>>
    BY <1>19 DEF Abort, DriverWrite
  <2>4. QED
    BY <1>19, <2>1, <2>2, <2>3 DEF Abort
<1>20. CASE Crash
  <2>1. Forget /\ UNCHANGED <<rows, forceNodes, cancels, aborts, resumes>>
    BY <1>20 DEF Crash
  <2>2. driver' \in Driver /\ cancelCall' \in BOOLEAN
    BY <1>20 DEF Crash, Driver, Idle
  <2>3. crashes' \in Nat
    BY <1>20 DEF Crash
  <2>4. /\ statuses' \in [Node -> NodeStatus]
        /\ task' \in [Node -> Phase \cup Result \cup {"none"}]
        /\ offset' \in [Node -> Nat]
    BY <2>1 DEF Forget, AllPending, NodeStatus
  <2>5. QED
    BY <2>1, <2>2, <2>3, <2>4 DEF Forget
<1>21. ASSUME NEW n \in Node, TaskStep(n) PROVE TypeOK'
  BY <1>21, TaskType DEF TaskStep
<1>22. CASE UNCHANGED vars
  BY <1>22 DEF vars
<1>23. QED
  BY <1>1, <1>2, <1>3, <1>4, <1>5, <1>6, <1>7, <1>8, <1>9, <1>10, <1>11, <1>12, <1>13, <1>14,
     <1>15, <1>16, <1>17, <1>18, <1>19, <1>20, <1>21, <1>22 DEF Next, DriverStep

\* The state of the executor is well typed, for every graph and every bound.
THEOREM TypeCorrect == Spec => []TypeOK
<1>1. QED BY InitType, TypeStep, PTL DEF Spec

-----------------------------------------------------------------------------
(***************************************************************************)
(* Tasks.                                                                  *)
(***************************************************************************)
\* What the steps of a task have in common: the task is alive and stays in the
\* dict, its CancelledError, if there was one, is consumed, and of the rows only
\* those of its node, the cache and the history change.
LEMMA TaskEffect ==
  ASSUME TypeOK, TaskInv, NEW n \in Node, TaskStep(n)
  PROVE  /\ n \in Live
         /\ driver \in {"top", "schedule", "wait", "gather"}
         /\ task'[n] \in Phase \cup Result
         /\ \A m \in Node \ {n} : task'[m] = task[m]
         /\ interrupted' = interrupted \ {n}
         /\ Write(n) \/ UNCHANGED rows
         /\ UNCHANGED <<forceNodes, driver, statuses, madeProgress, signals, counters,
                        runStatus, cancelRequested>>
<1>1. n \in Live
  <2>1. CASE Interrupt(n)
    BY <2>1 DEF Interrupt, TaskInv
  <2>2. CASE TaskWrite(n)
    BY <2>2 DEF TaskWrite
  <2>3. CASE LookUp(n) \/ HandlerReturns(n) \/ HandlerRaises(n) \/ CommitFails(n)
    BY <2>3 DEF LookUp, HandlerReturns, HandlerRaises, CommitFails, Goto, Live, Phase
  <2>4. QED BY <2>1, <2>2, <2>3 DEF TaskStep
<1>2. driver \in {"top", "schedule", "wait", "gather"}
  <2>1. task[n] # "none"
    BY <1>1 DEF Live, Phase
  <2>2. QED BY <1>1, <2>1 DEF TaskInv, Running
<1>3. TypeOK'
  BY TaskType
<1>4. task'[n] \in Phase \cup Result
  <2>1. CASE Interrupt(n)
    BY <2>1 DEF Interrupt, TypeOK, Phase, Result
  <2>2. CASE TaskWrite(n)
    <3>1. task[n] \in Phase \ {"lookup", "handler"}
      BY <2>2 DEF TaskWrite, Live
    <3>2. AfterWrite(n) \in Phase \cup Result
      BY <3>1 DEF AfterWrite, Phase, Result
    <3>3. QED BY <2>2, <3>2 DEF TaskWrite, TypeOK
  <2>3. CASE LookUp(n) \/ HandlerReturns(n) \/ HandlerRaises(n) \/ CommitFails(n)
    BY <2>3 DEF LookUp, HandlerReturns, HandlerRaises, CommitFails, Goto, TypeOK, Phase
  <2>4. QED BY <2>1, <2>2, <2>3 DEF TaskStep
<1>5. /\ \A m \in Node \ {n} : task'[m] = task[m]
      /\ interrupted' = interrupted \ {n}
      /\ Write(n) \/ UNCHANGED rows
      /\ TaskFrame
  <2>1. CASE Interrupt(n)
    BY <2>1 DEF Interrupt, TypeOK
  <2>2. CASE TaskWrite(n)
    BY <2>2 DEF TaskWrite, TypeOK
  <2>3. CASE LookUp(n) \/ HandlerReturns(n) \/ HandlerRaises(n) \/ CommitFails(n)
    BY <2>3 DEF LookUp, HandlerReturns, HandlerRaises, CommitFails, Goto, TypeOK
  <2>4. QED BY <2>1, <2>2, <2>3 DEF TaskStep
<1>6. UNCHANGED <<runStatus, cancelRequested>>
  BY <1>5 DEF Write, rows
<1>7. QED
  BY <1>1, <1>2, <1>4, <1>5, <1>6 DEF TaskFrame

\* Leaving the drive leaves no task.
LEMMA ForgetEmpties ==
  ASSUME Forget
  PROVE  Running' = {} /\ Live' = {} /\ interrupted' = {}
  BY DEF Forget, Running, Live, Phase

\* Tasks exist, live and are interrupted only where TaskInv says.
LEMMA TaskInvStep == TypeOK /\ TaskInv /\ [Next]_vars => TaskInv'
<1> SUFFICES ASSUME TypeOK, TaskInv, [Next]_vars PROVE TaskInv'
  OBVIOUS
<1> USE DEF TaskInv, Running, Live, rows, taskVars, signals, counters
<1>1. CASE MarkReady
  BY <1>1 DEF MarkReady
<1>2. CASE Load
  BY <1>2 DEF Load
<1>3. CASE Start
  BY <1>3 DEF Start
<1>4. CASE LoopTop
  BY <1>4 DEF LoopTop
<1>5. CASE EndPass
  BY <1>5 DEF EndPass, PassesOver
<1>6. CASE WakeOnCancel
  BY <1>6 DEF WakeOnCancel
<1>7. CASE Harvest
  BY <1>7 DEF Harvest, TypeOK, Phase, Result
<1>8. CASE Gathered
  BY <1>8 DEF Gathered
<1>9. CASE RunCancelled
  BY <1>9, ForgetEmpties DEF RunCancelled
<1>10. CASE Finish
  BY <1>10, ForgetEmpties DEF Finish
<1>11. CASE LeaveOpen
  BY <1>11, ForgetEmpties DEF LeaveOpen
<1>12. ASSUME NEW n \in Node, Schedule(n) PROVE TaskInv'
  BY <1>12 DEF Schedule
<1>13. ASSUME NEW n \in Node, Launch(n) PROVE TaskInv'
  BY <1>13 DEF Launch, TypeOK, Phase
<1>14. ASSUME NEW n \in Node, Sweep(n) PROVE TaskInv'
  BY <1>14 DEF Sweep
<1>15. CASE Resume
  BY <1>15 DEF Resume, Idle
<1>16. CASE Cancel \/ RequestCancel \/ Watch
  BY <1>16 DEF Cancel, RequestCancel, Watch
<1>17. CASE Abort
  BY <1>17 DEF Abort
<1>18. CASE Crash
  BY <1>18, ForgetEmpties DEF Crash
<1>19. ASSUME NEW n \in Node, TaskStep(n) PROVE TaskInv'
  <2>1. /\ task[n] \in Phase
        /\ driver' = driver /\ driver \in {"top", "schedule", "wait", "gather"}
        /\ \A m \in Node \ {n} : task'[m] = task[m]
        /\ interrupted' = interrupted \ {n}
    BY <1>19, TaskEffect
  <2>2. QED BY <2>1
<1>20. CASE UNCHANGED vars
  BY <1>20 DEF vars
<1>21. QED
  BY <1>1, <1>2, <1>3, <1>4, <1>5, <1>6, <1>7, <1>8, <1>9, <1>10, <1>11, <1>12, <1>13, <1>14,
     <1>15, <1>16, <1>17, <1>18, <1>19, <1>20 DEF Next, DriverStep

-----------------------------------------------------------------------------
(***************************************************************************)
(* The driver's view.                                                      *)
(***************************************************************************)
\* A task that is not interrupted leaves the result it returns on disk.
LEMMA ResultOnDisk ==
  ASSUME TypeOK, NEW n \in Node, TaskStep(n), n \notin interrupted, task'[n] \in Result
  PROVE  nodeStatus'[n] = task'[n]
<1>1. CASE TaskWrite(n)
  <2>1. task[n] \in Phase \ {"lookup", "handler"} /\ AfterWrite(n) \in Result
    BY <1>1 DEF TaskWrite, Live, TypeOK
  <2>2. NodeWrite(task[n], nodeStatus[n]) = AfterWrite(n)
    BY <2>1 DEF AfterWrite, NodeWrite, Phase, Result
  <2>3. QED BY <1>1, <2>2 DEF TaskWrite, Write, TypeOK
<1>2. CASE LookUp(n) \/ HandlerReturns(n) \/ HandlerRaises(n) \/ CommitFails(n)
  BY <1>2 DEF LookUp, HandlerReturns, HandlerRaises, CommitFails, Goto, TypeOK, Result
<1>3. CASE Interrupt(n)
  BY <1>3 DEF Interrupt
<1>4. QED BY <1>1, <1>2, <1>3 DEF TaskStep

\* The view agrees with the disk as far as ViewInv says.
LEMMA ViewInvStep == TypeOK /\ TaskInv /\ ViewInv /\ [Next]_vars => ViewInv'
<1> SUFFICES ASSUME TypeOK, TaskInv, ViewInv, [Next]_vars PROVE ViewInv'
  OBVIOUS
<1> USE DEF ViewInv, Driving, Awaiting, rows, taskVars, signals, counters
<1>1. CASE MarkReady
  BY <1>1 DEF MarkReady
<1>2. CASE Load
  <2>1. \A n \in Node : task[n] = "none"
    BY <1>2 DEF Load, TaskInv, Running
  <2>2. QED BY <1>2, <2>1 DEF Load, Phase, Result
<1>3. CASE Start
  BY <1>3 DEF Start
<1>4. CASE LoopTop
  BY <1>4 DEF LoopTop
<1>5. CASE EndPass
  BY <1>5 DEF EndPass, PassesOver
<1>6. CASE WakeOnCancel
  BY <1>6 DEF WakeOnCancel
<1>7. CASE Harvest
  BY <1>7 DEF Harvest, TypeOK, Phase, Result, Finished, Success, Bad
<1>8. CASE Gathered
  BY <1>8 DEF Gathered
<1>9. CASE RunCancelled \/ Finish \/ LeaveOpen \/ Crash
  BY <1>9 DEF RunCancelled, Finish, LeaveOpen, Crash
<1>10. ASSUME NEW n \in Node, Schedule(n) PROVE ViewInv'
  <2>1. driver = "schedule" /\ statuses[n] \in {"pending", "ready"}
    BY <1>10 DEF Schedule, MustBlock, MayBecomeReady
  <2>2. task[n] = "none"
    BY <2>1 DEF TypeOK
  <2>3. PICK s \in {"blocked", "ready"} : Transition(n, s)
    BY <1>10 DEF Schedule
  <2>4. QED BY <1>10, <2>1, <2>2, <2>3 DEF Schedule, Transition, NodeRow, TypeOK, Phase, Result
<1>11. ASSUME NEW n \in Node, Launch(n) PROVE ViewInv'
  <2>1. driver = "schedule" /\ statuses[n] = "ready"
    BY <1>11 DEF Launch, CanLaunch
  <2>2. QED BY <1>11, <2>1 DEF Launch, TypeOK, Phase, Result, Finished, Success, Bad
<1>12. ASSUME NEW n \in Node, Sweep(n) PROVE ViewInv'
  <2>1. driver = "sweep" /\ Transition(n, "cancelled") /\ Live = {}
    BY <1>12 DEF Sweep, TaskInv
  <2>2. QED BY <1>12, <2>1 DEF Sweep, Transition, NodeRow, TypeOK, Live
<1>13. CASE Resume
  BY <1>13 DEF Resume, RecoverRun, Idle, TypeOK
<1>14. CASE Cancel \/ RequestCancel \/ Watch
  BY <1>14 DEF Cancel, RequestCancel, Watch
<1>15. CASE Abort
  <2>1. driver \in Awaiting /\ driver' = "gather" /\ UNCHANGED <<statuses, task>>
    BY <1>15 DEF Abort
  <2>2. \A n \in Node : statuses[n] \in Finished => nodeStatus'[n] = nodeStatus[n]
    <3>1. CASE DriverWrite
      BY <3>1 DEF DriverWrite, NodeRow, MustBlock, MayBecomeReady, Finished, Success, Bad, TypeOK
    <3>2. CASE UNCHANGED rows
      BY <3>2
    <3>3. QED BY <1>15, <3>1, <3>2 DEF Abort
  <2>3. QED BY <2>1, <2>2
<1>16. ASSUME NEW n \in Node, TaskStep(n) PROVE ViewInv'
  <2>1. /\ task[n] \in Phase
        /\ driver \in {"top", "schedule", "wait", "gather"}
        /\ task'[n] \in Phase \cup Result
        /\ \A m \in Node \ {n} : task'[m] = task[m]
        /\ UNCHANGED <<driver, statuses>>
    BY <1>16, TaskEffect DEF Live
  <2>2. \A m \in Node \ {n} : nodeStatus'[m] = nodeStatus[m]
    BY <1>16, TaskEffect DEF Write, TypeOK
  <2>3. statuses[n] = "running"
    BY <2>1
  <2>4. ASSUME driver # "gather", task'[n] \in Result PROVE nodeStatus'[n] = task'[n]
    BY <1>16, <2>4, ResultOnDisk DEF TaskInv
  <2>5. QED BY <2>1, <2>2, <2>3, <2>4 DEF Finished, Success, Bad, Phase, Result
<1>17. CASE UNCHANGED vars
  BY <1>17 DEF vars
<1>18. QED
  BY <1>1, <1>2, <1>3, <1>4, <1>5, <1>6, <1>7, <1>8, <1>9, <1>10, <1>11, <1>12, <1>13, <1>14,
     <1>15, <1>16, <1>17 DEF Next, DriverStep

-----------------------------------------------------------------------------
(***************************************************************************)
(* Publication.                                                            *)
(***************************************************************************)
\* The row transitions of the two passes keep PublishedInv.
LEMMA ScheduledRow ==
  ASSUME TypeOK, ViewInv, PublishedInv, driver = "schedule", NEW n \in Node,
         \/ MustBlock(n) /\ NodeRow(n, "blocked")
         \/ MayBecomeReady(n) /\ NodeRow(n, "ready"),
         UNCHANGED <<task, published>>
  PROVE  PublishedInv'
<1>1. statuses[n] \in {"pending", "ready"}
  BY DEF MustBlock, MayBecomeReady
<1>2. task[n] = "none" /\ nodeStatus[n] = statuses[n]
  BY <1>1 DEF ViewInv, Driving, Awaiting, TypeOK
<1>3. n \notin published
  BY <1>1, <1>2 DEF PublishedInv, SuccessKept, Success
<1>4. MayBecomeReady(n) => Deps[n] \subseteq published
  <2>1. SUFFICES ASSUME MayBecomeReady(n), NEW d \in Deps[n] PROVE d \in published
    OBVIOUS
  <2>2. d \in Node
    BY GraphAssumption
  <2>3. statuses[d] \in Success
    BY <2>1 DEF MayBecomeReady
  <2>4. nodeStatus[d] = statuses[d]
    BY <2>2, <2>3 DEF ViewInv, Driving, Awaiting, Finished
  <2>5. QED BY <2>2, <2>3, <2>4 DEF PublishedInv
<1>5. PICK s \in {"blocked", "ready"} :
         NodeRow(n, s) /\ (s = "ready" => Deps[n] \subseteq published)
  BY <1>4
<1>6. QED
  BY <1>3, <1>5 DEF PublishedInv, SuccessKept, DependenciesFirst, NodeRow, TypeOK, Success,
                    Running, Live

\* So do the rows the sweep cancels.
LEMMA SweptRow ==
  ASSUME TypeOK, PublishedInv, NEW n \in Node, NodeRow(n, "cancelled"),
         UNCHANGED <<task, published>>
  PROVE  PublishedInv'
  BY DEF PublishedInv, SuccessKept, DependenciesFirst, NodeRow, TypeOK, Success, Running, Live

\* A node gains a success once, and only after its dependencies.
LEMMA PublishedInvStep ==
  TypeOK /\ TaskInv /\ ViewInv /\ PublishedInv /\ [Next]_vars => PublishedInv'
<1> SUFFICES ASSUME TypeOK, TaskInv, ViewInv, PublishedInv, [Next]_vars PROVE PublishedInv'
  OBVIOUS
<1> USE DEF rows, taskVars, signals, counters
<1>1. ASSUME UNCHANGED <<nodeStatus, published>>, Running' \subseteq Running, 
             \A n \in Live' : n \in Live /\ task'[n] = task[n]
      PROVE  PublishedInv'
  BY <1>1 DEF PublishedInv, SuccessKept, DependenciesFirst
<1>2. CASE UNCHANGED <<nodeStatus, published, task>>
  BY <1>1, <1>2 DEF Running, Live
<1>3. CASE MarkReady \/ Load \/ Start \/ LoopTop \/ EndPass \/ WakeOnCancel \/ Gathered
  BY <1>2, <1>3 DEF MarkReady, Load, Start, LoopTop, EndPass, WakeOnCancel, Gathered
<1>4. CASE Harvest
  BY <1>1, <1>4 DEF Harvest, Running, Live, TypeOK, Phase, Result
<1>5. CASE RunCancelled \/ Finish \/ LeaveOpen \/ Crash
  BY <1>1, <1>5, ForgetEmpties DEF RunCancelled, Finish, LeaveOpen, Crash
<1>6. ASSUME NEW n \in Node, Schedule(n) PROVE PublishedInv'
  BY <1>6, ScheduledRow DEF Schedule, Transition
<1>7. ASSUME NEW n \in Node, Launch(n) PROVE PublishedInv'
  <2>1. nodeStatus[n] = "ready"
    BY <1>7 DEF Launch, CanLaunch, ViewInv, Driving, Awaiting, TypeOK, Phase, Result
  <2>2. n \notin published /\ Deps[n] \subseteq published
    BY <2>1 DEF PublishedInv, SuccessKept, Success
  <2>3. UNCHANGED <<nodeStatus, published>> /\ \A m \in Node \ {n} : task'[m] = task[m]
    BY <1>7 DEF Launch, TypeOK
  <2>4. QED BY <2>2, <2>3 DEF PublishedInv, SuccessKept, DependenciesFirst, Running, Live
<1>8. ASSUME NEW n \in Node, Sweep(n) PROVE PublishedInv'
  BY <1>8, SweptRow DEF Sweep, Transition
<1>9. CASE Resume
  <2>1. UNCHANGED <<task, published>> /\ RecoverRun
    BY <1>9 DEF Resume
  <2>2. \A n \in Node : nodeStatus'[n] = IF nodeStatus[n] = "running" THEN "ready"
                                                                      ELSE nodeStatus[n]
    BY <2>1 DEF RecoverRun
  <2>3. QED
    BY <2>1, <2>2
    DEF PublishedInv, SuccessKept, DependenciesFirst, Success, Running, Live, TypeOK
<1>10. CASE Cancel \/ RequestCancel \/ Watch
  BY <1>2, <1>10 DEF Cancel, RequestCancel, Watch
<1>11. CASE Abort
  <2>1. CASE UNCHANGED rows
    BY <1>2, <1>11, <2>1 DEF Abort
  <2>2. CASE DriverWrite
    <3>1. UNCHANGED <<task, published>>
      BY <1>11, <2>2 DEF Abort, DriverWrite
    <3>2. CASE UNCHANGED nodeStatus
      BY <1>2, <3>1, <3>2
    <3>3. ASSUME NEW n \in Node, driver = "schedule",
                 \/ MustBlock(n) /\ NodeRow(n, "blocked")
                 \/ MayBecomeReady(n) /\ NodeRow(n, "ready")
          PROVE  PublishedInv'
      BY <3>1, <3>3, ScheduledRow
    <3>4. ASSUME NEW n \in Node, NodeRow(n, "cancelled") PROVE PublishedInv'
      BY <3>1, <3>4, SweptRow
    <3>5. QED BY <2>2, <3>2, <3>3, <3>4 DEF DriverWrite
  <2>3. QED BY <1>11, <2>1, <2>2 DEF Abort
<1>12. ASSUME NEW n \in Node, TaskStep(n) PROVE PublishedInv'
  <2>1. /\ n \in Live /\ n \in Running
        /\ task[n] \in Phase
        /\ \A m \in Node \ {n} : task'[m] = task[m]
    BY <1>12, TaskEffect DEF Live, Running, Phase
  <2>2. Deps[n] \subseteq published
    BY <2>1 DEF PublishedInv, DependenciesFirst
  <2>3. Running' \subseteq Running /\ Live' \subseteq Live
    BY <2>1 DEF Running, Live
  <2>4. \/ task'[n] \in {"closeCancelled", "markCancelled"} \cup Result
        \/ task'[n] \in Phase \ {"closeCancelled", "markCancelled"}
           /\ task[n] \notin {"closeCancelled", "markCancelled", "commit", "cacheNode"}
        \/ task'[n] = "closeFailed" /\ task[n] = "commit" /\ UNCHANGED rows
    <3>1. CASE TaskWrite(n)
      <4>1. task[n] \in Phase \ {"lookup", "handler"} /\ task'[n] = AfterWrite(n)
        BY <3>1 DEF TaskWrite, Live, TypeOK
      <4>2. QED BY <4>1 DEF AfterWrite, Phase, Result
    <3>2. CASE LookUp(n) \/ HandlerReturns(n) \/ HandlerRaises(n) \/ CommitFails(n)
      BY <3>2 DEF LookUp, HandlerReturns, HandlerRaises, CommitFails, Goto, TypeOK, Phase
    <3>3. CASE Interrupt(n)
      BY <3>3 DEF Interrupt, TypeOK, Result
    <3>4. QED BY <1>12, <3>1, <3>2, <3>3 DEF TaskStep
  <2>5. CASE UNCHANGED rows
    BY <2>1, <2>3, <2>4, <2>5 DEF PublishedInv, SuccessKept, DependenciesFirst, Live, Phase, Result
  <2>6. CASE Write(n)
    <3>1. /\ nodeStatus'[n] = NodeWrite(task[n], nodeStatus[n])
          /\ \A m \in Node \ {n} : nodeStatus'[m] = nodeStatus[m]
          /\ published' = IF task[n] \in {"commit", "cacheNode"} THEN published \cup {n}
                                                                 ELSE published
      BY <2>6 DEF Write, TypeOK
    <3>2. nodeStatus'[n] \in Success => n \in published'
      BY <2>1, <3>1 DEF NodeWrite, PublishedInv, Success, Phase
    <3>3. n \in published' => nodeStatus'[n] \in Success \cup {"cancelled"}
      BY <2>1, <3>1 DEF NodeWrite, PublishedInv, SuccessKept, Success, Phase
    <3>4. n \in Live' /\ task'[n] \notin {"closeCancelled", "markCancelled"}
            => n \notin published'
      <4>1. UNCHANGED rows => published' = published
        OBVIOUS
      <4>2. QED BY <2>1, <2>4, <3>1, <4>1 DEF PublishedInv, Live, Phase, Result
    <3>5. published' \in {published, published \cup {n}} /\ published \subseteq Node
      BY <3>1 DEF TypeOK
    <3>6. \A m \in Node : nodeStatus'[m] \in Success => m \in published'
      BY <3>1, <3>2, <3>5 DEF PublishedInv
    <3>7. SuccessKept'
      BY <3>1, <3>3, <3>5 DEF PublishedInv, SuccessKept
    <3>8. DependenciesFirst'
      BY <2>2, <2>3, <3>5 DEF PublishedInv, DependenciesFirst
    <3>9. \A m \in Node : nodeStatus'[m] \in {"ready", "running"} => Deps[m] \subseteq published'
      BY <2>2, <3>1, <3>5 DEF PublishedInv
    <3>10. \A m \in Live' : task'[m] \notin {"closeCancelled", "markCancelled"}
                               => m \notin published'
      BY <2>1, <2>3, <3>4, <3>5 DEF PublishedInv, Live
    <3>11. QED
      BY <3>6, <3>7, <3>8, <3>9, <3>10 DEF PublishedInv
  <2>7. QED BY <1>12, <2>5, <2>6, TaskEffect
<1>13. CASE UNCHANGED vars
  BY <1>2, <1>13 DEF vars
<1>14. QED
  BY <1>3, <1>4, <1>5, <1>6, <1>7, <1>8, <1>9, <1>10, <1>11, <1>12, <1>13 DEF Next, DriverStep

-----------------------------------------------------------------------------
(***************************************************************************)
(* The status of the run and its verdict.                                  *)
(***************************************************************************)
\* The status of the run while it is driven is the one RunInv says.
LEMMA RunInvStep == TypeOK /\ TaskInv /\ RunInv /\ [Next]_vars => RunInv'
<1> SUFFICES ASSUME TypeOK, TaskInv, RunInv, [Next]_vars PROVE RunInv'
  OBVIOUS
<1> USE DEF RunInv, rows, taskVars, signals, counters
<1>1. CASE MarkReady \/ Load \/ Start
  <2>1. Live = {}
    BY <1>1 DEF MarkReady, Load, Start, TaskInv, Running, Live, Phase
  <2>2. Live' = {}
    BY <1>1, <2>1 DEF MarkReady, Load, Start, Live
  <2>3. QED BY <1>1, <2>2 DEF MarkReady, Load, Start
<1>2. CASE LoopTop \/ EndPass \/ WakeOnCancel \/ Gathered
  BY <1>2 DEF LoopTop, EndPass, WakeOnCancel, Gathered, PassesOver, Live, AllFinished
<1>3. CASE Harvest
  BY <1>3 DEF Harvest
<1>4. CASE RunCancelled \/ Finish \/ LeaveOpen \/ Crash
  BY <1>4, ForgetEmpties DEF RunCancelled, Finish, LeaveOpen, Crash
<1>5. ASSUME NEW n \in Node, Schedule(n) \/ Launch(n) PROVE RunInv'
  BY <1>5 DEF Schedule, Launch, Transition, Live
<1>6. ASSUME NEW n \in Node, Sweep(n) PROVE RunInv'
  BY <1>6 DEF Sweep, Transition, Live
<1>7. CASE Resume
  <2>1. Live' = {}
    BY <1>7 DEF Resume, TaskInv, Idle, Running, Live, Phase
  <2>2. QED BY <1>7, <2>1 DEF Resume, RecoverRun, Idle
<1>8. CASE Cancel \/ RequestCancel \/ Watch
  BY <1>8 DEF Cancel, RequestCancel, Watch, Live, AllFinished
<1>9. CASE Abort
  <2>1. driver' = "gather" /\ Live' = Live /\ driver \in Awaiting
    BY <1>9 DEF Abort, Live
  <2>2. Live # {} => runStatus' = runStatus
    BY <1>9 DEF Abort, DriverWrite, TaskInv, Running, Live, Phase
  <2>3. QED BY <2>1, <2>2
<1>10. ASSUME NEW n \in Node, TaskStep(n) PROVE RunInv'
  BY <1>10, TaskEffect
<1>11. CASE UNCHANGED vars
  BY <1>11 DEF vars, Live, AllFinished
<1>12. QED
  BY <1>1, <1>2, <1>3, <1>4, <1>5, <1>6, <1>7, <1>8, <1>9, <1>10, <1>11 DEF Next, DriverStep

\* The run says it ended.
Ended == runStatus \in {"succeeded", "failed", "cancelled"}

\* Where the driver holds every node finished, so are the rows.
LEMMA FinishedOnDisk ==
  ASSUME ViewInv, driver \in {"finish", "sweep"}, AllFinished
  PROVE  \A n \in Node : nodeStatus[n] \in Finished /\ nodeStatus[n] = statuses[n]
  BY DEF ViewInv, Driving, Awaiting, AllFinished

\* The verdict the driver computes is backed by the rows.
LEMMA FinalStatusSound ==
  ASSUME ViewInv, PublishedInv, RunInv, driver = "finish"
  PROVE  /\ FinalStatus \in {"succeeded", "failed"}
         /\ FinalStatus = "succeeded" => Required \subseteq published
         /\ FinalStatus = "failed" => \E n \in Required : nodeStatus[n] \in Bad
<1>1. \A n \in Node : nodeStatus[n] \in Finished /\ nodeStatus[n] = statuses[n]
  BY FinishedOnDisk DEF RunInv
<1>2. Required \subseteq Node
  BY GraphAssumption
<1>3. QED BY <1>1, <1>2 DEF FinalStatus, PublishedInv, Finished

\* A run that ended has no task left, only finished nodes, and a backed verdict.
LEMMA VerdictStep ==
  TypeOK /\ TaskInv /\ ViewInv /\ PublishedInv /\ RunInv /\ VerdictSound /\ [Next]_vars
    => VerdictSound'
<1> SUFFICES ASSUME TypeOK, TaskInv, ViewInv, PublishedInv, RunInv, VerdictSound, [Next]_vars,
                    Ended'
             PROVE  VerdictSound'
  BY DEF VerdictSound, Ended
<1> USE DEF rows, taskVars, signals, counters
<1>1. ASSUME UNCHANGED <<runStatus, nodeStatus, published>>, Live' \subseteq Live
      PROVE  VerdictSound'
  BY <1>1 DEF VerdictSound
<1>2. CASE MarkReady \/ Start
  BY <1>2 DEF MarkReady, Start, Ended
<1>3. CASE Load \/ LoopTop \/ EndPass \/ WakeOnCancel \/ Gathered
  BY <1>1, <1>3 DEF Load, LoopTop, EndPass, WakeOnCancel, Gathered, Live
<1>4. CASE Harvest
  BY <1>4 DEF Harvest, RunInv, Ended
<1>5. CASE RunCancelled
  <2>1. \A n \in Node : nodeStatus[n] \in Finished
    BY <1>5, FinishedOnDisk DEF RunCancelled
  <2>2. QED BY <1>5, <2>1, ForgetEmpties DEF RunCancelled, VerdictSound
<1>6. CASE Finish
  <2>1. \A n \in Node : nodeStatus[n] \in Finished
    BY <1>6, FinishedOnDisk DEF Finish, RunInv
  <2>2. QED
    BY <1>6, <2>1, ForgetEmpties, FinalStatusSound DEF Finish, VerdictSound
<1>7. CASE LeaveOpen \/ Crash
  BY <1>1, <1>7, ForgetEmpties DEF LeaveOpen, Crash
<1>8. ASSUME NEW n \in Node, Schedule(n) \/ Launch(n) PROVE VerdictSound'
  BY <1>8 DEF Schedule, Launch, Transition, RunInv, Ended
<1>9. ASSUME NEW n \in Node, NodeRow(n, "cancelled"), UNCHANGED <<runStatus, published, task>>
      PROVE  VerdictSound'
  BY <1>9 DEF NodeRow, VerdictSound, Ended, TypeOK, Live, Finished, Bad
<1>10. ASSUME NEW n \in Node, Sweep(n) PROVE VerdictSound'
  BY <1>9, <1>10 DEF Sweep, Transition
<1>11. CASE Resume
  <2>1. runStatus' = runStatus
    BY <1>11 DEF Resume, RecoverRun, Ended
  <2>2. \A n \in Node : nodeStatus[n] # "running"
    BY <2>1 DEF VerdictSound, Ended, Finished, Success, Bad
  <2>3. \A n \in Node : nodeStatus'[n] = nodeStatus[n]
    BY <1>11, <2>2 DEF Resume, RecoverRun
  <2>4. UNCHANGED <<published, task>>
    BY <1>11 DEF Resume
  <2>5. QED
    BY <2>1, <2>3, <2>4, GraphAssumption DEF VerdictSound, Live
<1>12. CASE Cancel \/ RequestCancel \/ Watch
  BY <1>1, <1>12 DEF Cancel, RequestCancel, Watch, Live
<1>13. CASE Abort
  <2>1. UNCHANGED <<task, published>>
    BY <1>13 DEF Abort, DriverWrite
  <2>2. CASE UNCHANGED rows
    BY <1>1, <2>1, <2>2 DEF Live
  <2>3. CASE driver = "schedule"
    BY <1>13, <2>3 DEF Abort, DriverWrite, RunInv, Ended
  <2>4. CASE driver = "sweep" /\ DriverWrite
    <3>1. CASE runStatus' = "cancelled" /\ AllFinished /\ UNCHANGED nodeStatus
      BY <2>1, <2>4, <3>1, FinishedOnDisk DEF VerdictSound, TaskInv, Live
    <3>2. QED BY <1>9, <2>1, <2>4, <3>1 DEF DriverWrite
  <2>5. CASE driver = "finish" /\ DriverWrite
    <3>1. runStatus' = FinalStatus /\ UNCHANGED nodeStatus
      BY <2>5 DEF DriverWrite
    <3>2. Live' = {}
      BY <2>1, <2>5 DEF TaskInv, Running, Live, Phase
    <3>3. \A n \in Node : nodeStatus[n] \in Finished
      BY <2>5, FinishedOnDisk DEF RunInv
    <3>4. QED
      BY <2>1, <2>5, <3>1, <3>2, <3>3, FinalStatusSound DEF VerdictSound
  <2>6. QED BY <1>13, <2>2, <2>3, <2>4, <2>5 DEF Abort, DriverWrite
<1>14. ASSUME NEW n \in Node, TaskStep(n) PROVE VerdictSound'
  <2>1. Live # {} /\ runStatus' = runStatus
    BY <1>14, TaskEffect
  <2>2. QED BY <2>1 DEF RunInv, Ended
<1>15. CASE UNCHANGED vars
  BY <1>1, <1>15 DEF vars, Live
<1>16. QED
  BY <1>2, <1>3, <1>4, <1>5, <1>6, <1>7, <1>8, <1>10, <1>11, <1>12, <1>13, <1>14, <1>15
  DEF Next, DriverStep

\* In a graph without cycles, some unfinished node has only finished dependencies.
LEMMA LowestUnfinished ==
  ASSUME ~AllFinished
  PROVE  \E n \in Node : statuses[n] \notin Finished /\ \A d \in Deps[n] : statuses[d] \in Finished
<1>1. PICK rank \in [Node -> 0 .. Cardinality(Node)] : Ranks(rank)
  BY GraphAssumption
<1> DEFINE T == {rank[n] : n \in {m \in Node : statuses[m] \notin Finished}}
<1>2. T \subseteq Nat /\ T # {}
  BY <1>1 DEF AllFinished
<1>3. PICK least \in T : \A k \in T : <<k, least>> \notin OpToRel(<, Nat)
  BY <1>2, NatLessThanWellFounded, WFMin
<1>4. PICK n \in Node : statuses[n] \notin Finished /\ rank[n] = least
  OBVIOUS
<1>5. ASSUME NEW d \in Deps[n], statuses[d] \notin Finished PROVE FALSE
  <2>1. d \in Node
    BY GraphAssumption
  <2>2. rank[d] \in T /\ rank[d] \in Nat /\ rank[n] \in Nat
    BY <1>1, <1>5, <2>1
  <2>3. rank[d] < rank[n]
    BY <1>1, <1>5, <2>1 DEF Ranks
  <2>4. <<rank[d], least>> \in OpToRel(<, Nat)
    BY <1>4, <2>2, <2>3 DEF OpToRel
  <2>5. QED BY <1>3, <2>2, <2>4
<1>6. QED BY <1>4, <1>5

\* A pass that neither moved nor launched a node left none to move: the driver
\* does not come to the branch for a stalled graph.
LEMMA NeverStalledStep ==
  TypeOK /\ TaskInv /\ ViewInv /\ NeverStalled /\ [Next]_vars => NeverStalled'
<1> SUFFICES ASSUME TypeOK, TaskInv, ViewInv, NeverStalled, [Next]_vars,
                    driver' = "stalled"
             PROVE  FALSE
  BY DEF NeverStalled
<1>1. EndPass
  <2>1. \A n \in Node : ~TaskStep(n)
    BY TaskEffect DEF NeverStalled
  <2>2. QED
    BY <2>1 DEF Next, DriverStep, MarkReady, Load, Start, LoopTop, WakeOnCancel, Harvest,
       Gathered, RunCancelled, Finish, LeaveOpen, Schedule, Launch, Sweep, Resume, Cancel,
       RequestCancel, Watch, Abort, Crash, vars, NeverStalled
<1>2. driver = "schedule" /\ PassDone /\ Running = {} /\ ~AllFinished
      /\ \A n \in Node : ~CanLaunch(n)
  BY <1>1 DEF EndPass, PassesOver
<1>3. PICK n \in Node : statuses[n] \notin Finished /\ \A d \in Deps[n] : statuses[d] \in Finished
  BY <1>2, LowestUnfinished
<1>4. statuses[n] # "running"
  BY <1>2 DEF ViewInv, Driving, Awaiting, Running
<1>5. statuses[n] \in {"pending", "ready"}
  BY <1>3, <1>4 DEF TypeOK, NodeStatus, Finished, Success, Bad
<1>6. \A d \in Deps[n] : statuses[d] \in Success
  BY <1>2, <1>3, <1>5 DEF PassDone, MustBlock, Finished
<1>7. statuses[n] = "ready"
  BY <1>2, <1>5, <1>6 DEF PassDone, MayBecomeReady
<1>8. CanLaunch(n)
  <2>1. Cardinality(Running) = 0 /\ \A g : Cardinality({m \in Running : Group[m] = g}) = 0
    BY <1>2, FS_EmptySet
  <2>2. QED BY <1>2, <1>7, <2>1, LimitAssumption DEF CanLaunch
<1>9. QED BY <1>2, <1>8

-----------------------------------------------------------------------------
(***************************************************************************)
(* The invariant, and what it gives.                                       *)
(***************************************************************************)
\* What a new run has published is closed under dependencies: in a fork the kept
\* successes of a completed run are.
LEMMA InitPublished == Init => DependenciesFirst /\ \A n \in Node : nodeStatus[n] # "running"
<1> SUFFICES ASSUME Init
             PROVE  DependenciesFirst /\ \A n \in Node : nodeStatus[n] # "running"
  OBVIOUS
<1>1. Running = {} /\ published = {n \in Node : nodeStatus[n] \in Success}
  BY DEF Init, NoDrive, Running
<1>2. CASE Fresh
  BY <1>1, <1>2 DEF Fresh, AllPending, DependenciesFirst, Success
<1>3. CASE Forked
  <2>1. PICK source \in CompletedStatuses, f \in Node, F \in SUBSET Node :
          /\ IsDescendants(F, f)
          /\ nodeStatus = [n \in Node |-> IF n \in F THEN "pending" ELSE source[n]]
    BY <1>3 DEF Forked
  <2>2. \A n \in Node : source[n] \in Success \cup {"failed", "blocked"}
    BY <2>1 DEF CompletedStatuses
  <2>3. ASSUME NEW n \in published, NEW d \in Deps[n] PROVE d \in published
    <3>1. n \in Node /\ d \in Node
      BY <1>1, <2>3, GraphAssumption
    <3>2. n \notin F /\ source[n] \in Success
      BY <1>1, <2>1, <2>3, <3>1 DEF Success
    <3>3. d \notin F
      BY <2>1, <2>3, <3>1, <3>2 DEF IsDescendants
    <3>4. source[d] \notin Bad
      BY <2>1, <2>3, <3>1, <3>2 DEF CompletedStatuses, Success
    <3>5. source[d] \in Success
      BY <2>2, <3>1, <3>4 DEF Bad
    <3>6. QED BY <1>1, <2>1, <3>1, <3>3, <3>5
  <2>4. QED BY <1>1, <2>1, <2>2, <2>3 DEF DependenciesFirst, Success
<1>4. QED BY <1>2, <1>3 DEF Init

\* The invariant holds when the run is created,
LEMMA InitInv == Init => IInv
<1> SUFFICES ASSUME Init PROVE IInv
  OBVIOUS
<1>1. Running = {} /\ Live = {} /\ interrupted = {} /\ driver = "creating" /\ runStatus = "pending"
  BY DEF Init, NoDrive, Running, Live, Phase
<1>2. TaskInv /\ RunInv /\ VerdictSound /\ NeverStalled
  BY <1>1 DEF TaskInv, RunInv, VerdictSound, NeverStalled
<1>3. ViewInv
  BY <1>1, InitPublished DEF ViewInv, Driving, Awaiting
<1>4. PublishedInv
  <2>1. published = {n \in Node : nodeStatus[n] \in Success}
    BY DEF Init
  <2>2. \A n \in Node : nodeStatus[n] # "ready"
    BY DEF Init, Fresh, Forked, AllPending, CompletedStatuses, Success
  <2>3. QED BY <1>1, <2>1, <2>2, InitPublished DEF PublishedInv, SuccessKept
<1>5. QED BY <1>2, <1>3, <1>4, InitType DEF IInv

\* and every step preserves it.
LEMMA InvStep == IInv /\ [Next]_vars => IInv'
  BY TypeStep, TaskInvStep, ViewInvStep, PublishedInvStep, RunInvStep, VerdictStep,
     NeverStalledStep DEF IInv

\* The invariant of the executor holds for every graph and every bound.
THEOREM Invariance == Spec => []IInv
  BY InitInv, InvStep, PTL DEF Spec

\* No node is launched, and none is published, before its dependencies are.
THEOREM DependenciesFirstHolds == Spec => []DependenciesFirst
<1>1. IInv => DependenciesFirst
  BY DEF IInv, PublishedInv
<1>2. QED BY <1>1, Invariance, PTL

\* A success on disk is only ever replaced by the CANCELLED of a sweep.
THEOREM SuccessKeptHolds == Spec => []SuccessKept
<1>1. IInv => SuccessKept
  BY DEF IInv, PublishedInv
<1>2. QED BY <1>1, Invariance, PTL

\* A run that says it ended has finished nodes only and a backed verdict.
THEOREM VerdictHolds == Spec => []VerdictSound
<1>1. IInv => VerdictSound
  BY DEF IInv
<1>2. QED BY <1>1, Invariance, PTL

\* The scheduler of an acyclic graph with positive limits never stalls.
THEOREM NeverStalledHolds == Spec => []NeverStalled
<1>1. IInv => NeverStalled
  BY DEF IInv
<1>2. QED BY <1>1, Invariance, PTL

\* A node whose success is on disk gets no further attempt.
THEOREM NoRedoHolds == Spec => NoRedo
<1> DEFINE Kept == \A n \in published : Len(attempts'[n]) = Len(attempts[n])
<1>1. ASSUME IInv, [Next]_vars PROVE [Kept]_vars
  <2> USE DEF rows, taskVars, signals, counters
  <2>1. TypeOK /\ TaskInv /\ PublishedInv
    BY <1>1 DEF IInv
  <2>2. CASE UNCHANGED attempts
    BY <2>2
  <2>3. CASE Resume
    BY <2>1, <2>3, InterruptedType DEF Resume, RecoverRun, TypeOK
  <2>4. ASSUME NEW n \in Node, TaskStep(n) PROVE Kept
    <3>1. Write(n) \/ UNCHANGED rows
      BY <2>1, <2>4, TaskEffect
    <3>2. CASE Write(n)
      <4>1. /\ attempts'[n] = AttemptWrite(task[n], attempts[n])
            /\ \A m \in Node \ {n} : attempts'[m] = attempts[m]
        BY <2>1, <3>2 DEF Write, TypeOK
      <4>2. n \in published => task[n] \in {"closeCancelled", "markCancelled"}
        BY <2>1, <2>4, TaskEffect DEF PublishedInv
      <4>3. n \in published => Len(attempts'[n]) = Len(attempts[n])
        BY <2>1, <4>1, <4>2, CloseType DEF AttemptWrite, TypeOK, AttemptStatus
      <4>4. QED BY <2>1, <4>1, <4>3 DEF TypeOK
    <3>3. QED BY <3>1, <3>2
  <2>5. CASE MarkReady \/ Load \/ Start \/ LoopTop \/ EndPass \/ WakeOnCancel \/ Harvest
             \/ Gathered \/ RunCancelled \/ Finish \/ LeaveOpen
    BY <2>2, <2>5 DEF MarkReady, Load, Start, LoopTop, EndPass, WakeOnCancel, Harvest,
       Gathered, RunCancelled, Finish, LeaveOpen
  <2>6. ASSUME NEW n \in Node, Schedule(n) \/ Launch(n) \/ Sweep(n) PROVE Kept
    BY <2>2, <2>6 DEF Schedule, Launch, Sweep, Transition
  <2>7. CASE Cancel \/ RequestCancel \/ Watch \/ Abort \/ Crash
    BY <2>2, <2>7 DEF Cancel, RequestCancel, Watch, Abort, DriverWrite, Crash
  <2>8. QED
    BY <1>1, <2>3, <2>4, <2>5, <2>6, <2>7 DEF Next, DriverStep
<1>2. QED
  BY <1>1, Invariance, PTL DEF Spec, NoRedo

-----------------------------------------------------------------------------
(***************************************************************************)
(* The promise.                                                            *)
(***************************************************************************)
\* What one step of the executor is to a reader of the rows.
LEMMA PromiseStep == IInv /\ [Next]_vars => [Promise!Next]_(Promise!vars)
<1> SUFFICES ASSUME IInv, [Next]_vars PROVE [Promise!Next]_(Promise!vars)
  OBVIOUS
<1> USE DEF Promise!vars, rows, taskVars, signals, counters
<1>0. TypeOK /\ TaskInv /\ ViewInv /\ PublishedInv /\ RunInv
  BY DEF IInv
<1>1. CASE UNCHANGED <<published, runStatus>>
  BY <1>1 DEF Verdict
<1>2. ASSUME driver = "finish", runStatus' = FinalStatus, UNCHANGED published
      PROVE  Promise!Next
  <2>1. Verdict = "open" /\ Verdict' = FinalStatus
    BY <1>0, <1>2, FinalStatusSound DEF Verdict, RunInv
  <2>2. QED
    BY <1>0, <1>2, <2>1, FinalStatusSound DEF Promise!Next, Promise!Succeed, Promise!Fail
<1>3. ASSUME runStatus' = "cancelled", UNCHANGED published
      PROVE  [Promise!Next]_(Promise!vars)
  BY <1>3 DEF Verdict, Promise!Next, Promise!Cancel
<1>4. CASE MarkReady
  BY <1>0, <1>4 DEF MarkReady, RunInv, Verdict
<1>5. CASE Start
  <2>1. Verdict \in {"open", "failed"} /\ Verdict' = "open" /\ UNCHANGED published
    BY <1>0, <1>5 DEF Start, RunInv, Verdict
  <2>2. QED BY <2>1 DEF Promise!Next, Promise!Reopen
<1>6. CASE Resume
  BY <1>6 DEF Resume, RecoverRun, Verdict
<1>7. CASE RunCancelled
  BY <1>3, <1>7 DEF RunCancelled
<1>8. CASE Finish
  BY <1>2, <1>8 DEF Finish
<1>9. CASE Abort
  <2>1. CASE DriverWrite
    <3>1. UNCHANGED published
      BY <2>1 DEF DriverWrite
    <3>2. QED BY <1>1, <1>2, <1>3, <2>1, <3>1 DEF DriverWrite
  <2>2. QED BY <1>1, <1>9, <2>1 DEF Abort
<1>10. CASE Load \/ LoopTop \/ EndPass \/ WakeOnCancel \/ Harvest \/ Gathered \/ LeaveOpen
            \/ Cancel \/ RequestCancel \/ Watch \/ Crash
  BY <1>1, <1>10 DEF Load, LoopTop, EndPass, WakeOnCancel, Harvest, Gathered, LeaveOpen,
     Cancel, RequestCancel, Watch, Crash
<1>11. ASSUME NEW n \in Node, Schedule(n) \/ Launch(n) \/ Sweep(n)
       PROVE  [Promise!Next]_(Promise!vars)
  BY <1>1, <1>11 DEF Schedule, Launch, Sweep, Transition
<1>12. ASSUME NEW n \in Node, TaskStep(n) PROVE [Promise!Next]_(Promise!vars)
  <2>1. n \in Live /\ UNCHANGED runStatus /\ (Write(n) \/ UNCHANGED rows)
    BY <1>0, <1>12, TaskEffect
  <2>2. runStatus = "running" /\ task[n] # "none"
    BY <1>0, <2>1 DEF RunInv, Live, Phase
  <2>3. CASE task[n] \in {"commit", "cacheNode"} /\ Write(n)
    <3>1. n \notin published /\ Deps[n] \subseteq published
      BY <1>0, <2>1, <2>2, <2>3 DEF PublishedInv, DependenciesFirst, Running
    <3>2. published' = published \cup {n} /\ Verdict = "open" /\ Verdict' = "open"
      BY <2>1, <2>2, <2>3 DEF Write, Verdict
    <3>3. QED BY <3>1, <3>2 DEF Promise!Next, Promise!Publish
  <2>4. QED BY <1>1, <2>1, <2>3 DEF Write
<1>13. CASE UNCHANGED vars
  BY <1>1, <1>13 DEF vars
<1>14. QED
  BY <1>4, <1>5, <1>6, <1>7, <1>8, <1>9, <1>10, <1>11, <1>12, <1>13 DEF Next, DriverStep

\* The executor, with its retries, caches, cancellations and crashes, implements
\* the abstract run.
THEOREM PromiseKept == Spec => KeepsPromise
<1>1. Init => Promise!Init
  <2>1. Init => published \in SUBSET Node /\ Verdict = "open"
    BY DEF Init, Verdict
  <2>2. QED BY <2>1, InitPublished DEF Promise!Init, DependenciesFirst
<1>2. QED
  BY <1>1, PromiseStep, Invariance, PTL DEF Spec, KeepsPromise, Promise!Spec

\* A cancelled run stays cancelled and gains no success: the promise has no step
\* out of its cancelled verdict.
THEOREM CancelledForGoodHolds == Spec => CancelledForGood
<1>1. [Promise!Next]_(Promise!vars) /\ Verdict = "cancelled"
        => Verdict' = "cancelled" /\ published' = published
  BY DEF Promise!Next, Promise!vars, Promise!Publish, Promise!Succeed, Promise!Fail,
     Promise!Reopen, Promise!Cancel
<1>2. IInv /\ [Next]_vars
        => [runStatus = "cancelled" => runStatus' = "cancelled" /\ published' = published]_vars
  BY <1>1, PromiseStep DEF Verdict
<1>3. QED
  BY <1>2, Invariance, PTL DEF Spec, CancelledForGood
-----------------------------------------------------------------------------
(***************************************************************************)
(* What runs at once.                                                      *)
(***************************************************************************)
\* Two paths that a third is at or below are one at or below the other.
LEMMA PrefixesCompare ==
  ASSUME NEW S, NEW p \in Seq(S), NEW q \in Seq(S), NEW path \in Seq(S),
         IsPrefix(p, path), IsPrefix(q, path), Len(p) <= Len(q)
  PROVE  IsPrefix(p, q)
<1>1. Len(p) \in Nat /\ Len(q) \in Nat /\ Len(path) \in Nat
  BY LenProperties
<1>2. Len(p) <= Len(path) /\ Len(q) <= Len(path)
      /\ SubSeq(p, 1, Len(p)) = SubSeq(path, 1, Len(p))
      /\ SubSeq(q, 1, Len(q)) = SubSeq(path, 1, Len(q))
  BY DEF IsPrefix
<1>3. \A i \in 1 .. Len(path) : path[i] \in S
  BY ElementOfSeq
<1>4. \A i \in 1 .. Len(p) : p[i] = path[i]
  <2>1. \A i \in 1 .. Len(p) : SubSeq(path, 1, Len(p))[i] = path[1 + i - 1]
    BY <1>1, <1>2, <1>3, SubSeqProperties
  <2>2. QED BY <1>1, <1>2, <2>1, SubSeqFull
<1>5. \A i \in 1 .. Len(q) : q[i] = path[i]
  <2>1. \A i \in 1 .. Len(q) : SubSeq(path, 1, Len(q))[i] = path[1 + i - 1]
    BY <1>1, <1>2, <1>3, SubSeqProperties
  <2>2. QED BY <1>1, <1>2, <2>1, SubSeqFull
<1>6. /\ SubSeq(q, 1, Len(p)) \in Seq(S)
      /\ Len(SubSeq(q, 1, Len(p))) = Len(p)
      /\ \A i \in 1 .. Len(p) : SubSeq(q, 1, Len(p))[i] = q[i]
  <2>1. \A i \in 1 .. Len(p) : q[i] \in S
    BY <1>1, ElementOfSeq
  <2>2. /\ SubSeq(q, 1, Len(p)) \in Seq(S)
        /\ Len(SubSeq(q, 1, Len(p))) = IF 1 <= Len(p) THEN Len(p) - 1 + 1 ELSE 0
        /\ \A i \in 1 .. Len(p) - 1 + 1 : SubSeq(q, 1, Len(p))[i] = q[1 + i - 1]
    BY <1>1, <2>1, SubSeqProperties
  <2>3. QED BY <1>1, <2>2
<1>7. SubSeq(q, 1, Len(p)) = p
  <2>1. \A i \in 1 .. Len(p) : SubSeq(q, 1, Len(p))[i] = p[i]
    BY <1>1, <1>4, <1>5, <1>6
  <2>2. QED BY <1>6, <2>1, SeqEqual
<1>8. QED BY <1>7, SubSeqFull DEF IsPrefix

\* The declared and undeclared write sets are sets of paths.
LEMMA WritePathsType == ASSUME NEW n \in Node PROVE WritePaths(n) \subseteq Seq(STRING)
  BY WriteSetAssumption, EmptySeq DEF WritePaths

\* Tasks whose write sets do not overlap have no path in common.
LEMMA ApartWriters ==
  ASSUME NEW m \in Node, NEW n \in Node, NEW path \in Seq(STRING),
         MayWrite(m, path), MayWrite(n, path)
  PROVE  Overlap(m, n)
<1>1. PICK p \in WritePaths(m) : IsPrefix(p, path)
  BY DEF MayWrite
<1>2. PICK q \in WritePaths(n) : IsPrefix(q, path)
  BY DEF MayWrite
<1>3. p \in Seq(STRING) /\ q \in Seq(STRING)
  BY WritePathsType
<1>4. Len(p) <= Len(q) \/ Len(q) <= Len(p)
  BY <1>3, LenProperties
<1>5. PathsOverlap(p, q)
  BY <1>1, <1>2, <1>3, <1>4, PrefixesCompare DEF PathsOverlap
<1>6. QED BY <1>5 DEF Overlap

\* Overlapping is mutual.
LEMMA OverlapSymmetric ==
  ASSUME NEW m \in Node, NEW n \in Node, Overlap(m, n)
  PROVE  Overlap(n, m)
  BY DEF Overlap, PathsOverlap

\* There are finitely many tasks.
LEMMA RunningFinite == IsFiniteSet(Running)
  BY GraphAssumption, FS_Subset DEF Running

\* A task less is no clash more.
LEMMA ClashShrinks == ASSUME ClashInv, Running' \subseteq Running PROVE ClashInv'
<1>1. Cardinality(Running') <= MaxConcurrency
  <2>1. IsFiniteSet(Running) /\ Running' \in SUBSET Running
    BY RunningFinite
  <2>2. Cardinality(Running') <= Cardinality(Running) /\ IsFiniteSet(Running')
    BY <2>1, FS_Subset
  <2>3. Cardinality(Running) \in Nat /\ Cardinality(Running') \in Nat
    BY <2>1, <2>2, FS_CardinalityType
  <2>4. QED BY <2>2, <2>3, LimitAssumption DEF ClashInv
<1>2. \A m, n \in Running' : m # n => ~Overlap(m, n)
  BY DEF ClashInv
<1>3. \A S \in SUBSET Running' : S \in SUBSET Running
  OBVIOUS
<1>4. QED
  BY <1>1, <1>2, <1>3 DEF ClashInv, Overlap, WritePaths, PathsOverlap

\* A node launched beside the running tasks clashes with none of them, and each
\* group it joins is within its own limit.
LEMMA ClashLaunch == ASSUME TypeOK, ClashInv, NEW n \in Node, Launch(n) PROVE ClashInv'
<1>1. Running' \subseteq Running \cup {n}
  BY DEF Launch, Running, TypeOK
<1>2. /\ Cardinality(Running) < MaxConcurrency
      /\ Group[n] # NoGroup =>
           Cardinality({m \in Running : Group[m] = Group[n]}) < GroupLimit[n]
      /\ \A m \in Running : ~Overlap(n, m)
  BY DEF Launch, CanLaunch
<1>3. Cardinality(Running') <= MaxConcurrency
  <2>1. IsFiniteSet(Running) /\ IsFiniteSet(Running \cup {n})
    BY RunningFinite, FS_AddElement
  <2>2. Cardinality(Running \cup {n}) <= Cardinality(Running) + 1
    BY <2>1, FS_AddElement, FS_CardinalityType
  <2>3. Running' \in SUBSET (Running \cup {n})
    BY <1>1
  <2>4. Cardinality(Running') <= Cardinality(Running \cup {n}) /\ IsFiniteSet(Running')
    BY <2>1, <2>3, FS_Subset
  <2>5. Cardinality(Running) \in Nat /\ Cardinality(Running') \in Nat
        /\ Cardinality(Running \cup {n}) \in Nat
    BY <2>1, <2>4, FS_CardinalityType
  <2>6. QED BY <1>2, <2>2, <2>4, <2>5, LimitAssumption
<1>4. ASSUME NEW k \in Running', NEW m \in Running', k # m PROVE ~Overlap(k, m)
  <2>1. k \in Running \cup {n} /\ m \in Running \cup {n} /\ Running \subseteq Node
    BY <1>1 DEF Running
  <2>2. CASE k \in Running /\ m \in Running
    BY <1>4, <2>2 DEF ClashInv
  <2>3. CASE k = n
    BY <1>2, <1>4, <2>1, <2>3
  <2>4. CASE m = n
    BY <1>2, <1>4, <2>1, <2>4, OverlapSymmetric
  <2>5. QED BY <2>1, <2>2, <2>3, <2>4
<1>5. ASSUME NEW S \in SUBSET Running', S # {},
             \A k, m \in S : Group[k] = Group[m] /\ Group[k] # NoGroup
      PROVE  \E m \in S : Cardinality(S) <= GroupLimit[m]
  <2>1. CASE n \notin S
    <3>1. S \in SUBSET Running
      BY <1>1, <2>1
    <3>2. QED BY <1>5, <3>1 DEF ClashInv
  <2>2. CASE n \in S
    <3> DEFINE G == {m \in Running : Group[m] = Group[n]}
               R == S \ {n}
    <3>1. R \subseteq G /\ Group[n] # NoGroup
      BY <1>1, <1>5, <2>2
    <3>2. IsFiniteSet(G)
      BY RunningFinite, FS_Subset
    <3>3. IsFiniteSet(R) /\ Cardinality(R) <= Cardinality(G)
      BY <3>1, <3>2, FS_Subset
    <3>4. S = R \cup {n} /\ n \notin R
      BY <2>2
    <3>5. Cardinality(R \cup {n}) = Cardinality(R) + 1
      BY <3>3, <3>4, FS_AddElement
    <3>6. Cardinality(R) \in Nat /\ Cardinality(G) \in Nat /\ GroupLimit[n] \in Nat
      BY <3>2, <3>3, FS_CardinalityType, LimitAssumption
    <3>7. Cardinality(G) < GroupLimit[n]
      BY <1>2, <3>1
    <3>8. Cardinality(S) = Cardinality(R) + 1
      BY <3>4, <3>5
    <3> HIDE DEF G, R
    <3>9. Cardinality(S) <= GroupLimit[n]
      BY <3>3, <3>6, <3>7, <3>8
    <3>10. QED BY <2>2, <3>9
  <2>3. QED BY <2>1, <2>2
<1>6. QED
  BY <1>3, <1>4, <1>5 DEF ClashInv, Overlap, WritePaths, PathsOverlap

\* Only a launch adds a task, so no step makes two tasks clash.
LEMMA ClashStep == IInv /\ ClashInv /\ [Next]_vars => ClashInv'
<1> SUFFICES ASSUME IInv, ClashInv, [Next]_vars PROVE ClashInv'
  OBVIOUS
<1> USE DEF taskVars
<1>1. TypeOK /\ TaskInv
  BY DEF IInv
<1>2. CASE UNCHANGED task
  BY <1>2, ClashShrinks DEF Running
<1>3. CASE RunCancelled \/ Finish \/ LeaveOpen \/ Crash
  BY <1>3, ForgetEmpties, ClashShrinks DEF RunCancelled, Finish, LeaveOpen, Crash
<1>4. CASE Harvest
  BY <1>4, ClashShrinks DEF Harvest, Running
<1>5. ASSUME NEW n \in Node, Launch(n) PROVE ClashInv'
  BY <1>1, <1>5, ClashLaunch
<1>6. ASSUME NEW n \in Node, TaskStep(n) PROVE ClashInv'
  <2>1. n \in Live /\ \A m \in Node \ {n} : task'[m] = task[m]
    BY <1>1, <1>6, TaskEffect
  <2>2. Running' \subseteq Running
    BY <2>1 DEF Running, Live, Phase
  <2>3. QED BY <2>2, ClashShrinks
<1>7. CASE MarkReady \/ Load \/ Start \/ LoopTop \/ EndPass \/ WakeOnCancel \/ Gathered
           \/ Resume \/ Cancel \/ RequestCancel \/ Watch \/ Abort
  BY <1>2, <1>7 DEF MarkReady, Load, Start, LoopTop, EndPass, WakeOnCancel, Gathered,
     Resume, Cancel, RequestCancel, Watch, Abort
<1>8. ASSUME NEW n \in Node, Schedule(n) \/ Sweep(n) PROVE ClashInv'
  BY <1>2, <1>8 DEF Schedule, Sweep
<1>9. CASE UNCHANGED vars
  BY <1>2, <1>9 DEF vars
<1>10. QED
  BY <1>3, <1>4, <1>5, <1>6, <1>7, <1>8, <1>9 DEF Next, DriverStep

\* No task of a new run, no clash.
LEMMA ClashInit == Init => ClashInv
<1> SUFFICES ASSUME Init PROVE ClashInv
  OBVIOUS
<1>1. Running = {}
  BY DEF Init, NoDrive, Running
<1>2. Cardinality(Running) = 0
  BY <1>1, FS_EmptySet
<1>3. QED BY <1>1, <1>2, LimitAssumption DEF ClashInv

\* Disjoint write sets and joined-within-limit groups are what NothingClashes says.
LEMMA ClashImplies == TypeOK /\ ClashInv => NothingClashes
<1> SUFFICES ASSUME TypeOK, ClashInv PROVE NothingClashes
  OBVIOUS
<1>1. Live \subseteq Running /\ Running \subseteq Node
  BY DEF Live, Running, Phase
<1>2. WritersExclusive
  <2>1. SUFFICES ASSUME NEW m \in Live, NEW n \in Live,
                        NEW path \in UNION {WritePaths(k) : k \in Node},
                        MayWrite(m, path), MayWrite(n, path)
                 PROVE  m = n
    BY DEF WritersExclusive
  <2>2. path \in Seq(STRING)
    BY WritePathsType
  <2>3. Overlap(m, n)
    BY <1>1, <2>1, <2>2, ApartWriters
  <2>4. QED BY <1>1, <2>3 DEF ClashInv
<1>3. ASSUME NEW n \in Running, Group[n] # NoGroup
      PROVE  \E m \in {m \in Running : Group[m] = Group[n]} :
               Cardinality({k \in Running : Group[k] = Group[n]}) <= GroupLimit[m]
  <2> DEFINE S == {m \in Running : Group[m] = Group[n]}
  <2>1. S \in SUBSET Running /\ S # {} /\ \A k, m \in S : Group[k] = Group[m] /\ Group[k] # NoGroup
    BY <1>3
  <2>2. QED BY <2>1 DEF ClashInv
<1>4. LimitsRespected
  BY <1>3 DEF LimitsRespected, ClashInv
<1>5. QED BY <1>2, <1>4 DEF NothingClashes

\* Tasks that run at once write apart and stay within the limits, in every run.
THEOREM NothingClashesHolds == Spec => []NothingClashes
<1>1. IInv => TypeOK
  BY DEF IInv
<1>2. QED BY <1>1, ClashInit, ClashStep, ClashImplies, Invariance, PTL DEF Spec
-----------------------------------------------------------------------------
(***************************************************************************)
(* What a node's attempts add up to.                                       *)
(***************************************************************************)
\* Closing the last attempt of a node leaves none open,
LEMMA CloseCloses ==
  ASSUME NEW s \in Seq(AttemptStatus), NEW o \in AttemptStatus \ {"running"}, LastOpen(s)
  PROVE  Closed(Close(s, o))
<1>1. Len(s) \in Nat /\ DOMAIN s = 1 .. Len(s)
  BY LenProperties
<1>2. DOMAIN Close(s, o) = DOMAIN s
  BY DEF Close
<1>3. ASSUME NEW k \in DOMAIN s PROVE Close(s, o)[k] # "running"
  BY <1>1, <1>3 DEF Close, LastOpen
<1>4. QED BY <1>2, <1>3 DEF Closed

\* and one appended to closed attempts is the only one that may be open.
LEMMA AppendOpens ==
  ASSUME NEW s \in Seq(AttemptStatus), NEW o \in AttemptStatus, Closed(s)
  PROVE  /\ Len(Append(s, o)) = Len(s) + 1
         /\ LastOpen(Append(s, o))
         /\ o # "running" => Closed(Append(s, o))
<1>1. /\ Len(s) \in Nat /\ DOMAIN s = 1 .. Len(s)
      /\ Append(s, o) \in Seq(AttemptStatus)
      /\ Len(Append(s, o)) = Len(s) + 1
      /\ \A k \in 1 .. Len(s) : Append(s, o)[k] = s[k]
      /\ Append(s, o)[Len(s) + 1] = o
  BY LenProperties, AppendProperties
<1>2. DOMAIN Append(s, o) = 1 .. Len(s) + 1
  BY <1>1, LenProperties
<1>3. \A k \in 1 .. Len(s) + 1 : k \in 1 .. Len(s) \/ k = Len(s) + 1
  BY <1>1
<1>4. QED BY <1>1, <1>2, <1>3 DEF Closed, LastOpen

\* Recovery closes what a crash left open.
LEMMA InterruptedCloses ==
  ASSUME NEW s PROVE Closed(Interrupted(s))
  BY DEF Closed, Interrupted

\* Closed attempts have no open one but the last.
LEMMA ClosedIsLastOpen == ASSUME NEW s, Closed(s) PROVE LastOpen(s)
  BY DEF Closed, LastOpen

\* What a transaction does to the attempts of its node: the two that append find them
\* closed, and the three that close leave them closed.
LEMMA AttemptWriteEffect ==
  ASSUME NEW p \in Phase, NEW s \in Seq(AttemptStatus), LastOpen(s),
         p \notin Open => Closed(s)
  PROVE  /\ LastOpen(AttemptWrite(p, s))
         /\ p \notin {"openAttempt", "handler"} => Closed(AttemptWrite(p, s))
         /\ Len(AttemptWrite(p, s)) =
              IF p \in {"openAttempt", "cacheAttempt"} THEN Len(s) + 1 ELSE Len(s)
<1>1. CASE p \in {"openAttempt", "cacheAttempt"}
  BY <1>1, AppendOpens DEF AttemptWrite, AttemptStatus, Open
<1>2. CASE p \in {"commit", "closeFailed", "closeCancelled"}
  <2>1. PICK o \in {"succeeded", "failed", "cancelled"} : AttemptWrite(p, s) = Close(s, o)
    BY <1>2 DEF AttemptWrite
  <2>2. o \in AttemptStatus \ {"running"}
    BY DEF AttemptStatus
  <2>3. Closed(Close(s, o)) /\ Len(Close(s, o)) = Len(s)
    BY <2>2, CloseCloses, CloseType
  <2>4. QED BY <1>2, <2>1, <2>3, ClosedIsLastOpen
<1>3. CASE p \notin {"openAttempt", "cacheAttempt", "commit", "closeFailed", "closeCancelled"}
  <2>1. AttemptWrite(p, s) = s
    BY <1>3 DEF AttemptWrite
  <2>2. p \in Open <=> p = "handler"
    BY <1>3 DEF Open
  <2>3. QED BY <1>3, <2>1, <2>2
<1>4. QED BY <1>1, <1>2, <1>3

\* The counters of the other nodes do not move with a task.
LEMMA TaskAttempts ==
  ASSUME TypeOK, TaskInv, NEW n \in Node, TaskStep(n)
  PROVE  /\ \A m \in Node \ {n} :
              attempts'[m] = attempts[m] /\ offset'[m] = offset[m] /\ task'[m] = task[m]
         /\ \/ attempts'[n] = attempts[n]
            \/ attempts'[n] = AttemptWrite(task[n], attempts[n])
<1>1. Write(n) \/ UNCHANGED rows
  BY TaskEffect
<1>2. \A m \in Node \ {n} : attempts'[m] = attempts[m]
  BY <1>1 DEF Write, rows, TypeOK
<1>3. attempts'[n] = attempts[n] \/ attempts'[n] = AttemptWrite(task[n], attempts[n])
  BY <1>1 DEF Write, rows, TypeOK
<1>4. \A m \in Node \ {n} : offset'[m] = offset[m]
  BY DEF TaskStep, TaskWrite, LookUp, HandlerReturns, HandlerRaises, CommitFails, Goto,
     Interrupt, TypeOK
<1>5. \A m \in Node \ {n} : task'[m] = task[m]
  BY TaskEffect
<1>6. QED BY <1>2, <1>3, <1>4, <1>5

\* What the earlier drives of a node may have used is a number.
LEMMA EarlierType == ASSUME TypeOK, NEW n \in Node PROVE Earlier(n) \in Nat
  BY LimitAssumption DEF TypeOK, Earlier

\* Without a resume it stays.
LEMMA EarlierKept == ASSUME NEW n \in Node, UNCHANGED resumes PROVE Earlier(n)' = Earlier(n)
  BY DEF Earlier

\* A task stays within its retries: it opens an attempt only after what its own retries
\* have used, and begins a retry only while it has one left.
LEMMA BudgetTask ==
  ASSUME TypeOK, TaskInv, AttemptInv, NEW n \in Node, BudgetOf(n), TaskStep(n)
  PROVE  BudgetOf(n)'
<1> DEFINE E == Earlier(n)  R == MaxRetries[n]  L == Len(attempts[n])
<1>1. /\ n \in Live /\ task[n] \in Phase /\ UNCHANGED <<driver, resumes>>
      /\ driver \in {"top", "schedule", "wait", "gather"}
  BY TaskEffect DEF Live, counters
<1>2. E \in Nat /\ R \in Nat /\ L \in Nat /\ offset[n] \in Nat /\ Earlier(n)' = E
  BY <1>1, EarlierType, EarlierKept, LimitAssumption, LenProperties DEF TypeOK
<1>3. /\ attempts[n] \in Seq(AttemptStatus) /\ LastOpen(attempts[n])
      /\ task[n] \notin Open => Closed(attempts[n])
  BY <1>1 DEF TypeOK, AttemptInv, AttemptsOf
<1>4. Len(AttemptWrite(task[n], attempts[n])) =
        IF task[n] \in {"openAttempt", "cacheAttempt"} THEN L + 1 ELSE L
  BY <1>1, <1>3, AttemptWriteEffect
<1>5. /\ offset[n] <= R /\ L <= E + R + 1
      /\ task[n] = "markReady" => offset[n] < R
      /\ task[n] \in {"lookup", "cacheAttempt"} => L <= E
      /\ task[n] \in {"setRunning", "openAttempt"} => L <= E + offset[n]
      /\ task[n] \in {"handler", "commit", "closeFailed", "markFailed", "markReady",
                      "closeCancelled", "markCancelled"}
           => L <= E + offset[n] + 1
  BY DEF BudgetOf
<1>6. task'[n] \in Phase \cup Result
  BY TaskEffect
<1>7. SUFFICES
        /\ offset'[n] <= R
        /\ task'[n] = "markReady" => offset'[n] < R
        /\ Len(attempts'[n]) <= E + R + 1
        /\ task'[n] \in {"lookup", "cacheAttempt"} => Len(attempts'[n]) <= E
        /\ task'[n] \in {"setRunning", "openAttempt"} => Len(attempts'[n]) <= E + offset'[n]
        /\ task'[n] \in {"handler", "commit", "closeFailed", "markFailed", "markReady",
                         "closeCancelled", "markCancelled"}
             => Len(attempts'[n]) <= E + offset'[n] + 1
  BY <1>1, <1>2, <1>6 DEF BudgetOf, Phase, Result
<1> HIDE DEF E, R, L
<1>8. CASE TaskWrite(n)
  <2>1. /\ attempts'[n] = AttemptWrite(task[n], attempts[n])
        /\ task'[n] = AfterWrite(n)
        /\ offset'[n] = IF task[n] = "markReady" THEN offset[n] + 1 ELSE offset[n]
        /\ task[n] \notin {"lookup", "handler"}
    BY <1>8 DEF TaskWrite, Write, TypeOK
  <2>2. CASE task[n] \in {"cacheAttempt", "cacheNode", "commit", "markCancelled"}
    <3>1. task'[n] \in {"cacheNode", "cached", "succeeded", "cancelled"}
      BY <2>1, <2>2 DEF AfterWrite
    <3>2. offset'[n] = offset[n]
      BY <2>1, <2>2
    <3>3. Len(attempts'[n]) <= E + R + 1
      BY <1>2, <1>4, <1>5, <2>1, <2>2
    <3>4. QED BY <1>5, <3>1, <3>2, <3>3
  <2>3. CASE task[n] = "setRunning"
    <3>1. task'[n] = "openAttempt" /\ offset'[n] = offset[n] /\ Len(attempts'[n]) = L
      BY <1>4, <2>1, <2>3 DEF AfterWrite
    <3>2. QED BY <1>2, <1>5, <2>3, <3>1
  <2>4. CASE task[n] = "openAttempt"
    <3>1. task'[n] = "handler" /\ offset'[n] = offset[n] /\ Len(attempts'[n]) = L + 1
      BY <1>4, <2>1, <2>4 DEF AfterWrite
    <3>2. QED BY <1>2, <1>5, <2>4, <3>1
  <2>5. CASE task[n] \in {"closeFailed", "closeCancelled"}
    <3>1. task'[n] \in {"markFailed", "markCancelled"} /\ offset'[n] = offset[n]
          /\ Len(attempts'[n]) = L
      BY <1>4, <2>1, <2>5 DEF AfterWrite
    <3>2. QED BY <1>2, <1>5, <2>5, <3>1
  <2>6. CASE task[n] = "markFailed"
    <3>1. task'[n] = (IF offset[n] < R THEN "markReady" ELSE "failed")
          /\ offset'[n] = offset[n] /\ Len(attempts'[n]) = L
      BY <1>4, <2>1, <2>6 DEF AfterWrite, R
    <3>2. QED BY <1>2, <1>5, <2>6, <3>1
  <2>7. CASE task[n] = "markReady"
    <3>1. task'[n] = "setRunning" /\ offset'[n] = offset[n] + 1 /\ Len(attempts'[n]) = L
      BY <1>4, <2>1, <2>7 DEF AfterWrite
    <3>2. QED BY <1>2, <1>5, <2>7, <3>1
  <2>8. QED
    BY <1>1, <2>1, <2>2, <2>3, <2>4, <2>5, <2>6, <2>7 DEF Phase
<1>9. CASE Interrupt(n)
  <2>1. /\ offset'[n] = offset[n]
        /\ task'[n] = IF task[n] \in {"handler", "commit"} THEN "closeCancelled" ELSE "cancelled"
    BY <1>9 DEF Interrupt, TypeOK
  <2>2. attempts'[n] = attempts[n] \/ attempts'[n] = AttemptWrite(task[n], attempts[n])
    BY TaskAttempts
  <2>3. Len(attempts'[n]) = L \/ Len(attempts'[n]) = Len(AttemptWrite(task[n], attempts[n]))
    BY <2>2 DEF L
  <2>4. CASE task[n] \in {"openAttempt", "cacheAttempt"}
    <3>1. Len(attempts'[n]) = L \/ Len(attempts'[n]) = L + 1
      BY <1>4, <2>3, <2>4
    <3>2. QED BY <1>2, <1>5, <2>1, <2>4, <3>1
  <2>5. CASE task[n] \notin {"openAttempt", "cacheAttempt"}
    <3>1. Len(attempts'[n]) = L
      BY <1>4, <2>3, <2>5
    <3>2. QED BY <1>2, <1>5, <2>1, <3>1
  <2>6. QED BY <2>4, <2>5
<1>10. CASE LookUp(n) \/ HandlerReturns(n) \/ HandlerRaises(n) \/ CommitFails(n)
  <2>1. /\ offset'[n] = offset[n] /\ Len(attempts'[n]) = L
        /\ \/ task[n] = "lookup" /\ task'[n] \in {"cacheAttempt", "setRunning"}
           \/ task[n] \in {"handler", "commit"}
              /\ task'[n] \in {"closeCancelled", "commit", "closeFailed"}
    BY <1>10 DEF LookUp, HandlerReturns, HandlerRaises, CommitFails, Goto, TypeOK, rows, L
  <2>2. QED BY <1>2, <1>5, <2>1
<1>11. QED BY <1>8, <1>9, <1>10 DEF TaskStep

\* Every step keeps each node within its budget: a resume is the one thing that gives a
\* node a new one.
LEMMA BudgetStep == IInv /\ AttemptInv /\ BudgetInv /\ [Next]_vars => BudgetInv'
<1> SUFFICES ASSUME IInv, AttemptInv, BudgetInv, [Next]_vars, NEW n \in Node
             PROVE  BudgetOf(n)'
  BY DEF BudgetInv
<1>1. TypeOK /\ TaskInv /\ ViewInv /\ BudgetOf(n)
  BY DEF IInv, BudgetInv
<1>2. Earlier(n) \in Nat /\ MaxRetries[n] \in Nat /\ offset[n] \in Nat /\ Len(attempts[n]) \in Nat
  BY <1>1, EarlierType, LimitAssumption, LenProperties DEF TypeOK
<1>3. ASSUME task'[n] = task[n], offset'[n] = offset[n], attempts'[n] = attempts[n],
             UNCHANGED resumes,
             driver' \in {"creating", "loading"} => driver \in {"creating", "loading"},
             \/ driver \in {"creating", "loading"}
             \/ Driving' => Driving
                /\ (statuses'[n] \in {"pending", "ready"} => statuses[n] \in {"pending", "ready"})
      PROVE  BudgetOf(n)'
  <2>1. Earlier(n)' = Earlier(n)
    BY <1>3, EarlierKept
  <2>2. QED BY <1>1, <1>3, <2>1 DEF BudgetOf
<1> USE DEF rows, taskVars, signals, counters
<1>4. CASE MarkReady \/ Load
  BY <1>3, <1>4 DEF MarkReady, Load
<1>5. CASE Start \/ LoopTop \/ EndPass \/ WakeOnCancel \/ Gathered
  BY <1>3, <1>5 DEF Start, LoopTop, EndPass, PassesOver, WakeOnCancel, Gathered, Driving, Awaiting
<1>6. CASE Abort
  <2>1. UNCHANGED attempts
    BY <1>6 DEF Abort, DriverWrite
  <2>2. QED BY <1>3, <1>6, <2>1 DEF Abort, Driving, Awaiting
<1>7. CASE Cancel \/ RequestCancel \/ Watch
  BY <1>3, <1>7 DEF Cancel, RequestCancel, Watch, Driving
<1>8. ASSUME NEW m \in Node, Schedule(m) \/ Sweep(m) PROVE BudgetOf(n)'
  <2>1. UNCHANGED <<driver, task, offset, attempts, resumes>> /\ driver \notin {"creating", "loading"}
    BY <1>8 DEF Schedule, Sweep, Transition
  <2>2. statuses'[n] \in {"pending", "ready"} => statuses[n] \in {"pending", "ready"}
    BY <1>1, <1>8 DEF Schedule, Sweep, Transition, MustBlock, MayBecomeReady, TypeOK
  <2>3. QED BY <1>3, <2>1, <2>2 DEF Driving
<1>9. ASSUME NEW m \in Node, Launch(m) PROVE BudgetOf(n)'
  <2>1. UNCHANGED <<driver, offset, attempts, resumes>> /\ driver = "schedule"
    BY <1>9 DEF Launch
  <2>2. CASE m # n
    <3>1. task'[n] = task[n] /\ statuses'[n] = statuses[n]
      BY <1>1, <1>9, <2>2 DEF Launch, TypeOK
    <3>2. QED BY <1>3, <2>1, <3>1 DEF Driving
  <2>3. CASE m = n
    <3>1. statuses[n] = "ready" /\ Driving
      BY <1>9, <2>1, <2>3 DEF Launch, CanLaunch, Driving, Awaiting
    <3>2. task[n] = "none"
      BY <1>1, <2>1, <3>1 DEF ViewInv, TypeOK
    <3>3. task'[n] \in {"lookup", "setRunning"}
      BY <1>1, <1>9, <2>3 DEF Launch, TypeOK
    <3>4. Len(attempts[n]) <= Earlier(n)
      BY <1>1, <3>1, <3>2 DEF BudgetOf
    <3>5. Earlier(n)' = Earlier(n)
      BY <2>1, EarlierKept
    <3>6. QED BY <1>1, <1>2, <2>1, <3>3, <3>4, <3>5 DEF BudgetOf
  <2>4. QED BY <2>2, <2>3
<1>10. CASE Harvest
  <2>1. /\ UNCHANGED <<offset, attempts, resumes>> /\ driver = "wait" /\ driver' = "top"
        /\ task'[n] = IF task[n] \in Result THEN "none" ELSE task[n]
        /\ statuses'[n] = IF task[n] \in Result THEN task[n] ELSE statuses[n]
    BY <1>10 DEF Harvest
  <2>2. CASE task[n] \notin Result
    BY <1>3, <2>1, <2>2 DEF Driving, Awaiting
  <2>3. CASE task[n] \in Result
    <3>1. task'[n] = "none" /\ statuses'[n] \notin {"pending", "ready"}
      BY <2>1, <2>3 DEF Result
    <3>2. Earlier(n)' = Earlier(n)
      BY <2>1, EarlierKept
    <3>3. QED BY <1>1, <2>1, <3>1, <3>2 DEF BudgetOf
  <2>4. QED BY <2>2, <2>3
<1>11. CASE RunCancelled \/ Finish \/ LeaveOpen \/ Crash
  <2>1. driver' \in Idle /\ Forget /\ UNCHANGED <<attempts, resumes>>
    BY <1>11 DEF RunCancelled, Finish, LeaveOpen, Crash, Idle
  <2>2. task'[n] = "none" /\ offset'[n] = 0 /\ ~Driving' /\ driver' \notin {"creating", "loading"}
    BY <2>1 DEF Forget, Driving, Awaiting, Idle
  <2>3. Earlier(n)' = Earlier(n)
    BY <2>1, EarlierKept
  <2>4. QED BY <1>1, <1>2, <2>1, <2>2, <2>3 DEF BudgetOf
<1>12. CASE Resume
  <2>1. task[n] = "none" /\ driver \in Idle
    BY <1>1, <1>12 DEF Resume, TaskInv, Running, Idle
  <2>2. task'[n] = "none" /\ offset'[n] = offset[n] /\ ~Driving'
    BY <1>12, <2>1 DEF Resume, Driving, Awaiting, Idle
  <2>3. Len(attempts'[n]) = Len(attempts[n])
    <3>1. attempts'[n] = Interrupted(attempts[n]) /\ attempts[n] \in Seq(AttemptStatus)
      BY <1>1, <1>12 DEF Resume, RecoverRun, TypeOK
    <3>2. QED BY <3>1, InterruptedType
  <2>4. Earlier(n)' = Earlier(n) + MaxRetries[n] + 1
    <3>1. resumes' = resumes + 1 /\ resumes \in Nat
      BY <1>1, <1>12 DEF Resume, TypeOK
    <3>2. \A r, q \in Nat : (r + 1) * (q + 1) = (r + 1) * q + r + 1
      OBVIOUS
    <3>3. QED BY <1>2, <3>1, <3>2 DEF Earlier
  <2>5. QED BY <1>1, <1>2, <2>2, <2>3, <2>4 DEF BudgetOf
<1>13. ASSUME NEW m \in Node, TaskStep(m) PROVE BudgetOf(n)'
  <2>1. CASE m = n
    BY <1>1, <1>13, <2>1, BudgetTask
  <2>2. CASE m # n
    <3>1. task'[n] = task[n] /\ offset'[n] = offset[n] /\ attempts'[n] = attempts[n]
      BY <1>1, <1>13, <2>2, TaskAttempts
    <3>2. UNCHANGED <<driver, statuses, resumes>>
      BY <1>1, <1>13, TaskEffect
    <3>3. QED BY <1>3, <3>1, <3>2 DEF Driving
  <2>3. QED BY <2>1, <2>2
<1>14. CASE UNCHANGED vars
  BY <1>3, <1>14 DEF vars, Driving
<1>15. QED
  BY <1>4, <1>5, <1>6, <1>7, <1>8, <1>9, <1>10, <1>11, <1>12, <1>13, <1>14 DEF Next, DriverStep

\* Every step keeps the attempts of a node closed but for the one its task has opened.
LEMMA AttemptStep == IInv /\ AttemptInv /\ [Next]_vars => AttemptInv'
<1> SUFFICES ASSUME IInv, AttemptInv, [Next]_vars, NEW n \in Node
             PROVE  AttemptsOf(n)'
  BY DEF AttemptInv
<1>1. TypeOK /\ TaskInv /\ ViewInv /\ RunInv /\ AttemptsOf(n)
  BY DEF IInv, AttemptInv
<1>2. ASSUME attempts'[n] = attempts[n], task'[n] = task[n] \/ task'[n] \notin Phase,
             task[n] \in Open => task'[n] \in Open \/ driver' \in Idle,
             \/ UNCHANGED runStatus
             \/ runStatus' \notin {"succeeded", "failed"}
             \/ driver = "finish",
             driver' \in Idle \cup {"gather", "sweep"} \/ driver \notin Idle \cup {"gather", "sweep"}
      PROVE  AttemptsOf(n)'
  <2>1. driver = "finish" => Closed(attempts[n])
    BY <1>1 DEF AttemptsOf, TaskInv, Running, Idle, Open
  <2>2. QED BY <1>1, <1>2, <2>1 DEF AttemptsOf
<1> USE DEF rows, taskVars, signals, counters
<1>3. CASE MarkReady \/ Load \/ Start \/ LoopTop \/ EndPass \/ WakeOnCancel \/ Gathered
           \/ Cancel \/ RequestCancel \/ Watch
  BY <1>2, <1>3 DEF MarkReady, Load, Start, LoopTop, EndPass, PassesOver, WakeOnCancel,
     Gathered, Cancel, RequestCancel, Watch, Idle
<1>4. CASE Abort
  <2>1. UNCHANGED <<attempts, task>> /\ driver \in Awaiting /\ driver' = "gather"
    BY <1>4 DEF Abort, DriverWrite
  <2>2. UNCHANGED runStatus \/ runStatus' = "cancelled" \/ driver = "finish"
    BY <1>4 DEF Abort, DriverWrite
  <2>3. QED BY <1>2, <2>1, <2>2 DEF Idle, Awaiting
<1>5. ASSUME NEW m \in Node, Schedule(m) \/ Sweep(m) PROVE AttemptsOf(n)'
  BY <1>2, <1>5 DEF Schedule, Sweep, Transition, Idle
<1>6. ASSUME NEW m \in Node, Launch(m) PROVE AttemptsOf(n)'
  <2>1. UNCHANGED <<driver, attempts, runStatus>> /\ driver = "schedule"
    BY <1>6 DEF Launch
  <2>2. CASE m # n
    BY <1>1, <1>2, <1>6, <2>1, <2>2 DEF Launch, TypeOK, Idle
  <2>3. CASE m = n
    <3>1. statuses[n] = "ready"
      BY <1>6, <2>3 DEF Launch, CanLaunch
    <3>2. task[n] = "none"
      BY <1>1, <2>1, <3>1 DEF ViewInv, TypeOK, Driving, Awaiting
    <3>3. Closed(attempts[n])
      BY <1>1, <2>1, <3>2 DEF AttemptsOf, Idle, Open
    <3>4. QED BY <2>1, <3>3, ClosedIsLastOpen DEF AttemptsOf
  <2>4. QED BY <2>2, <2>3
<1>7. CASE Harvest
  <2>1. UNCHANGED <<attempts, runStatus>> /\ driver = "wait" /\ driver' = "top"
        /\ (task'[n] = IF task[n] \in Result THEN "none" ELSE task[n])
    BY <1>7 DEF Harvest
  <2>2. QED BY <1>2, <2>1 DEF Result, Open, Phase, Idle
<1>8. CASE RunCancelled \/ Finish \/ LeaveOpen \/ Crash
  <2>1. driver' \in Idle /\ Forget /\ UNCHANGED attempts
    BY <1>8 DEF RunCancelled, Finish, LeaveOpen, Crash, Idle
  <2>2. UNCHANGED runStatus \/ runStatus' = "cancelled" \/ driver = "finish"
    BY <1>8 DEF RunCancelled, Finish, LeaveOpen, Crash
  <2>3. task'[n] = "none"
    BY <2>1 DEF Forget
  <2>4. QED BY <1>2, <2>1, <2>2, <2>3 DEF Phase
<1>9. CASE Resume
  <2>1. attempts'[n] = Interrupted(attempts[n])
    BY <1>9 DEF Resume, RecoverRun
  <2>2. Closed(attempts'[n])
    BY <2>1, InterruptedCloses
  <2>3. QED BY <2>2, ClosedIsLastOpen DEF AttemptsOf
<1>10. ASSUME NEW m \in Node, TaskStep(m) PROVE AttemptsOf(n)'
  <2>1. /\ m \in Live /\ UNCHANGED <<driver, runStatus>>
        /\ driver \in {"top", "schedule", "wait", "gather"}
    BY <1>1, <1>10, TaskEffect
  <2>2. CASE m # n
    BY <1>1, <1>2, <1>10, <2>1, <2>2, TaskAttempts DEF Idle
  <2>3. CASE m = n
    <3>1. task[n] \in Phase /\ attempts[n] \in Seq(AttemptStatus) /\ runStatus = "running"
      BY <1>1, <2>1, <2>3 DEF Live, RunInv, TypeOK
    <3>2. LastOpen(attempts[n]) /\ (task[n] \notin Open => Closed(attempts[n]))
      BY <1>1, <3>1 DEF AttemptsOf
    <3>3. /\ LastOpen(AttemptWrite(task[n], attempts[n]))
          /\ task[n] \notin {"openAttempt", "handler"} => Closed(AttemptWrite(task[n], attempts[n]))
      BY <3>1, <3>2, AttemptWriteEffect
    <3>4. attempts'[n] = attempts[n] \/ attempts'[n] = AttemptWrite(task[n], attempts[n])
      BY <1>1, <1>10, <2>3, TaskAttempts
    <3>5. LastOpen(attempts'[n])
      BY <3>2, <3>3, <3>4
    <3>6. CASE TaskWrite(n)
      <4>1. /\ attempts'[n] = AttemptWrite(task[n], attempts[n])
            /\ task'[n] = AfterWrite(n)
            /\ task[n] \notin {"lookup", "handler"}
        BY <1>1, <3>6 DEF TaskWrite, Write, TypeOK
      <4>2. task[n] = "openAttempt" => task'[n] = "handler"
        BY <4>1 DEF AfterWrite
      <4>3. task'[n] \notin Open => Closed(attempts'[n])
        BY <3>3, <4>1, <4>2 DEF Open
      <4>4. QED BY <2>1, <3>1, <3>5, <4>3 DEF AttemptsOf
    <3>7. CASE Interrupt(n)
      <4>1. driver = "gather" /\ task'[n] \in {"closeCancelled", "cancelled"}
        BY <1>1, <3>7 DEF Interrupt, TaskInv, TypeOK
      <4>2. QED BY <2>1, <3>1, <3>5, <4>1 DEF AttemptsOf, Open, Phase
    <3>8. CASE LookUp(n) \/ HandlerReturns(n) \/ HandlerRaises(n) \/ CommitFails(n)
      <4>1. attempts'[n] = attempts[n]
        BY <3>8 DEF LookUp, HandlerReturns, HandlerRaises, CommitFails, Goto
      <4>2. task'[n] \in Open <=> task[n] \in Open
        BY <1>1, <3>8 DEF LookUp, HandlerReturns, HandlerRaises, CommitFails, Goto, Open, TypeOK
      <4>3. QED BY <1>1, <2>1, <3>1, <3>2, <4>1, <4>2 DEF AttemptsOf
    <3>9. QED BY <1>10, <2>3, <3>6, <3>7, <3>8 DEF TaskStep
  <2>4. QED BY <2>2, <2>3
<1>11. CASE UNCHANGED vars
  BY <1>2, <1>11 DEF vars
<1>12. QED
  BY <1>3, <1>4, <1>5, <1>6, <1>7, <1>8, <1>9, <1>10, <1>11 DEF Next, DriverStep

\* A new run has no attempts.
LEMMA AttemptsInit == Init => AttemptInv /\ BudgetInv
<1> SUFFICES ASSUME Init, NEW n \in Node PROVE AttemptsOf(n) /\ BudgetOf(n)
  BY DEF AttemptInv, BudgetInv
<1>1. attempts[n] = <<>> /\ task[n] = "none" /\ offset[n] = 0 /\ TypeOK
  BY InitType DEF Init, NoDrive
<1>2. Len(attempts[n]) = 0 /\ DOMAIN attempts[n] = {}
  BY <1>1, EmptySeq
<1>3. AttemptsOf(n)
  BY <1>2 DEF AttemptsOf, Closed, LastOpen
<1>4. Earlier(n) \in Nat /\ MaxRetries[n] \in Nat
  BY <1>1, EarlierType, LimitAssumption
<1>5. QED BY <1>1, <1>2, <1>3, <1>4 DEF BudgetOf

\* Budgets and closed attempts are what AttemptsSound says.
LEMMA AttemptsImply == TypeOK /\ AttemptInv /\ BudgetInv => AttemptsSound
<1> SUFFICES ASSUME TypeOK, AttemptInv, BudgetInv PROVE AttemptsSound
  OBVIOUS
<1>1. ASSUME NEW n \in Node PROVE Len(attempts[n]) <= (MaxRetries[n] + 1) * (resumes + 1)
  <2>1. Len(attempts[n]) <= Earlier(n) + MaxRetries[n] + 1
    BY DEF BudgetInv, BudgetOf
  <2>2. MaxRetries[n] \in Nat /\ resumes \in Nat
    BY LimitAssumption DEF TypeOK
  <2>3. \A r, q \in Nat : (r + 1) * (q + 1) = (r + 1) * q + r + 1
    OBVIOUS
  <2>4. QED BY <2>1, <2>2, <2>3 DEF Earlier
<1>2. OneOpenAttempt
  BY DEF AttemptInv, AttemptsOf, LastOpen, Closed, OneOpenAttempt
<1>3. QED BY <1>1, <1>2 DEF AttemptsSound, RetryBudget

\* A node has no more attempts than its retries and the resumes of the run give it, and
\* none but its last is open: for every graph, and however often the process crashes.
THEOREM AttemptsSoundHolds == Spec => []AttemptsSound
<1>1. IInv => TypeOK
  BY DEF IInv
<1>2. QED
  BY <1>1, AttemptsInit, BudgetStep, AttemptStep, AttemptsImply, Invariance, PTL DEF Spec

-----------------------------------------------------------------------------
(***************************************************************************)
(* A build: the run of its graph (GraphExecutor, extended here), or the    *)
(* delivery of what its stages made (Delivery).  Part says which half a    *)
(* behaviour is about; the other one stays where it began.                 *)
(***************************************************************************)
CONSTANTS Stacks, MaxTrees, MaxFixes, MaxFailed, MaxDrift, MaxSwitches  \* of Delivery

VARIABLES
  part,
  pc, stack, bound, live, posture, tree, condition, proof, review, asked, verdict, findings,
  flipped, repaired, rounds, fixed, mcp, trace, delivered, recorded, won, drifts, switches

Delivering == INSTANCE DeliveryProofs

ASSUME DeliveryAllowed == Delivering!Bounded

deliveryVars == <<pc, stack, bound, live, posture, tree, condition, proof, review, asked,
                  verdict, findings, flipped, repaired, rounds, fixed, mcp, trace, delivered,
                  recorded, won, drifts, switches>>

buildVars == <<vars, part, deliveryVars>>

BuildBegins == Init /\ (part = "delivery" => Delivering!Init)

BuildGoesOn ==
  /\ part' = part
  /\ [Next]_vars
  /\ part = "delivery" => [Delivering!Next]_deliveryVars

BuildSpec == BuildBegins /\ [][BuildGoesOn]_buildVars

\* The rows and tasks of a graph stay well typed, and so does the state of a build's
\* delivery: each piece of evidence is of a version of the source.
BuildTypes ==
  /\ part = "graph" => TypeOK
  /\ part = "delivery" => Delivering!TypeOK

\* A build delivered as a go was reviewed, protocol-checked and traced as exactly the tree
\* it delivers (_start_build).
GoIsOfTheDeliveredTree == part = "delivery" => Delivering!GoIsOfTheDeliveredTree

\* A build delivered as a go has a last proof that passed, and no finding that blocks but
\* the visual one, which only a healthy page takes back (_gate_outcome).
GoIsUnblocked == part = "delivery" => Delivering!GoIsUnblocked

LEMMA BuildStutters == [BuildGoesOn]_buildVars => BuildGoesOn
<1>1. UNCHANGED buildVars => BuildGoesOn
  BY DEF buildVars, BuildGoesOn
<1>2. QED BY <1>1

LEMMA DeliveryImplemented ==
  BuildSpec => []~(part = "delivery") \/ ([](part = "delivery") /\ Delivering!Spec)
<1>1. BuildBegins => (part = "delivery" => Delivering!Init)
  BY DEF BuildBegins
<1>2. [BuildGoesOn]_buildVars =>
        part' = part /\ (part = "delivery" => [Delivering!Next]_(Delivering!vars))
  BY BuildStutters DEF BuildGoesOn, deliveryVars, Delivering!vars
<1>3. part' = part => ((part = "delivery")' <=> part = "delivery")
  OBVIOUS
<1>4. QED BY <1>1, <1>2, <1>3, PTL DEF BuildSpec, Delivering!Spec

LEMMA GraphImplemented == BuildSpec => Spec
<1>1. BuildBegins => Init
  BY DEF BuildBegins
<1>2. [BuildGoesOn]_buildVars => [Next]_vars
  BY BuildStutters DEF BuildGoesOn
<1>3. QED BY <1>1, <1>2, PTL DEF BuildSpec, Spec

\* Both halves are well typed, for every graph, every set of stacks and every bound.
THEOREM BuildTypesHold == BuildSpec => []BuildTypes
<1>1. Delivering!Spec => []Delivering!TypeOK
  BY Delivering!TypeCorrect, DeliveryAllowed
<1>2. QED BY GraphImplemented, TypeCorrect, DeliveryImplemented, <1>1, PTL DEF BuildTypes

\* runner.py _start_build: whatever writes to the project while the build waits, a build
\* delivered as a go was reviewed, protocol-checked and traced as the tree it delivers.
THEOREM GoIsOfTheDeliveredTreeHolds == BuildSpec => []GoIsOfTheDeliveredTree
<1>1. Delivering!Spec => []Delivering!GoIsOfTheDeliveredTree
  BY Delivering!GoIsOfTheDeliveredTreeHolds, DeliveryAllowed
<1>2. QED BY DeliveryImplemented, <1>1, PTL DEF GoIsOfTheDeliveredTree

\* runner.py _gate_outcome: a build delivered as a go has a last proof that passed and
\* no finding that blocks but the visual one, which only a healthy page takes back.
THEOREM GoIsUnblockedHolds == BuildSpec => []GoIsUnblocked
<1>1. Delivering!Spec => []Delivering!GoIsUnblocked
  BY Delivering!GoIsUnblockedHolds, DeliveryAllowed
<1>2. QED BY DeliveryImplemented, <1>1, PTL DEF GoIsUnblocked
=============================================================================

---------------------------- MODULE GraphExecutor ----------------------------
(***************************************************************************)
(* GraphExecutor and GraphStore of skyn3t/studio/graph_runtime.py for one  *)
(* run: the durable rows of the run, the driver coroutine (_drive), one    *)
(* task per launched node (_execute_node), the cancel watcher, a caller of *)
(* cancel(), the cancellation of the task that awaits the driver, crashes  *)
(* of the process and resume().  The immutable graph they run, the         *)
(* GraphNodeSpec rows GraphDefinition validates, is in the constants.      *)
(*                                                                         *)
(* A store transaction is one step; whatever awaits one is between two     *)
(* steps. A task's phase names the await it stands at, a result once it    *)
(* has ended.                                                              *)
(***************************************************************************)
EXTENDS Integers, FiniteSets, SequencesExt

CONSTANTS
  Node,           \* the node ids of the graph
  Deps,           \* Deps[n]: the nodes n depends on
  Required,       \* the nodes whose failure fails the run
  Cacheable,      \* the nodes whose result may be reused across runs
  MaxRetries,     \* MaxRetries[n]: retries of a failing handler
  Mutates,        \* the nodes that mutate the workspace
  WriteSet,       \* WriteSet[n]: declared relative paths, as sequences of parts
  Group,          \* Group[n]: concurrency group, NoGroup when there is none
  NoGroup,
  GroupLimit,     \* GroupLimit[n]: how many members of its group n tolerates
  MaxConcurrency  \* executor-wide number of concurrent node tasks

\* A dependency has a smaller rank than its dependent: the graph has a
\* topological order, which topological_nodes() refuses to be without.
Ranks(rank) == \A n \in Node : \A d \in Deps[n] : rank[d] < rank[n]

ASSUME GraphAssumption ==
  /\ IsFiniteSet(Node)
  /\ Deps \in [Node -> SUBSET Node]
  /\ \E rank \in [Node -> 0 .. Cardinality(Node)] : Ranks(rank)
  /\ Required \subseteq Node
  /\ Cacheable \subseteq Node
  /\ Mutates \subseteq Node

ASSUME WriteSetAssumption == WriteSet \in [Node -> SUBSET Seq(STRING)]

ASSUME LimitAssumption ==
  /\ MaxRetries \in [Node -> Nat]
  /\ MaxConcurrency \in Nat \ {0}
  /\ GroupLimit \in [Node -> Nat]
  /\ \A n \in Node : Group[n] # NoGroup => GroupLimit[n] > 0

CONSTANTS
  MaxCancels,   \* bound: calls of cancel()
  MaxAborts,    \* bound: cancellations of the task that awaits the driver
  MaxCrashes,   \* bound: crashes of the process
  MaxResumes    \* bound: calls of resume()

\* A second cancellation while the first is being handled is not modelled.
ASSUME BoundAssumption ==
  /\ {MaxCancels, MaxCrashes, MaxResumes} \subseteq Nat
  /\ MaxAborts \in {0, 1}

VARIABLES
  \* the rows of the run, on disk
  runStatus, cancelRequested, nodeStatus, attempts, cache,
  forceNodes,      \* the rerun nodes kept in the run's inputs, {} for execute()
  published,       \* history: nodes a success of which reached the disk
  \* the process
  driver,          \* where the driver stands
  statuses,        \* its own view of the node states
  madeProgress,
  task,            \* task[n]: where the task of node n stands
  offset,          \* offset[n]: retries this task has used
  interrupted,     \* tasks with a CancelledError on its way to them
  cancelEvent, cancelWatcher,
  cancelCall,      \* a cancel() between setting the event and writing the row
  \* how much of each bound is used
  cancels, aborts, crashes, resumes

rows     == <<runStatus, cancelRequested, nodeStatus, attempts, cache, published>>
taskVars == <<task, offset, interrupted>>
signals  == <<cancelEvent, cancelWatcher, cancelCall>>
counters == <<cancels, aborts, crashes, resumes>>
vars     == <<rows, forceNodes, driver, statuses, madeProgress, taskVars,
              signals, counters>>

NodeStatus == {"pending", "ready", "running", "succeeded", "failed",
               "blocked", "cancelled", "cached"}

Success  == {"succeeded", "cached"}
Bad      == {"failed", "blocked", "cancelled"}
Finished == Success \cup Bad

-----------------------------------------------------------------------------
\* An undeclared mutation is workspace-wide: its only path is the root, a
\* prefix of every path, where the code writes the marker ("*",).
WritePaths(n) ==
  IF n \notin Mutates THEN {}
  ELSE IF WriteSet[n] = {} THEN {<<>>}
  ELSE WriteSet[n]

\* Mutant: only equal paths overlap.
PathsOverlap_Equal(p, q) == p = q

PathsOverlap(p, q) == IsPrefix(p, q) \/ IsPrefix(q, p)

Overlap(m, n) ==
  \E p \in WritePaths(m), q \in WritePaths(n) : PathsOverlap(p, q)

-----------------------------------------------------------------------------
\* F is what descendants(f) returns: f and the nodes that reach it through
\* their dependencies. F is closed under dependents, and each member but f
\* has a dependency inside F, so on an acyclic graph it descends from f.
IsDescendants(F, f) ==
  /\ f \in F
  /\ \A n \in Node : Deps[n] \cap F # {} => n \in F
  /\ \A n \in F \ {f} : Deps[n] \cap F # {}

\* The node states a completed run (status SUCCEEDED) can have ended in.
CompletedStatuses ==
  {st \in [Node -> Success \cup {"failed", "blocked"}] :
     /\ \A n \in Required : st[n] \in Success
     /\ \A n \in Node : st[n] = "blocked" <=> \E d \in Deps[n] : st[d] \in Bad}

-----------------------------------------------------------------------------
RunStatus     == {"pending", "ready", "running", "succeeded", "failed", "cancelled"}
AttemptStatus == {"running", "succeeded", "failed", "cancelled", "cached"}

Phase  == {"lookup", "cacheAttempt", "cacheNode", "setRunning", "openAttempt",
           "handler", "commit", "closeFailed", "markFailed", "markReady",
           "closeCancelled", "markCancelled"}
Result == {"succeeded", "cached", "failed", "cancelled"}

Idle == {"off", "returned"}                  \* no drive under way
Awaiting == {"schedule", "wait", "gather", "sweep", "finish"}  \* in the try
Driver == Idle \cup Awaiting \cup {"creating", "loading", "starting", "top", "stalled"}

Running == {n \in Node : task[n] # "none"}     \* the dict `running`
Live    == {n \in Node : task[n] \in Phase}    \* its tasks that are not done

AllPending == [n \in Node |-> "pending"]

\* No drive is under way: its locals and those of its tasks are gone.
NoDrive ==
  /\ statuses = AllPending
  /\ madeProgress = FALSE
  /\ task = [n \in Node |-> "none"]
  /\ offset = [n \in Node |-> 0]
  /\ interrupted = {}
  /\ cancelEvent = FALSE
  /\ cancelWatcher = "off"

-----------------------------------------------------------------------------
(***************************************************************************)
(* The run is created: execute() of a fresh graph, or the fork that        *)
(* rerun_descendants() makes of a completed run. save_run has committed.   *)
(***************************************************************************)
Fresh ==
  /\ forceNodes = {}
  /\ nodeStatus = AllPending

Forked ==
  \E source \in CompletedStatuses, f \in Node, F \in SUBSET Node :
    /\ source[f] \in Success
    /\ IsDescendants(F, f)
    /\ forceNodes = F
    /\ nodeStatus = [n \in Node |-> IF n \in F THEN "pending" ELSE source[n]]

Init ==
  /\ Fresh \/ Forked
  /\ runStatus = "pending"
  /\ cancelRequested = FALSE
  /\ attempts = [n \in Node |-> <<>>]
  /\ cache \in SUBSET Cacheable
  /\ published = {n \in Node : nodeStatus[n] \in Success}
  /\ driver = "creating"
  /\ NoDrive
  /\ cancelCall = FALSE
  /\ cancels = 0 /\ aborts = 0 /\ crashes = 0 /\ resumes = 0

\* set_run_status(READY) of execute() and rerun_descendants().
MarkReady ==
  /\ driver = "creating"
  /\ runStatus' = "ready"
  /\ driver' = "loading"
  /\ UNCHANGED <<cancelRequested, nodeStatus, attempts, cache, published, forceNodes,
                 statuses, madeProgress, taskVars, signals, counters>>

(***************************************************************************)
(* resume(): recover_run() is one transaction, which returns what the      *)
(* crash interrupted to READY, closes its attempts, and clears the cancel  *)
(* request of a run it finds RUNNING. A run that succeeded or was          *)
(* cancelled is returned as it is.                                         *)
(***************************************************************************)

Interrupted(s) == [k \in DOMAIN s |-> IF s[k] = "running" THEN "failed" ELSE s[k]]

RecoverRun ==
  /\ nodeStatus' = [n \in Node |->
                      IF nodeStatus[n] = "running" THEN "ready" ELSE nodeStatus[n]]
  /\ attempts' = [n \in Node |-> Interrupted(attempts[n])]
  /\ runStatus' = IF runStatus = "running" THEN "ready" ELSE runStatus
  /\ cancelRequested' = (cancelRequested /\ runStatus # "running")

\* Mutant: a cancelled run is driven again.
Resume_Cancelled ==
  /\ driver \in Idle
  /\ resumes < MaxResumes
  /\ resumes' = resumes + 1
  /\ RecoverRun
  /\ driver' = IF runStatus = "succeeded" THEN driver ELSE "loading"
  /\ UNCHANGED <<cache, published, forceNodes, statuses, madeProgress, taskVars,
                 signals, cancels, aborts, crashes>>

Resume ==
  /\ driver \in Idle
  /\ resumes < MaxResumes
  /\ resumes' = resumes + 1
  /\ RecoverRun
  /\ driver' = IF runStatus \in {"succeeded", "cancelled"} THEN driver ELSE "loading"
  /\ UNCHANGED <<cache, published, forceNodes, statuses, madeProgress, taskVars,
                 signals, cancels, aborts, crashes>>

-----------------------------------------------------------------------------
(***************************************************************************)
(* _drive: load the run, register the cancel event, start the watcher and  *)
(* mark the run RUNNING.                                                   *)
(***************************************************************************)
Load ==
  /\ driver = "loading"
  /\ driver' = "starting"
  /\ statuses' = nodeStatus
  /\ cancelEvent' = cancelRequested
  /\ cancelWatcher' = "polling"
  /\ UNCHANGED <<rows, forceNodes, madeProgress, taskVars, cancelCall, counters>>

Start ==
  /\ driver = "starting"
  /\ runStatus' = "running"
  /\ driver' = "top"
  /\ UNCHANGED <<cancelRequested, nodeStatus, attempts, cache, published, forceNodes,
                 statuses, madeProgress, taskVars, signals, counters>>

\* Mutant: the loop does not look at the event.
LoopTop_Deaf ==
  /\ driver = "top"
  /\ madeProgress' = FALSE
  /\ driver' = "schedule"
  /\ UNCHANGED <<rows, forceNodes, statuses, taskVars, signals, counters>>

\* The head of the loop, reached without an await: with the event set every task
\* that is not done gets a CancelledError (_cancel_running), else a pass begins.
LoopTop ==
  /\ driver = "top"
  /\ madeProgress' = FALSE
  /\ IF cancelEvent
       THEN driver' = "gather" /\ interrupted' = Live
       ELSE driver' = "schedule" /\ UNCHANGED interrupted
  /\ UNCHANGED <<rows, forceNodes, statuses, task, offset, signals, counters>>

NodeRow(n, s) == nodeStatus' = [nodeStatus EXCEPT ![n] = s]

\* transition(): the row first, then the driver's own view.
Transition(n, s) ==
  /\ NodeRow(n, s)
  /\ statuses' = [statuses EXCEPT ![n] = s]
  /\ UNCHANGED <<runStatus, cancelRequested, attempts, cache, published>>

MustBlock(n) ==
  /\ statuses[n] \in {"pending", "ready"}
  /\ \E d \in Deps[n] : statuses[d] \in Bad

\* Mutant: a dependency that runs counts as done.
MayBecomeReady_Early(n) ==
  /\ statuses[n] = "pending"
  /\ \A d \in Deps[n] : statuses[d] \in Success \cup {"running"}

MayBecomeReady(n) ==
  /\ statuses[n] = "pending"
  /\ \A d \in Deps[n] : statuses[d] \in Success

\* The first pass over topological_nodes(). The nodes it moves do not depend
\* on the order among them: each waits for the verdict of its dependencies.
Schedule(n) ==
  /\ driver = "schedule"
  /\ \/ MustBlock(n) /\ Transition(n, "blocked")
     \/ MayBecomeReady(n) /\ Transition(n, "ready")
  /\ madeProgress' = TRUE
  /\ UNCHANGED <<forceNodes, driver, taskVars, signals, counters>>

PassDone == \A n \in Node : ~MustBlock(n) /\ ~MayBecomeReady(n)

\* Mutant: a node counts against its own group.
CanLaunch_CountsItself(n) ==
  /\ statuses[n] = "ready"
  /\ Cardinality(Running) < MaxConcurrency
  /\ Group[n] # NoGroup =>
       Cardinality({m \in Running : Group[m] = Group[n]}) + 1 < GroupLimit[n]

CanLaunch(n) ==
  /\ statuses[n] = "ready"
  /\ Cardinality(Running) < MaxConcurrency
  /\ Group[n] # NoGroup =>
       Cardinality({m \in Running : Group[m] = Group[n]}) < GroupLimit[n]
  /\ \A m \in Running : ~Overlap(n, m)

\* The second pass creates tasks; it does not await, and a node it skips
\* stays unlaunchable while more of them are active. A task of a cacheable
\* node that is not forced looks its result up first.
Launch(n) ==
  /\ driver = "schedule"
  /\ PassDone
  /\ CanLaunch(n)
  /\ statuses' = [statuses EXCEPT ![n] = "running"]
  /\ task' = [task EXCEPT ![n] =
                IF n \in Cacheable \ forceNodes THEN "lookup" ELSE "setRunning"]
  /\ UNCHANGED <<rows, forceNodes, driver, madeProgress, offset, interrupted,
                 signals, counters>>

AllFinished == \A n \in Node : statuses[n] \in Finished

PassesOver ==
  /\ driver = "schedule"
  /\ PassDone
  /\ \A n \in Node : ~CanLaunch(n)

\* The event as the driver reads it after the loop: it can only have been set
\* during a transition() of this pass, the one thing it awaited since LoopTop.
SetDuringPass == cancelEvent /\ madeProgress

\* Both passes are over: wait for the running tasks, or leave the loop for the
\* verdict, or begin again. "stalled" stands for the branch that blocks what is
\* left with "scheduler could not make progress".
EndPass ==
  /\ PassesOver
  /\ ~(AllFinished /\ Running = {} /\ SetDuringPass)
  /\ driver' = IF Running # {} THEN "wait"
               ELSE IF AllFinished THEN "finish"
               ELSE IF madeProgress THEN "top"
               ELSE "stalled"
  /\ UNCHANGED <<rows, forceNodes, statuses, madeProgress, taskVars, signals, counters>>

\* asyncio.wait returned with the watcher among the done: no task is harvested.
WakeOnCancel ==
  /\ driver = "wait"
  /\ cancelWatcher = "done"
  /\ driver' = "top"
  /\ UNCHANGED <<rows, forceNodes, statuses, madeProgress, taskVars, signals, counters>>

\* asyncio.wait returned with tasks only: every task that is done is popped.
Harvest ==
  /\ driver = "wait"
  /\ cancelWatcher # "done"
  /\ Running # Live
  /\ statuses' = [n \in Node |-> IF task[n] \in Result THEN task[n] ELSE statuses[n]]
  /\ task' = [n \in Node |-> IF task[n] \in Result THEN "none" ELSE task[n]]
  /\ driver' = "top"
  /\ UNCHANGED <<rows, forceNodes, madeProgress, offset, interrupted, signals, counters>>

-----------------------------------------------------------------------------
\* Mutant: cancelled tasks are not waited for.
Gathered_NoWait ==
  /\ driver = "gather"
  /\ driver' = "sweep"
  /\ UNCHANGED <<rows, forceNodes, statuses, madeProgress, taskVars, signals, counters>>

\* Every cancelled task has ended: gather() returns.
Gathered ==
  /\ driver = "gather"
  /\ Live = {}
  /\ driver' = "sweep"
  /\ UNCHANGED <<rows, forceNodes, statuses, madeProgress, taskVars, signals, counters>>

\* transition(CANCELLED) of the nodes that the driver does not know finished.
Sweep(n) ==
  /\ driver = "sweep"
  /\ statuses[n] \notin Finished
  /\ Transition(n, "cancelled")
  /\ UNCHANGED <<forceNodes, driver, madeProgress, taskVars, signals, counters>>

\* The finally clause: the watcher is stopped and the event forgotten. What is
\* left of the drive is garbage.
Forget ==
  /\ statuses' = AllPending
  /\ madeProgress' = FALSE
  /\ task' = [n \in Node |-> "none"]
  /\ offset' = [n \in Node |-> 0]
  /\ interrupted' = {}
  /\ cancelEvent' = FALSE
  /\ cancelWatcher' = "off"

RunCancelled ==
  /\ driver = "sweep"
  /\ AllFinished
  /\ runStatus' = "cancelled"
  /\ driver' = "returned"
  /\ Forget
  /\ UNCHANGED <<cancelRequested, nodeStatus, attempts, cache, published, forceNodes,
                 cancelCall, counters>>

\* Mutant: a run fails only when every required node failed.
FinalStatus_Lenient ==
  IF \A n \in Required : statuses[n] \notin Success THEN "failed" ELSE "succeeded"

FinalStatus ==
  IF \E n \in Required : statuses[n] \notin Success THEN "failed" ELSE "succeeded"

\* After the loop a verdict is written,
Finish ==
  /\ driver = "finish"
  /\ runStatus' = FinalStatus
  /\ driver' = "returned"
  /\ Forget
  /\ UNCHANGED <<cancelRequested, nodeStatus, attempts, cache, published, forceNodes,
                 cancelCall, counters>>

\* unless the event is set by then: the driver returns without one.
LeaveOpen ==
  /\ PassesOver
  /\ Running = {} /\ AllFinished
  /\ SetDuringPass
  /\ driver' = "returned"
  /\ Forget
  /\ UNCHANGED <<rows, forceNodes, cancelCall, counters>>

-----------------------------------------------------------------------------
(***************************************************************************)
(* _execute_node: what a phase writes, in one transaction, and what comes  *)
(* after. commit_node_success is the one that writes the attempt, the node *)
(* and the cache together.                                                 *)
(***************************************************************************)
\* Mutant: committing a success leaves the node's row to a later write.
NodeWrite_NoCommit(p, old) ==
  CASE p = "cacheNode"     -> "cached"
    [] p = "setRunning"    -> "running"
    [] p = "markFailed"    -> "failed"
    [] p = "markReady"     -> "ready"
    [] p = "markCancelled" -> "cancelled"
    [] OTHER               -> old

NodeWrite(p, old) ==
  CASE p = "cacheNode"     -> "cached"
    [] p = "setRunning"    -> "running"
    [] p = "commit"        -> "succeeded"
    [] p = "markFailed"    -> "failed"
    [] p = "markReady"     -> "ready"
    [] p = "markCancelled" -> "cancelled"
    [] OTHER               -> old

Close(s, outcome) == [s EXCEPT ![Len(s)] = outcome]

AttemptWrite(p, s) ==
  CASE p = "cacheAttempt"   -> Append(s, "cached")
    [] p = "openAttempt"    -> Append(s, "running")
    [] p = "commit"         -> Close(s, "succeeded")
    [] p = "closeFailed"    -> Close(s, "failed")
    [] p = "closeCancelled" -> Close(s, "cancelled")
    [] OTHER                -> s

Write(n) ==
  /\ nodeStatus' = [nodeStatus EXCEPT ![n] = NodeWrite(task[n], @)]
  /\ attempts' = [attempts EXCEPT ![n] = AttemptWrite(task[n], @)]
  /\ cache' = IF task[n] = "commit" THEN cache \cup ({n} \cap Cacheable) ELSE cache
  /\ published' = IF task[n] \in {"commit", "cacheNode"} THEN published \cup {n}
                                                         ELSE published
  /\ UNCHANGED <<runStatus, cancelRequested>>

\* Mutant: one retry too many.
AfterWrite_ExtraRetry(n) ==
  CASE task[n] = "cacheAttempt"   -> "cacheNode"
    [] task[n] = "cacheNode"      -> "cached"
    [] task[n] = "setRunning"     -> "openAttempt"
    [] task[n] = "openAttempt"    -> "handler"
    [] task[n] = "commit"         -> "succeeded"
    [] task[n] = "closeFailed"    -> "markFailed"
    [] task[n] = "markFailed"     -> IF offset[n] <= MaxRetries[n] THEN "markReady"
                                                                  ELSE "failed"
    [] task[n] = "markReady"      -> "setRunning"
    [] task[n] = "closeCancelled" -> "markCancelled"
    [] task[n] = "markCancelled"  -> "cancelled"

AfterWrite(n) ==
  CASE task[n] = "cacheAttempt"   -> "cacheNode"
    [] task[n] = "cacheNode"      -> "cached"
    [] task[n] = "setRunning"     -> "openAttempt"
    [] task[n] = "openAttempt"    -> "handler"
    [] task[n] = "commit"         -> "succeeded"
    [] task[n] = "closeFailed"    -> "markFailed"
    [] task[n] = "markFailed"     -> IF offset[n] < MaxRetries[n] THEN "markReady"
                                                                 ELSE "failed"
    [] task[n] = "markReady"      -> "setRunning"
    [] task[n] = "closeCancelled" -> "markCancelled"
    [] task[n] = "markCancelled"  -> "cancelled"

TaskFrame == UNCHANGED <<forceNodes, driver, statuses, madeProgress, signals, counters>>

\* A transaction of the task commits; after READY a retry begins.
TaskWrite(n) ==
  /\ n \in Live \ interrupted
  /\ task[n] \notin {"lookup", "handler"}
  /\ Write(n)
  /\ task' = [task EXCEPT ![n] = AfterWrite(n)]
  /\ offset' = IF task[n] = "markReady" THEN [offset EXCEPT ![n] = @ + 1] ELSE offset
  /\ UNCHANGED interrupted
  /\ TaskFrame

\* A step of the task that commits nothing.
Goto(n, from, to) ==
  /\ n \notin interrupted
  /\ task[n] = from
  /\ task' = [task EXCEPT ![n] = to]
  /\ UNCHANGED <<rows, offset, interrupted>>
  /\ TaskFrame

LookUp(n) == Goto(n, "lookup", IF n \in cache THEN "cacheAttempt" ELSE "setRunning")

\* The handler returned: its result is dropped if the event is set by now.
HandlerReturns(n) == Goto(n, "handler", IF cancelEvent THEN "closeCancelled" ELSE "commit")

HandlerRaises(n) == Goto(n, "handler", "closeFailed")

\* commit_node_success raised and was rolled back: as if the handler had failed.
CommitFails(n) == Goto(n, "commit", "closeFailed")

\* The CancelledError reaches the task at its await. The transaction it awaits
\* runs in a thread and may commit all the same. Only the handler and the commit
\* are inside the try that records the cancellation.
Interrupt(n) ==
  /\ n \in interrupted
  /\ interrupted' = interrupted \ {n}
  /\ Write(n) \/ UNCHANGED rows
  /\ task' = [task EXCEPT ![n] =
                IF @ \in {"handler", "commit"} THEN "closeCancelled" ELSE "cancelled"]
  /\ UNCHANGED offset
  /\ TaskFrame

-----------------------------------------------------------------------------
(***************************************************************************)
(* Cancellation from outside, and crashes.                                 *)
(***************************************************************************)
\* cancel(): the event, if the caller's executor drives the run, then the row.
Cancel ==
  /\ cancels < MaxCancels
  /\ cancels' = cancels + 1
  /\ \/ UNCHANGED cancelEvent
     \/ driver \in Awaiting \cup {"starting"} /\ cancelEvent' = TRUE
  /\ cancelCall' = TRUE
  /\ UNCHANGED <<rows, forceNodes, driver, statuses, madeProgress, taskVars,
                 cancelWatcher, aborts, crashes, resumes>>

RequestCancel ==
  /\ cancelCall
  /\ cancelCall' = FALSE
  /\ cancelRequested' = TRUE
  /\ UNCHANGED <<runStatus, nodeStatus, attempts, cache, published, forceNodes, driver,
                 statuses, madeProgress, taskVars, cancelEvent, cancelWatcher, counters>>

\* _watch_for_cancel sees the event or the row, sets the event and ends.
Watch ==
  /\ cancelWatcher = "polling"
  /\ driver # "top"
  /\ cancelEvent \/ cancelRequested
  /\ cancelEvent' = TRUE
  /\ cancelWatcher' = "done"
  /\ UNCHANGED <<rows, forceNodes, driver, statuses, madeProgress, taskVars,
                 cancelCall, counters>>

\* What the transaction the driver awaits leaves if it commits nevertheless.
DriverWrite ==
  /\ \/ /\ \E n \in Node :
             \/ driver = "schedule" /\ MustBlock(n) /\ NodeRow(n, "blocked")
             \/ driver = "schedule" /\ MayBecomeReady(n) /\ NodeRow(n, "ready")
             \/ driver = "sweep" /\ statuses[n] \notin Finished /\ NodeRow(n, "cancelled")
        /\ UNCHANGED runStatus
     \/ /\ \/ driver = "finish" /\ runStatus' = FinalStatus
           \/ driver = "sweep" /\ AllFinished /\ runStatus' = "cancelled"
        /\ UNCHANGED nodeStatus
  /\ UNCHANGED <<cancelRequested, attempts, cache, published>>

\* The task awaiting the driver is cancelled: the except clause sets the event,
\* cancels what runs and sweeps, as the loop does.
Abort ==
  /\ driver \in Awaiting
  /\ driver = "schedule" => ~PassDone
  /\ aborts < MaxAborts
  /\ aborts' = aborts + 1
  /\ DriverWrite \/ UNCHANGED rows
  /\ cancelEvent' = TRUE
  /\ driver' = "gather"
  /\ interrupted' = Live
  /\ UNCHANGED <<forceNodes, statuses, madeProgress, task, offset, cancelWatcher,
                 cancelCall, cancels, crashes, resumes>>

Crash ==
  /\ crashes < MaxCrashes
  /\ crashes' = crashes + 1
  /\ driver # "off"
  /\ driver' = "off"
  /\ Forget
  /\ cancelCall' = FALSE
  /\ UNCHANGED <<rows, forceNodes, cancels, aborts, resumes>>

-----------------------------------------------------------------------------
DriverStep ==
  \/ MarkReady \/ Load \/ Start \/ LoopTop \/ EndPass \/ WakeOnCancel \/ Harvest
  \/ Gathered \/ RunCancelled \/ Finish \/ LeaveOpen
  \/ \E n \in Node : Schedule(n) \/ Launch(n) \/ Sweep(n)

TaskStep(n) ==
  \/ TaskWrite(n) \/ LookUp(n) \/ HandlerReturns(n) \/ HandlerRaises(n)
  \/ CommitFails(n) \/ Interrupt(n)

Next ==
  \/ DriverStep
  \/ \E n \in Node : TaskStep(n)
  \/ Resume \/ Cancel \/ RequestCancel \/ Watch \/ Abort \/ Crash

Spec == Init /\ [][Next]_vars

\* The event loop runs every ready coroutine and store transactions end; a
\* handler is assumed to return or raise. Nobody has to resume, cancel or crash.
Fairness ==
  /\ WF_vars(DriverStep)
  /\ \A n \in Node : WF_vars(TaskStep(n))
  /\ WF_vars(RequestCancel)
  /\ WF_vars(Watch)

FairSpec == Spec /\ Fairness

-----------------------------------------------------------------------------
(***************************************************************************)
(* What must hold.                                                         *)
(***************************************************************************)
TypeOK ==
  /\ runStatus \in RunStatus
  /\ cancelRequested \in BOOLEAN
  /\ nodeStatus \in [Node -> NodeStatus]
  /\ attempts \in [Node -> Seq(AttemptStatus)]
  /\ cache \in SUBSET Cacheable
  /\ forceNodes \in SUBSET Node
  /\ published \in SUBSET Node
  /\ driver \in Driver
  /\ statuses \in [Node -> NodeStatus]
  /\ madeProgress \in BOOLEAN
  /\ task \in [Node -> Phase \cup Result \cup {"none"}]
  /\ offset \in [Node -> Nat]
  /\ interrupted \in SUBSET Node
  /\ cancelEvent \in BOOLEAN
  /\ cancelWatcher \in {"off", "polling", "done"}
  /\ cancelCall \in BOOLEAN
  /\ cancels \in Nat /\ aborts \in Nat /\ crashes \in Nat /\ resumes \in Nat

\* No task exists, and no success is on disk, before each dependency of the
\* node has a success on disk: across retries, cache hits, late commits of
\* cancelled tasks, crashes and resumes.
DependenciesFirst ==
  \A n \in Running \cup published : Deps[n] \subseteq published

\* A workspace path is written by one task at a time: no declared path is at or
\* below the write sets of two tasks that are not done.
MayWrite(n, path) == \E p \in WritePaths(n) : IsPrefix(p, path)

WritersExclusive ==
  \A m, n \in Live : \A path \in UNION {WritePaths(k) : k \in Node} :
    MayWrite(m, path) /\ MayWrite(n, path) => m = n

\* The executor's and a group's limits bound the tasks that run at once. A node
\* is launched under its own limit, so a group with unequal limits is bounded
\* by its most tolerant running member.
LimitsRespected ==
  /\ Cardinality(Running) <= MaxConcurrency
  /\ \A n \in Running : Group[n] # NoGroup =>
       LET members == {m \in Running : Group[m] = Group[n]}
       IN \E m \in members : Cardinality(members) <= GroupLimit[m]

\* What runs at once may run at once.
NothingClashes == WritersExclusive /\ LimitsRespected

\* A run that says it ended has only finished nodes on disk and no task left
\* that could still write; SUCCEEDED means each required node was published,
\* FAILED that a required node did not make it.
VerdictSound ==
  runStatus \in {"succeeded", "failed", "cancelled"} =>
    /\ Live = {}
    /\ \A n \in Node : nodeStatus[n] \in Finished
    /\ runStatus = "succeeded" => Required \subseteq published
    /\ runStatus = "failed" => \E n \in Required : nodeStatus[n] \in Bad

\* The branch "scheduler could not make progress" is never taken.
NeverStalled == driver # "stalled"

\* Over all drives a node is attempted at most once more than its retries per
\* drive: a crash gives it a new budget, nothing else does.
RetryBudget ==
  \A n \in Node : Len(attempts[n]) <= (MaxRetries[n] + 1) * (resumes + 1)

\* Only the last attempt of a node can be open, and in a run that ended by its
\* own verdict none is.
OneOpenAttempt ==
  \A n \in Node : \A k \in DOMAIN attempts[n] :
    attempts[n][k] = "running" =>
      k = Len(attempts[n]) /\ runStatus \notin {"succeeded", "failed"}

\* The attempts of a node, taken together.
AttemptsSound == RetryBudget /\ OneOpenAttempt

\* A success on disk is only ever replaced by the CANCELLED of a sweep.
SuccessKept ==
  \A n \in published : nodeStatus[n] \in Success \cup {"cancelled"}

\* "continue without redoing successes": a node whose success is on disk is
\* never attempted again, whatever crashes and resumes follow.
NoRedo ==
  [][\A n \in published : Len(attempts'[n]) = Len(attempts[n])]_vars

\* A cancelled run stays cancelled and gains no success.
CancelledForGood ==
  [][runStatus = "cancelled" => runStatus' = "cancelled" /\ published' = published]_vars

\* _drive has returned, or the process is gone.
AtRest == driver \in Idle

\* Left alone (no cancel, no crash), and with a verdict of its own.
Undisturbed == cancels = 0 /\ aborts = 0 /\ crashes = 0
Decided == runStatus \in {"succeeded", "failed"}

\* The rows read as an abstract run: every step of the executor is a step of
\* the promise or invisible to it.
Verdict == IF runStatus \in {"succeeded", "failed", "cancelled"} THEN runStatus ELSE "open"

Promise == INSTANCE GraphPromise WITH verdict <- Verdict

KeepsPromise == Promise!Spec

-----------------------------------------------------------------------------
(***************************************************************************)
(* The inductive invariant behind the safety properties.                   *)
(***************************************************************************)
Driving == driver \in Awaiting \cup {"starting", "top"}

\* Where tasks can exist, be alive, or have a CancelledError under way.
TaskInv ==
  /\ driver \notin {"top", "schedule", "wait", "gather", "sweep"} => Running = {}
  /\ driver = "sweep" => Live = {}
  /\ interrupted \subseteq Live
  /\ interrupted # {} => driver = "gather"

\* The driver's view against the disk: what it holds finished is so on disk, a
\* node is running in its view as long as there is a task, and apart from a
\* cancellation the view of a node without a task is exact.
ViewInv ==
  /\ driver \in {"creating", "loading"} => \A n \in Node : nodeStatus[n] # "running"
  /\ Driving => \A n \in Node :
       /\ statuses[n] \in Finished => nodeStatus[n] = statuses[n]
       /\ statuses[n] = "running" => task[n] # "none"
       /\ task[n] \in Phase => statuses[n] = "running"
       /\ driver \notin {"gather", "sweep"} =>
            /\ task[n] = "none" => nodeStatus[n] = statuses[n]
            /\ task[n] \in Result => nodeStatus[n] = task[n] /\ statuses[n] = "running"

\* Published nodes and what may still be attempted.
PublishedInv ==
  /\ \A n \in Node : nodeStatus[n] \in Success => n \in published
  /\ SuccessKept
  /\ DependenciesFirst
  /\ \A n \in Node : nodeStatus[n] \in {"ready", "running"} => Deps[n] \subseteq published
  /\ \A n \in Live : task[n] \notin {"closeCancelled", "markCancelled"} => n \notin published

\* The status of the run while it is driven.
RunInv ==
  /\ driver = "creating" => runStatus = "pending"
  /\ driver \in {"loading", "starting"} => runStatus \notin {"succeeded", "cancelled"}
  /\ driver \in {"top", "schedule", "wait", "finish"} \/ Live # {} => runStatus = "running"
  /\ driver = "finish" => AllFinished

IInv == TypeOK /\ TaskInv /\ ViewInv /\ PublishedInv /\ RunInv /\ VerdictSound /\ NeverStalled

\* Tasks of one drive have disjoint write sets, and each set of running members of
\* a group, whoever joined it last, is within the limit of one of them.
ClashInv ==
  /\ \A m, n \in Running : m # n => ~Overlap(m, n)
  /\ Cardinality(Running) <= MaxConcurrency
  /\ \A S \in SUBSET Running :
       /\ S # {}
       /\ \A m, n \in S : Group[m] = Group[n] /\ Group[m] # NoGroup
       => \E m \in S : Cardinality(S) <= GroupLimit[m]

\* How many attempts a node may have where its task stands: what earlier drives may
\* have used, the retries of this task, and the attempt that is under way.
Earlier(n) == (MaxRetries[n] + 1) * resumes

BudgetOf(n) ==
  /\ offset[n] <= MaxRetries[n]
  /\ task[n] = "markReady" => offset[n] < MaxRetries[n]
  /\ Len(attempts[n]) <= Earlier(n) + MaxRetries[n] + 1
  /\ \/ driver \in {"creating", "loading"}
     \/ Driving /\ task[n] = "none" /\ statuses[n] \in {"pending", "ready"}
     \/ task[n] \in {"lookup", "cacheAttempt"}
     => Len(attempts[n]) <= Earlier(n)
  /\ task[n] \in {"setRunning", "openAttempt"}
       => Len(attempts[n]) <= Earlier(n) + offset[n]
  /\ task[n] \in {"handler", "commit", "closeFailed", "markFailed", "markReady",
                  "closeCancelled", "markCancelled"}
       => Len(attempts[n]) <= Earlier(n) + offset[n] + 1

BudgetInv == \A n \in Node : BudgetOf(n)

\* A node has an open attempt only between opening and closing it, unless the task
\* was cancelled in between; then the drive ends without a verdict of its own.
Closed(s)   == \A k \in DOMAIN s : s[k] # "running"
LastOpen(s) == \A k \in DOMAIN s : s[k] = "running" => k = Len(s)
Open == {"handler", "commit", "closeFailed", "closeCancelled"}

AttemptsOf(n) ==
  /\ LastOpen(attempts[n])
  /\ runStatus \in {"succeeded", "failed"} => Closed(attempts[n])
  /\ driver \notin Idle \cup {"gather", "sweep"} /\ task[n] \notin Open
       => Closed(attempts[n])
  /\ task[n] \in Phase \ Open => Closed(attempts[n])

AttemptInv == \A n \in Node : AttemptsOf(n)

-----------------------------------------------------------------------------
(***************************************************************************)
(* What the source and its tests say, and the code does not do.            *)
(***************************************************************************)
\* A drive that returned has left the run with a verdict or CANCELLED.
ReturnedWithVerdict ==
  driver = "returned" => runStatus \in {"succeeded", "failed", "cancelled"}
=============================================================================

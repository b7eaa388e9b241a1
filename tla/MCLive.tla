------------------------------- MODULE MCLive -------------------------------
(***************************************************************************)
(* One run for the parts whose coroutines must come to an end: a behaviour *)
(* chooses a part and is a fair behaviour of its module.  x1, x2, ... hold *)
(* the variables of whichever part it is; submissions (Orchestrator,       *)
(* extended here) have their own.                                          *)
(***************************************************************************)
EXTENDS MCOrchestrator

VARIABLES part, x1, x2, x3, x4, x5, x6, x7, x8, x9, x10, x11, x12, x13, x14, x15, x16,
  x17, x18, x19, x20

Nodes == {"a", "b", "c"}
JoinDeps == [n \in Nodes |-> IF n = "c" THEN {"a", "b"} ELSE {}]
OneRetry == [n \in Nodes |-> IF n = "b" THEN 1 ELSE 0]
NoWrites == [n \in Nodes |-> {}]
NoGroups == [n \in Nodes |-> ""]
NoLimits == [n \in Nodes |-> 0]

Launches == {"l1", "l2"}
Builds == {"b1", "b2"}

\* The join of two nodes, with a retry, a resume, a cancel() and a cancelled drive.
Graph == INSTANCE GraphExecutor WITH
  Node <- Nodes, Deps <- JoinDeps, Required <- {"a", "b"},
  Cacheable <- {}, MaxRetries <- OneRetry, Mutates <- {},
  WriteSet <- NoWrites, Group <- NoGroups, NoGroup <- "",
  GroupLimit <- NoLimits, MaxConcurrency <- 2, MaxCancels <- 1,
  MaxAborts <- 1, MaxCrashes <- 0, MaxResumes <- 1, runStatus <- x1,
  cancelRequested <- x2, nodeStatus <- x3, attempts <- x4, cache <- x5,
  forceNodes <- x6, published <- x7, driver <- x8, statuses <- x9,
  madeProgress <- x10, task <- x11, offset <- x12, interrupted <- x13,
  cancelEvent <- x14, cancelWatcher <- x15, cancelCall <- x16,
  cancels <- x17, aborts <- x18, crashes <- x19, resumes <- x20

\* Two launches of a project's preview, a stop, and a docker command that fails.
Preview == INSTANCE Previews WITH
  Launches <- Launches, Stops <- {"s1"}, Kind <- "node", MaxFaults <- 1,
  MaxRestarts <- 0, registry <- x1, tasks <- x2, history <- x3,
  launched <- x4, pc <- x5, step <- x6, cancelled <- x7, docker <- x8,
  resources <- x9, target <- x10, todo <- x11, dirty <- x12,
  awaited <- x13, survivors <- x14, faults <- x15, restarts <- x16

\* An attended and an unattended build of three gates.
Gate == INSTANCE ApprovalGate WITH
  Build <- Builds, Gates <- 3, Enabled <- Builds, AutoApprove <- {"b2"},
  Timed <- TRUE, MaxCancels <- 1, pc <- x1, gate <- x2, decision <- x3,
  fired <- x4, told <- x5, cancels <- x6

\* The variables a part has no use for.
UnusedPreview == x17 = "" /\ x18 = "" /\ x19 = "" /\ x20 = ""
UnusedGate ==
  x7 = "" /\ x8 = "" /\ x9 = "" /\ x10 = "" /\ x11 = "" /\ x12 = "" /\
  x13 = "" /\ x14 = "" /\ x15 = "" /\ x16 = "" /\ UnusedPreview

UnusedSubmits == x1 = "" /\ x2 = "" /\ x3 = "" /\ x4 = "" /\ x5 = "" /\ x6 = "" /\ UnusedGate

KeptPreview == UNCHANGED <<x17, x18, x19, x20>>
KeptGate == UNCHANGED <<x7, x8, x9, x10, x11, x12, x13, x14, x15, x16>> /\ KeptPreview
KeptSubmits == UNCHANGED <<x1, x2, x3, x4, x5, x6>> /\ KeptGate

LiveInit ==
  /\ Init
  /\ \/ part = "submits" /\ UnusedSubmits
     \/ part = "graph" /\ Graph!Init
     \/ part = "previews" /\ Preview!Init /\ UnusedPreview
     \/ part = "gates" /\ Gate!Init /\ UnusedGate

LiveNext ==
  /\ UNCHANGED part
  /\ \/ part = "submits" /\ Next /\ Turns /\ KeptSubmits
     \/ part = "graph" /\ Graph!Next /\ UNCHANGED vars
     \/ part = "previews" /\ Preview!Next /\ KeptPreview /\ UNCHANGED vars
     \/ part = "gates" /\ Gate!Next /\ KeptGate /\ UNCHANGED vars

liveVars == <<vars, part, x1, x2, x3, x4, x5, x6, x7, x8, x9, x10, x11, x12, x13, x14, x15, x16,
  x17, x18, x19, x20>>

LiveSpec ==
  /\ LiveInit /\ [][LiveNext]_liveVars
  /\ \A s \in Submission : WF_vars(part = "submits" /\ Progress(s))
  /\ WF_(Graph!vars)(part = "graph" /\ Graph!DriverStep)
  /\ \A n \in Nodes : WF_(Graph!vars)(part = "graph" /\ Graph!TaskStep(n))
  /\ WF_(Graph!vars)(part = "graph" /\ Graph!RequestCancel)
  /\ WF_(Graph!vars)(part = "graph" /\ Graph!Watch)
  /\ \A l \in Launches : WF_(Preview!vars)(part = "previews" /\ Preview!LaunchTask(l))
  /\ WF_(Preview!vars)(part = "previews" /\ Preview!Resume("s1"))
  /\ WF_(Preview!vars)(part = "previews" /\ Preview!Stopped("s1"))
  /\ \A a \in Launches \cup {"s1"} : WF_(Preview!vars)(part = "previews" /\ Preview!Remove(a))
  /\ \A b \in Builds : WF_(Gate!vars)(part = "gates" /\ Gate!Run(b))
  /\ \A b \in Builds : WF_(Gate!vars)(part = "gates" /\ Gate!TimerFires(b))

-----------------------------------------------------------------------------
\* These coroutines begin once, their ends are final, and a disturbance is counted for
\* good: that what began comes to its end is the same as that again and again it is at
\* its end or has not begun, which is how it is stated here and in Settles.

\* Every drive of a graph returns, whatever is cancelled; one that nobody cancels
\* comes to SUCCEEDED or FAILED (GraphExecutor._drive).
Driving == part = "graph" /\ ~Graph!AtRest
Undecided == part = "graph" /\ Graph!Undisturbed /\ ~Graph!Decided
DrivesEnd == []<>~Driving /\ []<>~Undecided

\* Every launch and every stop of a preview ends, and a launch that ended holds
\* neither the slot nor the task entry: the project can be served again
\* (serve_project, stop_serve).
SlotFreed ==
  []<>(part = "previews" =>
         /\ \A l \in Launches : Preview!Begun(l) => Preview!Freed(l)
         /\ Preview!Begun("s1") => Preview!Over("s1"))

\* With nobody answering, every gate is left by its timer (ApprovalGate.wait).
Unattended == []<>(part = "gates" => \A b \in Builds : Gate!Over(b))
=============================================================================

------------------------------ MODULE Previews ------------------------------
(***************************************************************************)
(* The live preview of one delivered project: the registry and the launch  *)
(* tasks of skyn3t/web/routes.py over the Docker resources that            *)
(* PreviewSupervisor of skyn3t/studio creates and removes. All run on one  *)
(* event loop, so a step is the code between two awaits, most of which are *)
(* docker commands. `registry` and `tasks` have at most one entry, the one *)
(* of the project. That serve_project finds an app in the registry is left *)
(* out: start_serve_project returns before when there is one.              *)
(***************************************************************************)
EXTENDS Naturals, Sequences

CONSTANTS
  Launches,    \* accepted calls of start_serve_project
  Stops,       \* calls of stop_serve
  Kind,        \* "node" or "python_web": kind of the run spec
  MaxFaults,   \* bound: docker commands that fail
  MaxRestarts  \* bound: crashes of the dashboard

VARIABLES
  registry,   \* running_apps: {<<"claim", l>>}, {<<"app", l>>} or empty
  tasks,      \* serve_start_tasks
  history,    \* history[l]: status of the launch in the history file
  launched,   \* the launches of the history, the newest last
  pc,         \* where a launch or a stop stands
  step,       \* step[l]: position of start() in Plan
  cancelled,  \* launches with a CancelledError under way
  docker,     \* docker[l]: what the daemon holds for l
  resources,  \* resources[l]: _resources of the supervisor, empty when absent
  target,     \* target[a]: the launch whose container a removes, as a set
  todo,       \* todo[a]: what a has still to remove
  dirty,      \* actors whose cleanup met a resource it could not remove
  awaited,    \* awaited[s]: the launch a stop cancelled and waits for, as a set
  survivors,  \* history: launches whose containers outlived a crash
  faults, restarts

vars == <<registry, tasks, history, launched, pc, step, cancelled, docker, resources,
          target, todo, dirty, awaited, survivors, faults, restarts>>

Actor == Launches \cup Stops
Apart == Launches \cap Stops = {}

Resource == {"volume", "deps", "prepare", "copy", "network", "runtime", "gateway"}

\* What start() does in order; "connect" and "ready" create nothing.
Plan == IF Kind = "python_web"
          THEN <<"volume", "deps", "prepare", "copy", "network", "runtime",
                 "gateway", "connect", "ready">>
          ELSE <<"volume", "prepare", "network", "runtime", "gateway", "connect", "ready">>

\* The order in which _remove_container goes.
Removal == <<"gateway", "runtime", "prepare", "copy", "network", "volume", "deps">>

\* Containers that mount a volume or are attached to the network.
Users(r) ==
  CASE r = "volume"  -> {"runtime", "copy"} \cup IF Kind = "node" THEN {"prepare"} ELSE {}
    [] r = "deps"    -> {"runtime", "prepare"}
    [] r = "network" -> {"runtime", "gateway"}
    [] OTHER         -> {}

Stage(l) == Plan[step[l]]
Claimed(l) == registry = {<<"claim", l>>}
Newest == launched[Len(launched)]

Cleaning == {"failing", "unwinding", "yielding", "stopping"}
Idle == {"unborn", "ended"}
Quiet == \A a \in Actor : pc[a] \in Idle

Slots == {{}} \cup {{<<k, l>>} : k \in {"claim", "app"}, l \in Launches}
Entries == {{}} \cup {{l} : l \in Launches}
Statuses == {"none", "starting", "running", "failed", "cancelled", "stopped", "interrupted"}
Places == Idle \cup Cleaning \cup {"created", "starting", "announcing", "validating",
                                   "reporting", "awaiting"}

TypeOK ==
  /\ registry \in Slots /\ tasks \in Entries
  /\ history \in [Launches -> Statuses]
  /\ launched \in Seq(Launches)
  /\ pc \in [Actor -> Places]
  /\ step \in [Launches -> 1 .. Len(Plan)]
  /\ cancelled \in SUBSET Launches
  /\ docker \in [Launches -> SUBSET Resource]
  /\ resources \in [Launches -> SUBSET Resource]
  /\ target \in [Actor -> SUBSET Launches]
  /\ todo \in [Actor -> SUBSET Resource]
  /\ dirty \in SUBSET Actor
  /\ awaited \in [Stops -> SUBSET Launches]
  /\ survivors \in SUBSET Launches
  /\ faults \in Nat /\ restarts \in Nat

Init ==
  /\ registry = {} /\ tasks = {} /\ launched = <<>>
  /\ history = [l \in Launches |-> "none"]
  /\ pc = [a \in Actor |-> "unborn"]
  /\ step = [l \in Launches |-> 1]
  /\ cancelled = {} /\ dirty = {} /\ survivors = {}
  /\ docker = [l \in Launches |-> {}]
  /\ resources = [l \in Launches |-> {}]
  /\ target = [a \in Actor |-> {}]
  /\ todo = [a \in Actor |-> {}]
  /\ awaited = [s \in Stops |-> {}]
  /\ faults = 0 /\ restarts = 0

-----------------------------------------------------------------------------
\* _remove_container, in the hands of actor a.

\* It reads _resources once; without an entry only the containers are tried.
BeginRemoval(a, l) ==
  /\ target' = [target EXCEPT ![a] = {l}]
  /\ todo' = [todo EXCEPT ![a] = resources[l] \cup {"runtime", "prepare", "copy"}]
  /\ dirty' = dirty \ {a}

NoRemoval == UNCHANGED <<target, todo, dirty>>

AbandonRemoval(a) ==
  /\ target' = [target EXCEPT ![a] = {}]
  /\ todo' = [todo EXCEPT ![a] = {}]
  /\ dirty' = dirty \ {a}

\* One docker rm: what is gone already counts as cleaned, a volume or a network
\* in use stays, and the command may fail with or without its effect.
Remove(a) ==
  \E l \in target[a], i \in 1 .. Len(Removal) :
    LET r == Removal[i]
        inUse == Users(r) \cap docker[l] # {}
    IN /\ pc[a] \in Cleaning
       /\ r \in todo[a]
       /\ \A j \in 1 .. i - 1 : Removal[j] \notin todo[a]
       /\ todo' = [todo EXCEPT ![a] = @ \ {r}]
       /\ \/ /\ r \notin docker[l] \/ ~inUse
             /\ docker' = [docker EXCEPT ![l] = @ \ {r}]
             /\ UNCHANGED <<dirty, faults>>
          \/ /\ r \in docker[l] /\ inUse
             /\ dirty' = dirty \cup {a}
             /\ UNCHANGED <<docker, faults>>
          \/ /\ faults < MaxFaults
             /\ faults' = faults + 1
             /\ dirty' = dirty \cup {a}
             /\ \/ UNCHANGED docker
                \/ ~inUse /\ docker' = [docker EXCEPT ![l] = @ \ {r}]
       /\ UNCHANGED <<registry, tasks, history, launched, pc, step, cancelled, resources,
                      target, awaited, survivors, restarts>>

\* All is tried: _active and _resources are dropped when all is clean.
Forget(a) ==
  resources' = [l \in Launches |->
                  IF l \in target[a] /\ a \notin dirty THEN {} ELSE resources[l]]

Removed(a) == /\ pc[a] \in Cleaning
              /\ todo[a] = {}
              /\ Forget(a)
              /\ AbandonRemoval(a)

-----------------------------------------------------------------------------
\* The launch task: _launch, serve_project and PreviewSupervisor.start.

Env == <<awaited, survivors, restarts>>

\* start_serve_project: an app that runs, or a launch under way, is returned
\* as it is; else the launch is recorded and its task created.
Accept(l) ==
  /\ pc[l] = "unborn"
  /\ tasks = {}
  /\ \A m \in Launches : registry # {<<"app", m>>}
  /\ tasks' = {l}
  /\ history' = [history EXCEPT ![l] = "starting"]
  /\ launched' = Append(launched, l)
  /\ pc' = [pc EXCEPT ![l] = "created"]
  /\ NoRemoval
  /\ UNCHANGED <<registry, step, cancelled, docker, resources, faults, Env>>

\* The slot is claimed; start() inspects the project and the toolchain.
Claim(l) ==
  /\ pc[l] = "created" /\ l \notin cancelled
  /\ registry' = {<<"claim", l>>}
  /\ pc' = [pc EXCEPT ![l] = "validating"]
  /\ NoRemoval
  /\ UNCHANGED <<tasks, history, launched, step, cancelled, docker, resources, faults, Env>>

\* The names of a preview are chosen and remembered before anything is created.
Prepare(l) ==
  /\ pc[l] = "validating" /\ l \notin cancelled
  /\ resources' = [resources EXCEPT ![l] =
                     {"gateway", "volume"} \cup IF Kind = "python_web" THEN {"deps"} ELSE {}]
  /\ pc' = [pc EXCEPT ![l] = "starting"]
  /\ NoRemoval
  /\ UNCHANGED <<registry, tasks, history, launched, step, cancelled, docker, faults, Env>>

\* What serve_project makes of the app that start() returns: a launch whose
\* claim is gone removes its own app.
Return(l, running) ==
  IF running
    THEN /\ UNCHANGED history
         /\ IF Claimed(l)
              THEN /\ registry' = {<<"app", l>>}
                   /\ pc' = [pc EXCEPT ![l] = "announcing"]
                   /\ NoRemoval
              ELSE /\ UNCHANGED registry
                   /\ pc' = [pc EXCEPT ![l] = "yielding"]
                   /\ BeginRemoval(l, l)
    ELSE /\ registry' = IF Claimed(l) THEN {} ELSE registry
         /\ history' = [history EXCEPT ![l] = "failed"]
         /\ pc' = [pc EXCEPT ![l] = "reporting"]
         /\ AbandonRemoval(l)

\* There is nothing to preview, or a condition of it fails.
Refuse(l) ==
  /\ pc[l] = "validating" /\ l \notin cancelled
  /\ Return(l, FALSE)
  /\ UNCHANGED <<tasks, launched, step, cancelled, docker, resources, faults, Env>>

Created(r) == {r} \ {"prepare", "copy", "connect", "ready"}

\* A docker command of start() succeeds. A prepare or a copy container is gone
\* when its command is over; the network is remembered before it is created.
Advance(l) ==
  /\ pc[l] = "starting" /\ l \notin cancelled
  /\ Stage(l) # "ready"
  /\ docker' = [docker EXCEPT ![l] = @ \cup Created(Stage(l))]
  /\ step' = [step EXCEPT ![l] = @ + 1]
  /\ resources' = [resources EXCEPT ![l] =
                     @ \cup IF Plan[step[l] + 1] = "network" THEN {"network"} ELSE {}]
  /\ NoRemoval
  /\ UNCHANGED <<registry, tasks, history, launched, pc, cancelled, faults, Env>>

Fresh(l) == {Stage(l)} \cap Resource

\* A docker command fails, or is timed out and killed: what it was to create is
\* there or not. The dependencies may also be refused, which leaves nothing.
FailStage(l) ==
  /\ pc[l] = "starting" /\ l \notin cancelled
  /\ \/ /\ Stage(l) \in {"prepare", "ready"}
        /\ UNCHANGED <<docker, faults>>
     \/ /\ Stage(l) # "ready" /\ faults < MaxFaults
        /\ faults' = faults + 1
        /\ \E made \in SUBSET Fresh(l) : docker' = [docker EXCEPT ![l] = @ \cup made]
  /\ pc' = [pc EXCEPT ![l] = "failing"]
  /\ BeginRemoval(l, l)
  /\ UNCHANGED <<registry, tasks, history, launched, step, cancelled, resources, Env>>

Failed(l) ==
  /\ pc[l] = "failing" /\ l \notin cancelled
  /\ todo[l] = {}
  /\ Forget(l)
  /\ Return(l, FALSE)
  /\ UNCHANGED <<tasks, launched, step, cancelled, docker, faults, Env>>

\* The app answers: start() returns it.
Ready(l) ==
  /\ pc[l] = "starting" /\ l \notin cancelled
  /\ Stage(l) = "ready"
  /\ Return(l, TRUE)
  /\ UNCHANGED <<tasks, launched, step, cancelled, docker, resources, faults, Env>>

\* Mutant: only a launch that has its app takes its task off the table.
Finally_Leaves(l) ==
  /\ tasks' = IF registry = {<<"app", l>>} THEN tasks \ {l} ELSE tasks
  /\ registry' = IF \E m \in Launches : Claimed(m) THEN {} ELSE registry
  /\ pc' = [pc EXCEPT ![l] = "ended"]

\* The end of _launch: a slot that has no app is cleared, whose claim it may be.
Finally(l) ==
  /\ tasks' = tasks \ {l}
  /\ registry' = IF \E m \in Launches : Claimed(m) THEN {} ELSE registry
  /\ pc' = [pc EXCEPT ![l] = "ended"]

\* SERVE_STARTED is out, the launch is recorded as running.
Announced(l) ==
  /\ pc[l] = "announcing" /\ l \notin cancelled
  /\ history' = [history EXCEPT ![l] = "running"]
  /\ Finally(l)
  /\ NoRemoval
  /\ UNCHANGED <<launched, step, cancelled, docker, resources, faults, Env>>

\* The app of a lost claim is removed. Where that failed the app still says
\* running, and so does the history.
Yielded(l) ==
  /\ pc[l] = "yielding" /\ l \notin cancelled
  /\ Removed(l)
  /\ IF l \in dirty
       THEN history' = [history EXCEPT ![l] = "running"] /\ Finally(l)
       ELSE /\ history' = [history EXCEPT ![l] = "failed"]
            /\ pc' = [pc EXCEPT ![l] = "reporting"]
            /\ UNCHANGED <<registry, tasks>>
  /\ UNCHANGED <<launched, step, cancelled, docker, faults, Env>>

\* The failure or the cancellation is announced, whether or not that is cut short.
Reported(l) ==
  /\ pc[l] = "reporting"
  /\ cancelled' = cancelled \ {l}
  /\ Finally(l)
  /\ NoRemoval
  /\ UNCHANGED <<history, launched, step, docker, resources, faults, Env>>

\* The task is cancelled before it ran at all.
NeverRan(l) ==
  /\ pc[l] = "created" /\ l \in cancelled
  /\ cancelled' = cancelled \ {l}
  /\ pc' = [pc EXCEPT ![l] = "ended"]
  /\ NoRemoval
  /\ UNCHANGED <<registry, tasks, history, launched, step, docker, resources, faults, Env>>

\* start() is cancelled: the command under way is killed, with or without its
\* effect, and everything is removed in a shield.
Unwind(l) ==
  /\ pc[l] \in {"starting", "failing"} /\ l \in cancelled
  /\ cancelled' = cancelled \ {l}
  /\ \E made \in SUBSET (IF pc[l] = "starting" THEN Fresh(l) ELSE {}) :
       docker' = [docker EXCEPT ![l] = @ \cup made]
  /\ pc' = [pc EXCEPT ![l] = "unwinding"]
  /\ BeginRemoval(l, l)
  /\ UNCHANGED <<registry, tasks, history, launched, step, resources, faults, Env>>

Unwound(l) ==
  /\ pc[l] = "unwinding"
  /\ Removed(l)
  /\ history' = [history EXCEPT ![l] = "cancelled"]
  /\ pc' = [pc EXCEPT ![l] = "reporting"]
  /\ UNCHANGED <<registry, tasks, launched, step, cancelled, docker, faults, Env>>

\* A cancellation anywhere else: a removal under way is given up.
CutShort(l) ==
  /\ pc[l] \in {"validating", "yielding", "announcing"} /\ l \in cancelled
  /\ cancelled' = cancelled \ {l}
  /\ history' = [history EXCEPT ![l] = "cancelled"]
  /\ pc' = [pc EXCEPT ![l] = "reporting"]
  /\ AbandonRemoval(l)
  /\ UNCHANGED <<registry, tasks, launched, step, docker, resources, faults, Env>>

-----------------------------------------------------------------------------
\* stop_serve.

\* Mutant: the app is shown until it is removed.
Pop_Shown(s) ==
  /\ registry' = IF \E l \in Launches : Claimed(l) THEN {} ELSE registry
  /\ awaited' = [awaited EXCEPT ![s] = {}]
  /\ \/ /\ \A l \in Launches : registry # {<<"app", l>>}
        /\ pc' = [pc EXCEPT ![s] = "ended"]
        /\ NoRemoval
     \/ \E l \in Launches :
          /\ registry = {<<"app", l>>}
          /\ pc' = [pc EXCEPT ![s] = "stopping"]
          /\ BeginRemoval(s, l)
  /\ UNCHANGED <<history, launched, step, docker, resources, survivors, faults, restarts>>

\* What is in the registry is taken out: an app is removed, a claim is enough.
Pop(s) ==
  /\ registry' = {}
  /\ awaited' = [awaited EXCEPT ![s] = {}]
  /\ \/ /\ \A l \in Launches : registry # {<<"app", l>>}
        /\ pc' = [pc EXCEPT ![s] = "ended"]
        /\ NoRemoval
     \/ \E l \in Launches :
          /\ registry = {<<"app", l>>}
          /\ pc' = [pc EXCEPT ![s] = "stopping"]
          /\ BeginRemoval(s, l)
  /\ UNCHANGED <<history, launched, step, docker, resources, survivors, faults, restarts>>

Stop(s) ==
  /\ pc[s] = "unborn"
  /\ IF tasks = {}
       THEN Pop(s) /\ UNCHANGED <<tasks, cancelled>>
       ELSE /\ tasks' = {}
            /\ cancelled' = cancelled \cup tasks
            /\ awaited' = [awaited EXCEPT ![s] = tasks]
            /\ pc' = [pc EXCEPT ![s] = "awaiting"]
            /\ NoRemoval
            /\ UNCHANGED <<registry, history, launched, step, docker, resources,
                           survivors, faults, restarts>>

\* The cancelled launch has ended.
Resume(s) ==
  /\ pc[s] = "awaiting"
  /\ \A l \in awaited[s] : pc[l] = "ended"
  /\ Pop(s)
  /\ UNCHANGED <<tasks, cancelled>>

\* The app is removed; the newest launch is no longer recorded as running.
Stopped(s) ==
  /\ pc[s] = "stopping"
  /\ Removed(s)
  /\ pc' = [pc EXCEPT ![s] = "ended"]
  /\ history' = [history EXCEPT ![Newest] = IF @ = "running" THEN "stopped" ELSE @]
  /\ UNCHANGED <<registry, tasks, launched, step, cancelled, docker, faults, Env>>

\* The dashboard dies and comes back: containers run detached and stay, the
\* history closes what was open.
Restart ==
  /\ restarts < MaxRestarts
  /\ restarts' = restarts + 1
  /\ survivors' = {l \in Launches : docker[l] # {}}
  /\ registry' = {} /\ tasks' = {} /\ cancelled' = {} /\ dirty' = {}
  /\ pc' = [a \in Actor |-> IF pc[a] = "unborn" THEN "unborn" ELSE "ended"]
  /\ resources' = [l \in Launches |-> {}]
  /\ target' = [a \in Actor |-> {}]
  /\ todo' = [a \in Actor |-> {}]
  /\ awaited' = [s \in Stops |-> {}]
  /\ history' = [l \in Launches |-> IF history[l] \in {"starting", "running"}
                                      THEN "interrupted" ELSE history[l]]
  /\ UNCHANGED <<launched, step, docker, faults>>

LaunchTask(l) ==
  \/ Claim(l) \/ Prepare(l) \/ Refuse(l) \/ Advance(l) \/ FailStage(l) \/ Failed(l)
  \/ Ready(l) \/ Announced(l) \/ Yielded(l) \/ Reported(l) \/ NeverRan(l)
  \/ Unwind(l) \/ Unwound(l) \/ CutShort(l)

Next ==
  \/ \E l \in Launches : Accept(l) \/ LaunchTask(l)
  \/ \E s \in Stops : Stop(s) \/ Resume(s) \/ Stopped(s)
  \/ \E a \in Actor : Remove(a)
  \/ Restart

\* The event loop runs what is ready, and every docker command has a timeout.
Fairness ==
  /\ \A l \in Launches : WF_vars(LaunchTask(l))
  /\ \A s \in Stops : WF_vars(Resume(s)) /\ WF_vars(Stopped(s))
  /\ \A a \in Actor : WF_vars(Remove(a))

Spec == Init /\ [][Next]_vars
FairSpec == Spec /\ Fairness

-----------------------------------------------------------------------------
\* A preview that the registry shows is whole: nobody has removed, or is removing,
\* a part of it (serve_project's claim and stop_serve's pop).
ShownIsWhole ==
  \A l \in Launches :
    registry = {<<"app", l>>} =>
      /\ {"volume", "network", "runtime", "gateway"} \subseteq docker[l]
      /\ \A a \in Actor : target[a] # {l}

\* Every launch and every stop comes to its end, and a launch that ended holds
\* neither the slot nor the task entry: the project can be served again ("never let
\* that placeholder make a later Serve look permanently busy").
Begun(a) == pc[a] # "unborn"
Over(a) == pc[a] = "ended"
Freed(l) == Over(l) /\ ~Claimed(l) /\ l \notin tasks
SlotFreed ==
  /\ \A l \in Launches : Begun(l) ~> Freed(l)
  /\ \A s \in Stops : Begun(s) ~> Over(s)

\* What Docker still holds for a launch of this process, the supervisor still
\* knows by name: a removal that failed or was cut short can be made good.
Retained == \A l \in Launches \ survivors : docker[l] # {} => resources[l] # {}

\* Nothing leaks: when nothing is under way and no docker command failed, Docker
\* holds nothing but the preview that the registry shows.
NoLeak ==
  Quiet /\ faults = 0 =>
    \A l \in Launches \ survivors : docker[l] # {} => registry = {<<"app", l>>}

\* What proves the two.  A launch has made nothing before it starts, then all that its
\* plan made so far is there, and what it is about to make is remembered;
Whole == {"volume", "network", "runtime", "gateway"}
Anonymous == {"runtime", "prepare", "copy"}
Begins ==
  \A l \in Launches : pc[l] \in {"unborn", "created", "validating"} =>
    docker[l] = {} /\ step[l] = 1
Grows ==
  \A l \in Launches : pc[l] = "starting" =>
    /\ {"volume", "gateway"} \subseteq resources[l]
    /\ Kind = "python_web" => "deps" \in resources[l]
    /\ \A i \in 1 .. step[l] : Plan[i] \in Resource => Plan[i] \in resources[l] \cup Anonymous
    /\ \A i \in 1 .. step[l] - 1 : Plan[i] \in Whole => Plan[i] \in docker[l]
\* only a launch that has returned is shown, and it is removed by itself before, by one
\* that took it out of the registry after;
Shown ==
  \A l \in Launches : registry = {<<"app", l>>} =>
    /\ pc[l] \in {"announcing", "reporting", "ended"}
    /\ Whole \subseteq docker[l]
    /\ \A a \in Actor : l \notin target[a]
Removing ==
  \A a \in Actor, l \in Launches : l \in target[a] =>
    /\ target[a] = {l}
    /\ \/ a = l /\ pc[l] \in {"failing", "unwinding", "yielding"}
       \/ a \in Stops /\ pc[l] \in {"announcing", "reporting", "ended"}
    /\ l \in survivors \/ a \in dirty \/ docker[l] \subseteq todo[a]
\* and what is there is remembered, but for the containers, which are named after it.
Known ==
  \A l \in Launches \ survivors : docker[l] # {} =>
    resources[l] # {} /\ docker[l] \subseteq resources[l] \cup Anonymous

IInv == TypeOK /\ Begins /\ Grows /\ Shown /\ Removing /\ Known
=============================================================================

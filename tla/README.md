# Verification of SkyN3t 2.0

TLA+ modules, TLC configurations and TLAPS proofs for the stateful core of
SkyN3t, an autonomous multi-agent application factory (`src/skyn3t`, about
130,000 lines of Python). Every module is translated from the source;
`PROJECT.json` names, for each definition, the lines it stands for, and lists
the components, the hazards, the runs, a mutant for each property, the findings
and the theorems.

    tlc -workers 2 -config Parts.cfg MCParts.tla
    tlapm GraphExecutorProofs.tla

1. [The system](#1-the-system) - the inventory
2. [The modules](#2-the-modules) - what is modelled and how it corresponds to the code
3. [The runs](#3-the-runs) - what TLC checks, bounds and fairness
4. [The proofs](#4-the-proofs)
5. [Findings](#5-findings) - where the code and its own words disagree, and other deviations
6. [Not modelled](#6-not-modelled)
7. [Plan](#7-plan)

## 1. The system

A *build* takes a prompt to a generated, checked and possibly deployed
application. `studio/` runs builds, `core/` has the event bus, the agents and
the orchestrator that runs tasks on them, `adapters/` reaches the models,
`cortex/` proposes changes to SkyN3t itself and applies them, `web/` and `cli/`
are the control planes; the rest are services. It is one asyncio process, with
threads, subprocesses and cross-process file locks, over SQLite, JSON and JSONL
files. A component interacts with another by awaiting it, by events of the bus, by
futures and `asyncio.Event`s it shares, and by files. Concurrency is therefore
mostly cooperative: a step of a model is the code between two awaits, one store
transaction, or one operation on a file where other processes take part.

| Component | State | Operations | Hard behaviour | What makes it correct | Module |
|---|---|---|---|---|---|
| Graph runtime `studio/graph_runtime.py` | rows of run, nodes, attempts, cache; the driver's view, tasks, cancel event | create, fork, execute, resume, cancel, retry | tasks, watcher and driver interleave; crashes between transactions | dependencies first, verdict backed by the rows, successes never redone, one writer of a path, every drive ends | GraphExecutor |
| Orchestrator and agents `core/orchestrator.py`, `core/agent.py` | idempotency cache, in-flight futures, semaphore, agent status | submit, cancel, heal | joining a key in flight, cancellation at any await, eviction | one leader of a key, everyone is answered, and alike | Orchestrator |
| Approval gate `studio/approval_gate.py` | pending approvals and their events | request, approve, reject, wait, clear | answer against timer against cancellation | nothing ships unapproved, no approval outlives its build | ApprovalGate |
| Build lifecycle `web/routes.py`, `studio/runner.py`, `worktree.py` | queue, tasks, folders, worktrees, rows, manifests | submit, cancel, delete, recover, restart | two cancellations, deletion under a build, best-of-N trees | no work is lost, a folder has one build, record and row agree | Builds |
| Code stage `studio/slicer.py`, `studio/best_of_n.py`, `studio/runner.py` | a worktree for each slice or candidate | divide, run, merge; sample, prove, select | completion in any order, degraded and raising sessions | the planned files arrive whole; the best candidate is merged | Slices, Sampling |
| Code agent `agents/code_agent.py` | lock of a worktree, its files before and after | execute a build or a slice, retry, clean up | lock made and dropped per use; sessions that write what is not theirs | a report of completion is true, contracts stand | CodeAgent |
| Model sessions `adapters/llm.py` | turns, guards, files written; a subprocess and its stream | tool-calling session, local agent, heal | no ceiling on turns; silence, hang, cancellation | completion means the whole plan; no agent is left writing | AgentSession, CliSession |
| Spend and failover `adapters/llm.py` | ledger of the day, spend of the build, quarantined models | check, record, retry, fall back | several processes, midnight, lock that fails open | caps bind, no cost vanishes, attempts are bounded | Budget, Failover |
| Proof `studio/proof_run.py` | verdict, advisories, receipt | phases of a proof, repair | timeouts, skipped phases, receipts | a pass leaves no defect a phase could see | Proof |
| Delivery `studio/runner.py`, `gate_verdict.py`, `gate_posture.py` | verdict, findings, evidence and the tree it is of | proof, fix loop, gates, healing, review, trace, finalize | evidence goes stale when a later stage writes | a go is of the delivered tree and overrides no gate | Delivery |
| Improvement loop `studio/improve.py` | worktree, preimage, staging, backup, journal | improve, deliver, restore | edits by others, late children, crash in a delivery | originals are recoverable, nothing unproven is delivered | Improve |
| Visual edits and re-verification `web/routes.py` | project folder and manifest, lock, claim | edit and prove in place; copy, repair, prove, swap | the two at once; crash between renames | a go is of a proven tree | Reverify |
| Previews `studio/preview_supervisor.py`, `web/routes.py` | registry, launch tasks, containers, volumes, networks | start, stop, clean up, restart | stop at any await of a start | what is shown is whole, the slot comes back | Previews |
| Deployment `studio/deploy.py`, `agents/deploy_agent.py` | manifest of attempts and the live one | gate, execute, check, record, roll back | manifest shared without a lock, bounded history | the live URL is one that works | Deployments |
| Cortex `cortex/bootstrap.py`, `proposal_store.py`, `ratchet.py` | proposals and their mirror, override files | submit, triage, decide, expire, apply, ratchet | decisions race triage and automation; restarts | no change without its approval, a key is open once | Cortex |
| Candidate engine `cortex/candidate_engine.py` | worktree, commits, report | run, verify, merge, compare, revert | others commit meanwhile; crashes | what is merged is what was verified | Candidate |
| Skills `intelligence/skill_library.py` | markdown, receipts, journal, objects in memory | distill, admit, evaluate, activate, roll back | threads and processes without a lock | a rollback stands until an operator undoes it | Skills |
| Learning and credit `studio/runner.py`, `intelligence/`, `memory/store.py` | lessons, grades, tournament, boards of patterns and repairs | advise, credit, grade, mine, promote | builds overlap, cancellations, an exception after settlement | each build is credited once, by its verdict | Outcomes |
| Repairs by an agent `agents/code_improver.py` | worktree before and after, retained texts | session, rewrite, restore, report | failure after edits, a child that still writes | what changed is reported and fit, what failed is retained and undone | Repairs |
| Deterministic repairs `studio/proof_run.py` | the project | thirty rewrites in a fixed order | one undoes or provokes another, writes fail | the pass comes to rest and leaves no defect of its own | BuildFixes |
| Project copies `studio/project_import.py`, `persistence/candidate_archive.py` | staging copy, inventory, name | import, recover | edited, and edited back, while copied | a copy is one version and takes nobody's place | Copies |
| Benchmarks `studio/golden_bench.py`, `cortex/evaluation.py` | ledgers, records | run, evaluate | several runs into a file, kills, two reads of a ledger | complete means whole, a review compares like with like | Bench |
| Event log `core/events.py`, `memory/store.py` | bounded queue, batch, rows | publish, commit, flush, close | full queue, retries, cancellation | an accepted event is recorded, in order, or reported lost | EventLog |
| Visual evidence `studio/liveness.py`, `visual_proof.py`, `proof_reuse.py` | shots, report, fingerprint | shoot, keep, reuse | edits while shooting, lost shots, crashes | evidence that passed is whole and current | Ladder |
| Requirement trace `studio/requirement_trace.py` | evidence, binding, trace | gather, bind, compile, settle | tree, contract and runtime change meanwhile | proven is earned, a bound failure blocks | RequirementTrace |
| Starters `studio/planner.py`, `agents/architect.py`, `agents/_scaffold.py`, `agents/code_agent.py` | brief, plan, tree by origin | detect, lay down, clean, back-fill | four places decide on a starter | a build stands on one starter, filled to its checklist | Floor |
| Visual editor `studio/visual_editor.py` | page, stylesheet, lock | rank, rewrite, style | other editors, edits by hand | an edit replaces what its author saw | VisualEditor |
| Product contract `studio/product_spec.py`, `similarity_scout.py` | contract, revisions, research cache, lock | create, revise, research, promote | optimistic revisions, a lock in a folder that is swapped | an accepted revision stays until one that saw it | ProductSpec |
| Costs and guard `observability/cost_tracker.py`, `self_healing/budget.py` | calls by owner, stages, reports, loops | begin, spend, settle, reject | builds overlap, late calls, restarts | a build costs what its calls cost, once | Costs |
| List of builds `web/routes.py`, `web/deps.py`, `memory/store.py` | the live row, the store's row, the manifest | report, persist, merge, list | three writers, two reads, failed saves | what is shown agrees with how the build ended | BuildRows |
| Model router `core/model_router.py`, `adapters/llm.py` | catalogs with their age, locks, fallbacks, a build's frozen copy | prime, route, admit, resolve | settings and catalogs change between admission and call | a call keeps to settings, lock and price | ModelRouter |
| Scheduler, checkpoints, retrieval, security, audit, chat, most of the CLI | lists, tables, prompts | calls | network and subprocess I/O | mostly data | none |

`PROJECT.json` lists these and the remaining components with their files and
status, and under `hazards` what is hard to test in them, each at its line with
the properties that would catch it.

The runner awaits the orchestrator for each stage; the orchestrator runs the code
agent, which awaits a model session under the spend caps and the failover; the
worktrees of slices and candidates merge into the build's; the proof and the gates
judge that tree; the web control plane starts, cancels, answers, previews, edits
and deploys what comes out. The modules meet at these seams: what one takes as an
outcome of a step ("whole", "degraded", "failed", "passed") another one models from the inside.

## 2. The modules

### Graph runtime: `GraphExecutor`, `GraphPromise`

The constants of `GraphExecutor` are the graph: nodes, dependencies, retries, write sets, groups,
and `GraphAssumption` (a topological order exists, as `_validate` ensures, and
limits are positive). Write paths are sequences of names; two sets overlap when a
path of one is at or below a path of the other.

The module is one durable run. Its rows are `runStatus`, `cancelRequested`,
`nodeStatus`, `attempts`, `cache` and `forceNodes`; `driver` is the await at which
`_drive` stands and `statuses` the dictionary it keeps; `task[n]` is the await at
which `_execute_node` stands, or its result; `offset[n]` the attempts of earlier
drives; `cancelEvent`, `cancelWatcher` and `cancelCall` the signals; `interrupted`
the tasks with a CancelledError under way. One action per stretch between two
awaits: loading, blocking and scheduling (`Schedule` takes the whole loop over the
ready nodes, with limits and write sets), waiting, taking results, gathering and
sweeping after a cancellation, the verdict; on the side of a task starting an
attempt, looking up the cache, the handler, the commit, retries, and the writes of
a cancelled task; and `RequestCancel`, `Watch`, `Abort` (the awaiting task is
cancelled), `Crash` and `Resume`. A run starts fresh, or forked with successes of
its parent.

`GraphPromise` is what a reader of the rows may rely on: successes are published
one by one after their dependencies, only while the run is open, and a verdict is
backed. `Promise == INSTANCE GraphPromise WITH verdict <- Verdict` maps the rows.

Simplifications: node order is any topological one; what handlers compute, the
artifacts and what a cache key is made of are left out (a lookup hits when the
node is in `cache`, or misses because its inputs differ); handlers are assumed to
return or raise and not to raise CancelledError themselves; the transaction in
flight when its task is cancelled ends before the next begins.

### Orchestrator: `IdempotentService`, `Orchestrator`

A submission is a coroutine: `pc[s]` is the await it stands at, from `submitting`
over `queued` (semaphore), `locking` (the agent's run lock), `executing`,
`reporting`, `backoff`, `healing`, `recovered` to `persisting`, or `joining` a
leader. `cache` is `_idempotency` in insertion order with its eviction, `inflight`
the leader of a key, `future[s]` what it publishes. Routing picks any agent that is
best by type, capability and status. `IdempotentService` says that a call of a key whose
success stands is answered by it, that one of a key that is worked on shares that work, that
the last `Capacity` successes stand and a failure never does, and that everyone is told what
its source came to. `Service` maps it: the source of a submission is whom it leads or
joins (`leads`), its state what `pc` and the answers say (`Told`), and the
successes that stand are the cache with its eviction.

Simplifications: the registry is fixed and agents start READY; one `max_retries`
for all tasks; the runner itself submits without keys, and keys come from the API.

### Approval gate: `ApprovalGate`

Builds that pass gates one after the other (`gate[b]`), each registering its
approval, announcing it, waiting with or without a timer, and clearing its
approvals when it is cancelled. `decision` is the store of approvals, `fired` the timer of
`asyncio.wait_for` that has fired while the waiter has not run yet, `told` what
callers of the control plane were told. Builds with automatic approval take the
other branch of the runner. `CancelSwallowed` is Python 3.11: a cancellation that
reaches `wait_for` after the event was set is given up.

### Cortex: `Cortex`

Workers are the `submit()` of each proposal, calls of `approve()`, and the tick of
AutomaticCandidates; `at[w]` is where a worker stands and `subject[w]` the proposal
it is about. `status` is the store; since `_mirror` writes within the step that
changes a status, the disk equals the memory and `Restart` keeps it. `stored` are
the proposals whose change is on disk; a restart during a handler keeps the change
or not. The ratchet is `bench` (snapshot taken, first bench runs), `trial` (change
applied, second bench runs), then `Keep` or `Revert`, which writes the *whole*
snapshot back as `restore_overrides` does. `Decide` is `_decide()`, rule by rule.
`settings` are fixed during a behaviour, and TLC and the proofs take all
combinations. `human`, `refused`, `revived` and `hasty` are history that only the
properties read.

Simplifications: confidence, payloads and repository identities are sets of
proposals (`Confident`, `Proven`, `Research`); a custom `dedupe_key` lets proposals
of two types share a key; automation takes any open proposal it may (the code: the
first); expiry rejects any set of open proposals that are not just being announced;
writes of the mirror succeed; live settings of the process, as opposed to the
override files, are left out; only tunings are taken to carry persistable settings, so
that other proposals are refused by the ratchet before the trial.

### A build from its start to its end

**`Builds`** is the queue of the control plane with the tasks of several builds of
one brief: reserving a folder (`Reserve` takes the first free of `slug`, `slug-2`,
...), opening the worktrees, writing, sampling candidates, merging, delivering; the
three ways to end (finalized, failed, cancelled), each with its writes of manifest,
row and record in the code's order; `cancel_build` with its second wait, the two
deletions, and a restart that marks rows interrupted and reaps worktrees. `work` and
`recovered` are what the rescue of a cancelled build is judged by.

**`Slices`** and **`Sampling`** are the two ways a code stage is parallel.
In `Slices` a slice is a session in a copy of the build's worktree; `Collect` merges
a slice that ended over nothing that is there, `TestsTurn` starts the tests with a copy of what the
others wrote, and `Merge` copies all worktrees once more in the order of authority, each
with everything in it. In `Sampling` candidates are coded and
proven; `Above` is `rank_key`, `Leaders` the tie that a judge may break.

**`CodeAgent`** takes tasks of one worktree from the queue for its lock (`entry`,
`holder`: the lock exists only while somebody uses it) through sessions
that write anything anywhere, to the clean-up: contracts restored, what the
plan does not know removed, a slice's strays brought back, prose rejected,
missing files taken from the scaffold; then the report.

**`Proof`** is `proof_run`, phase by phase, for six kinds of project. A phase sees
its own set of defects; a command may time out or not start; a posture may demote a
finding to an advisory; a build receipt lets a later proof skip the build.
`Repair` is the fix loop between two proofs.

**`BuildFixes`** runs the list of deterministic rewrites, pass after pass, over projects of
nine kinds; a project is a record of what the rewrites look at (`p`), `at` the rewrite that
is next. **`Floor`** follows a brief, as a set of signals, through the four places that
decide on a starter, to a tree in which every path has an origin: the session, the starter,
the back-fill, a shim.

**`Ladder`** is the visual evidence: liveness shoots pages of a version and keeps the shots
under a fingerprint (`candidate`), the proof ladder reuses or repeats them, and pages of
`tree` are edited, and edited back, meanwhile. **`RequirementTrace`** gathers an observation
for each kind of acceptance id, binds it to tree, runtime inputs, contract and run
(`binding`, `minted`), compiles the trace and settles it at delivery.

**`Delivery`** is the long tail of `_start_build`. Every piece of evidence carries the
version of the tree it was taken from, and each gate is an action with its own effect
on `verdict`, `findings` and the tree. `Drift` is a child or an editor that writes at an
await, `SwitchPosture` the operator who edits the posture. What gates look at is `condition`.

### Model calls

**`AgentSession`** is the loop over turns of a tool-calling model: one answer is
a batch of calls, a truncated or rejected answer, text or silence, and each guard
(churn, auxiliary helpers, stagnation, no writes, finish denied) is an action with
its counter. **`CliSession`** is a local agent as a subprocess: events, silence,
overrun, end of its stream, exit, the reaping with terminate and kill, the
verdict, and a prompt that is sent once more. **`Budget`** is the tracker of each
process over a ledger file: `tx` is the transaction with its lock, read, change and
write as separate steps. **`Failover`** is the walk of a call over a ladder of models that
other calls quarantine and release. **`ModelRouter`** has the snapshots of the provider's
catalog in the process (`live`), on the dashboard (`web`) and in a build (`build`), the
locks and the cached fallbacks; its properties speak of every answer it could give.
**`Costs`** slices the one list of calls, by owner, into builds and stages, and settles them
once or again; the guard counts the events of all subscriptions.

### Projects after their build

**`Improve`** is `improve()` from its lock over worktree, proof and comparison to the
journalled delivery: a file is moved aside, linked in, or restored in one step, and
between two of them may come an edit, a fault or a crash. **`Reverify`** has the two
routes that change a finished project, `visual_editor_apply` and `reverify_project`,
with the lock of one and the claim of the other. **`Previews`** has the launches and
stops of a preview over the containers, volumes and networks that Docker holds;
`Plan` is the sequence of docker commands and `Remove` each removal. **`Deployments`** has
attempts and rollbacks of several processes over the manifest. **`Candidate`** has
self-changes that are verified in a worktree and squashed or fast-forwarded onto a main
branch on which others commit.

**`Repairs`** is a repair of a worktree by an agent: `before` and `after` are the trees its
session is judged by, `archive` what is retained when it failed. **`Copies`** has an importer
and a recoverer that inventory a source, copy it, and publish under a name others want,
while somebody edits the source and undoes the edit. **`VisualEditor`** has the requests that
compare the content they were made against under a lock, and people who edit by hand
without it; a file is the sequence of its elements. **`ProductSpec`** has the revisions of a
contract, the research that adds ideas, and a promotion that replaces the folder the lock
lies in.

### What the factory remembers

**`Skills`** is the life of one capability over files that two processes share without a
lock: `journal` only grows, `current` and `held` are the objects in memory, `vetoed` and
`hasty` history. **`Outcomes`** is the learning path of builds that overlap: what advised a
build, its models and its repairs are credited step by step, each step an await where a
cancellation, a crash or another build may come. **`Bench`** has benchmark runs that
checkpoint a whole ledger into a file, and evaluations that hash, load and compare two of
them. **`EventLog`** is the queue between the bus and the database with its worker, `flush()`
and `close()`. **`BuildRows`** has the three writers of a build's row and the list that merges
them in two steps.

The header of each module says what it abstracts from.

### Composition: `ProvenParts`, `MCParts`, `MCBuild`, `MCLive`

`MCParts`, `MCBuild` and `MCLive` are unions: a behaviour chooses a `part` and is a behaviour of
that part's module at the bounds given there. The parts of `MCParts` come in eight families
(`Originals`, `Folders`, `Judgements`, `Passes`, `Sessions`, `Calling`, `Counts`, `Fixed`), so
that TLC looks at a family's actions and properties only in states of that family. The parts share no state; `x1`, `x2`,
... hold the variables of whichever part was chosen, so a state costs no more than the
part's own. `Explored` is the set of parts that a run looks at: all of them in a passing run, one in a run
that ends in a violation. `MCBuild` has the graph and `Delivery` (their union is defined at the end of
`GraphExecutorProofs`, where the theorems about it are), `MCLive` the submissions of `MCOrchestrator`, a graph,
previews and gates under fairness; `MCCortex` holds the definitions of the instances of `Cortex`. `Reverify`,
`BuildFixes` and the late answer of `ApprovalGate` need no module of their own.

`ProvenParts`, which `MCParts` extends, has the parts that theorems are proved about, their
properties, and the proofs. Its parts take their parameters from constants, which `Parts.cfg` gives
their values; `ProvenSpec` only says that a behaviour that chose such a part is one of its module, so every
behaviour that TLC explores is one of those the theorems speak of.

## 3. The runs

| Run | Instance | Shows |
|---|---|---|
| Build | a graph of four nodes over overlapping write sets, two of them cacheable, one with a retry and two dependencies, a group of one, two slots, fresh or forked: two disturbances, that is, cancellations (of the run or of the awaiting task, one each) and crashes, and two resumes; or a delivery of six kinds of stack, three versions of the tree, one fix attempt, one failing gate, and one stray write or edit of the posture | `DependenciesFirst`, `VerdictSound`, `AttemptsSound`, `NothingClashes`, `NeverStalled`, `CancelledForGood`, `NoRedo` and the refinement `KeepsPromise`; `GoIsOfTheDeliveredTree`, `GoIsUnblocked`; the types of both (`BuildTypes`) |
| CortexDecisions | a tuning and a feature of one key, a call of approve(), a restart, all combinations of the settings that differ in effect; fairness | `NoUnapprovedChange`, `OneOpen`, `Remembered`, `ApprovalSettles` |
| Live | three of four submissions of two keys, two agents and one slot, a retry with healing, a cache of one result, two cancellations; a graph of three nodes with a retry, a resume, a cancel and a cancelled drive; two launches and a stop of a preview with a failing command; two builds of three gates; fairness | `SingleFlight`, `Settles`, the refinement `KeepsIdempotency`; `DrivesEnd`, `SlotFreed`, `Unattended` |
| Parts | the 43 parts below: the gates, and 42 instances in eight families | the properties below |
| GraphNoVerdict, OrchJoinerLost, GateLateAnswer, CortexLostTuning, ReverifyRace, SkillsRollback, TestsRemoved, SecondCall | the smallest instances with the disagreement, or the part that has it | the findings of section 5 |

`TypesHold` of Parts is the type invariant of every part. The others:

| Part | Instance | Property |
|---|---|---|
| gates | an attended and an automatic build of three gates, with timeouts and a cancellation | `NoSilentShip`, `NoGhostGate` |
| previews | two launches and a stop, one command that fails or one restart | `ShownIsWhole` |
| improve, one | two runs and one mishap (an edit, a late write, a fault); one run with two edits of different content, and three mishaps in all | `OriginalsSafe` |
| editor | two visual edits of a page of three elements, one edit by hand | `EditsStand` |
| contract | two clients, a promotion, research over three projects | `EditsStand` |
| builds | two builds of one name, a call to cancel, a failure, a deletion and a restart | `WorkKept` |
| changes | two edits or two re-verifications, a crash | `GoIsProven` |
| releases, rollbacks | three attempts and a rollback, two and two, from two processes, room for two records | `LiveIsFit` |
| candidates | two self-changes, a commit by another, a crash | `EvidenceHolds` |
| bench, benches | two runs of two cases, an evaluation, a failed write; three runs, two of them into one file, one of other inputs | `EvidenceHolds` |
| credits, shared | one build of two stages and three models, one barred, with an edit, a fault, a cancellation; two builds, one model | `EvidenceHolds` |
| proof, faulty | six kinds of project, two proofs: two defects; one defect and a tool that fails | `PassIsEarned` |
| ladder | two pages, two versions, an edit, a fault, two ladders | `PassIsEarned` |
| trace, compiled | one acceptance id of each of ten kinds, and one more requirement: by the runner with one change, by another caller | `PassIsEarned` |
| session, scanned, batches | two planned files over two models: with a helper, with a scan that finds a defect; one file and answers of three calls | `OkIsWhole` |
| tasks, retries | three tasks of a worktree, one a slice; two with a retry | `ReportIsTrue` |
| slices | up to three files of three kinds, the tests possibly there before | `CodeStageSound` |
| sampling | three candidates, three scores, neighbours tie | `CodeStageSound` |
| keys | four submissions of two keys and of none, a cache of one result, a cancellation | in `TypesHold` |
| cli | an agent and one resend | `NoAgentLeft` |
| calls | two calls over three models, two retries, one fallback | `AttemptsBounded` |
| router, routed | three pairs of tier and profile, three policies, two catalogs or none, two locks, one change; builds under three route policies, one change; an age limit of 1 in 2 units of time | `AttemptsBounded` |
| skills | two processes, two texts, three operations, or two and a fault | `LaterAutomationYields` |
| budget | three callers in two processes, and two of: a midnight, a fault, a next build | `NothingUncounted` |
| events | three events, two of them critical, a queue of one, batches of two, two failed transactions, a cancellation | `NothingUncounted` |
| costs, cost | two overlapping builds, two stages, two calls; one build with calls of every source, one of them late, a failure, a restart | `NothingUncounted` |
| rows | two stages, two failed saves, two cancellations, a restart | `NothingUncounted` |
| repair, repairs | a page, a test and junk, one round, a failed write; two rounds without fault | `RepairsSound` |
| copies | an importer and a recoverer of a source of three files, two edits | `RepairsSound` |
| fixes | nine kinds of project, up to five passes, one failed write | `RepairsSound` |
| floor | briefs of up to two signals (two only where the session is offline), every kind of session | `RepairsSound` |

**Bounds.** Cancellations, crashes, faults, edits and calls are counted and bounded in
the guards (`MaxCancels`, `MaxCrashes`, `MaxFaults`, ...); everything else is finite by
itself. Two actors and one mishap is the least at which each hazard occurs, and the
bounds go beyond where a case needs it. In the graph a second crash and resume show what one
renews and the other keeps. Three submissions of a key are the leader, the joiner and the
late-comer; with one of another key, and room for one result, a success is evicted while it is
still wanted. Three attempts and room for two records let a record fall out while it may be the live
one. Two proofs have one repair, and so one stale receipt, between them. Three models have a first, a
fallback and one beyond the limit. The guards of a session are set to bite after one or two turns, so that
every order of them is reached. Where two actors and every mishap are too many states,
the part bounds the *sum* of the mishaps (`Build`, `builds`), or a second part has one actor and more or all
mishaps (improve and one); where one kind of mishap multiplies with
another, two parts have one each (proof and faulty, session and scanned, releases and
rollbacks). `BuildRows`, `Costs` and `Outcomes` keep the code's limits in small: one report
(the code: 256), room for one lesson, promotion by two builds. Five passes are one more than
`BuildFixes` needs to come to rest. The safety
properties that are proved (section 4) do not depend on any bound. Deadlock is not
checked: every model comes to rest when its calls are over; that nothing
rests too early is what the liveness properties are for.

**Fairness** is only what an event loop and the libraries give. Graph: the driver
and each task go on when ready, transactions end, handlers return or raise, the
watcher polls; nobody has to cancel, crash or resume. Orchestrator: awaits end,
agents return, and the semaphore and the run locks of asyncio are first-in,
first-out. Gate: stages end, timers fire, waiters run; no human has to answer.
Cortex: events are delivered, handlers and benches end; nobody has to decide,
submit or restart. Previews: the event loop runs what is ready, and every docker command ends or
times out; nobody has to launch or stop.
`DrivesEnd` and `ApprovalSettles` are therefore conditional: nothing crashes for
good, and a verdict is owed only where nobody cancelled. Coroutines of `Live` begin once and their ends
are final, so that "what began comes to its end" is stated as `[]<>` of a state in which nobody is under way.

**Mutants.** Each property of a passing run has a definition with a plausible bug
(a dropped guard, a missing reset, a swapped order) under which TLC finds the
property violated; they stand next to the definitions they replace.

## 4. The proofs

All theorems hold for every value of the constants that the named assumptions
allow: any graph, number of builds, submissions or proposals, and any bound.

**GraphExecutorProofs** (`GraphAssumption`, `LimitAssumption`, `BoundAssumption`,
`WriteSetAssumption`). `VerdictSound` is not inductive: that a task may not outlive the
verdict depends on where the driver stands, and that SUCCEEDED is backed on what the driver
believes. `IInv` adds `TaskInv` (where tasks can exist), `ViewInv` (the driver's dictionary
against the disk; a cancellation is the only thing that lets them differ),
`PublishedInv` (a node ready, running or in commit has its dependencies published) and
`RunInv`. `Invariance` proves it; `TypeCorrect`, `DependenciesFirstHolds`,
`SuccessKeptHolds`, `VerdictHolds` and `NeverStalledHolds` follow. `NeverStalled`
uses the topological order: of the unfinished nodes the first in the order is
runnable. `NoRedoHolds` and `CancelledForGoodHolds` are action properties proved
from `IInv`, and `PromiseKept` is the refinement, step by step. `NothingClashesHolds` needs
`ClashInv`: two running nodes with overlapping write sets were never started in one wave, which
rests on the choice of a wave and not on any state (`WriteSetAssumption` only says that
overlapping is symmetric). `AttemptsSoundHolds` needs `BudgetInv` and `AttemptInv`: what the attempts
of a node add up to in each state it can be in, across retries, crashes and recoveries.

**DeliveryProofs** (`Bounded`: there is at least one version of the tree, the other
bounds are naturals). `GoIsOfTheDeliveredTree` and `GoIsUnblocked` say what a delivered go rests on, and
neither is inductive: the evidence was gathered many phases before. `DInv` adds `OrderInv` (no finding
before the first fold, a verdict is flipped up by self-healing alone, delivered only when settled),
`ReviewInv` (a go is the reviewer's, and a terminal review is of the source as it stands), `McpInv`,
`FindingInv` (behind a go only the visual finding may stand, and it may flip back only
while the later proof passed), `ProofInv` and `DeliveredInv`. The proof follows the code: every gate
is shown to lower the verdict only (`GatesLower`, `OthersLower`), and the four
places that may raise one (a stage, a refreshed review, the combined fold, the liveness
repair) each have a lemma of what they require.
The run Build checks these properties in the union with the graph; the end of **GraphExecutorProofs**
proves them there as well (`BuildTypesHold`, `GoIsOfTheDeliveredTreeHolds`, `GoIsUnblockedHolds`), under
`DeliveryAllowed`, which says `Bounded` of the constants of the run and which TLC evaluates there.

**OrchestratorProofs** (`OrchestratorAssumption`). `FlightInvariance` proves
`TypeOK /\ RetryInv /\ FlightInv`: a key is taken exactly while its leader runs, and
who joins has a leader of the same key. `TypeCorrect`, `SingleFlightHolds` and
`JoinersHaveALeaderHolds` follow. `IdempotencyKept` is the refinement, for any number of keys, any size of the
cache and any eviction. It adds `CacheInv` (who is cached had a success, and nobody works on a key whose
success is cached) and `SourceInv` (a leader is its own source, a joiner's is another, and a future that is set
holds its leader's own answer). A step that stores a success is `Finish` of the service, whose `Remember`
forgets the same oldest entry.

**CortexProofs** (`CortexAssumption`). None of the three properties is inductive.
`WorkInv` says that a worker is alone with its proposal and finds the status it
left, unless a decision came in between (`hasty`); `ClearInv` carries the approval
a change needs along: to what is approved, being made, on disk, and in a
snapshot, which may come back to disk; `KeptInv` that what is on disk, or in a
snapshot, stems from an approval. `NoUnapprovedChangeHolds`, `OneOpenHolds` and
`RememberedHolds` follow. `ApplyNeedsNoHuman` is the lemma about `_decide()` alone.

**ProvenParts** has the proofs about the gates and the parts of Parts: first about each module, from its
`IInv`, then about the parts together, under `InstancesAllowed`, which says of each instance
what its proof needs of the constants, and which TLC evaluates in Parts.

- *Gates* (`GateAssumption`): `NoSilentShip` with `Given` (an approval in the store is one that a caller
  was told of) and `OneGate` (a build waits at its last registered approval, and has none when it
  does not wait), and `NoGhostGate` from the same invariant.
- *Command line sessions* (`MaxHeals` is a natural): `NoAgentLeft` with `WatchInv`, that of all agents
  of a session only the newest may be live, and that one only while the session streams.
- *Sessions of an agent* (`Limits`: the planned files are finitely many): `OkIsWhole` with `WorkInv`,
  that what the loop counts as missing is never less than what is, whichever calls of a batch failed.
  The count, not the tree, decides that a session is over; the lemma `MissingCounts` ties the two.
- *Tasks of a worktree* (`Deliverables`: tasks and planned files are told apart from nobody and from the
  files that were there): `ReportIsTrue` with `LockInv`, that all tasks that are not gone share one entry of
  the table of locks, so that no task waits at a lock that was dropped and made again; `FoundInv` and
  `WritingInv` say what a task has to put back, and what may be prose before the last write.
- *Capabilities* (`Libraries`: each thread belongs to a process): `LaterAutomationYields` with `StandsInv`, which is
  what is left of `RollbackStands`: that one fails where automation had read the journal before the rollback was
  recorded (SkillsRollback), and from such a rollback on (`hasty`) nothing is claimed. While any other
  rollback stands it is the last word of the journal, and an automation under way has not read
  the journal yet or brings another text. The lemmas `LatestIs` and `LatestMoves` are about the newest
  of some records, and what another record may change of it.
- *Previews* (`Apart`: launches and stops differ): `ShownIsWhole` and `Retained`. A launch walks a plan;
  `Grows` says that all its plan made so far is there and what it is about to make is remembered, and
  `Removing` why a removal is complete: what it does not have on its list survived a command
  that failed. Both are about the launches of the living process; what one that died left is excepted.
- *Builds* (`Countable`: folders are numbered from 1): `Recovered`, `FolderKept` and `Settled`, for any
  number of builds, folders, calls and mishaps. `Active` is the heart: until its verdict a build is
  seen as active, in its record or its row, and this alone keeps `delete_project` from its folder. That is
  so as long as no cancellation is on its way; `Tabled` ties a cancellation to a call that waits for it, and
  `Settles` says that where record and row of a finished build disagree, such a call is still to write
  both. `BuildsStep` first shows that a step of one build leaves the others as they were.

`OriginalsSafe`, `GoIsProven` and `LiveIsFit` are theorems of `ProvenParts` too; what they rest on stands at the
ends of the next three modules, after the invariants it needs. Lemmas such as `TwoRunsImplemented` show that a
behaviour of the part is one of the module.

**Improve** (`Parameters`: what runs and others write can be told apart, and nobody
writes the same content twice). The three promises about originals and `NothingUnproven` each
need to know where a run can stand with what in its journals. `LockInv` (who works
at the project has its locks, alone) and `JournalInv` (what staging, backup, journal and snapshot hold at
each step of the delivery) carry the rest: `CleanInv` follows what a late child
wrote from the worktree up to each comparison that stops it, and gives `NothingUnprovenHolds`; `RecoverableHolds`
needs of `JournalInv` that the backup is the preimage from the backup's end to the commit; `KeptInv` says that until
a run moves files, each source file is what the run found or what others have made of it, and gives
`PreservedIsTrueHolds`. `NoEditLostHolds` is the hard one: `EditInv` says that a run knows only edits
that were made, and that its preimage differs from every edit that is still owed. An owed edit is thus told from
what a move expects and is put into the journal when it is moved, and the journal is dropped only when it
equals the preimage. The proof attempt
corrected the model. With every edit by others written as one content, a second edit of a file was
mistaken for the first by the model's comparison, which compares contents as the code does, and with two
edits `NoEditLost` failed for that reason alone. Each edit is now a content of its own (`Edits`): an
edit back to what the run has seen is no loss when it is dropped.

**Reverify** (`Requests`: editors, verifiers and "free" differ). `ThreadInv` ties the claim to
the thread that works under it, also when the request was cancelled and the thread runs
on; with `SwapInv` (what is repaired, proven or swapped exists) it is inductive with the types and
gives `ClaimCoversThreadHolds` and `ProjectKeptHolds`, for visual edits and re-verifications together.
`GoIsProvenHolds` assumes `~Together`, for together it is false (ReverifyRace). `GoInv` says that one kind of
request is at work (`OneKind`), that an edit in progress holds the lock and took the verdict away (`EditInv`), and
that whatever may come to the project's path as a go is proven (`SwapIsProven`): the staged copy, and
the backup that a failed rename brings back.

**Deployments** (`Requests`: at least one record is kept, attempts and rollbacks are different
calls). `LiveIsFit` speaks of the manifest on disk, yet each process may write back one that it read long ago.
`ManifestInv` therefore says `Sound` of every copy that was read as well, with the fit deployments and
the attempts that are over, two sets that only grow. The lemmas are about the operators: a record that is
appended, a history cut to `KeepLast`, a rollback's choice of the newest earlier record
(`RecordedIsSound`, `LastIsSound`, `RolledBackIsSound`) keep a manifest sound.

**Only model-checked.** Of Parts these properties have no theorem:

- `EditsStand`, `CodeStageSound`, `NothingUncounted`, `AttemptsBounded` and `RepairsSound` each join several modules, and
  one of these computes with folds or filters over sequences: a contract restored from its history (`ProductSpec`),
  the merge of slices (`Slices`), the calls of a build (`Costs`), the ladder without the quarantined models
  (`Failover`), the rewrites (`BuildFixes`) and the starters (`Floor`). What those compute for every
  input takes induction over the data, so such a property as a whole stays with TLC, also where another of its
  modules could be proved.
- `EvidenceHolds` and `PassIsEarned` need an invariant over many steps of each of their modules and have none yet.
- `TypesHold`: the types of the gates and of the proven parts belong to the proven invariants (of a session
  `WorkInv` has those that the promise needs); those of the other parts are TLC's.

Every liveness property (`DrivesEnd`, `SlotFreed`, `Unattended`, `Settles`, `ApprovalSettles`) is out of this
prover's reach, as ENABLED is. The types of `CortexDecisions` and of the submissions are proved, not run.

## 5. Findings

Eight runs end in a violation of what a comment, a docstring, a document or a test says:

- **GraphNoVerdict**: `_drive` reads the cancel event again after its loop. A
  `cancel()` during the write of the last BLOCKED transition leaves neither the
  cancel branch nor the verdict to be executed, and `execute()` returns a RUNNING run.
- **OrchJoinerLost**: joiners await the leader's bare future, so cancelling one
  joiner cancels the future, and with it the other joiners and later submitters.
- **GateLateAnswer**: an answer given in the pass of the loop in which the timer
  fired is reported as applied, then overwritten by the fallback.
- **CortexLostTuning**: a rejected trial of the ratchet writes back the override
  files as they were before the first bench, and so drops a tuning that was applied,
  and reported durable, meanwhile.
- **ReverifyRace**: `reverify_project` takes a project whose verdict
  `visual_editor_apply` has withdrawn for one that failed its build, since it looks neither
  at `visual_editor.verification_pending` nor at the editor's lock. Its go lands beside
  an edit that no proof has seen. The part `changes` therefore has edits *or*
  re-verifications.
- **SkillsRollback**: `evaluate_pending_capabilities` looks for a record of the operator before
  it evaluates (skill_library.py:1252-1271), and the handler that distills decides before it activates
  (cortex/handlers.py:720). A rollback in between is followed by the activation, and a build is advised by what was
  rolled back, against "explicit rollback decisions remain in force" (docs/SWARM_SKILLS.md:139).
- **TestsRemoved**: the improver compares the tests that are still there after a session
  (code_improver.py:868); one that the session deleted is in none of its lists, against "must fix the code under
  test, not delete/skip/tautologize the assertion" (code_improver.py:574).
- **SecondCall**: the alias configuration is written (proof_run.py:4000) after the rewrites that resolve imports
  (from 3981), so what is imported through the alias is mended by a second call, against "making the whole repair
  converge in one call" (proof_run.py:3966-3970).

Further deviations, met while modelling. Properties that state them, and that the code
violates, are in the modules without a run: `Delivery.FrozenPosture`,
`Delivery.AdvisoryIsRepaired`, `Previews.NoLeak`, `Proof.FailureHasEvidence`,
`Bench.NamesWhatItCompared` and `EventLog.CriticalKept`. None of the following contradicts a property of a passing run; where one is excepted there, its comment says so.

*Graph, orchestrator, gate, Cortex.* A durable cancel request is withdrawn by
`recover_run` (graph_runtime.py:1474); a cancelled task can leave its attempt RUNNING
(2379); a driver overwrites a durable SUCCEEDED with CANCELLED when the awaiting task is
cancelled late (2150), which is why the promise lets it; `resume()` of a run that another
process still drives resets its live nodes (1444, there is no lease); a store exception in
the cache-hit path or the start writes escapes the task (2345); a task cancelled at a
store await frees the store's lock while its transaction still runs in a thread (970).
The self-healing of the orchestrator sets an agent READY that runs another task
(orchestrator.py:257), and a cancelled task leaves its agent BUSY until the next (agent.py:176):
both change routing only. A stage timeout may cancel a submission whose success
is being reported (runner.py:3808). `submit()` of Cortex triages what a human decided during
its event (bootstrap.py:302), and `apply()` runs the handler of a proposal that was
rejected during the event of its approval, or twice under two approvals (bootstrap.py:516),
which is what `hasty` excepts; an APPROVED proposal whose process died blocks its key
until somebody approves it again; a crash in the second bench leaves the unproven
change in place (ratchet.py:114).

*Builds and the code stage.* A delete while the stack of a build is still being chosen is
not refused (`undermined`). A cancelled or raising code session restores only the contracts:
what else it wrote stays, and is the baseline of the next run (code_agent.py:893). The
ordered merge of slices copies each slice's whole worktree (runner.py:8603). A file that
existed before the stage and was rewritten by its owner is thus reverted by the copy in a
slice that merges later (`Exposed` in `Slices`), and a slice that raised overwrites
files of others with strays; slicer.py:40-44 says "Every path still has exactly one
owner, so concurrent completion cannot create a path conflict". Since the copied baseline
counts as written, "slice produced no files" is not seen when there is a baseline. A
best-of-N trajectory that raises with an empty message does not count as degraded
(best_of_n.py:58), and the proof threads of cancelled candidates go on in their trees.

*Delivery and proof.* Advisory failures enter `_fix_loop`, whose `while not proof.passed`
(runner.py:5451) is then never run, against "Advisory means does not block, never not
repaired". The posture is read again mid-build (3194), against "Resolved once per build
and threaded, never re-read mid-build" of gate_posture.py. A proof may fail without a defect or a
timeout (`_entrypoint_check`, proof_run.py:5060).

*Model calls.* A partial failure of `write_files` leaves `planned_missing_count` stale
(llm.py:3976, 4713); a session that cycles through three to five helper paths escapes the churn
guards. A local agent that closes its output without exiting is not terminated, and a resend
may start a second beside it. A ledger save that fails in silence loses spend at the next
reload. The ladder is not capped when the configured model is quarantined.

*Projects.* A restart of a preview that is accepted during the await of a stop is torn
down (routes.py:4208, 4315); the history "running" or "stopped" goes to the newest launch (4328),
and stays "starting" when the task is cancelled before its first step; detached
containers survive a crash of the dashboard. An edit made during the review of a
re-verification is lost at the swap. Cancelling a
deployment forgets an attempt whose provider still completes; `--now --execute`
records nothing; concurrent manifest writes lose records, or undo a rollback. A squash onto
a main that moved leaves an unverified commit when the revert is refused; a crash between the merge and its
report leaves READY while main contains it; the restore after a failed squash discards
tracked edits of others.

*Skills and repairs.* A changed upstream text (also A, B, A) and an import with
activation ignore an earlier rollback; concurrent writes of the score sidecar lose updates. The path of one call
per file of a repair accepts prose and elided rewrites; binary and large files are not restored after a failed session, and
a cancellation leaves its edits.

*Copies, evaluation, events.* Archives shared by projects are pruned to ten, so an association
may name a removed one; a copier that dies after its mkdir leaves an empty reserved folder. An evaluation
hashes the ledgers and then loads them again, against "content hashes still prove exactly which
input ledgers failed to compare" (cortex/evaluation.py:800, `NamesWhatItCompared`). A
batch of events is given up after three attempts, against "Critical lifecycle evidence is never discarded"
(memory/store.py:186, `CriticalKept`); a later event may overtake a waiting critical one, and a cancel during a
commit repeats the batch. In the ladder of reviews an edit that is edited back while pages are shot is not
seen (the exception of `ReusedIsCurrent`). What the vector store kept in memory is not
found after chroma recovers.

*Deterministic fixes* (`Caused` and `Spoilt` in `BuildFixes` are the exceptions). A second call has something
to do for further reasons than SecondCall: `vitest.config.mjs` imports vitest after the dependencies are
added, wrappers come off one per pass, `_hoist_use_client` skips the strip of
metadata, and textures create `public/`, so that the next pass has another asset base and a placeholder
shadows real art. A rename to cjs leaves a glob that matches nothing; a rename followed by a failed write of
package.json loses the script in the next pass; a Tauri conf that cannot be written
leaves the allowlist unaligned for good; a commented tsconfig that already maps `@/` is unreadable to `_alias_map`.

*Requirements and starters.* An uncompilable trace is a no-go at settlement; the runner's evidence
holds no gate but `mcp_check`. `_clean_agentic_files` gives a prose file the scaffold's text inside an
otherwise complete session, so it may import scaffold files that are absent; a back-filled file stands
among strangers; the planner's word "next.js" escapes `_jsx_only`; names "cli", "python", "static" and "express" are
compared with the React scaffold, so the stub detector never fires by overlap; a slug that differs from the brief's
hides an untouched Python scaffold; a session whose scripts are all prose but whose CSS is large
is delivered as complete; the finance README names an `.env.example` that most starters lack.

*Visual editor and products.* A hand edit between the last comparison and `os.replace` is
overwritten (the exception of `NothingOverwritten`). The product lock lies inside the folder that a promotion
replaces: a save that straddles a promotion and one under the new lock may lose each other, and the same
version number may then name another revision. A deleted backlog item returns with the next
research; research with a failed inspection is recorded but not cached.

*Outcomes.* A settled go whose `_finalize` raises re-enters the learning path: a repair may be promoted
from one build, against "Distinct 'go' builds that must mine the same pair" (the exception of
`PromotedByBuilds`), and lessons are seen once more. When the tournament file cannot be saved,
the match stays in memory and the solo feed counts again (`MatchesCountOnce`). No slot
is reserved by "Exploration slots" (runner.py:839). A cancel after settlement leaves positive
credit. What the store's fallback kept in an outage is not merged back.

*Costs and rows.* `max_loops`, "per build" by its comment (budget.py:54), counts the loops of all overlapping
builds; the end of one detaches the counting of the others, and a reset clears it (`overlapped` in `GuardIsFair`). The stall check
follows a heartbeat directly and cannot trip; in the fix loop and retries the guard only announces; calls after
settlement are in no build's cost; `_compact_cost_truth` shows a cost with estimates as known although
the stage record says otherwise. A cancel that meets the exception handler leaves the store's row "running"
until a restart, and a failed save of a row leaves the list with the older cost.

*Routing.* A failed load of the dashboard's catalog stamps its old list as new, so that a later prime
replaces a newer snapshot, against `prime_live_catalog`'s "refuses to replace a newer snapshot". A Claude model kept in the
paid fallback from before `no_claude` is served offline (`ClaudeAvoided`), and an explicit CLI route with
`no_claude` is admitted and resolves to the stub (`AdmittedRuns`).

## 6. Not modelled

The map covers about 30 % of the implementation's lines; a helper whose lines lie within the operations it
serves has no row of its own. The rest is left out for these reasons.

- *Text and tables.* The 7,100 lines of `agents/_scaffold.py` are templates. `Floor` keeps of a starter the paths it
  writes and what each text refers to, for `FloorStands` and `ChecklistMet` hold only if all of it is answered
  in the tree; what else the texts say is left out. The prompts of the agents, `core/stacks.py`,
  design tokens and benchmark definitions are data. A model of them would be a constant.
- *Scanners.* Most of `proof_run.py`, `security_check.py`,
  `visual_check.py` and `_clean_agentic_files` are pattern matching over generated source. The modules
  take what a scanner reports as a choice over what it can see, since no property here is about how it sees.
- *Reading routes and formatting.* Of the 9,500 lines of `web/routes.py` most
  assemble answers; `cli/main.py` parses and prints.
- *Services with little state of their own*: retrieval, most of memory and observability, chat
  integrations, security policy tables. `AppRunner` is constructed nowhere, the previews have
  replaced it; the brief of the autonomous loop is always absent.

Left out of what is modelled:

Graph: the specialist subgraph, evidence comparison and the review inbox; store
exceptions outside the handlers of `_drive` and of the watcher; a second
cancellation during the cleanup of the first, and one that arrives before the
`try`; two concurrent drives of one run; a group whose members state different
limits is only bounded by the most tolerant running member, and stated so; a crash
between FAILED and READY of a retry is covered as a crash in either state.

Orchestrator: `unregister`, `wait_for_result`, `health_report`. Gate: the audit
log; other exceptions of stages. Cortex: what handlers do, the components that
propose, `stop()`, failures of the mirror, the file lock between processes.

Builds: planning and the stages other than code; writes of the store succeed. Slices:
files that nobody planned, and the finer division of a frontend. Sampling: ties
below the score, which go to the lower index. Code agent: the completion mode, one call per
file. Proof: what a phase sees. Delivery: the wording and the score, and costs. Sessions:
the content of files but for stub and defect. Budget: estimates of a cost before the
call. Previews: ports and probing. Deployment: providers. Candidate: evaluation and archive.

## 7. Plan

Done, in the order of importance: the graph runtime with its abstract promise and
proofs; the orchestrator with the idempotent service and proofs; the approval gate
and Cortex with proofs; the build from its queue over code stage, sessions, proof
and delivery; what changes a project afterwards; spend and failover; self-changes.

Proved: the graph runtime with its refinement, the orchestrator with its own, the gates, Cortex, delivery, the
improvement loop, re-verification, deployments, sessions of both kinds, the tasks of a worktree,
capabilities, previews and builds.

Next, in this order:

1. Modules whose property is nearly inductive: `Failover` (with what is tried a function of the place in
   the ladder) and `Sampling` (`ChosenIsBest`, from the ranking being a total order).
2. Those that need an invariant over many steps: `Candidate` (`MergedIsVerified`: what was
   verified is the tree of the base with the change, and main's tip is that tree while it is
   compared) and `Budget` (`NoSpendLost`, over the two-lock transaction).
3. `Skills` beyond a hasty rollback: which activations may follow one, and what ends them.

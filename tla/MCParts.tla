------------------------------- MODULE MCParts -------------------------------
(***************************************************************************)
(* One run for the parts of the system that share no state: a behaviour    *)
(* chooses a part and is a behaviour of its module, at the bounds below.   *)
(* x1, x2, ... hold the variables of whichever part it is, and the gates   *)
(* of two builds (ApprovalGate, extended here) are the part "gates".       *)
(***************************************************************************)
EXTENDS ProvenParts

CONSTANT Explored  \* the parts that behaviours may be of

PlannedOf == <<{"p1", "p2"}, {"p1", "p2"}, {"p1"}>>
HelperOf == <<{"h1"}, {}, {}>>
ScansOf == <<{}, {"defect"}, {}>>
TurnsOf == <<1, 1, 2>>
EmptyOf == <<2, 2, 1>>
CallsOf == <<1, 1, 3>>
TasksOf == <<{"r1", "r2", "r3"}, {"r2", "r3"}>>
RetriesOf == <<0, 1>>
OneEdit == <<"mine">>
TwoEdits == <<"mine", "yours">>
HomeOf == [a \in {"d1", "d2", "d3", "b1", "b2"} |-> IF a \in {"d3", "b2"} THEN "cli" ELSE "web"]
LibraryOf == [t \in {"w1", "c1"} |-> IF t = "c1" THEN "cli" ELSE "web"]
KindOfText == [f \in {"page", "spec", "icon", "stray"} |->
  CASE f = "spec" -> "test" [] f = "icon" -> "asset" [] OTHER -> "page"]
KindOfOld == [f \in {"page", "spec"} |-> KindOfText[f]]
OutOfTwo == [r \in {"r1", "r2"} |-> IF r = "r1" THEN "baseline" ELSE "candidate"]
SameForAll == [r \in {"r1", "r2"} |-> 1]
OutOfThree == [r \in {"r1", "r2", "r3"} |-> IF r = "r1" THEN "baseline" ELSE "candidate"]
OtherForOne == [r \in {"r1", "r2", "r3"} |-> IF r = "r3" THEN 2 ELSE 1]
ClientOf == [c \in {"c1", "c2", "c3"} |-> IF c = "c3" THEN "p2" ELSE "p1"]
Asked == {"s1", "s2", "s3", "s4"}
KeyOfCall == [s \in Asked |-> CASE s = "s2" -> "k2" [] s = "s4" -> "none" [] OTHER -> "k1"]
OnlyAgent == [s \in Asked |-> {"a1"}]
KindOfFile == [f \in {"ui", "spec", "pkg"} |->
  CASE f = "ui" -> "frontend" [] f = "spec" -> "tests" [] OTHER -> "config"]
ShopPage ==
  LET E(tag, id, cls, text, src, line) ==
        [tag |-> tag, id |-> id, cls |-> cls, text |-> text, src |-> src, line |-> line]
  IN  <<E("a", "", {"btn"}, "Buy now", "", 1), E("a", "", {"btn"}, "{price}", "", 1),
        E("img", "hero", {}, "", "a.png", 2)>>
LicenceOf == [r \in {"big", "small", "dead"} |-> IF r = "small" THEN "gpl" ELSE "mit"]
ScoreOf == [r \in {"big", "small", "dead"} |-> CASE r = "big" -> 2 [] r = "small" -> 1 [] OTHER -> 3]
TierAndProfile ==
  {<<"cheap", "balanced">>, <<"strong", "balanced">>, <<"strong", "cheap_learned">>}
PolicyOf(free, noClaude, backend, optIn, codegen) ==
  [free_only |-> free, no_claude |-> noClaude, backend |-> backend,
   opt_in |-> optIn, codegen |-> codegen, key |-> TRUE, vision |-> "none"]
PolicySet ==
  {PolicyOf(TRUE, TRUE, "auto", TRUE, "none"), PolicyOf(FALSE, TRUE, "openrouter", FALSE, "none"),
   PolicyOf(FALSE, FALSE, "auto", FALSE, "none")}
RoutePolicies ==
  {PolicyOf(TRUE, TRUE, "auto", TRUE, "none"), PolicyOf(FALSE, FALSE, "auto", FALSE, "none"),
   PolicyOf(FALSE, FALSE, "stub", FALSE, "claude_cli")}
CatalogSet ==
  LET M(q, p) == [price |-> p, quality |-> q, created |-> 1, text |-> TRUE]
      dear == <<2, 2, -1>>
      low == <<1, 1, -1>>
  IN  {[m \in {} |-> 0],
       [m \in {"claude", "glm", "coder:free"} |->
          CASE m = "claude" -> M(2, dear) [] m = "glm" -> M(1, low) [] OTHER -> M(1, <<0, 0, -1>>)],
       [grok |-> M(2, low), glm |-> M(1, dear), llama |-> M(0, <<1, -1, -1>>)]}
PinSet ==
  {[tier |-> "cheap", source |-> "runtime", kind |-> "id", name |-> "claude"],
   [tier |-> "strong", source |-> "persisted", kind |-> "newest", name |-> "claude"]}
NoPins == {[tier |-> "none", source |-> "none", kind |-> "none", name |-> "none"]}
NoCatalogs == {[m \in {} |-> 0]}
SliceOf == [r \in {"r2"} |-> {"main"}]

\* Two self-changes and somebody else's commit, a crash.
Candidates == INSTANCE Candidate WITH
  Cand <- {"c1", "c2"}, Other <- {"o1"}, MaxCrashes <- 1, squash <- x1,
  main <- x2, dirty <- x3, at <- x4, base <- x5, verified <- x6,
  tip <- x7, report <- x8, undone <- x9, crashes <- x10

\* Proofs of every kind of project with two defects, repaired once between two;
\* then with one defect and a tool that fails.
Proving == INSTANCE Proof WITH
  Projects <- {"script", "package", "node", "swift", "ios", "static"},
  MaxDefects <- 2, MaxFaults <- 0, MaxProofs <- 2, pc <- x1, kind <- x2,
  script <- x3, lab <- x4, defects <- x5, passed <- x6, detail <- x7,
  advisory <- x8, unassessed <- x9, late <- x10, seam <- x11,
  receipt <- x12, proofs <- x13, faults <- x14

Faulty == INSTANCE Proof WITH
  Projects <- {"script", "package", "node", "swift", "ios", "static"},
  MaxDefects <- 1, MaxFaults <- 1, MaxProofs <- 2, pc <- x1, kind <- x2,
  script <- x3, lab <- x4, defects <- x5, passed <- x6, detail <- x7,
  advisory <- x8, unassessed <- x9, late <- x10, seam <- x11,
  receipt <- x12, proofs <- x13, faults <- x14

\* Submissions of two keys, and one of none, over a cache of one result.
Submits == INSTANCE Orchestrator WITH
  Submission <- Asked, NoOne <- "nobody", KeyOf <- KeyOfCall,
  NoKey <- "none", Agent <- {"a1"}, NoAgent <- "none",
  Capable <- OnlyAgent, Typed <- OnlyAgent, MaxConcurrency <- 1,
  MaxRetries <- 0, CacheSize <- 1, Threshold <- 1, MaxCancels <- 1,
  pc <- x1, leads <- x2, agentOf <- x3, attempt <- x4, outcome <- x5,
  answer <- x6, cache <- x7, inflight <- x8, future <- x9, status <- x10,
  failures <- x11, cancelled <- x12

\* Three calls from two processes and two of: a midnight, a ledger fault,
\* a next build.
Spending == INSTANCE Budget WITH
  Process <- {"p1", "p2"}, Caller <- {"c1", "c2", "c3"}, Home <- ClientOf,
  DayCap <- 2, BuildCap <- 1, MaxFaults <- 1, MaxDays <- 1,
  MaxBuilds <- 1, today <- x1, disk <- x2, mem <- x3, build <- x4,
  builds <- x5, holder <- x6, tx <- x7, at <- x8, spent <- x9,
  sound <- x10, faults <- x11

\* Two calls over a ladder of three models.
Calls == INSTANCE Failover WITH
  Call <- {"x", "y"}, Ladder <- <<"a", "b", "c">>, Retries <- 2,
  MaxFallbacks <- 1, at <- x1, cands <- x2, ci <- x3, attempt <- x4,
  extended <- x5, failed <- x6, late <- x7, tried <- x8, unhealthy <- x9

\* Up to three planned files of three kinds, one of which may be there already.
Divided == INSTANCE Slices WITH
  Planned <- {"ui", "spec", "pkg"}, Kind <- KindOfFile, MinFiles <- 2,
  Before <- {"spec"}, plan <- x1, main <- x2, tree <- x3, at <- x4,
  report <- x5, ended <- x6, phase <- x7

\* Three candidates and three scores, the neighbours among which tie.
Trajectories == INSTANCE Sampling WITH
  N <- 3, MaxScore <- 2, Epsilon <- 1, at <- x1, session <- x2,
  error <- x3, proof <- x4, score <- x5, trees <- x6, winner <- x7,
  main <- x8, report <- x9, phase <- x10

\* A repair of a page and a test that may leave an asset and junk, a write that fails;
\* then two repairs of the page and the test.
Repair == INSTANCE Repairs WITH
  Kind <- KindOfText, Present <- {"page", "spec"}, Junk <- {"stray"},
  Private <- {"page"}, MaxRounds <- 1, MaxFaults <- 1, tree <- x1,
  at <- x2, asked <- x3, before <- x4, after <- x5, todo <- x6, ran <- x7,
  done <- x8, result <- x9, archive <- x10, gone <- x11, rounds <- x12,
  faults <- x13

TwoRepairs == INSTANCE Repairs WITH
  Kind <- KindOfOld, Present <- {"page", "spec"}, Junk <- {},
  Private <- {}, MaxRounds <- 2, MaxFaults <- 0, tree <- x1, at <- x2,
  asked <- x3, before <- x4, after <- x5, todo <- x6, ran <- x7,
  done <- x8, result <- x9, archive <- x10, gone <- x11, rounds <- x12,
  faults <- x13

\* Two benchmark runs of two cases, an evaluation, a write that fails; then three runs,
\* of which two write to one file and one has other inputs.
Benchmark == INSTANCE Bench WITH
  Runs <- {"r1", "r2"}, Evaluator <- {"e1"}, Out <- OutOfTwo,
  Inputs <- SameForAll, Cases <- 2, Repeats <- 1, MinPassed <- 1,
  MaxDrop <- 0, MaxFaults <- 1, disk <- x1, at <- x2, attempts <- x3,
  stage <- x4, hashed <- x5, loaded <- x6, records <- x7, faults <- x8

Benchmarks == INSTANCE Bench WITH
  Runs <- {"r1", "r2", "r3"}, Evaluator <- {"e1"}, Out <- OutOfThree,
  Inputs <- OtherForOne, Cases <- 1, Repeats <- 1, MinPassed <- 1,
  MaxDrop <- 0, MaxFaults <- 0, disk <- x1, at <- x2, attempts <- x3,
  stage <- x4, hashed <- x5, loaded <- x6, records <- x7, faults <- x8

\* Three events, two of them of builds, over a queue of one and batches of two.
Log == INSTANCE EventLog WITH
  Event <- {"e1", "e2", "e3"}, Critical <- {"e2", "e3"}, QueueSize <- 1,
  BatchSize <- 2, MaxAttempts <- 2, MaxFaults <- 2, MaxCancels <- 1,
  todo <- x1, waiting <- x2, queue <- x3, unfinished <- x4, worker <- x5,
  draining <- x6, batch <- x7, tries <- x8, log <- x9, closing <- x10,
  flush <- x11, due <- x12, accepted <- x13, lost <- x14, faults <- x15,
  cancels <- x16, crashed <- x17

\* Two pages of a project of two versions, an edit, a fault, two ladders.
Visual == INSTANCE Ladder WITH
  Routes <- {"home", "page"}, Versions <- {1, 2}, MaxRounds <- 2,
  MaxEdits <- 1, MaxFaults <- 1, MaxLadders <- 2, tree <- x1, fine <- x2,
  mounted <- x3, served <- x4, running <- x5, auditor <- x6, step <- x7,
  round <- x8, before <- x9, proofs <- x10, dirs <- x11, candidate <- x12,
  result <- x13, reused <- x14, seen <- x15, back <- x16, made <- x17,
  ladders <- x18, edits <- x19, faults <- x20

\* The deterministic repairs over every kind of project, a write that fails.
Fixing == INSTANCE BuildFixes WITH
  FixKinds <- {"text", "web", "package", "site", "icons", "shell", "game", "service", "suite"},
  MaxPasses <- 5, MaxWrites <- 1, kind <- x1, p <- x2, start <- x3,
  at <- x4, pass <- x5, quiet <- x6, failures <- x7

\* A contract of two requirements, evidence of every kind for the first, a change;
\* then one that another caller compiles.
Requirements == INSTANCE RequirementTrace WITH
  Callers <- {"runner"},
  Focus <- {"overall", "entrypoint", "artifact", "headless", "gate", "route", "flow", "scenario", "capability", "unknown"},
  MaxChanges <- 1, caller <- x1, stack <- x2, contract <- x3, at <- x4,
  tree <- x5, runtime <- x6, run <- x7, source <- x8, inputs <- x9,
  errors <- x10, extra <- x11, binding <- x12, trace <- x13, ran <- x14,
  minted <- x15, changes <- x16

Compiled == INSTANCE RequirementTrace WITH
  Callers <- {"other"},
  Focus <- {"overall", "entrypoint", "artifact", "headless", "gate", "route", "flow", "scenario", "capability", "unknown"},
  MaxChanges <- 0, caller <- x1, stack <- x2, contract <- x3, at <- x4,
  tree <- x5, runtime <- x6, run <- x7, source <- x8, inputs <- x9,
  errors <- x10, extra <- x11, binding <- x12, trace <- x13, ran <- x14,
  minted <- x15, changes <- x16

\* Briefs of up to two signals, every kind of session.
Starting == INSTANCE Floor WITH
  brief <- x1, plan <- x2, tree <- x3, step <- x4

\* Two visual edits of a page of three elements, and one by hand.
Editing == INSTANCE VisualEditor WITH
  Editor <- {"e1", "e2"}, Page <- ShopPage, Suffix <- "jsx", Limit <- 2,
  MaxOutside <- 1, source <- x1, sheet <- x2, holder <- x3, ed <- x4,
  written <- x5, outside <- x6

\* Two changes of a product contract, research over three projects, a re-verification.
Contracts == INSTANCE ProductSpec WITH
  Client <- {"c1", "c2"}, Repo <- {"big", "small", "dead"},
  Licence <- LicenceOf, Active <- {"big", "small"}, Score <- ScoreOf,
  MaxCards <- 2, MaxPromotions <- 1, spec <- x1, cache <- x2,
  client <- x3, lock <- x4, folder <- x5, copy <- x6, accepted <- x7,
  lost <- x8

\* What one build teaches, of three models and two stages, an edit, a fault, a cancellation;
\* then two builds.
Credits == INSTANCE Outcomes WITH
  Runs <- {"r1"}, Route <- {"m1", "m2", "m3"}, Barred <- {"m3"},
  Evidence <- {"gate", "error", "skipped"}, Stages <- 2, Room <- 1,
  PromoteRepair <- 2, PromoteShape <- 2, DemoteUses <- 1, MaxEdits <- 1,
  MaxFaults <- 1, MaxCancels <- 1, at <- x1, left <- x2, stage <- x3,
  verdict <- x4, status <- x5, shown <- x6, resolved <- x7, pending <- x8,
  used <- x9, handed <- x10, graded <- x11, rows <- x12, fresh <- x13,
  text <- x14, quarantined <- x15, tally <- x16, solo <- x17,
  match <- x18, grades <- x19, uses <- x20, shapes <- x21, repairs <- x22,
  kept <- x23, announced <- x24, edits <- x25, faults <- x26,
  cancels <- x27

Shared == INSTANCE Outcomes WITH
  Runs <- {"r1", "r2"}, Route <- {"m1"}, Barred <- {},
  Evidence <- {"gate"}, Stages <- 1, Room <- 0, PromoteRepair <- 2,
  PromoteShape <- 2, DemoteUses <- 1, MaxEdits <- 0, MaxFaults <- 0,
  MaxCancels <- 0, at <- x1, left <- x2, stage <- x3, verdict <- x4,
  status <- x5, shown <- x6, resolved <- x7, pending <- x8, used <- x9,
  handed <- x10, graded <- x11, rows <- x12, fresh <- x13, text <- x14,
  quarantined <- x15, tally <- x16, solo <- x17, match <- x18,
  grades <- x19, uses <- x20, shapes <- x21, repairs <- x22, kept <- x23,
  announced <- x24, edits <- x25, faults <- x26, cancels <- x27

\* Two builds that overlap, two calls; then one build,
\* calls of every source, one too late, a failure at the end, a restart.
Costing == INSTANCE Costs WITH
  Jobs <- {"b1", "b2"}, Sources <- {"provider"}, Assets <- FALSE,
  Routing <- "openrouter", StageCount <- 2, BuildCap <- 0, MaxLoops <- 1,
  Keep <- 1, Reports <- 1, MaxCalls <- 2, MaxLate <- 0, MaxEvents <- 2,
  MaxFailures <- 0, MaxRestarts <- 0, at <- x1, status <- x2,
  verdict <- x3, stage <- x4, calls <- x5, base <- x6, stageBase <- x7,
  records <- x8, reports <- x9, manifest <- x10, spent <- x11,
  loops <- x12, subs <- x13, mine <- x14, events <- x15,
  overlapped <- x16, rejected <- x17, late <- x18, failures <- x19,
  restarts <- x20

Cost == INSTANCE Costs WITH
  Jobs <- {"b1"}, Sources <- {"provider", "cli", "unconfirmed", "stub"},
  Assets <- TRUE, Routing <- "cli", StageCount <- 2, BuildCap <- 0,
  MaxLoops <- 2, Keep <- 1, Reports <- 1, MaxCalls <- 2, MaxLate <- 1,
  MaxEvents <- 3, MaxFailures <- 1, MaxRestarts <- 1, at <- x1,
  status <- x2, verdict <- x3, stage <- x4, calls <- x5, base <- x6,
  stageBase <- x7, records <- x8, reports <- x9, manifest <- x10,
  spent <- x11, loops <- x12, subs <- x13, mine <- x14, events <- x15,
  overlapped <- x16, rejected <- x17, late <- x18, failures <- x19,
  restarts <- x20

\* A build of two stages on the list, records that cannot be written, cancellations, a restart.
Listed == INSTANCE BuildRows WITH
  MaxStages <- 2, MaxFaults <- 2, MaxCancels <- 2, MaxRestarts <- 1,
  step <- x1, stages <- x2, spending <- x3, manifest <- x4, live <- x5,
  final <- x6, db <- x7, disk <- x8, copy <- x9, since <- x10,
  shown <- x11, about <- x12, seen <- x13, faults <- x14, cancels <- x15,
  restarts <- x16

\* Three kinds of request under three policies, two catalogs, two locks, and one change;
\* then builds under three policies, of which two need an agent, and one change.
Router == INSTANCE ModelRouter WITH
  Asked <- TierAndProfile, Installable <- {}, Policies <- PolicySet,
  Catalogs <- CatalogSet, Pins <- PinSet, TTL <- 1, MaxTime <- 2,
  MaxChanges <- 1, now <- x1, endpoint <- x2, live <- x3, web <- x4,
  settings <- x5, clis <- x6, pin <- x7, cache <- x8, disk <- x9,
  build <- x10, changes <- x11

Routed == INSTANCE ModelRouter WITH
  Asked <- {<<"strong", "balanced">>}, Installable <- {"claude_cli"},
  Policies <- RoutePolicies, Catalogs <- NoCatalogs, Pins <- NoPins,
  TTL <- 1, MaxTime <- 2, MaxChanges <- 1, now <- x1, endpoint <- x2,
  live <- x3, web <- x4, settings <- x5, clis <- x6, pin <- x7,
  cache <- x8, disk <- x9, build <- x10, changes <- x11

\* An import and a recovery of one source under one name, two edits and deletions.
Copying == INSTANCE Copies WITH
  Importer <- {"i1"}, Recoverer <- {"r1"}, File <- {"a", "b", "env"},
  Retained <- {"a"}, Private <- {"env"}, MaxEdits <- 2, text <- x1,
  stamp <- x2, name <- x3, at <- x4, listed <- x5, copy <- x6,
  origin <- x7, placed <- x8, edits <- x9, deletions <- x10

\* The variables a part has no use for.
Unused27 == x27 = ""
Unused21 ==
  x21 = "" /\ x22 = "" /\ x23 = "" /\ x24 = "" /\ x25 = "" /\ x26 = ""
  /\ Unused27
Unused20 == x20 = "" /\ Unused21
Unused18 == x18 = "" /\ x19 = "" /\ Unused20
Unused17 == x17 = "" /\ Unused18
Unused15 == x15 = "" /\ x16 = "" /\ Unused17
Unused14 == x14 = "" /\ Unused15
Unused13 == x13 = "" /\ Unused14
Unused12 == x12 = "" /\ Unused13
Unused11 == x11 = "" /\ Unused12
Unused10 == x10 = "" /\ Unused11
Unused9 == x9 = "" /\ Unused10
Unused8 == x8 = "" /\ Unused9
Unused7 == x7 = "" /\ Unused8
Unused5 == x5 = "" /\ x6 = "" /\ Unused7
Unused1 == x1 = "" /\ x2 = "" /\ x3 = "" /\ x4 = "" /\ Unused5
Unused28 == TRUE

Kept27 == UNCHANGED <<x27>>
Kept21 == UNCHANGED <<x21, x22, x23, x24, x25, x26>> /\ Kept27
Kept20 == UNCHANGED <<x20>> /\ Kept21
Kept18 == UNCHANGED <<x18, x19>> /\ Kept20
Kept17 == UNCHANGED <<x17>> /\ Kept18
Kept15 == UNCHANGED <<x15, x16>> /\ Kept17
Kept14 == UNCHANGED <<x14>> /\ Kept15
Kept13 == UNCHANGED <<x13>> /\ Kept14
Kept12 == UNCHANGED <<x12>> /\ Kept13
Kept11 == UNCHANGED <<x11>> /\ Kept12
Kept10 == UNCHANGED <<x10>> /\ Kept11
Kept9 == UNCHANGED <<x9>> /\ Kept10
Kept8 == UNCHANGED <<x8>> /\ Kept9
Kept7 == UNCHANGED <<x7>> /\ Kept8
Kept5 == UNCHANGED <<x5, x6>> /\ Kept7
Kept1 == UNCHANGED <<x1, x2, x3, x4>> /\ Kept5
Kept28 == TRUE

PartsInit ==
  /\ part \in Explored
  /\ Init
  /\ \/ part = "gates" /\ Unused1
     \/ part = "previews" /\ Preview!Init /\ Unused17
     \/ part = "improve" /\ TwoRuns!Init /\ Unused20
     \/ part = "one" /\ OneRun!Init /\ Unused20
     \/ part = "builds" /\ TwoBuilds!Init /\ Unused21
     \/ part = "changes" /\ Changes!Init /\ Unused14
     \/ part = "releases" /\ Releases!Init /\ Unused8
     \/ part = "rollbacks" /\ Rollbacks!Init /\ Unused8
     \/ part = "candidates" /\ Candidates!Init /\ Unused11
     \/ part = "proof" /\ Proving!Init /\ Unused15
     \/ part = "faulty" /\ Faulty!Init /\ Unused15
     \/ part = "session" /\ Session(1)!Init /\ Unused27
     \/ part = "scanned" /\ Session(2)!Init /\ Unused27
     \/ part = "batches" /\ Session(3)!Init /\ Unused27
     \/ part = "keys" /\ Submits!Init /\ Unused13
     \/ part = "cli" /\ Agents!Init /\ Unused12
     \/ part = "budget" /\ Spending!Init /\ Unused12
     \/ part = "calls" /\ Calls!Init /\ Unused10
     \/ part = "tasks" /\ Worktree(1)!Init /\ Unused10
     \/ part = "retries" /\ Worktree(2)!Init /\ Unused10
     \/ part = "slices" /\ Divided!Init /\ Unused8
     \/ part = "sampling" /\ Trajectories!Init /\ Unused11
     \/ part = "skills" /\ Advice!Init /\ Unused12
     \/ part = "repair" /\ Repair!Init /\ Unused14
     \/ part = "repairs" /\ TwoRepairs!Init /\ Unused14
     \/ part = "bench" /\ Benchmark!Init /\ Unused9
     \/ part = "benches" /\ Benchmarks!Init /\ Unused9
     \/ part = "events" /\ Log!Init /\ Unused18
     \/ part = "ladder" /\ Visual!Init /\ Unused21
     \/ part = "fixes" /\ Fixing!Init /\ Unused8
     \/ part = "trace" /\ Requirements!Init /\ Unused17
     \/ part = "compiled" /\ Compiled!Init /\ Unused17
     \/ part = "floor" /\ Starting!Init /\ Unused5
     \/ part = "editor" /\ Editing!Init /\ Unused7
     \/ part = "contract" /\ Contracts!Init /\ Unused9
     \/ part = "credits" /\ Credits!Init /\ Unused28
     \/ part = "shared" /\ Shared!Init /\ Unused28
     \/ part = "costs" /\ Costing!Init /\ Unused21
     \/ part = "cost" /\ Cost!Init /\ Unused21
     \/ part = "rows" /\ Listed!Init /\ Unused17
     \/ part = "router" /\ Router!Init /\ Unused12
     \/ part = "routed" /\ Routed!Init /\ Unused12
     \/ part = "copies" /\ Copying!Init /\ Unused11

\* The parts, by the kind of promise that is checked of them.
Originals == {"improve", "one", "editor", "contract"}
Folders == {"previews", "builds", "changes", "releases", "rollbacks"}
Judgements == {"candidates", "bench", "benches", "credits", "shared"}
Passes == {"proof", "faulty", "ladder", "trace", "compiled"}
Sessions == {"session", "scanned", "batches", "tasks", "retries", "slices",
  "sampling"}
Calling == {"keys", "cli", "calls", "skills", "router", "routed"}
Counts == {"budget", "events", "costs", "cost", "rows"}
Fixed == {"repair", "repairs", "copies", "fixes", "floor"}

EveryPart ==
  {"gates"} \cup Originals \cup Folders \cup Judgements \cup Passes \cup Sessions
    \cup Calling \cup Counts \cup Fixed

Rest == UNCHANGED <<vars, part>>

OriginalsNext ==
  \/ part = "improve" /\ TwoRuns!Next /\ Kept20
     /\ x17' + x18' + x19' <= 1
  \/ part = "one" /\ OneRun!Next /\ Kept20
     /\ x17' + x18' + x19' <= 3
  \/ part = "editor" /\ Editing!Next /\ Kept7
  \/ part = "contract" /\ Contracts!Next /\ Kept9

FoldersNext ==
  \/ part = "previews" /\ Preview!Next /\ Kept17
     /\ x15' + x16' <= 1
  \/ part = "builds" /\ TwoBuilds!Next /\ Kept21
     /\ x18' + x19' + x20' <= 1
  \/ part = "changes" /\ Changes!Next /\ Kept14
  \/ part = "releases" /\ Releases!Next /\ Kept8
  \/ part = "rollbacks" /\ Rollbacks!Next /\ Kept8

JudgementsNext ==
  \/ part = "candidates" /\ Candidates!Next /\ Kept11
  \/ part = "bench" /\ Benchmark!Next /\ Kept9
  \/ part = "benches" /\ Benchmarks!Next /\ Kept9
  \/ part = "credits" /\ Credits!Next /\ Kept28
  \/ part = "shared" /\ Shared!Next /\ Kept28

PassesNext ==
  \/ part = "proof" /\ Proving!Next /\ Kept15
  \/ part = "faulty" /\ Faulty!Next /\ Kept15
  \/ part = "ladder" /\ Visual!Next /\ Kept21
  \/ part = "trace" /\ Requirements!Next /\ Kept17
  \/ part = "compiled" /\ Compiled!Next /\ Kept17

SessionsNext ==
  \/ part = "session" /\ Session(1)!Next /\ Kept27
  \/ part = "scanned" /\ Session(2)!Next /\ Kept27
  \/ part = "batches" /\ Session(3)!Next /\ Kept27
  \/ part = "tasks" /\ Worktree(1)!Next /\ Kept10
  \/ part = "retries" /\ Worktree(2)!Next /\ Kept10
  \/ part = "slices" /\ Divided!Next /\ Kept8
  \/ part = "sampling" /\ Trajectories!Next /\ Kept11

CallingNext ==
  \/ part = "keys" /\ Submits!Next /\ Kept13
  \/ part = "cli" /\ Agents!Next /\ Kept12
  \/ part = "calls" /\ Calls!Next /\ Kept10
  \/ part = "skills" /\ Advice!Next /\ Kept12
     /\ x8' + x9' <= 3
  \/ part = "router" /\ Router!Next /\ Kept12
  \/ part = "routed" /\ Routed!Next /\ Kept12

CountsNext ==
  \/ part = "budget" /\ Spending!Next /\ Kept12
     /\ x1' + x5' + x11' <= 2
  \/ part = "events" /\ Log!Next /\ Kept18
  \/ part = "costs" /\ Costing!Next /\ Kept21
  \/ part = "cost" /\ Cost!Next /\ Kept21
  \/ part = "rows" /\ Listed!Next /\ Kept17

FixedNext ==
  \/ part = "repair" /\ Repair!Next /\ Kept14
  \/ part = "repairs" /\ TwoRepairs!Next /\ Kept14
  \/ part = "fixes" /\ Fixing!Next /\ Kept8
  \/ part = "floor" /\ Starting!Next /\ Kept5
  \/ part = "copies" /\ Copying!Next /\ Kept11

PartsNext ==
  \/ part = "gates" /\ Next /\ Kept1 /\ UNCHANGED part
  \/ part \in Originals /\ OriginalsNext /\ Rest
  \/ part \in Folders /\ FoldersNext /\ Rest
  \/ part \in Judgements /\ JudgementsNext /\ Rest
  \/ part \in Passes /\ PassesNext /\ Rest
  \/ part \in Sessions /\ SessionsNext /\ Rest
  \/ part \in Calling /\ CallingNext /\ Rest
  \/ part \in Counts /\ CountsNext /\ Rest
  \/ part \in Fixed /\ FixedNext /\ Rest

PartsSpec == PartsInit /\ [][PartsNext]_partsVars

-----------------------------------------------------------------------------
\* The variables of every part stay well typed.
TypesHold ==
  /\ part = "gates" => TypeOK
  /\ part \in Originals =>
       /\ part = "improve" => TwoRuns!TypeOK
       /\ part = "one" => OneRun!TypeOK
       /\ part = "editor" => Editing!TypeOK
       /\ part = "contract" => Contracts!TypeOK
  /\ part \in Folders =>
       /\ part = "previews" => Preview!TypeOK
       /\ part = "builds" => TwoBuilds!TypeOK
       /\ part = "changes" => Changes!TypeOK
       /\ part = "releases" => Releases!TypeOK
       /\ part = "rollbacks" => Rollbacks!TypeOK
  /\ part \in Judgements =>
       /\ part = "candidates" => Candidates!TypeOK
       /\ part = "bench" => Benchmark!TypeOK
       /\ part = "benches" => Benchmarks!TypeOK
       /\ part = "credits" => Credits!TypeOK
       /\ part = "shared" => Shared!TypeOK
  /\ part \in Passes =>
       /\ part = "proof" => Proving!TypeOK
       /\ part = "faulty" => Faulty!TypeOK
       /\ part = "ladder" => Visual!TypeOK
       /\ part = "trace" => Requirements!TypeOK
       /\ part = "compiled" => Compiled!TypeOK
  /\ part \in Sessions =>
       /\ part = "session" => Session(1)!TypeOK
       /\ part = "scanned" => Session(2)!TypeOK
       /\ part = "batches" => Session(3)!TypeOK
       /\ part = "tasks" => Worktree(1)!TypeOK
       /\ part = "retries" => Worktree(2)!TypeOK
       /\ part = "slices" => Divided!TypeOK
       /\ part = "sampling" => Trajectories!TypeOK
  /\ part \in Calling =>
       /\ part = "keys" => Submits!TypeOK
       /\ part = "cli" => Agents!TypeOK
       /\ part = "calls" => Calls!TypeOK
       /\ part = "skills" => Advice!TypeOK
       /\ part = "router" => Router!TypeOK
       /\ part = "routed" => Routed!TypeOK
  /\ part \in Counts =>
       /\ part = "budget" => Spending!TypeOK
       /\ part = "events" => Log!TypeOK
       /\ part = "costs" => Costing!TypeOK
       /\ part = "cost" => Cost!TypeOK
       /\ part = "rows" => Listed!TypeOK
  /\ part \in Fixed =>
       /\ part = "repair" => Repair!TypeOK
       /\ part = "repairs" => TwoRepairs!TypeOK
       /\ part = "fixes" => Fixing!TypeOK
       /\ part = "floor" => Starting!TypeOK
       /\ part = "copies" => Copying!TypeOK

\* An accepted visual edit or revision of the contract replaces what its author saw, and
\* that only (_atomic_compare_and_swap, ProductSpecStore.update).  Excepted are an edit
\* by hand that falls between the last comparison and os.replace, which no lock keeps
\* out, and what was accepted while a promotion put another folder in the place of the
\* project's.
EditsStand ==
  part \in Originals =>
    /\ part = "editor" => Editing!EditorsAgree
    /\ part = "contract" => Contracts!ContractHolds

\* A merge of a self-change that is reported intact is the tree that was verified, and
\* one reported as rolled back is off the tip (CortexCandidateEngine); a ledger that says
\* completed is one whole run, and a review of a change rests on two that were made of
\* the same inputs (run_golden, evaluate_candidate); and what advised a build, its models
\* and what it teaches are credited only as far as its verdict earns (_record_learning,
\* _grade_lessons, _flush_tournament), and once, but for two cases: a finalization that
\* failed and is gone through again, and a save of the library that failed, may count the
\* matches and the repairs of one build twice.
EvidenceHolds ==
  part \in Judgements =>
    /\ part = "candidates" => Candidates!MergedIsVerified
    /\ part = "bench" => Benchmark!CompletedIsWhole /\ Benchmark!ReviewIsEarned
    /\ part = "benches" => Benchmarks!CompletedIsWhole /\ Benchmarks!ReviewIsEarned
    /\ part = "credits" => Credits!CreditsHold
    /\ part = "shared" => Shared!CreditsHold

\* A proof that passed leaves no defect that its phases could see (proof_run); visual
\* evidence that passed is whole, of pages that pass, current when it is reused, and
\* never lost (ProofLadderCoordinator, promote_reusable_web_proof); a requirement that is
\* shown as proven has evidence of the tree that is there, and one that is not blocks the
\* delivery (compile_requirement_trace).
PassIsEarned ==
  part \in Passes =>
    /\ part = "proof" => Proving!PassIsEarned
    /\ part = "faulty" => Faulty!PassIsEarned
    /\ part = "ladder" =>
         Visual!LadderIsEarned /\ Visual!ReusedIsCurrent /\ Visual!PlaceKept
    /\ part = "trace" =>
         /\ Requirements!ProvenIsEarned /\ Requirements!NothingHidden
         /\ Requirements!BoundBlocks
    /\ part = "compiled" =>
         Compiled!ProvenIsEarned /\ Compiled!NothingHidden /\ Compiled!BoundBlocks

\* Without a ledger fault the ledger holds what the calls of its day have cost, over
\* processes and a midnight, and the caps hold (BudgetTracker); an event that was accepted
\* is recorded, or reported as given up, once and in its place, and a flush that returns
\* says so (_EventPersistenceSink); a build costs what its own calls cost, once, and the
\* list of builds says of the cost it shows how far it is known (CostTracker,
\* _merge_live_build_history).
NothingUncounted ==
  part \in Counts =>
    /\ part = "budget" => Spending!NoSpendLost /\ Spending!CapsBind
    /\ part = "events" =>
         Log!NothingForgotten /\ Log!FlushedIsRecorded /\ Log!InOrder
    /\ part = "costs" => Costing!CostsHold
    /\ part = "cost" => Cost!CostsHold
    /\ part = "rows" => Listed!RowsAgree

\* No call tries a model more often than its retries allow, nor more models than its
\* fallbacks (LLMClient._resilient_call), and none goes where its settings, its lock or the
\* price its tier promises rule it out (ModelRouter, LLMClient._resolve_backend).
AttemptsBounded ==
  part \in Calling =>
    /\ part = "calls" => Calls!AttemptsBounded
    /\ part = "router" => Router!RouteHolds
    /\ part = "routed" => Routed!RouteHolds

\* A code stage in which no slice failed or degraded holds the final version of every
\* planned file, and of the candidates of best of N the one that is merged is no worse
\* than those thrown away (_run_code_parallel_slices, sample, select).
CodeStageSound ==
  part \in Sessions =>
    /\ part = "slices" => Divided!CleanIsWhole
    /\ part = "sampling" => Trajectories!ChosenIsBest

\* A repair changes no text but those it reports, and those are fit to be kept; what is
\* retained of a failed one is what it left; and a project that comes in as a copy is one
\* version of its source, with what was retained, and takes nobody's place; the
\* deterministic repairs come to rest, with no defect left but those they refuse to guess
\* (BuildFixes!Refused) or cause themselves (Caused), and take away what was right only
\* where they are known to spoil it (Spoilt); and a build stands on one starter, whole and
\* filled up to its checklist (CodeImproverAgent, import_project,
\* apply_deterministic_repairs, scaffold_for).  Of an agent's repair, texts that it deleted
\* and repairs during which a write failed, or a child wrote late, are excepted.
RepairsSound ==
  part \in Fixed =>
    /\ part = "repair" =>
         Repair!ChangesAreReported /\ Repair!ReportIsFit /\ Repair!RetainedIsWhole
    /\ part = "repairs" =>
         TwoRepairs!ChangesAreReported /\ TwoRepairs!ReportIsFit /\ TwoRepairs!RetainedIsWhole
    /\ part = "copies" => Copying!OneVersion /\ Copying!NothingOverwritten
    /\ part = "fixes" => Fixing!FixesSound
    /\ part = "floor" => Starting!FloorHolds

-----------------------------------------------------------------------------
(* What the code says of itself, and does not keep.                        *)

\* "a failing-test repair must fix the code under test, not delete/skip/tautologize the
\* assertion" (CodeImproverAgent): it removes no test.
TestsStay == part = "repairs" => TwoRepairs!TestsStay
=============================================================================

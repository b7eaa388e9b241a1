------------------------------- MODULE Costs -------------------------------
(***************************************************************************)
(* What a build has cost, and the guard that stops one that costs too much *)
(* (observability/cost_tracker.py, self_healing/budget.py and their calls  *)
(* in studio/runner.py; studio/build_summary.py for what is shown).  The   *)
(* tracker slices one list of calls, by owner, into builds and stages; a   *)
(* build is settled before it is saved, and settled again when saving it   *)
(* fails or it is cancelled; the reports of the last builds are kept.  The *)
(* guard is one for all builds of a runner: it counts the events of its    *)
(* subscriptions.  A call that has a price costs one; a stage is numbered. *)
(***************************************************************************)
EXTENDS Integers, Sequences, FiniteSets

CONSTANTS
    Jobs,           \* the builds
    Sources,        \* what may be known of the price of a call: "provider",
                    \* "estimate", "cli" (not reported), "unconfirmed", "stub"
    Routing,        \* what their manifests say of the route: "cli", "openrouter"
    Assets,         \* whether external assets may be tried
    StageCount, BuildCap, MaxLoops,     \* of a build: stages, cap, loop limit
    Keep, Reports,  \* pieces of evidence and reports that are kept
    MaxCalls, MaxLate, MaxEvents, MaxFailures, MaxRestarts

NoBase == -1
Nobody == "nobody"
NoReason == ""

VARIABLES
    at, status, verdict,
    stage,      \* stages begun
    calls,      \* budget.calls: whose each is, and its source
    base,       \* _builds: where in calls a build began
    stageBase,  \* _stage_base: where in calls its open stage began
    records,    \* the calls attributed to its stages
    reports,    \* _finished_builds, oldest first
    manifest,   \* cost, evidence kept and truncated, counts by source, settled,
                \* non_shippable_spend, external assets tried
    spent,      \* budget.spent_build: of the build that began, spent or ended last
    loops, subs,    \* of the guard: events counted; subscriptions, once per attach
    mine, events,   \* the sources of the calls a build made until it was settled;
                    \* the events it raised
    overlapped, rejected,   \* another build was there; why the guard rejected it
    late, failures, restarts

run == <<at, status, verdict, stage>>
tracker == <<calls, base, stageBase, records, reports, spent>>
guard == <<loops, subs, events, rejected>>
bounds == <<late, failures, restarts>>
vars == <<run, tracker, manifest, guard, mine, overlapped, bounds>>

Blank == [cost |-> 0, kept |-> <<>>, lost |-> 0, counts |-> [s \in Sources |-> 0],
          settled |-> FALSE, waste |-> -1, assets |-> FALSE]

Init ==
    /\ at = [b \in Jobs |-> "new"] /\ status = [b \in Jobs |-> "running"]
    /\ verdict = [b \in Jobs |-> ""] /\ stage = [b \in Jobs |-> 0]
    /\ calls = <<>> /\ base = [b \in Jobs |-> NoBase]
    /\ stageBase = [b \in Jobs |-> NoBase] /\ records = [b \in Jobs |-> <<>>]
    /\ reports = <<>> /\ manifest = [b \in Jobs |-> Blank]
    /\ spent = 0 /\ loops = 0 /\ subs = 0
    /\ mine = [b \in Jobs |-> <<>>] /\ events = [b \in Jobs |-> 0]
    /\ overlapped = [b \in Jobs |-> FALSE] /\ rejected = [b \in Jobs |-> NoReason]
    /\ late = 0 /\ failures = 0 /\ restarts = 0

Open(b) == at[b] \notin {"new", "closed"}
Count(list, s) == Cardinality({i \in DOMAIN list : list[i] = s})
Price(list) == Count(list, "provider") + Count(list, "estimate")
Put(f, b, x) == [f EXCEPT ![b] = x]

-----------------------------------------------------------------------------
(* The tracker.                                                            *)

\* start_build, and begin_build of the budget.
StartBuild(b) ==
    /\ at[b] = "new" /\ at' = Put(at, b, "open")
    /\ base' = Put(base, b, Len(calls)) /\ spent' = 0
    /\ reports' = SelectSeq(reports, LAMBDA r : r.of # b)
    /\ overlapped' = [x \in Jobs |-> overlapped[x] \/ (Open(x) /\ x # b)
                                     \/ (x = b /\ \E y \in Jobs : Open(y))]
    /\ UNCHANGED <<status, verdict, stage, calls, stageBase, records, manifest, guard,
                   mine, bounds>>

\* A call the client lets through: the build is not over its cap.
Spend(b) ==
    /\ at[b] \in {"open", "main", "stage"} /\ Len(calls) < MaxCalls
    /\ Price(mine[b]) <= BuildCap
    /\ \E s \in Sources :
        /\ calls' = Append(calls, [of |-> b, source |-> s])
        /\ mine' = Put(mine, b, Append(mine[b], s))
        /\ spent' = Price(mine'[b])
    /\ UNCHANGED <<run, base, stageBase, records, reports, manifest, guard, overlapped,
                   bounds>>

\* A call after the settlement, from a task the build left behind or from its
\* end: in the ledger, and in no build's cost.
SpendLate(b) ==
    /\ manifest[b].settled /\ late < MaxLate /\ late' = late + 1
    /\ \E s \in Sources, owner \in {b, Nobody} :
        /\ calls' = Append(calls, [of |-> owner, source |-> s])
        /\ spent' = spent + Price(<<s>>)
    /\ overlapped' = [x \in Jobs |-> overlapped[x] \/ (Open(x) /\ x # b)]
    /\ UNCHANGED <<run, base, stageBase, records, reports, manifest, guard, mine,
                   failures, restarts>>

\* end_stage: the calls of the build since the stage began, once.
Slice(b) == {i \in DOMAIN calls : i > stageBase[b] /\ calls[i].of = b}
EndStage(b) ==
    /\ stageBase' = Put(stageBase, b, NoBase)
    /\ records' = IF stageBase[b] = NoBase THEN records
                  ELSE Put(records, b, Append(records[b], Slice(b)))
\* What a stage's record says of the price of its calls.
StageKnown(of) ==
    {calls[i].source : i \in of} \intersect {"cli", "unconfirmed", "estimate"} = {}

\* end_build: of a build that is open, its calls; else what was reported.
OwnCalls(b) ==
    LET all == SelectSeq(SubSeq(calls, base[b] + 1, Len(calls)), LAMBDA c : c.of = b)
    IN  [i \in DOMAIN all |-> all[i].source]
Reported(b) ==
    IF base[b] # NoBase THEN OwnCalls(b)
    ELSE LET old == SelectSeq(reports, LAMBDA r : r.of = b)
         IN  IF old = <<>> THEN <<>> ELSE old[1].own
Kept(list, n) == IF Len(list) <= n THEN list ELSE SubSeq(list, Len(list) - n + 1, Len(list))
EndBuild(b) ==
    /\ base' = Put(base, b, NoBase)
    /\ IF base[b] = NoBase THEN UNCHANGED <<reports, spent>>
       ELSE /\ reports' = Kept(Append(reports, [of |-> b, own |-> OwnCalls(b)]), Reports)
            /\ spent' = Price(mine[b])

-----------------------------------------------------------------------------
(* The runner.                                                             *)

\* _settle_build_cost: a duplicate never erases a cost, nor the evidence.
Unshipped(st, v) == st \in {"cancelled", "completed_no_go", "failed", "interrupted"}
                    \/ (st = "completed" /\ v = "no_go")
Evidence(list) == SelectSeq(list, LAMBDA s : s # "stub")
SettleCost(b, st, v) ==
    LET list == Reported(b)
        seen == Evidence(list)
        m == manifest[b]
        c == IF Price(list) > 0 \/ m.cost = 0 THEN Price(list) ELSE m.cost IN
    /\ EndBuild(b)
    /\ manifest' = Put(manifest, b,
           [m EXCEPT !.settled = TRUE, !.cost = c,
                     !.kept = IF seen = <<>> THEN @ ELSE Kept(seen, Keep),
                     !.lost = IF Len(seen) > Keep THEN Len(seen) - Keep ELSE @,
                     !.counts = IF seen = <<>> THEN @ ELSE [s \in Sources |-> Count(seen, s)],
                     !.waste = IF Unshipped(st, v) THEN c ELSE -1])

\* Before its stages a build may try external assets; then the guard is reset,
\* for everybody, attached once more, and checked.
Tripped == IF spent > BuildCap THEN "budget"
           ELSE IF loops > MaxLoops THEN "loop" ELSE NoReason
GuardReset(b) ==
    /\ at[b] = "open" /\ loops' = 0 /\ subs' = subs + 1
    /\ \E tried \in {FALSE, Assets} : manifest' = [manifest EXCEPT ![b].assets = tried]
    /\ LET why == IF spent > BuildCap THEN "budget" ELSE NoReason IN
        /\ rejected' = Put(rejected, b, why)
        /\ at' = Put(at, b, IF why = NoReason THEN "main" ELSE "broken")
    /\ UNCHANGED <<status, verdict, stage, tracker, events, mine, overlapped, bounds>>

StartStage(b) ==
    /\ at[b] = "main" /\ stage[b] < StageCount
    /\ IF Tripped # NoReason
       THEN /\ rejected' = Put(rejected, b, Tripped) /\ at' = Put(at, b, "broken")
            /\ UNCHANGED <<stage, stageBase, loops, events>>
       ELSE /\ at' = Put(at, b, "stage") /\ stage' = Put(stage, b, stage[b] + 1)
            /\ stageBase' = Put(stageBase, b, Len(calls))
            /\ loops' = loops + subs /\ events' = Put(events, b, events[b] + 1)
            /\ UNCHANGED rejected
    /\ UNCHANGED <<status, verdict, calls, base, records, reports, spent, manifest, subs,
                   mine, overlapped, bounds>>

\* A task is tried again, or a round of the fix loop begins: counted, and
\* announced when it is too much, but only the next stage is refused.
LoopEvent(b) ==
    /\ at[b] = "stage" \/ (at[b] = "main" /\ stage[b] = StageCount)
    /\ events[b] < MaxEvents /\ events' = Put(events, b, events[b] + 1)
    /\ loops' = loops + subs
    /\ UNCHANGED <<run, tracker, manifest, subs, rejected, mine, overlapped, bounds>>

\* _emit_stage_done.
StageDone(b) ==
    /\ at[b] = "stage" /\ at' = Put(at, b, "main") /\ EndStage(b)
    /\ UNCHANGED <<status, verdict, stage, calls, base, reports, spent, manifest, guard,
                   mine, overlapped, bounds>>

\* The settlement of a build whose verdict is settled.
Settle(b) ==
    /\ at[b] = "main" /\ stage[b] = StageCount
    /\ \E v \in {"go", "no_go"} :
        LET st == IF v = "go" THEN "completed" ELSE "completed_no_go" IN
        /\ verdict' = Put(verdict, b, v) /\ status' = Put(status, b, st)
        /\ SettleCost(b, st, v)
    /\ at' = Put(at, b, "finish")
    /\ UNCHANGED <<stage, calls, stageBase, records, guard, mine, overlapped, bounds>>

\* A rejection, an exception or a cancellation, before the settlement or while
\* the manifest is being saved.
Break(b) ==
    /\ \/ at[b] = "broken" /\ UNCHANGED failures
       \/ at[b] \in {"main", "stage", "finish"} /\ failures < MaxFailures
          /\ failures' = failures + 1
    /\ \E st \in {"failed", "cancelled"} :
        LET v == IF st = "failed" /\ verdict[b] = "" THEN "no_go" ELSE verdict[b] IN
        /\ status' = Put(status, b, st) /\ verdict' = Put(verdict, b, v)
        /\ SettleCost(b, st, v)
    /\ EndStage(b) /\ at' = Put(at, b, "ended")
    /\ UNCHANGED <<stage, calls, guard, mine, overlapped, late, restarts>>

Finish(b) ==
    /\ at[b] = "finish" /\ at' = Put(at, b, "ended")
    /\ UNCHANGED <<status, verdict, stage, tracker, manifest, guard, mine, overlapped, bounds>>

\* The finally of the build: every subscription goes, not only its own.
Detach(b) ==
    /\ at[b] = "ended" /\ at' = Put(at, b, "leaving") /\ subs' = 0
    /\ UNCHANGED <<status, verdict, stage, tracker, manifest, loops, events, rejected,
                   mine, overlapped, bounds>>

\* The finally of start(): a build that failed before its stages is closed too.
CloseBuild(b) ==
    /\ at[b] \in {"leaving", "open"} /\ at' = Put(at, b, "closed") /\ EndBuild(b)
    /\ status' = Put(status, b, IF at[b] = "open" THEN "failed" ELSE status[b])
    /\ UNCHANGED <<verdict, stage, calls, stageBase, records, manifest, guard, mine,
                   overlapped, bounds>>

\* The process dies: what it knew is gone, what was not saved too, and its
\* builds are found interrupted.
Cut(b) == Open(b) /\ at[b] \notin {"ended", "leaving"}
Restart ==
    /\ restarts < MaxRestarts /\ restarts' = restarts + 1
    /\ \E b \in Jobs : Open(b)
    /\ at' = [b \in Jobs |-> IF Open(b) THEN "closed" ELSE at[b]]
    /\ status' = [b \in Jobs |-> IF Cut(b) THEN "interrupted" ELSE status[b]]
    /\ verdict' = [b \in Jobs |-> IF Cut(b) THEN "" ELSE verdict[b]]
    /\ manifest' = [b \in Jobs |-> IF Cut(b) THEN Blank ELSE manifest[b]]
    /\ calls' = <<>> /\ reports' = <<>> /\ spent' = 0 /\ loops' = 0 /\ subs' = 0
    /\ base' = [b \in Jobs |-> NoBase] /\ stageBase' = [b \in Jobs |-> NoBase]
    /\ records' = [b \in Jobs |-> <<>>]
    /\ UNCHANGED <<stage, events, rejected, mine, overlapped, late, failures>>

Next == \/ Restart
        \/ \E b \in Jobs : \/ StartBuild(b) \/ Spend(b) \/ SpendLate(b) \/ GuardReset(b)
                           \/ StartStage(b) \/ LoopEvent(b) \/ StageDone(b) \/ Settle(b)
                           \/ Break(b) \/ Finish(b) \/ Detach(b) \/ CloseBuild(b)

Spec == Init /\ [][Next]_vars

-----------------------------------------------------------------------------
(* What is shown.                                                          *)

\* _compact_cost_truth: what the kept evidence and the counts say together.
Total(m, s) == IF m.counts[s] > Count(m.kept, s) THEN m.counts[s] ELSE Count(m.kept, s)
Incomplete(m) == m.lost > 0 /\ m.counts = Blank.counts
Unsettled(b) == ~manifest[b].settled /\ manifest[b].kept = <<>>
                /\ manifest[b].counts = Blank.counts /\ manifest[b].lost = 0
TruthKnown(b) ==
    /\ "cli" \in Sources => Total(manifest[b], "cli") = 0
    /\ ~Incomplete(manifest[b])
    /\ ~(Unsettled(b) /\ Routing = "cli" /\ Unshipped(status[b], verdict[b]))
    /\ ~(Unsettled(b) /\ Routing = "openrouter" /\ manifest[b].cost = 0)
\* External assets have no price: with them there is no total.
TotalKnown(b) == TruthKnown(b) /\ ~manifest[b].assets

-----------------------------------------------------------------------------
(* Properties.                                                             *)

TypeOK ==
    /\ at \in [Jobs -> {"new", "open", "main", "stage", "broken", "finish", "ended",
                        "leaving", "closed"}]
    /\ stage \in [Jobs -> 0 .. StageCount]
    /\ \A i \in DOMAIN calls : calls[i].of \in Jobs \union {Nobody} /\ calls[i].source \in Sources
    /\ base \in [Jobs -> -1 .. MaxCalls + MaxLate]
    /\ stageBase \in [Jobs -> -1 .. MaxCalls + MaxLate]
    /\ Len(reports) <= Reports /\ loops \in Nat /\ subs \in 0 .. Cardinality(Jobs)
    /\ rejected \in [Jobs -> {NoReason, "budget", "loop"}]

\* A settled build costs what its own calls until then cost, overlapped or not,
\* and keeps what is known of them, however often it is settled and whichever
\* report was dropped meanwhile (_settle_build_cost, end_build).
SettledIsOwn ==
    \A b \in Jobs : LET m == manifest[b] IN m.settled =>
        /\ m.cost = Price(mine[b])
        /\ Len(m.kept) + m.lost = Len(Evidence(mine[b]))
        /\ \A s \in Sources \ {"stub"} : Total(m, s) = Count(mine[b], s)

\* A call is in one stage's record, of the build that made it.
StagesPartition ==
    \A b \in Jobs : \A i, j \in DOMAIN records[b] :
        /\ \A c \in records[b][i] : calls[c].of = b
        /\ i # j => records[b][i] \intersect records[b][j] = {}

\* When it is over a build is in no ledger any more, and one that ran carries
\* its cost as spent for nothing exactly if it was not shipped.
WasteIsUnshipped ==
    \A b \in Jobs : at[b] = "closed" /\ (manifest[b].settled \/ restarts = 0) =>
        /\ base[b] = NoBase
        /\ manifest[b].settled =>
              manifest[b].waste = IF Unshipped(status[b], verdict[b]) THEN manifest[b].cost ELSE -1

\* The guard rejects a build that no other overlapped for its own spending or
\* its own events only (max_loops "per build").
GuardIsFair ==
    \A b \in Jobs :
        /\ rejected[b] = "budget" => Price(mine[b]) > BuildCap \/ overlapped[b]
        /\ rejected[b] = "loop" => events[b] > MaxLoops \/ overlapped[b]

\* A cost is shown as known only of a build that was settled, all of whose
\* calls reported one; and it is known if the stages that made them say so.
KnownIsReported ==
    \A b \in Jobs : at[b] = "closed" /\ (manifest[b].settled \/ status[b] = "interrupted") =>
        /\ TotalKnown(b) => manifest[b].settled /\ Count(mine[b], "cli") = 0
        /\ (/\ manifest[b].settled /\ \A i \in DOMAIN records[b] : StageKnown(records[b][i])
            /\ Cardinality(UNION {records[b][i] : i \in DOMAIN records[b]}) = Len(mine[b]))
           => TruthKnown(b)

CostsHold == SettledIsOwn /\ StagesPartition /\ WasteIsUnshipped /\ GuardIsFair
             /\ KnownIsReported

=============================================================================

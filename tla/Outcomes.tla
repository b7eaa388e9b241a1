------------------------------ MODULE Outcomes ------------------------------
(***************************************************************************)
(* What the factory learns from builds that overlap (studio/runner.py with *)
(* intelligence/ and memory/store.py).  A build is advised by lessons and  *)
(* by skills, its models are noted; once its verdict is settled the models *)
(* are credited in the tournament, the lessons graded, new ones captured,  *)
(* its shape counted, the skills graded, the deterministic repairs that    *)
(* unblocked it mined into lessons and skills, and a win is kept as a      *)
(* skill.  Anything but the tournament awaits the store, so another build, *)
(* a cancellation or a crash comes between.  One stack, one bucket, one    *)
(* repair; a text is what it teaches; the quality of a reward is left out. *)
(***************************************************************************)
EXTENDS Naturals, Sequences, FiniteSets

CONSTANTS
    Runs,           \* the builds
    Route, Barred,  \* models; those the policy (no_claude, free_only) bars
    Stages,         \* stages of a build, the first of which writes the code
    Room,           \* lessons a stage is told
    Evidence,       \* what a build may show to a later one: a finding of an
                    \* advisory gate, an error of the proof, a check that did
                    \* not run, a vent about the pipeline
    PromoteRepair, PromoteShape, DemoteUses,    \* records that promote, demote
    MaxEdits, MaxFaults, MaxCancels

None == "none"
Old == "old"                            \* the lesson the store starts with
Texts == Evidence \union {Old, "repair"}
Skill == {"guide", "mined", "pattern"}  \* reviewed advice; a promoted repair, shape

VARIABLES
    at, left,   \* where the build is; what the loop it is in has still to do
    stage, verdict, status,
    shown, resolved,    \* its evidence; whether a repair unblocked it
    pending,    \* _tournament_pending
    used,       \* the lessons its stages were told
    handed,     \* handed[b][s]: the texts of the skill its stages were handed
    graded,     \* skill_terminal_grading of its manifest: the skills, how
    rows,       \* the lessons of the store that exist
    fresh,      \* those no grade has counted
    text,       \* text[s]: the present text of a skill, 0 if there is none
    quarantined, tally,     \* of the mined skill: held back; [uses, helped]
    solo, match,        \* the tournament: [won, lost] of a build's models
    grades,     \* grades[b][l]: [helped, seen] the build gave a lesson
    uses,       \* uses[b][s]: grades the build gave a skill; of which text
    shapes, repairs,    \* the pattern board: who recorded the shape, the repair
    kept,       \* whose code the winning skill holds
    announced,  \* announced[l]: LESSON_CAPTURED events of a lesson
    edits, faults, cancels

progress == <<at, left, stage, verdict, status, shown, resolved>>
advice == <<used, handed>>
library == <<text, quarantined, tally>>
lessons == <<rows, fresh, grades, announced>>
board == <<shapes, repairs, kept>>
skills == <<graded, uses>>
tournament == <<pending, solo, match>>
bounds == <<edits, faults, cancels>>
vars == <<progress, advice, library, lessons, board, skills, tournament, bounds>>

Nothing(s, z) == [b \in Runs |-> [x \in s |-> z]]

Init ==
    /\ at = [b \in Runs |-> "start"] /\ left = [b \in Runs |-> {}]
    /\ stage = [b \in Runs |-> 0] /\ verdict = [b \in Runs |-> ""]
    /\ status = [b \in Runs |-> "running"]
    /\ shown = [b \in Runs |-> {}] /\ resolved = [b \in Runs |-> FALSE]
    /\ pending = [b \in Runs |-> {}] /\ used = [b \in Runs |-> {}]
    /\ handed = Nothing(Skill, {}) /\ graded = [b \in Runs |-> {}]
    /\ rows = {Old} /\ fresh = {}
    /\ text = [s \in Skill |-> IF s = "guide" THEN 1 ELSE 0]
    /\ quarantined = FALSE /\ tally = <<0, 0>>
    /\ solo = Nothing(Route, <<0, 0>>) /\ match = Nothing(Route, <<0, 0>>)
    /\ grades = Nothing(Texts, <<0, 0>>) /\ uses = Nothing(Skill, <<>>)
    /\ shapes = <<>> /\ repairs = <<>> /\ kept = None
    /\ announced = [l \in Texts |-> 0]
    /\ edits = 0 /\ faults = 0 /\ cancels = 0

Plus(f, b, x, d) == [f EXCEPT ![b][x] = <<@[1] + d[1], @[2] + d[2]>>]

-----------------------------------------------------------------------------
(* The stages.                                                             *)

\* Lessons the prompt has room for: of the best scored and a few never used
\* ones, those a ranking by the brief prefers.
Injected == {told \in SUBSET rows : /\ Cardinality(told) <= Room
                                    /\ Room > 0 => told # {}}
\* The skills that may advise, and those of them that speak to a stage's role.
Applicable == {s \in Skill : text[s] > 0 /\ ~(s = "mined" /\ quarantined)}
RoleSkills == Applicable \intersect {"guide"}
\* A receipt names the text that was handed.
Receipt(b, selected) ==
    handed' = [handed EXCEPT ![b] = [s \in Skill |->
        IF s \in selected THEN @[s] \union {text[s]} ELSE @[s]]]

\* What advises the whole build.
Advise(b) ==
    /\ at[b] = "start" /\ at' = [at EXCEPT ![b] = "stages"] /\ Receipt(b, Applicable)
    /\ UNCHANGED <<left, stage, verdict, status, shown, resolved, used, library, lessons,
                   board, skills, tournament, bounds>>

\* The models a contest may pin; with fewer than two it is of one model.
Pool == Route \ Barred
\* _record_best_of_n_match: the winner beat the other models of its bucket.
Contest(b, winner, all) ==
    match' = [match EXCEPT ![b] = [m \in Route |->
        IF m = winner THEN <<@[m][1] + (IF all = {winner} THEN 1
                                        ELSE Cardinality(all \ {winner})), @[m][2]>>
        ELSE IF m \in all THEN <<@[m][1], @[m][2] + 1>> ELSE @[m]]]

\* _feed_tournament, unless the contest was recorded and saved: then the
\* build's verdict says nothing more of it.
Feed(b, models, recorded) ==
    pending' = IF recorded THEN pending ELSE [pending EXCEPT ![b] = @ \union models]

\* One stage.  The code stage may be a contest of several models.
CodeStage(b) ==
    /\ stage[b] = 0
    /\ \E ok \in BOOLEAN, all \in SUBSET Pool \ {{}} : \E winner \in all :
        \/ /\ Cardinality(all) = 1 /\ Feed(b, IF ok THEN all ELSE {}, FALSE)
           /\ UNCHANGED <<match, faults>>
        \/ \E saved \in BOOLEAN :
            /\ Contest(b, winner, all)
            /\ IF saved THEN faults' = faults
               ELSE faults < MaxFaults /\ faults' = faults + 1
            /\ Feed(b, IF ok THEN {winner} ELSE {}, saved)
OtherStage(b) ==
    /\ stage[b] > 0 /\ \E m \in SUBSET Route : Cardinality(m) <= 1 /\ Feed(b, m, FALSE)
    /\ UNCHANGED <<match, faults>>
Stage(b) ==
    /\ at[b] = "stages" /\ stage[b] < Stages /\ stage' = [stage EXCEPT ![b] = @ + 1]
    /\ \E told \in Injected : used' = [used EXCEPT ![b] = @ \union told]
    /\ Receipt(b, RoleSkills)
    /\ CodeStage(b) \/ OtherStage(b)
    /\ UNCHANGED <<at, left, verdict, status, shown, resolved, library, lessons,
                   board, skills, solo, edits, cancels>>

-----------------------------------------------------------------------------
(* The verdict is settled, or the build rejected or crashed.               *)

\* _flush_tournament: once, won only by a build that ended "go".
Flush(b, won) ==
    /\ solo' = [solo EXCEPT ![b] = [m \in Route |->
                    IF m \notin pending[b] THEN @[m]
                    ELSE IF won THEN <<@[m][1] + 1, @[m][2]>> ELSE <<@[m][1], @[m][2] + 1>>]]
    /\ pending' = [pending EXCEPT ![b] = {}]

Settle(b) ==
    /\ at[b] = "stages" /\ stage[b] = Stages
    /\ \E v \in {"go", "no_go"}, e \in SUBSET Evidence, r \in BOOLEAN :
        /\ verdict' = [verdict EXCEPT ![b] = v] /\ shown' = [shown EXCEPT ![b] = e]
        /\ resolved' = [resolved EXCEPT ![b] = r]
        /\ Flush(b, v = "go")
    /\ status' = [status EXCEPT ![b] = "completed"]
    /\ at' = [at EXCEPT ![b] = "grade"] /\ left' = [left EXCEPT ![b] = used[b]]
    /\ UNCHANGED <<stage, advice, library, lessons, board, skills, match, bounds>>

\* A rejection at a guard or a gate, or an exception: the verdict is never
\* left empty, and one that had been settled stays.
Fail(b) ==
    /\ at[b] \in {"stages", "finish"} /\ faults < MaxFaults /\ faults' = faults + 1
    /\ status' = [status EXCEPT ![b] = "failed"]
    /\ verdict' = [verdict EXCEPT ![b] = IF @ = "" THEN "no_go" ELSE @]
    /\ Flush(b, verdict[b] = "go")
    /\ at' = [at EXCEPT ![b] = "grade"] /\ left' = [left EXCEPT ![b] = used[b]]
    /\ UNCHANGED <<stage, shown, resolved, advice, library, lessons, board, skills,
                   match, edits, cancels>>

\* Operator intent, not model evidence: nothing more is recorded.
Cancel(b) ==
    /\ at[b] # "done" /\ cancels < MaxCancels /\ cancels' = cancels + 1
    /\ status' = [status EXCEPT ![b] = IF @ = "failed" THEN @ ELSE "cancelled"]
    /\ at' = [at EXCEPT ![b] = "done"] /\ left' = [left EXCEPT ![b] = {}]
    /\ pending' = [pending EXCEPT ![b] = {}]
    /\ UNCHANGED <<stage, verdict, shown, resolved, advice, library, lessons, board,
                   skills, solo, match, edits, faults>>

-----------------------------------------------------------------------------
(* Lessons.                                                                *)

Failing(b) == status[b] = "failed"
Helpful(b) == verdict[b] = "go" /\ ~Failing(b)
\* _grade_lessons: one grade each, positive only where the build was settled
\* as a "go"; otherwise the lesson was merely seen.
Grade(b) ==
    /\ at[b] = "grade"
    /\ \E l \in left[b] :
        /\ grades' = Plus(grades, b, l, IF Helpful(b) THEN <<1, 0>> ELSE <<0, 1>>)
        /\ fresh' = fresh \ {l} /\ left' = [left EXCEPT ![b] = @ \ {l}]
    /\ UNCHANGED <<at, stage, verdict, status, shown, resolved, rows, announced,
                   advice, library, board, skills, tournament, bounds>>

\* What a build teaches: its errors if it failed, what its gates found and its
\* vents in any case, what could not run never.
Findings(b) == shown[b] \ {"error", "vent", "skipped"}
Vents(b) == shown[b] \intersect {"vent"}
Taught(b) == Findings(b) \union Vents(b) \union
             {e \in shown[b] : e = "error" /\ verdict[b] = "no_go"}

\* capture_from_build: what the store does not know yet ...
Known(b) ==
    /\ at[b] = "grade" /\ left[b] = {}
    /\ left' = [left EXCEPT ![b] = Taught(b) \ rows] /\ at' = [at EXCEPT ![b] = "capture"]
    /\ UNCHANGED <<stage, verdict, status, shown, resolved, advice, library, lessons,
                   board, skills, tournament, bounds>>
\* ... is added, unless another build has added it since: the index refuses.
Add(b, l) ==
    /\ rows' = rows \union {l} /\ fresh' = IF l \in rows THEN fresh ELSE fresh \union {l}
    /\ announced' = IF l \in rows THEN announced ELSE [announced EXCEPT ![l] = @ + 1]
    /\ UNCHANGED grades
Capture(b) ==
    /\ at[b] = "capture"
    /\ \E l \in left[b] : Add(b, l) /\ left' = [left EXCEPT ![b] = @ \ {l}]
    /\ UNCHANGED <<at, stage, verdict, status, shown, resolved, advice, library,
                   board, skills, tournament, bounds>>

-----------------------------------------------------------------------------
(* Skills and shapes.                                                      *)

\* The skills handed to the build that its manifest does not name as graded.
Ungraded(b) == {s \in Skill : handed[b][s] # {}} \ {g[1] : g \in graded[b]}
Selected(b, s) == handed[b][s] = {text[s]}
\* maybe_promote_pattern, after a win: of too few uses, or too few of them won,
\* no shape is promoted.
PromotePattern(b) ==
    \/ text' = text
    \/ /\ Helpful(b) /\ Len(shapes') >= PromoteShape /\ text["pattern"] = 0
       /\ text' = [text EXCEPT !["pattern"] = 1]
\* _record_learning, from the pattern board to record_use: each skill once, as
\* the first settlement said, and only where it still is what was handed.
Score(b) ==
    /\ at[b] = "capture" /\ left[b] = {}
    /\ shapes' = Append(shapes, b)
    /\ PromotePattern(b)
    /\ LET good == IF graded[b] = {} THEN Helpful(b)
                   ELSE TRUE \in {g[2] : g \in graded[b]}
           now == {s \in Ungraded(b) : Selected(b, s)} IN
        /\ graded' = [graded EXCEPT ![b] = @ \union {<<s, good>> : s \in Ungraded(b)}]
        /\ uses' = [uses EXCEPT ![b] = [s \in Skill |->
                IF s \in now THEN Append(@[s], [good |-> good, of |-> text[s]]) ELSE @[s]]]
        /\ tally' = IF "mined" \notin now THEN tally
                    ELSE <<tally[1] + 1, tally[2] + (IF good THEN 1 ELSE 0)>>
    /\ at' = [at EXCEPT ![b] = "mine"]
    /\ UNCHANGED <<left, stage, verdict, status, shown, resolved, advice, quarantined,
                   lessons, repairs, kept, tournament, bounds>>

\* mine_repairs: the build was stuck, a deterministic repair changed a file,
\* and it proved or shipped.  The lesson first ...
Teach(b) ==
    /\ at[b] = "mine" /\ at' = [at EXCEPT ![b] = "promote"]
    /\ IF resolved[b] /\ "repair" \notin rows THEN Add(b, "repair") /\ TRUE
       ELSE UNCHANGED <<rows, fresh, announced, grades>>
    /\ UNCHANGED <<left, stage, verdict, status, shown, resolved, advice, library,
                   board, skills, tournament, bounds>>

\* The code of the first win is kept, unless a stub wrote it.
KeepWin(b) == \/ kept' = IF Helpful(b) /\ kept = None THEN b ELSE kept
              \/ kept' = kept

\* ... then, on a "go", the board, and the skill once enough were recorded;
\* a mined skill whose uses never helped leaves; the win is kept.
Promote(b) ==
    /\ at[b] = "promote"
    /\ LET counts == resolved[b] /\ verdict[b] = "go" IN
        /\ repairs' = IF counts THEN Append(repairs, b) ELSE repairs
        /\ text' = [text EXCEPT !["mined"] =
              IF @ = 0 /\ counts /\ Len(repairs') >= PromoteRepair THEN 1 ELSE @]
    /\ quarantined' = (quarantined \/ (tally[1] >= DemoteUses /\ tally[2] = 0))
    /\ KeepWin(b)
    /\ at' = [at EXCEPT ![b] = IF Failing(b) THEN "done" ELSE "finish"]
    /\ UNCHANGED <<left, stage, verdict, status, shown, resolved, advice, tally, lessons,
                   shapes, skills, tournament, bounds>>

\* _finalize wrote the manifest.
Finish(b) ==
    /\ at[b] = "finish" /\ at' = [at EXCEPT ![b] = "done"]
    /\ UNCHANGED <<left, stage, verdict, status, shown, resolved, advice, library, lessons,
                   board, skills, tournament, bounds>>

\* Somebody improves the text of a skill.
Edit ==
    /\ edits < MaxEdits /\ edits' = edits + 1
    /\ text' = [text EXCEPT !["guide"] = @ + 1]
    /\ UNCHANGED <<progress, advice, quarantined, tally, lessons, board, skills,
                   tournament, faults, cancels>>

Next == \/ Edit
        \/ \E b \in Runs : \/ Advise(b) \/ Stage(b) \/ Settle(b) \/ Fail(b) \/ Cancel(b)
                           \/ Grade(b) \/ Known(b) \/ Capture(b) \/ Score(b)
                           \/ Teach(b) \/ Promote(b) \/ Finish(b)

Spec == Init /\ [][Next]_vars

-----------------------------------------------------------------------------
(* Properties.                                                             *)

Pairs == (0 .. 2) \X (0 .. 2)
TypeOK ==
    /\ at \in [Runs -> {"start", "stages", "grade", "capture", "mine", "promote",
                       "finish", "done"}]
    /\ left \in [Runs -> SUBSET Texts] /\ stage \in [Runs -> 0 .. Stages]
    /\ verdict \in [Runs -> {"", "go", "no_go"}]
    /\ status \in [Runs -> {"running", "completed", "failed", "cancelled"}]
    /\ pending \in [Runs -> SUBSET Route] /\ used \in [Runs -> SUBSET Texts]
    /\ fresh \subseteq rows /\ rows \subseteq Texts
    /\ solo \in [Runs -> [Route -> Pairs]] /\ grades \in [Runs -> [Texts -> Pairs]]
    /\ kept \in Runs \union {None}

\* A model is counted once for a build that it worked in alone, a skill once
\* and for the text every stage was handed, a lesson helped at most once; and
\* each is credited only if the build ended "go" (the comments at the flush,
\* the terminal grading and _grade_lessons), whatever is cancelled, fails
\* while it finishes, or is edited meanwhile.
CreditIsEarned ==
    \A b \in Runs :
        /\ \A m \in Route : LET c == solo[b][m] IN
            c[1] + c[2] <= 1 /\ (c[1] = 1 => verdict[b] = "go") /\ (c[2] = 1 => verdict[b] # "go")
        /\ \A l \in Texts : grades[b][l][1] <= 1 /\ (grades[b][l][1] = 1 => verdict[b] = "go")
        /\ \A s \in Skill : LET u == uses[b][s] IN
            /\ Len(u) <= 1
            /\ u # <<>> => handed[b][s] = {u[1].of} /\ (u[1].good => verdict[b] = "go")

\* A contest a build recorded is not counted again by its verdict, unless the
\* tournament could not be saved.
MatchesCountOnce ==
    \A b \in Runs, m \in Route :
        match[b][m] # <<0, 0>> /\ solo[b][m] # <<0, 0>> /\ stage[b] = 1 => faults > 0

\* A build that was not cancelled has graded whatever advised it when it ends;
\* no build leaves models noted.
NothingForgotten ==
    \A b \in Runs : at[b] = "done" =>
        /\ pending[b] = {}
        /\ status[b] # "cancelled" /\ cancels = 0 =>
            /\ \A l \in used[b] : grades[b][l] # <<0, 0>>
            /\ \A s \in Skill : handed[b][s] # {} => s \in {g[1] : g \in graded[b]}

\* A repair becomes a skill only after as many builds that shipped with it; one
\* that fails while it finishes is recorded twice.
PromotedByBuilds ==
    text["mined"] > 0 =>
        \/ Cardinality({repairs[i] : i \in DOMAIN repairs}) >= PromoteRepair
        \/ \E b \in Runs : Failing(b) /\ verdict[b] = "go"

\* A text is announced once, by the build that stored it; what did not run
\* teaches nothing; what is kept as a win is one.
LessonsAreNew ==
    /\ \A l \in Texts : announced[l] = IF l \in rows \ {Old} THEN 1 ELSE 0
    /\ "skipped" \notin rows /\ (kept # None => verdict[kept] = "go")

CreditsHold == CreditIsEarned /\ MatchesCountOnce /\ NothingForgotten
               /\ PromotedByBuilds /\ LessonsAreNew

=============================================================================

------------------------------ MODULE Delivery ------------------------------
(***************************************************************************)
(* The verdict of one build: StudioRunner._start_build of                  *)
(* skyn3t/studio/runner.py from its stages to the delivered project.       *)
(* Every stage after the merge may rewrite the project, so each piece of   *)
(* evidence (proof, review, protocol check, requirement trace) carries the *)
(* tree it was taken from. Code between two awaits is one step; children   *)
(* that outlive a proof, or an editor, may write at any await.             *)
(***************************************************************************)
EXTENDS Naturals, FiniteSets

CONSTANTS
  Stacks,      \* the kinds of build explored, of Kinds
  MaxTrees,    \* bound: versions of the project's source
  MaxFixes,    \* max_fix_attempts, and the attempts of the game gate
  MaxFailed,   \* bound: gates that fail in one build
  MaxDrift,    \* bound: writes by anything but the build
  MaxSwitches  \* bound: edits of build_posture while the build runs

\* What the proofs need: there is a version of the tree to begin with. max_fix_attempts
\* is a number of settings.py, the rest are bounds.
Bounded ==
  /\ MaxTrees \in Nat \ {0}
  /\ {MaxFixes, MaxFailed, MaxDrift, MaxSwitches} \subseteq Nat

VARIABLES
  pc,          \* where the build stands
  stack,       \* plan.stack
  bound,       \* selection.fully_bound, with a proof among its ids
  live,        \* settings.build_posture as it is now
  posture,     \* the posture the build resolved when it began
  tree,        \* version of the source in the project directory
  condition,   \* what an objective proof of that source would find
  proof,       \* the latest proof of the build
  review,      \* the latest brief-aware review
  asked,       \* the tree a review in flight was asked about
  verdict,     \* the verdict so far
  findings,    \* gate_findings
  flipped,     \* visual_self_heal_gate_flipped_from
  repaired,    \* post_proof_repair_changed
  rounds,      \* fix attempts of the loop in progress
  fixed,       \* history: the improver was asked to repair a proof's findings
  mcp,         \* mcp_check and mcp_check_source_tree
  trace,       \* requirement_trace and its evidence binding
  delivered,   \* delivery_source_tree
  recorded,    \* manifest.status and manifest.verdict
  won,         \* what the model tournament was told of the build
  drifts, switches

vars == <<pc, stack, bound, live, posture, tree, condition, proof, review, asked, verdict,
          findings, flipped, repaired, rounds, fixed, mcp, trace, delivered, recorded, won,
          drifts, switches>>

Kinds == {"ui", "game", "mcp", "rag", "workflow", "cli"}
Postures == {"lab", "release"}

\* A dangling tree imports a file that is not there; proof fails on it too.
Condition == {"sound", "broken", "dangling"}

\* _ALWAYS_BLOCKING, and the game gates by game_quality_gates_verdict.
AlwaysBlocking == {"proof", "entrypoint", "code_degraded", "mcp_verification",
                   "final_consistency", "game_quality"}
ReleaseOnly == {"intent", "headless_gate", "visual_self_heal", "liveness", "product_quality",
                "security", "web_polish", "ai_native", "requirement_trace", "proof_ladder",
                "scaffold_stub"}
Gates == AlwaysBlocking \cup ReleaseOnly

\* Findings that follow from another failure; MaxFailed does not count them.
Derived == {"requirement_trace", "proof_ladder"}

NoProof == [found |-> "broken", tree |-> 0, advisory |-> FALSE]
NoReview == [verdict |-> "none", tree |-> 0]
NoCheck == [ok |-> FALSE, tree |-> 0]
NoTrace == [mode |-> "none", eligible |-> FALSE, tree |-> 0]

Places == {"stages", "merging", "proving", "fixing", "recovering", "rescoring", "reviewing",
           "combining", "headless", "playing", "playtest", "reproving", "surfacing", "healing",
           "healproof", "liveness", "quality", "checking", "cliplaytest", "stabilizing", "consistency",
           "finalproof", "ladder", "tracing", "mcprefresh", "terminal", "rereviewing",
           "settling", "settled", "done"}

PlanType == stack \in Stacks /\ bound \in BOOLEAN /\ posture \in Postures
WorldType == live \in Postures /\ drifts \in 0..MaxDrift /\ switches \in 0..MaxSwitches
SourceType == tree \in 1..MaxTrees /\ condition \in Condition
EvidenceType ==
  /\ proof \in [found : Condition, tree : 0..MaxTrees, advisory : BOOLEAN]
  /\ review \in [verdict : {"none", "go", "no_go"}, tree : 0..MaxTrees]
  /\ asked \in 0..MaxTrees
  /\ mcp \in [ok : BOOLEAN, tree : 0..MaxTrees]
  /\ trace \in [mode : {"none", "enforced", "invalid", "stale"}, eligible : BOOLEAN,
                tree : 0..MaxTrees]
RulingType ==
  /\ verdict \in {"go", "no_go"}
  /\ findings \subseteq [gate : Gates, blocked : BOOLEAN, posture : Postures]
  /\ flipped \in BOOLEAN
OutcomeType ==
  /\ delivered \in 0..MaxTrees
  /\ recorded \in [status : {"running", "completed", "completed_no_go", "failed"},
                   verdict : {"", "go", "no_go"}]
  /\ won \in {"pending", "won", "lost"}
TypeOK ==
  /\ pc \in Places
  /\ PlanType /\ WorldType /\ SourceType /\ EvidenceType /\ RulingType /\ OutcomeType
  /\ repaired \in BOOLEAN /\ fixed \in BOOLEAN /\ rounds \in 0..MaxFixes

\* lab_policy, posture, slug, plan and product contract are settled; the
\* worktree of the build exists and its stages are to run.
Init ==
  /\ pc = "stages"
  /\ stack \in Stacks /\ bound \in BOOLEAN
  /\ live \in Postures /\ posture = live
  /\ tree = 1 /\ condition \in Condition
  /\ proof = NoProof /\ review = NoReview /\ asked = 0
  /\ verdict = "no_go" /\ findings = {}
  /\ flipped = FALSE /\ repaired = FALSE /\ fixed = FALSE /\ rounds = 0
  /\ mcp = NoCheck /\ trace = NoTrace /\ delivered = 0
  /\ recorded = [status |-> "running", verdict |-> ""]
  /\ won = "pending"
  /\ drifts = 0 /\ switches = 0

Plan == <<stack, bound, posture>>
Source == <<tree, condition>>
Evidence == <<proof, review, asked, mcp, trace>>
Ruling == <<verdict, findings, flipped>>
Outcome == <<delivered, recorded, won>>
World == <<live, drifts, switches>>

Goto(place) == pc' = place

-----------------------------------------------------------------------------
\* What a stage may do to the source, and what a proof or a gate makes of it.

Rewrite(conditions) ==
  /\ tree < MaxTrees
  /\ tree' = tree + 1
  /\ condition' \in conditions
MayRewrite == UNCHANGED Source \/ Rewrite(Condition)

\* proof_run: under lab posture some failures are advisory and do not fail it.
Proven(t, c) ==
  {[found |-> c, tree |-> t, advisory |-> a] : a \in IF live = "lab" THEN BOOLEAN ELSE {FALSE}}
Passed(p) == p.found = "sound"

\* GatePosture.blocks.
Blocks(gate, p) == gate \in AlwaysBlocking \/ p = "release"

\* _gate_outcome for each gate that failed.
Record(failing, p) ==
  /\ Cardinality(({f.gate : f \in findings} \cup failing) \ Derived) <= MaxFailed
  /\ findings' = findings \cup {[gate |-> g, blocked |-> Blocks(g, p), posture |-> p] : g \in failing}
Fold(failing, p) ==
  /\ Record(failing, p)
  /\ verdict' = IF \E g \in failing : Blocks(g, p) THEN "no_go" ELSE verdict
Gate(gate) == \E failing \in SUBSET {gate} : Fold(failing, posture)

-----------------------------------------------------------------------------
\* Stages, delivery of the worktree, and the proof of what was delivered.

\* The reviewer grades the worktree, or no reviewer runs.
Stages ==
  /\ pc = "stages"
  /\ \E v \in {"none", "go", "no_go"} :
       /\ review' = [verdict |-> v, tree |-> IF v = "none" THEN 0 ELSE tree]
       /\ verdict' = IF v = "go" THEN "go" ELSE "no_go"
  /\ Goto("merging")
  /\ UNCHANGED <<Plan, World, Source, proof, asked, mcp, trace, findings, flipped, repaired,
                 rounds, fixed, Outcome>>

\* _BuildRejected, and an exception in what no pass guards: a verdict that is
\* set is left as it is.
Fail ==
  /\ pc \in {"stages", "merging", "proving", "fixing", "recovering", "combining", "reproving",
             "healproof", "settled"}
  /\ recorded' = [status |-> "failed",
                  verdict |-> IF recorded.verdict = "" THEN "no_go" ELSE recorded.verdict]
  /\ won' = IF won = "pending" THEN IF recorded'.verdict = "go" THEN "won" ELSE "lost" ELSE won
  /\ Goto("done")
  /\ UNCHANGED <<Plan, World, Source, Evidence, Ruling, repaired, rounds, fixed, delivered>>

\* The worktree replaces the project; repairs, assets, DESIGN.md, prerendered
\* routes and acceptance contracts follow.
Deliver ==
  /\ pc = "merging"
  /\ MayRewrite
  /\ Goto("proving")
  /\ UNCHANGED <<Plan, World, Evidence, Ruling, repaired, rounds, fixed, Outcome>>

FirstProof ==
  /\ pc = "proving"
  /\ proof' \in Proven(tree, condition)
  /\ Goto(IF ~Passed(proof') \/ proof'.advisory THEN "fixing" ELSE "rescoring")
  /\ UNCHANGED <<Plan, World, Source, review, asked, mcp, trace, Ruling, repaired, rounds,
                 fixed, Outcome>>

\* The loop goes on while the proof fails, an attempt is left and its time is not up.
MayFix == ~Passed(proof) /\ rounds < MaxFixes

\* Mutant: nothing bounds the attempts.
FixRound_Endless ==
  /\ pc = "fixing"
  /\ ~Passed(proof)
  /\ rounds' = rounds + 1
  /\ MayRewrite
  /\ fixed' = TRUE
  /\ proof' \in Proven(tree', condition')
  /\ UNCHANGED <<pc, Plan, World, review, asked, mcp, trace, Ruling, repaired, Outcome>>

\* One attempt of _fix_loop: fill, repair, improve, restore the contracts, prove.
FixRound ==
  /\ pc = "fixing"
  /\ MayFix
  /\ rounds' = rounds + 1
  /\ MayRewrite
  /\ fixed' = TRUE
  /\ proof' \in Proven(tree', condition')
  /\ UNCHANGED <<pc, Plan, World, review, asked, mcp, trace, Ruling, repaired, Outcome>>

\* Passed, out of attempts, out of time, or stalled.
FixDone ==
  /\ pc = "fixing"
  /\ Goto(IF proof.found = "dangling" THEN "recovering" ELSE "rescoring")
  /\ rounds' = 0
  /\ UNCHANGED <<Plan, World, Source, Evidence, Ruling, repaired, fixed, Outcome>>

\* Repairs once more and, when they changed anything, one more proof.
Recover ==
  /\ pc = "recovering"
  /\ \/ UNCHANGED <<Source, proof>>
     \/ Rewrite(Condition) /\ proof' \in Proven(tree', condition')
  /\ Goto("rescoring")
  /\ UNCHANGED <<Plan, World, review, asked, mcp, trace, Ruling, repaired, rounds, fixed, Outcome>>

-----------------------------------------------------------------------------
\* The review of what was delivered, and the gates over proof and review.

Reviewer == review.verdict # "none"

\* The same reviewer is asked again when the source is not what it reviewed.
Rescore ==
  /\ pc = "rescoring"
  /\ asked' = tree
  /\ Goto(IF Reviewer /\ review.tree # tree THEN "reviewing" ELSE "combining")
  /\ UNCHANGED <<Plan, World, Source, proof, review, mcp, trace, Ruling, repaired, rounds,
                 fixed, Outcome>>

\* Its answer is bound to the tree it was asked about; no answer is a no_go and
\* leaves the old binding.
Refreshed ==
  /\ pc = "reviewing"
  /\ \/ \E v \in {"go", "no_go"} :
          /\ review' = [verdict |-> v, tree |-> asked]
          /\ verdict' = v
     \/ UNCHANGED review /\ verdict' = "no_go"
  /\ Goto("combining")
  /\ UNCHANGED <<Plan, World, Source, proof, asked, mcp, trace, findings, flipped, repaired,
                 rounds, fixed, Outcome>>

\* The structural rescore agrees, disagrees or has failed; it decides alone only
\* when no reviewer ran.
Combine ==
  /\ pc = "combining"
  /\ \E structure \in {"go", "no_go", "error"} :
       verdict' = CASE Reviewer /\ structure = "no_go" -> "no_go"
                    [] Reviewer                        -> verdict
                    [] ~Reviewer /\ structure = "go"   -> "go"
                    [] OTHER                           -> "no_go"
  /\ Goto(IF stack = "game" THEN "headless" ELSE "reproving")
  /\ UNCHANGED <<Plan, World, Source, Evidence, findings, flipped, repaired, rounds, fixed, Outcome>>

\* An improver of the headless gate that completed is noted; one that timed out
\* ends the loop unnoted, whatever it wrote.
HeadlessRepair ==
  /\ pc = "headless" /\ rounds < MaxFixes
  /\ MayRewrite
  /\ \/ repaired' = TRUE /\ rounds' = rounds + 1 /\ UNCHANGED pc
     \/ UNCHANGED repaired /\ rounds' = 0 /\ Goto("playing")
  /\ UNCHANGED <<Plan, World, Evidence, Ruling, fixed, Outcome>>

HeadlessDone ==
  /\ pc = "headless"
  /\ rounds' = 0
  /\ Goto("playing")
  /\ UNCHANGED <<Plan, World, Source, Evidence, Ruling, repaired, fixed, Outcome>>

\* A repair of what the judge saw that is kept; the tree is put back to what it was
\* when one improves nothing, loses the headless gate or no longer builds.
RepairVisual == Rewrite(Condition) /\ repaired' = TRUE
GameVisual ==
  /\ pc = "playing"
  /\ RepairVisual \/ UNCHANGED <<Source, repaired>>
  /\ Goto("playtest")
  /\ UNCHANGED <<Plan, World, Evidence, Ruling, rounds, fixed, Outcome>>

Playtest ==
  /\ pc = "playtest"
  /\ MayRewrite
  /\ repaired' \in {repaired, TRUE}
  /\ Goto("reproving")
  /\ UNCHANGED <<Plan, World, Evidence, Ruling, rounds, fixed, Outcome>>

\* What was measured of the delivered tree beside its proof: entrypoint and
\* substance, intent, critic, verifiers, provider keys, a code stage that
\* declared itself degraded, and the game gates.
Signals == {"entrypoint", "intent", "code_degraded"}
             \cup IF stack = "game" THEN {"headless_gate", "game_quality"} ELSE {}

\* _reproof_after_post_proof_repairs, then the signals of the build are folded.
FoldSignals ==
  /\ pc = "reproving"
  /\ IF repaired THEN proof' \in Proven(tree, condition) ELSE UNCHANGED proof
  /\ \E failing \in SUBSET Signals :
       Fold(failing \cup (IF Passed(proof') THEN {} ELSE {"proof"}), posture)
  /\ Goto("surfacing")
  /\ UNCHANGED <<Plan, World, Source, review, asked, mcp, trace, flipped, repaired, rounds,
                 fixed, Outcome>>

-----------------------------------------------------------------------------
\* Configuration, the rendered page, liveness, and the gates on the product.

\* Settings pages and accessors may join the tree; nothing is proven again.
SurfaceConfig ==
  /\ pc = "surfacing"
  /\ MayRewrite
  /\ Goto(IF stack = "ui" THEN "healing" ELSE "liveness")
  /\ UNCHANGED <<Plan, World, Evidence, Ruling, repaired, rounds, fixed, Outcome>>

\* The improver repairs the page it sees; a page that still fails is a finding,
\* and the flip it causes is remembered.
SelfHeal ==
  /\ pc = "healing"
  /\ Gate("visual_self_heal")
  /\ flipped' = (verdict = "go" /\ verdict' = "no_go")
  /\ \/ UNCHANGED Source /\ Goto("liveness")
     \/ Rewrite(Condition) /\ Goto("healproof")
  /\ UNCHANGED <<Plan, World, Evidence, repaired, rounds, fixed, Outcome>>

HealProof ==
  /\ pc = "healproof"
  /\ proof' \in Proven(tree, condition)
  /\ Fold(IF Passed(proof') THEN {} ELSE {"proof"}, posture)
  /\ Goto("liveness")
  /\ UNCHANGED <<Plan, World, Source, review, asked, mcp, trace, flipped, repaired, rounds,
                 fixed, Outcome>>

\* Mutant: any healthy page restores the verdict.
Liveness_Restores ==
  /\ pc = "liveness"
  /\ MayRewrite
  /\ \/ UNCHANGED Ruling
     \/ verdict' = "no_go" /\ UNCHANGED <<findings, flipped>>
     \/ stack = "ui" /\ Fold({"liveness"}, posture) /\ UNCHANGED flipped
     \/ stack = "ui" /\ Passed(proof) /\ verdict' = "go" /\ UNCHANGED <<findings, flipped>>
  /\ Goto("quality")
  /\ UNCHANGED <<Plan, World, Evidence, repaired, rounds, fixed, Outcome>>

\* Liveness serves the app and repairs it: a dead root is no_go outright, a page
\* that does not look alive is a finding, and a healthy page takes back the flip
\* that the visual gate caused, and no other.
Liveness ==
  /\ pc = "liveness"
  /\ MayRewrite
  /\ \/ UNCHANGED Ruling
     \/ verdict' = "no_go" /\ UNCHANGED <<findings, flipped>>
     \/ stack = "ui" /\ Fold({"liveness"}, posture) /\ UNCHANGED flipped
     \/ /\ stack = "ui" /\ Passed(proof) /\ flipped
        /\ verdict' = "go" /\ flipped' = FALSE
        /\ UNCHANGED findings
  /\ Goto("quality")
  /\ UNCHANGED <<Plan, World, Evidence, repaired, rounds, fixed, Outcome>>

\* The security gate moves literal secrets into the environment and looks again.
MoveSecrets == MayRewrite

\* Heading, action and style are looked for in the pages of a UI stack only.
WebPolish == IF stack = "ui" THEN {"web_polish"} ELSE {}

\* Product quality, security and polish.
Quality ==
  /\ pc = "quality"
  /\ MoveSecrets
  /\ \E failing \in SUBSET ({"product_quality", "security"} \cup WebPolish) : Fold(failing, posture)
  /\ Goto("checking")
  /\ UNCHANGED <<Plan, World, Evidence, flipped, repaired, rounds, fixed, Outcome>>

\* A repair of an advisory check: rolled back, or kept because it proves, or an
\* edit outside the files it snapshot, which it does not see.
AdvisoryRepair == MayRewrite

\* What the pages of a site lack is repaired once.
SeoProbe == {"pass", "fail", "skipped"}
SeoCheck ==
  /\ pc = "checking" /\ stack = "ui"
  /\ \E seen \in SeoProbe : IF seen = "fail" THEN AdvisoryRepair ELSE UNCHANGED Source
  /\ UNCHANGED <<mcp, Ruling>>

\* What a server of each kind shows when it is started and driven over its own
\* protocol: it behaves, it does not, or it could not be driven.
McpProbe == {"pass", "fail", "unavailable"}
RagProbe == {"pass", "fail", "skipped"}
WorkflowProbe == {"pass", "fail", "skipped"}
CliProbe == {"pass", "fail", "skipped"}

\* check_mcp: what it could not verify has not passed.
Verified(seen, t) == [ok |-> seen = "pass", tree |-> t]

\* The protocol check is a gate of its own. Only a server that misbehaves is repaired;
\* a repair that is kept is probed again, and one that is rolled back leaves the verdict
\* on the source it was taken from.
McpCheck ==
  /\ pc = "checking" /\ stack = "mcp"
  /\ \E seen \in McpProbe :
       \/ UNCHANGED Source /\ mcp' = Verified(seen, tree)
       \/ /\ seen = "fail" /\ AdvisoryRepair
          /\ \/ mcp' = Verified(seen, tree)
             \/ \E then \in McpProbe : mcp' = Verified(then, tree')
  /\ Fold(IF mcp'.ok THEN {} ELSE {"mcp_verification"}, posture)
  /\ UNCHANGED flipped

\* One repair of what the probe failed, probed again if it is kept: a build that is
\* still a go gets a finding when the last probe failed and ai_native_gates_verdict is on.
AiNative(probe) ==
  \E seen, then \in probe :
    /\ IF seen = "fail" THEN AdvisoryRepair ELSE UNCHANGED Source
    /\ tree' = tree => then = seen
    /\ \E failing \in SUBSET IF then = "fail" /\ verdict = "go" THEN {"ai_native"} ELSE {} :
         Fold(failing, posture)
RagCheck == pc = "checking" /\ stack = "rag" /\ AiNative(RagProbe) /\ UNCHANGED <<mcp, flipped>>
WorkflowCheck ==
  pc = "checking" /\ stack = "workflow" /\ AiNative(WorkflowProbe) /\ UNCHANGED <<mcp, flipped>>

CliCheck ==
  /\ pc = "checking" /\ stack = "cli"
  /\ AdvisoryRepair
  /\ UNCHANGED <<mcp, Ruling>>

\* The scripted sessions are replayed after a repair, which is kept only if they pass.
CliPlaytest ==
  /\ pc = "cliplaytest"
  /\ \E seen \in CliProbe : IF seen = "fail" THEN AdvisoryRepair ELSE UNCHANGED Source
  /\ UNCHANGED <<mcp, Ruling>>

Check ==
  /\ \/ SeoCheck \/ McpCheck \/ RagCheck \/ WorkflowCheck \/ CliCheck \/ CliPlaytest
     \/ pc = "checking" /\ stack = "game" /\ UNCHANGED <<Source, mcp, Ruling>>
  /\ Goto(IF pc = "checking" /\ stack = "cli" THEN "cliplaytest" ELSE "stabilizing")
  /\ UNCHANGED <<Plan, World, proof, review, asked, trace, repaired, rounds, fixed, Outcome>>

-----------------------------------------------------------------------------
\* Terminal evidence. From here on "asked" is the source that the evidence is
\* about, 0 once the evidence has an error.

\* A bound contract has its dependencies installed once more.
Stabilize ==
  /\ pc = "stabilizing"
  /\ IF bound THEN MayRewrite /\ Gate("requirement_trace")
              ELSE UNCHANGED <<Source, verdict, findings>>
  /\ Goto("consistency")
  /\ UNCHANGED <<Plan, World, Evidence, flipped, repaired, rounds, fixed, Outcome>>

\* The last repairs and a scan of what they leave. The finding is recorded with
\* the posture of the settings: none is passed.
FinalConsistency ==
  /\ pc = "consistency"
  /\ MayRewrite
  /\ \E failing \in CASE condition' = "dangling" -> {{"final_consistency"}}
                       [] condition' = "broken"   -> {{}, {"final_consistency"}}
                       [] OTHER                   -> {{}} : Fold(failing, live)
  /\ asked' = tree'
  /\ Goto("finalproof")
  /\ UNCHANGED <<Plan, World, proof, review, mcp, trace, flipped, repaired, rounds, fixed, Outcome>>

\* The proof of a bound contract fails, passes, or does not run, and the source
\* is compared with what it was.
FinalProof ==
  /\ pc = "finalproof"
  /\ IF bound
       THEN LET moved == IF tree = asked THEN {} ELSE {"requirement_trace"}
            IN \/ /\ proof' \in Proven(tree, condition)
                  /\ Fold(moved \cup (IF Passed(proof') THEN {} ELSE {"proof"}), posture)
                  /\ asked' = IF moved = {} THEN asked ELSE 0
               \/ /\ Fold({"requirement_trace"}, posture)
                  /\ asked' = 0 /\ UNCHANGED proof
       ELSE UNCHANGED <<proof, verdict, findings, asked>>
  /\ Goto(IF stack = "ui" THEN "ladder" ELSE "tracing")
  /\ UNCHANGED <<Plan, World, Source, review, mcp, trace, flipped, repaired, rounds, fixed, Outcome>>

\* The UI proof ladder of the build's last source. It is called without the
\* posture of the build, so its finding takes the posture of the settings.
Ladder ==
  /\ pc = "ladder" /\ asked # 0
  /\ \E failing \in SUBSET {"proof_ladder"} : Fold(failing, live)
  /\ asked' \in {0, IF tree = asked THEN asked ELSE 0}
  /\ Goto("tracing")
  /\ UNCHANGED <<Plan, World, Source, proof, review, mcp, trace, flipped, repaired, rounds,
                 fixed, Outcome>>

LadderDidNotRun ==
  /\ pc = "ladder" /\ asked = 0
  /\ Fold({"proof_ladder"}, posture)
  /\ Goto("tracing")
  /\ UNCHANGED <<Plan, World, Source, Evidence, flipped, repaired, rounds, fixed, Outcome>>

\* Errors are a finding; a bound contract gets a trace that is bound to the
\* source only when there is no error, or an invalid one.
Trace ==
  /\ pc = "tracing"
  /\ trace' \in
       IF ~bound THEN {NoTrace}
       ELSE {[mode |-> "invalid", eligible |-> FALSE, tree |-> 0],
             [mode |-> "enforced", eligible |-> FALSE, tree |-> asked]}
            \cup IF asked # 0 /\ Passed(proof)
                   THEN {[mode |-> "enforced", eligible |-> TRUE, tree |-> asked]} ELSE {}
  /\ Fold(IF \/ asked = 0 /\ (bound \/ stack = "ui")
             \/ bound /\ ~trace'.eligible
            THEN {"requirement_trace"} ELSE {}, posture)
  /\ Goto(IF stack = "mcp" THEN "mcprefresh" ELSE "terminal")
  /\ UNCHANGED <<Plan, World, Source, proof, review, asked, mcp, flipped, repaired, rounds,
                 fixed, Outcome>>

\* The protocol is checked again when the source is not the one that was checked.
RefreshMcp ==
  /\ pc = "mcprefresh"
  /\ IF mcp.tree = tree THEN UNCHANGED mcp
       ELSE \E seen \in McpProbe : mcp' = Verified(seen, tree)
  /\ Fold(IF mcp'.ok THEN {} ELSE {"mcp_verification"}, posture)
  /\ Goto("terminal")
  /\ UNCHANGED <<Plan, World, Source, proof, review, asked, trace, flipped, repaired, rounds,
                 fixed, Outcome>>

Terminal ==
  /\ pc = "terminal"
  /\ asked' = tree
  /\ Goto(IF Reviewer /\ review.tree # tree THEN "rereviewing" ELSE "settling")
  /\ UNCHANGED <<Plan, World, Source, proof, review, mcp, trace, Ruling, repaired, rounds,
                 fixed, Outcome>>

\* Mutant: a review that does not answer leaves the verdict alone.
Rereviewed_Open ==
  /\ pc = "rereviewing"
  /\ \/ /\ tree = asked
        /\ \E v \in {"go", "no_go"} :
             /\ review' = [verdict |-> v, tree |-> asked]
             /\ verdict' = IF v = "go" THEN verdict ELSE "no_go"
     \/ review' = [review EXCEPT !.tree = 0] /\ UNCHANGED verdict
  /\ Goto("settling")
  /\ UNCHANGED <<Plan, World, Source, proof, asked, mcp, trace, findings, flipped, repaired,
                 rounds, fixed, Outcome>>

\* The terminal review counts when it answers and the source stood still; it can
\* only take a go away. Anything else is a no_go.
Rereviewed ==
  /\ pc = "rereviewing"
  /\ \/ /\ tree = asked
        /\ \E v \in {"go", "no_go"} :
             /\ review' = [verdict |-> v, tree |-> asked]
             /\ verdict' = IF v = "go" THEN verdict ELSE "no_go"
     \/ review' = [review EXCEPT !.tree = 0] /\ verdict' = "no_go"
  /\ Goto("settling")
  /\ UNCHANGED <<Plan, World, Source, proof, asked, mcp, trace, findings, flipped, repaired,
                 rounds, fixed, Outcome>>

\* Scaffold stubs, a trace that is invalid or of another source, browser outcomes;
\* then the verdict is final, the tree is recorded, and the tournament is told.
Stale == trace.eligible /\ trace.tree # tree
Settle ==
  /\ pc = "settling"
  /\ \E failing \in SUBSET ({"scaffold_stub"} \cup IF stack = "ui" THEN {"product_quality"} ELSE {}) :
       /\ Record(failing, posture)
       /\ verdict' = IF Stale \/ trace.mode = "invalid" \/ \E g \in failing : Blocks(g, posture)
                       THEN "no_go" ELSE verdict
  /\ trace' = IF Stale THEN [trace EXCEPT !.mode = "stale", !.eligible = FALSE] ELSE trace
  /\ delivered' = tree
  /\ \E status \in IF verdict' = "go" THEN {"completed"} ELSE {"completed_no_go", "failed"} :
       recorded' = [status |-> status, verdict |-> verdict']
  /\ won' = IF verdict' = "go" THEN "won" ELSE "lost"
  /\ Goto("settled")
  /\ UNCHANGED <<Plan, World, Source, proof, review, asked, mcp, flipped, repaired, rounds, fixed>>

\* Lessons, learning, cost; the manifest and the row are saved.
Finalize ==
  /\ pc = "settled"
  /\ Goto("done")
  /\ UNCHANGED <<Plan, World, Source, Evidence, Ruling, repaired, rounds, fixed, Outcome>>

-----------------------------------------------------------------------------
\* The world around the build.

Awaits == {"proving", "fixing", "recovering", "reviewing", "headless", "playing", "playtest",
           "reproving", "healing", "healproof", "liveness", "quality", "checking",
           "cliplaytest", "stabilizing", "finalproof", "ladder", "mcprefresh", "rereviewing", "settled"}

\* An editor, or a child of a proof that lingers, writes while the build waits.
Drift ==
  /\ pc \in Awaits /\ drifts < MaxDrift
  /\ Rewrite(Condition)
  /\ drifts' = drifts + 1
  /\ UNCHANGED <<pc, Plan, live, switches, Evidence, Ruling, repaired, rounds, fixed, Outcome>>

\* The operator edits build_posture.
SwitchPosture ==
  /\ pc # "done" /\ switches < MaxSwitches
  /\ live' \in Postures \ {live}
  /\ switches' = switches + 1
  /\ UNCHANGED <<pc, Plan, drifts, Source, Evidence, Ruling, repaired, rounds, fixed, Outcome>>

Next ==
  \/ Stages \/ Deliver \/ FirstProof \/ FixRound \/ FixDone \/ Recover
  \/ Rescore \/ Refreshed \/ Combine \/ HeadlessRepair \/ HeadlessDone \/ GameVisual
  \/ Playtest \/ FoldSignals \/ SurfaceConfig \/ SelfHeal \/ HealProof \/ Liveness
  \/ Quality \/ Check \/ Stabilize \/ FinalConsistency \/ FinalProof \/ Ladder
  \/ LadderDidNotRun \/ Trace \/ RefreshMcp \/ Terminal \/ Rereviewed \/ Settle \/ Finalize
  \/ Fail \/ Drift \/ SwitchPosture

Spec == Init /\ [][Next]_vars

-----------------------------------------------------------------------------
Final == pc \in {"settled", "done"} /\ delivered # 0

\* A go speaks of the tree that is delivered: a reviewer that ran has said go to
\* exactly that source, an MCP server passed its protocol check as that source,
\* and a requirement trace that still counts as eligible is bound to it.
GoIsOfTheDeliveredTree ==
  Final /\ verdict = "go" =>
    /\ Reviewer => review = [verdict |-> "go", tree |-> delivered]
    /\ stack = "mcp" => mcp = [ok |-> TRUE, tree |-> delivered]
    /\ trace.eligible => trace.tree = delivered

OnlyVisual == \A f \in findings : f.blocked => f.gate = "visual_self_heal"

\* A go survives every gate: the last proof of the build passed, and the only
\* finding that blocked and was taken back is the visual one.
GoIsUnblocked ==
  Final /\ verdict = "go" =>
    Passed(proof) /\ OnlyVisual

\* gate_posture.py: the posture is resolved once per build, "so a live settings
\* edit cannot change the rules underneath a build that is already running":
\* a finding blocks exactly when the posture of the build says so.
FrozenPosture == \A f \in findings : f.blocked = Blocks(f.gate, posture)

\* runner.py, where the fix loop is entered for advisory failures too: "Advisory
\* means does not block, never not repaired".
AdvisoryIsRepaired == pc = "rescoring" /\ proof.advisory => fixed

-----------------------------------------------------------------------------
(***************************************************************************)
(* The inductive invariant behind the two.                                 *)
(***************************************************************************)
\* Before the signals of the build are folded.
Early == {"stages", "merging", "proving", "fixing", "recovering", "rescoring", "reviewing",
          "combining", "headless", "playing", "playtest", "reproving"}

\* No gate has failed before the first fold, the visual flip is that of SelfHeal, and
\* a tree is recorded only when the verdict is final.
OrderInv ==
  /\ pc \in Early => findings = {}
  /\ pc \in Early \cup {"surfacing", "healing"} => ~flipped
  /\ delivered # 0 => pc \in {"settled", "done"}

\* While the flip can still be taken back, what it took is a go.
MayRestore == flipped /\ pc \in {"healproof", "liveness"}

\* A go is the reviewer's, if there is one, and the terminal review of a go is of the
\* source as it stands.
ReviewInv ==
  /\ Reviewer /\ (verdict = "go" \/ MayRestore) => review.verdict = "go"
  /\ Reviewer /\ verdict = "go" /\ pc = "settling" => review.tree = tree

\* The protocol check of a go is of the source, or of the source a review was asked about.
McpInv ==
  stack = "mcp" /\ verdict = "go" =>
    /\ pc \in {"terminal", "settling"} => mcp = [ok |-> TRUE, tree |-> tree]
    /\ pc = "rereviewing" => mcp = [ok |-> TRUE, tree |-> asked]

\* Behind a go there is no finding that blocks but the visual one; the flip is taken
\* back only while the proof that followed the visual repair passed.
FindingInv ==
  /\ verdict = "go" => OnlyVisual
  /\ MayRestore /\ (pc = "healproof" \/ Passed(proof)) => OnlyVisual

\* A go that was folded with the proof of the build has a proof that passed.
ProofInv ==
  verdict = "go" /\ (pc \notin Early \cup {"done"} \/ delivered # 0) => Passed(proof)

DeliveredInv == delivered # 0 => GoIsOfTheDeliveredTree

DInv == TypeOK /\ OrderInv /\ ReviewInv /\ McpInv /\ FindingInv /\ ProofInv /\ DeliveredInv
=============================================================================

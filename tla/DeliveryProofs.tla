--------------------------- MODULE DeliveryProofs ---------------------------
(***************************************************************************)
(* Proofs about Delivery for every set of stacks and every bound: the      *)
(* state is well typed, and with the inductive invariant DInv a go is of   *)
(* the tree that is delivered and no gate that blocks has failed.          *)
(***************************************************************************)
EXTENDS Delivery, TLAPS

-----------------------------------------------------------------------------
(***************************************************************************)
(* Findings and verdicts.                                                  *)
(***************************************************************************)
\* Folding gates into the verdict never makes a go of it, and a go that is left had no
\* gate that blocks among those that failed.
LEMMA FoldLowers ==
  ASSUME NEW failing, NEW p, Fold(failing, p)
  PROVE  /\ verdict' \in {verdict, "no_go"}
         /\ verdict' = "go" => verdict = "go" /\ \A g \in failing : ~Blocks(g, p)
  BY DEF Fold

\* What is recorded of them keeps the findings that block to the visual one, if
\* no other gate blocks.
LEMMA RecordKeeps ==
  ASSUME NEW failing, NEW p, Record(failing, p), OnlyVisual,
         \A g \in failing : Blocks(g, p) => g = "visual_self_heal"
  PROVE  OnlyVisual'
  BY DEF Record, OnlyVisual

\* So a verdict that is still go after a fold has only the visual finding behind it.
LEMMA FoldKeeps ==
  ASSUME NEW failing, NEW p, Fold(failing, p), verdict' = "go", OnlyVisual
  PROVE  OnlyVisual'
  BY RecordKeeps, FoldLowers DEF Fold

\* Nothing failed, nothing is recorded.
LEMMA RecordNothing == ASSUME NEW p, Record({}, p) PROVE findings' = findings
  BY DEF Record

\* A finding is of a gate, under a posture.
LEMMA RecordType ==
  ASSUME findings \subseteq [gate : Gates, blocked : BOOLEAN, posture : Postures],
         NEW failing \in SUBSET Gates, NEW p \in Postures, Record(failing, p)
  PROVE  findings' \subseteq [gate : Gates, blocked : BOOLEAN, posture : Postures]
<1>1. \A g \in failing : Blocks(g, p) \in BOOLEAN
  BY DEF Blocks
<1>2. QED BY <1>1 DEF Record

\* A proof is of the tree it ran on, with what was to be found there.
LEMMA ProvenType ==
  ASSUME NEW t \in 0 .. MaxTrees, NEW c \in Condition, NEW p \in Proven(t, c)
  PROVE  p \in [found : Condition, tree : 0 .. MaxTrees, advisory : BOOLEAN]
<1>1. PICK a \in BOOLEAN : p = [found |-> c, tree |-> t, advisory |-> a]
  BY DEF Proven
<1>2. QED BY <1>1

-----------------------------------------------------------------------------
(***************************************************************************)
(* Types.                                                                  *)
(***************************************************************************)
\* What a step leaves alone keeps its type.
LEMMA Untouched ==
  ASSUME TypeOK
  PROVE  /\ UNCHANGED Plan => PlanType'
         /\ UNCHANGED World => WorldType'
         /\ UNCHANGED Source => SourceType'
         /\ UNCHANGED Evidence => EvidenceType'
         /\ UNCHANGED Ruling => RulingType'
         /\ UNCHANGED Outcome => OutcomeType'
<1>1. UNCHANGED Plan => PlanType' BY DEF TypeOK, Plan, PlanType
<1>2. UNCHANGED World => WorldType' BY DEF TypeOK, World, WorldType
<1>3. UNCHANGED Source => SourceType' BY DEF TypeOK, Source, SourceType
<1>4. UNCHANGED Evidence => EvidenceType' BY DEF TypeOK, Evidence, EvidenceType
<1>5. UNCHANGED Ruling => RulingType' BY DEF TypeOK, Ruling, RulingType
<1>6. UNCHANGED Outcome => OutcomeType' BY DEF TypeOK, Outcome, OutcomeType
<1>7. QED BY <1>1, <1>2, <1>3, <1>4, <1>5, <1>6

\* A rewrite of the source leaves a version within the bound.
LEMMA RewriteType ==
  ASSUME Bounded, TypeOK, MayRewrite \/ Rewrite(Condition)
  PROVE  SourceType'
  BY DEF Bounded, TypeOK, SourceType, MayRewrite, Rewrite, Source

\* A proof of the source as it stands is evidence, and so it is after a rewrite.
LEMMA ProofType ==
  ASSUME TypeOK, SourceType', \/ proof' \in Proven(tree, condition)
                              \/ proof' \in Proven(tree', condition')
                              \/ UNCHANGED proof,
         UNCHANGED <<review, mcp, trace>>, asked' \in 0 .. MaxTrees
  PROVE  EvidenceType'
<1>1. proof' \in [found : Condition, tree : 0..MaxTrees, advisory : BOOLEAN]
  BY ProvenType DEF TypeOK, SourceType, EvidenceType
<1>2. QED BY <1>1 DEF TypeOK, EvidenceType

\* A fold of gates leaves a verdict and findings.
LEMMA FoldType ==
  ASSUME TypeOK, NEW failing \in SUBSET Gates, NEW p \in Postures, Fold(failing, p),
         flipped' \in BOOLEAN
  PROVE  RulingType'
<1>1. findings' \subseteq [gate : Gates, blocked : BOOLEAN, posture : Postures]
  BY RecordType DEF Fold, TypeOK, RulingType
<1>2. QED BY <1>1, FoldLowers DEF TypeOK, RulingType

\* The trace is absent, invalid, or bound to the source the evidence is about.
LEMMA TraceType ==
  ASSUME Bounded, asked \in 0..MaxTrees, Trace
  PROVE  trace' \in [mode : {"none", "enforced", "invalid", "stale"}, eligible : BOOLEAN,
                     tree : 0..MaxTrees]
<1>1. \E m \in {"none", "enforced", "invalid"}, e \in BOOLEAN, t \in {0, asked} :
        trace' = [mode |-> m, eligible |-> e, tree |-> t]
  BY DEF Trace, NoTrace
<1>2. {0, asked} \subseteq 0..MaxTrees BY DEF Bounded
<1>3. QED BY <1>1, <1>2

\* Its gate is the trace itself.
LEMMA TraceFolds ==
  ASSUME Trace PROVE \E failing \in SUBSET Gates : Fold(failing, posture)
<1>1. {} \in SUBSET Gates /\ {"requirement_trace"} \in SUBSET Gates BY DEF Gates, ReleaseOnly
<1>2. Fold({}, posture) \/ Fold({"requirement_trace"}, posture)
  <2>1. PICK c \in BOOLEAN : Fold(IF c THEN {"requirement_trace"} ELSE {}, posture)
    BY DEF Trace
  <2>2. QED BY <2>1
<1>3. QED BY <1>1, <1>2

\* A build that settles is recorded with its verdict.
LEMMA SettledType ==
  ASSUME Settle, verdict' \in {"go", "no_go"}
  PROVE  recorded' \in [status : {"running", "completed", "completed_no_go", "failed"},
                          verdict : {"", "go", "no_go"}]
<1>1. PICK s \in {"completed", "completed_no_go", "failed"} :
        recorded' = [status |-> s, verdict |-> verdict']
  BY DEF Settle
<1>2. QED BY <1>1

LEMMA TypesKept == ASSUME Bounded, TypeOK, [Next]_vars PROVE TypeOK'
<1>. USE Untouched, RewriteType, ProofType, FoldType DEF Bounded, TypeOK, Places, Goto
<1>1. CASE Stages BY <1>1 DEF Stages, EvidenceType, RulingType, SourceType
<1>2. CASE Deliver BY <1>2 DEF Deliver
<1>3. CASE FirstProof BY <1>3 DEF FirstProof, EvidenceType, SourceType
<1>4. CASE FixRound BY <1>4 DEF FixRound, MayFix, EvidenceType, SourceType
<1>5. CASE FixDone BY <1>5 DEF FixDone
<1>6. CASE Recover BY <1>6 DEF Recover, EvidenceType, Source
<1>7. CASE Rescore BY <1>7 DEF Rescore, EvidenceType, SourceType
<1>8. CASE Refreshed BY <1>8 DEF Refreshed, EvidenceType, RulingType
<1>9. CASE Combine BY <1>9 DEF Combine, RulingType
<1>10. CASE HeadlessRepair
  <2>1. SourceType' /\ PlanType' /\ WorldType' /\ EvidenceType' /\ RulingType' /\ OutcomeType'
    BY <1>10 DEF HeadlessRepair
  <2>2. pc' \in Places BY <1>10 DEF HeadlessRepair
  <2>3. repaired' \in BOOLEAN /\ fixed' \in BOOLEAN BY <1>10 DEF HeadlessRepair
  <2>4. rounds' \in 0..MaxFixes BY <1>10 DEF HeadlessRepair
  <2>5. QED BY <2>1, <2>2, <2>3, <2>4
<1>11. CASE HeadlessDone BY <1>11 DEF HeadlessDone
<1>12. CASE GameVisual BY <1>12 DEF GameVisual, RepairVisual, Source
<1>13. CASE Playtest BY <1>13 DEF Playtest
<1>14. CASE FoldSignals
  BY <1>14 DEF FoldSignals, EvidenceType, RulingType, SourceType, PlanType, Signals, Gates,
               AlwaysBlocking, ReleaseOnly
<1>15. CASE SurfaceConfig BY <1>15 DEF SurfaceConfig
<1>16. CASE SelfHeal BY <1>16 DEF SelfHeal, RulingType, PlanType, Gate, Gates, ReleaseOnly
<1>17. CASE HealProof
  BY <1>17 DEF HealProof, EvidenceType, RulingType, SourceType, PlanType, Gates, AlwaysBlocking
<1>18. CASE Liveness BY <1>18 DEF Liveness, RulingType, PlanType, Gates, ReleaseOnly, Ruling
<1>19. CASE Quality
  BY <1>19 DEF Quality, WebPolish, MoveSecrets, RulingType, PlanType, Gates, ReleaseOnly
<1>20. CASE Check
  <2>1. MayRewrite
    BY <1>20 DEF Check, SeoCheck, McpCheck, Verified, RagCheck, WorkflowCheck, AiNative, CliCheck, CliPlaytest,
                 AdvisoryRepair, MayRewrite
  <2>2. SourceType' BY <2>1
  <2>3. mcp' \in [ok : BOOLEAN, tree : 0..MaxTrees]
    <3>1. mcp' = mcp \/ \E ok \in BOOLEAN : mcp' \in {[ok |-> ok, tree |-> tree], [ok |-> ok, tree |-> tree']}
      BY <1>20 DEF Check, SeoCheck, McpCheck, Verified, RagCheck, WorkflowCheck, CliCheck, CliPlaytest
    <3>2. {tree, tree'} \subseteq 0..MaxTrees BY <2>2 DEF SourceType
    <3>3. QED BY <3>1, <3>2 DEF EvidenceType
  <2>4. EvidenceType' BY <1>20, <2>3 DEF Check, EvidenceType
  <2>5. RulingType'
    <3>1. UNCHANGED Ruling \/ (flipped' = flipped /\ \E failing \in SUBSET Gates : Fold(failing, posture))
      <4>1. CASE McpCheck
        <5>1. {} \in SUBSET Gates /\ {"mcp_verification"} \in SUBSET Gates BY DEF Gates, AlwaysBlocking
        <5>2. QED BY <4>1, <5>1 DEF McpCheck
      <4>2. CASE RagCheck \/ WorkflowCheck
        <5>1. SUBSET {"ai_native"} \subseteq SUBSET Gates /\ SUBSET {} \subseteq SUBSET Gates
          BY DEF Gates, ReleaseOnly
        <5>2. \A c \in BOOLEAN :
                SUBSET (IF c THEN {"ai_native"} ELSE {}) \subseteq SUBSET Gates BY <5>1
        <5>3. QED BY <4>2, <5>2 DEF RagCheck, WorkflowCheck, AiNative
      <4>3. QED BY <1>20, <4>1, <4>2 DEF Check, SeoCheck, CliCheck, CliPlaytest
    <3>2. QED BY <3>1 DEF RulingType, PlanType
  <2>6. QED BY <1>20, <2>2, <2>4, <2>5 DEF Check
<1>21. CASE Stabilize BY <1>21 DEF Stabilize, Gate, Gates, ReleaseOnly, RulingType, PlanType
<1>22. CASE FinalConsistency
  <2>1. SourceType' BY <1>22 DEF FinalConsistency
  <2>2. EvidenceType' BY <1>22, <2>1 DEF FinalConsistency, EvidenceType, SourceType
  <2>3. {} \in SUBSET Gates /\ {"final_consistency"} \in SUBSET Gates
    BY DEF Gates, AlwaysBlocking
  <2>4. PICK failing \in {{}, {"final_consistency"}} : Fold(failing, live)
    BY <1>22 DEF FinalConsistency
  <2>5. flipped' \in BOOLEAN BY <1>22 DEF FinalConsistency, RulingType
  <2>6. RulingType' BY <2>3, <2>4, <2>5 DEF WorldType
  <2>7. QED BY <1>22, <2>1, <2>2, <2>6 DEF FinalConsistency
<1>23. CASE FinalProof
  BY <1>23 DEF FinalProof, Gates, AlwaysBlocking, ReleaseOnly, RulingType, EvidenceType,
               PlanType, SourceType
<1>24. CASE Ladder
  <2>1. asked' \in 0..MaxTrees BY <1>24 DEF Ladder, SourceType, EvidenceType
  <2>2. EvidenceType' BY <1>24, <2>1 DEF Ladder, EvidenceType
  <2>3. RulingType' BY <1>24 DEF Ladder, Gates, ReleaseOnly, RulingType, WorldType
  <2>4. QED BY <1>24, <2>2, <2>3 DEF Ladder
<1>25. CASE LadderDidNotRun BY <1>25 DEF LadderDidNotRun, Gates, ReleaseOnly, RulingType, PlanType
<1>26. CASE Trace
  <2>1. trace' \in [mode : {"none", "enforced", "invalid", "stale"}, eligible : BOOLEAN,
                    tree : 0..MaxTrees]
    BY <1>26, TraceType DEF EvidenceType
  <2>2. EvidenceType' BY <1>26, <2>1 DEF Trace, EvidenceType
  <2>3. PICK failing \in SUBSET Gates : Fold(failing, posture)
    BY <1>26, TraceFolds
  <2>4. RulingType' BY <1>26, <2>3 DEF Trace, RulingType, PlanType
  <2>5. QED BY <1>26, <2>2, <2>4 DEF Trace
<1>27. CASE RefreshMcp
  <2>1. mcp' \in [ok : BOOLEAN, tree : 0..MaxTrees]
    <3>1. mcp' = mcp \/ \E ok \in BOOLEAN : mcp' = [ok |-> ok, tree |-> tree]
      BY <1>27 DEF RefreshMcp, Verified
    <3>2. QED BY <3>1 DEF EvidenceType, SourceType
  <2>2. EvidenceType' BY <1>27, <2>1 DEF RefreshMcp, EvidenceType
  <2>3. {} \in SUBSET Gates /\ {"mcp_verification"} \in SUBSET Gates
    BY DEF Gates, AlwaysBlocking
  <2>4. Fold({}, posture) \/ Fold({"mcp_verification"}, posture)
    BY <1>27 DEF RefreshMcp
  <2>5. RulingType' BY <1>27, <2>3, <2>4 DEF RefreshMcp, RulingType, PlanType
  <2>6. QED BY <1>27, <2>2, <2>5 DEF RefreshMcp
<1>28. CASE Terminal BY <1>28 DEF Terminal, EvidenceType, SourceType
<1>29. CASE Rereviewed BY <1>29 DEF Rereviewed, EvidenceType, RulingType
<1>30. CASE Settle
  <2>1. EvidenceType' BY <1>30 DEF Settle, EvidenceType
  <2>2. RulingType'
    <3>1. PICK failing \in SUBSET Gates :
             Record(failing, posture) /\ verdict' \in {verdict, "no_go"}
      BY <1>30 DEF Settle, Gates, ReleaseOnly, Stale
    <3>2. QED BY <1>30, <3>1, RecordType DEF Settle, RulingType, PlanType
  <2>3. OutcomeType'
    <3>1. verdict' \in {"go", "no_go"} BY <2>2 DEF RulingType
    <3>2. recorded' \in [status : {"running", "completed", "completed_no_go", "failed"},
                          verdict : {"", "go", "no_go"}]
      BY <1>30, <3>1, SettledType
    <3>3. delivered' \in 0..MaxTrees BY <1>30 DEF Settle, SourceType
    <3>4. won' \in {"pending", "won", "lost"} BY <1>30 DEF Settle
    <3>5. QED BY <3>2, <3>3, <3>4 DEF OutcomeType
  <2>4. QED BY <1>30, <2>1, <2>2, <2>3 DEF Settle
<1>31. CASE Finalize BY <1>31 DEF Finalize
<1>32. CASE Fail BY <1>32 DEF Fail, OutcomeType
<1>33. CASE Drift BY <1>33 DEF Drift, WorldType
<1>34. CASE SwitchPosture BY <1>34 DEF SwitchPosture, WorldType
<1>35. CASE UNCHANGED vars BY <1>35 DEF vars, Plan, World, Source, Evidence, Ruling, Outcome
<1>36. QED
  BY <1>1, <1>2, <1>3, <1>4, <1>5, <1>6, <1>7, <1>8, <1>9, <1>10, <1>11, <1>12, <1>13, <1>14,
     <1>15, <1>16, <1>17, <1>18, <1>19, <1>20, <1>21, <1>22, <1>23, <1>24, <1>25, <1>26, <1>27,
     <1>28, <1>29, <1>30, <1>31, <1>32, <1>33, <1>34, <1>35 DEF Next
-----------------------------------------------------------------------------
(***************************************************************************)
(* How the steps of a build rule.                                          *)
(***************************************************************************)
\* Once a tree is recorded, what a go rests on no longer moves.
LEMMA AfterDelivery ==
  ASSUME TypeOK, OrderInv, [Next]_vars, delivered' # 0
  PROVE  Settle \/ UNCHANGED <<stack, proof, review, mcp, trace, verdict, findings, delivered>>
<1>. USE DEF Plan, World, Source, Evidence, Ruling, Outcome, Goto, OrderInv, Early
<1>1. CASE Settle BY <1>1
<1>2. CASE Finalize \/ Fail \/ Drift \/ SwitchPosture \/ UNCHANGED vars
  BY <1>2 DEF Finalize, Fail, Drift, SwitchPosture, vars
<1>3. CASE \/ Stages \/ Deliver \/ FirstProof \/ FixRound \/ FixDone \/ Recover
           \/ Rescore \/ Refreshed \/ Combine \/ HeadlessRepair \/ HeadlessDone \/ GameVisual
  BY <1>3 DEF Stages, Deliver, FirstProof, FixRound, FixDone, Recover, Rescore, Refreshed, Combine,
              HeadlessRepair, HeadlessDone, GameVisual, RepairVisual
<1>4. CASE \/ Playtest \/ FoldSignals \/ SurfaceConfig \/ SelfHeal \/ HealProof \/ Liveness
           \/ Quality \/ Check \/ Stabilize \/ FinalConsistency
  BY <1>4 DEF Playtest, FoldSignals, SurfaceConfig, SelfHeal, HealProof, Liveness, Quality, Check,
              SeoCheck, McpCheck, Verified, RagCheck, WorkflowCheck, AiNative, CliCheck, CliPlaytest,
              Stabilize,
              FinalConsistency
<1>5. CASE \/ FinalProof \/ Ladder \/ LadderDidNotRun \/ Trace \/ RefreshMcp \/ Terminal \/ Rereviewed
  BY <1>5 DEF FinalProof, Ladder, LadderDidNotRun, Trace, RefreshMcp, Terminal, Rereviewed
<1>6. QED BY <1>1, <1>2, <1>3, <1>4, <1>5 DEF Next

\* The visual flip can be taken back only after the visual repair, or its proof, or
\* while nothing that bears on it moves.
LEMMA HealPlaces ==
  ASSUME TypeOK, OrderInv, [Next]_vars, MayRestore'
  PROVE  SelfHeal \/ HealProof \/ UNCHANGED <<pc, proof, review, findings, flipped>>
<1>. USE DEF Plan, World, Source, Evidence, Ruling, Outcome, Goto, OrderInv, Early, MayRestore
<1>1. CASE SelfHeal \/ HealProof BY <1>1
<1>2. CASE Finalize \/ Fail \/ Drift \/ SwitchPosture \/ UNCHANGED vars
  BY <1>2 DEF Finalize, Fail, Drift, SwitchPosture, vars
<1>3. CASE \/ Stages \/ Deliver \/ FirstProof \/ FixRound \/ FixDone \/ Recover
           \/ Rescore \/ Refreshed \/ Combine \/ HeadlessRepair \/ HeadlessDone \/ GameVisual
  BY <1>3 DEF Stages, Deliver, FirstProof, FixRound, FixDone, Recover, Rescore, Refreshed, Combine,
              HeadlessRepair, HeadlessDone, GameVisual, RepairVisual
<1>4. CASE \/ Playtest \/ FoldSignals \/ SurfaceConfig \/ Liveness
           \/ Quality \/ Check \/ Stabilize \/ FinalConsistency
  BY <1>4 DEF Playtest, FoldSignals, SurfaceConfig, SelfHeal, HealProof, Liveness, Quality, Check,
              SeoCheck, McpCheck, Verified, RagCheck, WorkflowCheck, AiNative, CliCheck, CliPlaytest,
              Stabilize,
              FinalConsistency
<1>5. CASE \/ FinalProof \/ Ladder \/ LadderDidNotRun \/ Trace \/ RefreshMcp \/ Terminal
           \/ Rereviewed \/ Settle
  BY <1>5 DEF FinalProof, Ladder, LadderDidNotRun, Trace, RefreshMcp, Terminal, Rereviewed, Settle
<1>6. QED BY <1>1, <1>2, <1>3, <1>4, <1>5 DEF Next

\* A step that lowers at most: a go after it was a go before it, and no finding that
\* blocks was recorded but the visual one.
Lowers == verdict' = "go" => verdict = "go" /\ (OnlyVisual => OnlyVisual')

\* Folding does, and so does leaving verdict and findings alone.
LEMMA FoldOnlyLowers == ASSUME NEW failing, NEW p, Fold(failing, p) PROVE Lowers
  BY FoldLowers, FoldKeeps DEF Lowers
LEMMA SameLowers == ASSUME UNCHANGED <<verdict, findings>> PROVE Lowers
  BY DEF Lowers, OnlyVisual

\* Every gate only lowers.
LEMMA GatesLower ==
  ASSUME \/ FoldSignals \/ SelfHeal \/ HealProof \/ Quality \/ Check \/ Stabilize
         \/ FinalConsistency \/ FinalProof \/ Ladder \/ LadderDidNotRun \/ Trace \/ RefreshMcp
  PROVE  Lowers
<1>. USE FoldOnlyLowers, SameLowers DEF Ruling, Gate
<1>1. CASE FoldSignals \/ SelfHeal \/ HealProof \/ Quality \/ Stabilize
  BY <1>1 DEF FoldSignals, SelfHeal, HealProof, Quality, Stabilize
<1>2. CASE Check
  BY <1>2 DEF Check, SeoCheck, McpCheck, Verified, RagCheck, WorkflowCheck, AiNative, CliCheck, CliPlaytest
<1>3. CASE FinalConsistency \/ FinalProof \/ Ladder \/ LadderDidNotRun
  BY <1>3 DEF FinalConsistency, FinalProof, Ladder, LadderDidNotRun
<1>4. CASE Trace \/ RefreshMcp
  BY <1>4 DEF Trace, RefreshMcp
<1>5. QED BY <1>1, <1>2, <1>3, <1>4

\* So does everything but the reviews, the rescore and the page that takes back the flip.
LEMMA OthersLower ==
  ASSUME [Next]_vars, pc # "settling"
  PROVE  Lowers \/ Stages \/ Refreshed \/ Combine \/ Liveness
<1>. USE SameLowers DEF Ruling
<1>1. CASE \/ Deliver \/ FirstProof \/ FixRound \/ FixDone \/ Recover \/ Rescore
           \/ HeadlessRepair \/ HeadlessDone \/ GameVisual \/ Playtest \/ SurfaceConfig
  BY <1>1 DEF Deliver, FirstProof, FixRound, FixDone, Recover, Rescore, HeadlessRepair,
              HeadlessDone, GameVisual, RepairVisual, Playtest, SurfaceConfig
<1>2. CASE Terminal \/ Finalize \/ Fail \/ Drift \/ SwitchPosture \/ UNCHANGED vars
  BY <1>2 DEF Terminal, Finalize, Fail, Drift, SwitchPosture, vars
<1>3. CASE Rereviewed
  <2>1. UNCHANGED findings /\ verdict' \in {verdict, "no_go"} BY <1>3 DEF Rereviewed
  <2>2. QED BY <2>1 DEF Lowers, OnlyVisual
<1>4. CASE Settle BY <1>4 DEF Settle
<1>5. QED BY <1>1, <1>2, <1>3, <1>4, GatesLower DEF Next

\* What the page may do to the verdict: nothing, take a go away, or give back the go
\* that the visual gate took.
LEMMA LivenessRules ==
  ASSUME Liveness
  PROVE  Lowers \/ (Passed(proof) /\ flipped /\ UNCHANGED findings)
<1>. USE FoldOnlyLowers, SameLowers DEF Ruling
<1>1. QED BY DEF Liveness, Lowers

\* A build that settles as a go settles with the go it had.
LEMMA SettleRules ==
  ASSUME Settle, verdict' = "go"
  PROVE  /\ verdict = "go" /\ UNCHANGED trace /\ ~Stale
         /\ OnlyVisual => OnlyVisual'
<1>1. PICK failing : /\ Record(failing, posture)
                     /\ verdict' = IF \/ Stale \/ trace.mode = "invalid"
                                      \/ \E g \in failing : Blocks(g, posture)
                                     THEN "no_go" ELSE verdict
  BY DEF Settle
<1>2. verdict = "go" /\ ~Stale /\ \A g \in failing : ~Blocks(g, posture)
  BY <1>1
<1>3. UNCHANGED trace BY <1>2 DEF Settle
<1>4. QED BY <1>1, <1>2, <1>3, RecordKeeps
-----------------------------------------------------------------------------
(***************************************************************************)
(* The inductive invariant.                                                *)
(***************************************************************************)
LEMMA OrderKept == ASSUME TypeOK, OrderInv, [Next]_vars PROVE OrderInv'
<1>. USE DEF Plan, World, Source, Evidence, Ruling, Outcome, Goto, OrderInv, Early
<1>1. CASE \/ Stages \/ Deliver \/ FirstProof \/ FixRound \/ FixDone \/ Recover \/ Rescore
  BY <1>1 DEF Stages, Deliver, FirstProof, FixRound, FixDone, Recover, Rescore
<1>2. CASE Refreshed \/ Combine \/ HeadlessRepair \/ HeadlessDone \/ GameVisual \/ Playtest
  <2>1. CASE Refreshed \/ Combine BY <2>1 DEF Refreshed, Combine
  <2>2. CASE HeadlessRepair \/ HeadlessDone BY <2>2 DEF HeadlessRepair, HeadlessDone
  <2>3. CASE GameVisual BY <2>3 DEF GameVisual, RepairVisual
  <2>4. CASE Playtest BY <2>4 DEF Playtest
  <2>5. QED BY <1>2, <2>1, <2>2, <2>3, <2>4
<1>3. CASE FoldSignals \/ SurfaceConfig \/ SelfHeal \/ HealProof \/ Liveness \/ Quality
  BY <1>3 DEF FoldSignals, SurfaceConfig, SelfHeal, HealProof, Liveness, Quality
<1>4. CASE Check \/ Stabilize \/ FinalConsistency \/ FinalProof
  BY <1>4 DEF Check, SeoCheck, McpCheck, Verified, RagCheck, WorkflowCheck, AiNative, CliCheck, CliPlaytest,
              Stabilize,
              FinalConsistency, FinalProof
<1>5. CASE Ladder \/ LadderDidNotRun \/ Trace \/ RefreshMcp \/ Terminal \/ Rereviewed \/ Settle
  <2>1. CASE Ladder \/ LadderDidNotRun BY <2>1 DEF Ladder, LadderDidNotRun
  <2>2. CASE Trace \/ RefreshMcp BY <2>2 DEF Trace, RefreshMcp
  <2>3. CASE Terminal \/ Rereviewed BY <2>3 DEF Terminal, Rereviewed
  <2>4. CASE Settle BY <2>4 DEF Settle
  <2>5. QED BY <1>5, <2>1, <2>2, <2>3, <2>4
<1>6. CASE Finalize \/ Fail \/ Drift \/ SwitchPosture \/ UNCHANGED vars
  <2>1. CASE Finalize \/ Fail BY <2>1 DEF Finalize, Fail
  <2>2. CASE Drift \/ SwitchPosture BY <2>2 DEF Drift, SwitchPosture
  <2>3. CASE UNCHANGED vars BY <2>3 DEF vars
  <2>4. QED BY <1>6, <2>1, <2>2, <2>3
<1>7. QED BY <1>1, <1>2, <1>3, <1>4, <1>5, <1>6 DEF Next

\* The visual gate flips a go only.
LEMMA SelfHealFlips == ASSUME SelfHeal, flipped' PROVE verdict = "go"
  BY DEF SelfHeal

\* A step either asks the reviewer, or leaves the review as it is.
LEMMA ReviewMoves ==
  ASSUME [Next]_vars
  PROVE  Stages \/ Refreshed \/ Rereviewed \/ UNCHANGED review
<1>. USE DEF Evidence
<1>1. CASE \/ Deliver \/ FirstProof \/ FixRound \/ FixDone \/ Recover \/ Rescore \/ Combine
           \/ HeadlessRepair \/ HeadlessDone \/ GameVisual \/ Playtest \/ SurfaceConfig
  BY <1>1 DEF Deliver, FirstProof, FixRound, FixDone, Recover, Rescore, Combine, HeadlessRepair,
              HeadlessDone, GameVisual, RepairVisual, Playtest, SurfaceConfig
<1>2. CASE FoldSignals \/ SelfHeal \/ HealProof \/ Liveness \/ Quality \/ Check \/ Stabilize
  BY <1>2 DEF FoldSignals, SelfHeal, HealProof, Liveness, Quality, Check, Stabilize
<1>3. CASE FinalConsistency \/ FinalProof \/ Ladder \/ LadderDidNotRun \/ Trace \/ RefreshMcp
  BY <1>3 DEF FinalConsistency, FinalProof, Ladder, LadderDidNotRun, Trace, RefreshMcp
<1>4. CASE Terminal \/ Settle \/ Finalize \/ Fail \/ Drift \/ SwitchPosture \/ UNCHANGED vars
  BY <1>4 DEF Terminal, Settle, Finalize, Fail, Drift, SwitchPosture, vars
<1>5. QED BY <1>1, <1>2, <1>3, <1>4 DEF Next

\* Until it settles, nothing of the ruling moves where a build settles.
LEMMA SettlingStays ==
  ASSUME [Next]_vars, pc = "settling", ~Settle
  PROVE  UNCHANGED <<verdict, findings, flipped>>
<1>. USE DEF Ruling
<1>1. ~(\/ Stages \/ Deliver \/ FirstProof \/ FixRound \/ FixDone \/ Recover \/ Rescore \/ Refreshed
        \/ Combine \/ HeadlessRepair \/ HeadlessDone \/ GameVisual \/ Playtest \/ SurfaceConfig)
  BY DEF Stages, Deliver, FirstProof, FixRound, FixDone, Recover, Rescore, Refreshed, Combine,
         HeadlessRepair, HeadlessDone, GameVisual, RepairVisual, Playtest, SurfaceConfig
<1>2. ~(FoldSignals \/ SelfHeal \/ HealProof \/ Liveness \/ Quality \/ Check \/ Stabilize)
  BY DEF FoldSignals, SelfHeal, HealProof, Liveness, Quality, Check, SeoCheck, McpCheck, Verified, RagCheck,
         AiNative, WorkflowCheck, CliCheck, CliPlaytest, Stabilize
<1>3. ~(\/ FinalConsistency \/ FinalProof \/ Ladder \/ LadderDidNotRun \/ Trace \/ RefreshMcp
        \/ Terminal \/ Rereviewed \/ Finalize \/ Fail)
  BY DEF FinalConsistency, FinalProof, Ladder, LadderDidNotRun, Trace, RefreshMcp, Terminal,
         Rereviewed, Finalize, Fail
<1>4. CASE Drift \/ SwitchPosture \/ UNCHANGED vars
  BY <1>4 DEF Drift, SwitchPosture, vars
<1>5. QED BY <1>1, <1>2, <1>3, <1>4 DEF Next

\* A go after a step that asks no reviewer is one the reviewer had given.
LEMMA GoIsTheReviewers ==
  ASSUME TypeOK, OrderInv, ReviewInv, [Next]_vars, UNCHANGED review, Reviewer,
         verdict' = "go", ~Stages, ~Refreshed
  PROVE  review.verdict = "go"
<1>1. CASE Lowers BY <1>1 DEF Lowers, ReviewInv
<1>2. CASE Combine
  <2>1. verdict = "go" BY <1>2 DEF Combine
  <2>2. QED BY <2>1 DEF ReviewInv
<1>3. CASE Liveness
  <2>1. CASE Lowers BY <2>1, <1>1
  <2>2. CASE flipped BY <1>3, <2>2 DEF Liveness, ReviewInv, MayRestore
  <2>3. QED BY <1>3, <2>1, <2>2, LivenessRules
<1>4. CASE pc = "settling"
  <2>1. CASE Settle BY <2>1, SettleRules DEF ReviewInv
  <2>2. CASE ~Settle BY <1>4, <2>2, SettlingStays DEF ReviewInv
  <2>3. QED BY <2>1, <2>2
<1>5. QED BY <1>1, <1>2, <1>3, <1>4, OthersLower

\* A build comes to its settlement by the terminal review, or needs none.
LEMMA SettlingPlaces ==
  ASSUME [Next]_vars, pc' = "settling"
  PROVE  \/ Terminal \/ Rereviewed
         \/ pc = "settling" /\ UNCHANGED <<stack, tree, review, mcp, verdict>>
<1>. USE DEF Plan, Source, Evidence, Ruling, Goto
<1>1. CASE \/ Stages \/ Deliver \/ FirstProof \/ FixRound \/ FixDone \/ Recover \/ Rescore \/ Refreshed
           \/ Combine \/ HeadlessRepair \/ HeadlessDone \/ GameVisual \/ Playtest \/ SurfaceConfig
  BY <1>1 DEF Stages, Deliver, FirstProof, FixRound, FixDone, Recover, Rescore, Refreshed, Combine,
              HeadlessRepair, HeadlessDone, GameVisual, RepairVisual, Playtest, SurfaceConfig
<1>2. CASE FoldSignals \/ SelfHeal \/ HealProof \/ Liveness \/ Quality \/ Check \/ Stabilize
  BY <1>2 DEF FoldSignals, SelfHeal, HealProof, Liveness, Quality, Check, Stabilize
<1>3. CASE FinalConsistency \/ FinalProof \/ Ladder \/ LadderDidNotRun \/ Trace \/ RefreshMcp
  BY <1>3 DEF FinalConsistency, FinalProof, Ladder, LadderDidNotRun, Trace, RefreshMcp
<1>4. CASE Settle \/ Finalize \/ Fail \/ Drift \/ SwitchPosture \/ UNCHANGED vars
  BY <1>4 DEF Settle, Finalize, Fail, Drift, Awaits, SwitchPosture, vars
<1>5. QED BY <1>1, <1>2, <1>3, <1>4 DEF Next
LEMMA ReviewKept ==
  ASSUME TypeOK, OrderInv, ReviewInv, [Next]_vars
  PROVE  ReviewInv'
<1>1. ASSUME Reviewer', verdict' = "go" PROVE (review.verdict = "go")'
  <2>1. CASE Stages
    <3>1. PICK v \in {"none", "go", "no_go"} :
            /\ review' = [verdict |-> v, tree |-> IF v = "none" THEN 0 ELSE tree]
            /\ verdict' = IF v = "go" THEN "go" ELSE "no_go"
      BY <2>1 DEF Stages
    <3>2. QED BY <1>1, <3>1
  <2>2. CASE Refreshed BY <1>1, <2>2 DEF Refreshed
  <2>3. CASE Rereviewed
    <3>1. review' = [verdict |-> "go", tree |-> asked] \/ verdict' = "no_go"
          \/ \E v \in {"go", "no_go"} :
               /\ review' = [verdict |-> v, tree |-> asked]
               /\ verdict' = IF v = "go" THEN verdict ELSE "no_go"
      BY <2>3 DEF Rereviewed
    <3>2. QED BY <1>1, <3>1
  <2>4. CASE UNCHANGED review /\ ~Stages /\ ~Refreshed
    BY <1>1, <2>4, GoIsTheReviewers DEF Reviewer
  <2>5. QED BY <2>1, <2>2, <2>3, <2>4, ReviewMoves
<1>2. ASSUME Reviewer', MayRestore' PROVE (review.verdict = "go")'
  <2>1. CASE SelfHeal
    <3>1. verdict = "go" BY <1>2, <2>1, SelfHealFlips DEF MayRestore
    <3>2. UNCHANGED review BY <2>1 DEF SelfHeal, Evidence
    <3>3. QED BY <1>2, <3>1, <3>2 DEF ReviewInv, Reviewer
  <2>2. CASE HealProof
    <3>1. UNCHANGED <<review, flipped>> /\ pc = "healproof" BY <2>2 DEF HealProof
    <3>2. MayRestore BY <1>2, <3>1 DEF MayRestore
    <3>3. QED BY <1>2, <3>1, <3>2 DEF ReviewInv, Reviewer
  <2>3. CASE UNCHANGED <<pc, proof, review, findings, flipped>>
    <3>1. MayRestore BY <1>2, <2>3 DEF MayRestore
    <3>2. QED BY <1>2, <2>3, <3>1 DEF ReviewInv, Reviewer
  <2>4. QED BY <1>2, <2>1, <2>2, <2>3, HealPlaces
<1>3. ASSUME Reviewer', verdict' = "go", pc' = "settling" PROVE (review.tree = tree)'
  <2>1. CASE Terminal BY <1>3, <2>1 DEF Terminal, Goto, Source, Reviewer
  <2>2. CASE Rereviewed
    <3>1. PICK v \in {"go", "no_go"} : tree = asked /\ review' = [verdict |-> v, tree |-> asked]
      BY <1>3, <2>2 DEF Rereviewed
    <3>2. UNCHANGED tree BY <2>2 DEF Rereviewed, Source
    <3>3. QED BY <3>1, <3>2
  <2>3. CASE pc = "settling" /\ UNCHANGED <<stack, tree, review, mcp, verdict>>
    BY <1>3, <2>3 DEF ReviewInv, Reviewer
  <2>4. QED BY <1>3, <2>1, <2>2, <2>3, SettlingPlaces
<1>4. QED BY <1>1, <1>2, <1>3 DEF ReviewInv

\* A build waits at its terminal review, before and after it, only by these steps.
LEMMA TerminalPlaces ==
  ASSUME [Next]_vars, pc' \in {"terminal", "rereviewing"}
  PROVE  \/ Trace /\ stack # "mcp"
         \/ RefreshMcp \/ Terminal
         \/ pc' = pc /\ UNCHANGED <<stack, asked, mcp, verdict>> /\ (pc = "terminal" => UNCHANGED tree)
<1>. USE DEF Plan, Source, Evidence, Ruling, Goto
<1>1. CASE \/ Stages \/ Deliver \/ FirstProof \/ FixRound \/ FixDone \/ Recover \/ Rescore \/ Refreshed
           \/ Combine \/ HeadlessRepair \/ HeadlessDone \/ GameVisual \/ Playtest \/ SurfaceConfig
  BY <1>1 DEF Stages, Deliver, FirstProof, FixRound, FixDone, Recover, Rescore, Refreshed, Combine,
              HeadlessRepair, HeadlessDone, GameVisual, RepairVisual, Playtest, SurfaceConfig
<1>2. CASE FoldSignals \/ SelfHeal \/ HealProof \/ Liveness \/ Quality \/ Check \/ Stabilize
  BY <1>2 DEF FoldSignals, SelfHeal, HealProof, Liveness, Quality, Check, Stabilize
<1>3. CASE FinalConsistency \/ FinalProof \/ Ladder \/ LadderDidNotRun \/ Trace
  BY <1>3 DEF FinalConsistency, FinalProof, Ladder, LadderDidNotRun, Trace
<1>4. CASE Rereviewed \/ Settle \/ Finalize \/ Fail BY <1>4 DEF Rereviewed, Settle, Finalize, Fail
<1>5. CASE Drift \/ SwitchPosture \/ UNCHANGED vars BY <1>5 DEF Drift, Awaits, SwitchPosture, vars
<1>6. QED BY <1>1, <1>2, <1>3, <1>4, <1>5 DEF Next

\* Behind a go that is left the protocol check of this source answered.
LEMMA RefreshChecks ==
  ASSUME TypeOK, RefreshMcp, verdict' = "go"
  PROVE  mcp' = [ok |-> TRUE, tree |-> tree]
<1>1. mcp' \in [ok : BOOLEAN, tree : 0..MaxTrees] /\ mcp'.tree = tree
  <2>1. (mcp' = mcp /\ mcp.tree = tree) \/ \E ok \in BOOLEAN : mcp' = [ok |-> ok, tree |-> tree]
    BY DEF RefreshMcp, Verified
  <2>2. QED BY <2>1 DEF TypeOK, EvidenceType, SourceType
<1>2. mcp'.ok
  <2>1. SUFFICES ASSUME ~mcp'.ok PROVE FALSE OBVIOUS
  <2>2. Fold({"mcp_verification"}, posture) BY <2>1 DEF RefreshMcp
  <2>3. Blocks("mcp_verification", posture) BY DEF Blocks, AlwaysBlocking
  <2>4. QED BY <2>2, <2>3, FoldLowers
<1>3. QED BY <1>1, <1>2

LEMMA McpKept == ASSUME TypeOK, McpInv, [Next]_vars PROVE McpInv'
<1>1. ASSUME stack' = "mcp", verdict' = "go", pc' = "terminal"
      PROVE  (mcp = [ok |-> TRUE, tree |-> tree])'
  <2>1. CASE RefreshMcp BY <1>1, <2>1, RefreshChecks DEF RefreshMcp, Source
  <2>2. CASE pc' = pc /\ UNCHANGED <<stack, asked, mcp, verdict>> /\ (pc = "terminal" => UNCHANGED tree)
    BY <1>1, <2>2 DEF McpInv
  <2>3. ~Terminal BY <1>1 DEF Terminal, Goto
  <2>4. ~(Trace /\ stack # "mcp") BY <1>1 DEF Trace, Plan
  <2>5. QED BY <1>1, <2>1, <2>2, <2>3, <2>4, TerminalPlaces
<1>2. ASSUME stack' = "mcp", verdict' = "go", pc' = "rereviewing"
      PROVE  (mcp = [ok |-> TRUE, tree |-> asked])'
  <2>1. CASE Terminal BY <1>2, <2>1 DEF Terminal, Plan, Ruling, McpInv
  <2>2. CASE pc' = pc /\ UNCHANGED <<stack, asked, mcp, verdict>> /\ (pc = "terminal" => UNCHANGED tree)
    BY <1>2, <2>2 DEF McpInv
  <2>3. ~RefreshMcp /\ ~Trace BY <1>2 DEF RefreshMcp, Trace, Goto
  <2>4. QED BY <1>2, <2>1, <2>2, <2>3, TerminalPlaces
<1>3. ASSUME stack' = "mcp", verdict' = "go", pc' = "settling"
      PROVE  (mcp = [ok |-> TRUE, tree |-> tree])'
  <2>1. CASE Terminal BY <1>3, <2>1 DEF Terminal, Plan, Ruling, Source, McpInv
  <2>2. CASE Rereviewed
    <3>1. tree = asked /\ verdict = "go" BY <1>3, <2>2 DEF Rereviewed
    <3>2. UNCHANGED <<stack, mcp, tree>> /\ pc = "rereviewing" BY <2>2 DEF Rereviewed, Plan, Source
    <3>3. QED BY <1>3, <3>1, <3>2 DEF McpInv
  <2>3. CASE pc = "settling" /\ UNCHANGED <<stack, tree, review, mcp, verdict>>
    BY <1>3, <2>3 DEF McpInv
  <2>4. QED BY <1>3, <2>1, <2>2, <2>3, SettlingPlaces
<1>4. QED BY <1>1, <1>2, <1>3 DEF McpInv
\* No finding, nothing that blocks.
LEMMA NothingFound == ASSUME findings = {} PROVE OnlyVisual
  BY DEF OnlyVisual

LEMMA FindingKept ==
  ASSUME TypeOK, OrderInv, FindingInv, [Next]_vars
  PROVE  FindingInv'
<1>1. ASSUME verdict' = "go" PROVE OnlyVisual'
  <2>1. CASE Lowers BY <1>1, <2>1 DEF Lowers, FindingInv
  <2>2. CASE Stages \/ Refreshed \/ Combine
    <3>1. findings = {} /\ UNCHANGED findings
      BY <2>2 DEF Stages, Refreshed, Combine, OrderInv, Early
    <3>2. QED BY <3>1 DEF OnlyVisual
  <2>3. CASE Liveness
    <3>1. CASE Passed(proof) /\ flipped /\ UNCHANGED findings
      <4>1. OnlyVisual BY <2>3, <3>1 DEF Liveness, FindingInv, MayRestore
      <4>2. QED BY <3>1, <4>1 DEF OnlyVisual
    <3>2. QED BY <2>1, <2>3, <3>1, LivenessRules
  <2>4. CASE Settle BY <1>1, <2>4, SettleRules DEF FindingInv
  <2>5. CASE pc = "settling" /\ ~Settle
    <3>1. UNCHANGED <<verdict, findings>> BY <2>5, SettlingStays
    <3>2. QED BY <1>1, <3>1 DEF FindingInv, OnlyVisual
  <2>6. QED BY <2>1, <2>2, <2>3, <2>4, <2>5, OthersLower
<1>2. ASSUME MayRestore', pc' = "healproof" \/ Passed(proof)' PROVE OnlyVisual'
  <2>1. CASE SelfHeal
    <3>1. verdict = "go" BY <1>2, <2>1, SelfHealFlips DEF MayRestore
    <3>2. OnlyVisual BY <3>1 DEF FindingInv
    <3>3. PICK failing \in SUBSET {"visual_self_heal"} : Record(failing, posture)
      BY <2>1 DEF SelfHeal, Gate, Fold
    <3>4. \A g \in failing : g = "visual_self_heal" OBVIOUS
    <3>5. QED BY <3>2, <3>3, <3>4, RecordKeeps
  <2>2. CASE HealProof
    <3>1. pc = "healproof" /\ pc' = "liveness" /\ UNCHANGED flipped
      BY <2>2 DEF HealProof, Goto
    <3>2. OnlyVisual BY <1>2, <3>1 DEF FindingInv, MayRestore
    <3>3. Passed(proof') BY <1>2, <3>1 DEF Passed
    <3>4. UNCHANGED findings BY <2>2, <3>3, RecordNothing DEF HealProof, Fold
    <3>5. QED BY <3>2, <3>4 DEF OnlyVisual
  <2>3. CASE UNCHANGED <<pc, proof, review, findings, flipped>>
    BY <1>2, <2>3 DEF FindingInv, MayRestore, Passed, OnlyVisual
  <2>4. QED BY <1>2, <2>1, <2>2, <2>3, HealPlaces
<1>3. QED BY <1>1, <1>2 DEF FindingInv

\* The proof of a build moves only while it is built and repaired, and where it is folded.
LEMMA ProofMoves ==
  ASSUME [Next]_vars
  PROVE  \/ FirstProof \/ FixRound \/ Recover \/ FoldSignals \/ HealProof \/ FinalProof
         \/ UNCHANGED proof
<1>. USE DEF Evidence
<1>1. CASE \/ Stages \/ Deliver \/ FixDone \/ Rescore \/ Refreshed \/ Combine \/ HeadlessRepair
           \/ HeadlessDone \/ GameVisual \/ Playtest \/ SurfaceConfig
  BY <1>1 DEF Stages, Deliver, FixDone, Rescore, Refreshed, Combine, HeadlessRepair, HeadlessDone,
              GameVisual, RepairVisual, Playtest, SurfaceConfig
<1>2. CASE SelfHeal \/ Liveness \/ Quality \/ Check \/ Stabilize \/ FinalConsistency
  BY <1>2 DEF SelfHeal, Liveness, Quality, Check, Stabilize, FinalConsistency
<1>3. CASE Ladder \/ LadderDidNotRun \/ Trace \/ RefreshMcp \/ Terminal \/ Rereviewed
  BY <1>3 DEF Ladder, LadderDidNotRun, Trace, RefreshMcp, Terminal, Rereviewed
<1>4. CASE Settle \/ Finalize \/ Fail \/ Drift \/ SwitchPosture \/ UNCHANGED vars
  BY <1>4 DEF Settle, Finalize, Fail, Drift, SwitchPosture, vars
<1>5. QED BY <1>1, <1>2, <1>3, <1>4 DEF Next

\* A proof that is folded and fails takes the go.
LEMMA ProofIsFolded ==
  ASSUME FoldSignals \/ HealProof \/ FinalProof, ~UNCHANGED proof \/ FoldSignals, verdict' = "go"
  PROVE  Passed(proof')
<1>1. SUFFICES ASSUME ~Passed(proof') PROVE FALSE OBVIOUS
<1>2. \E failing : "proof" \in failing /\ Fold(failing, posture)
  <2>1. CASE FoldSignals BY <1>1, <2>1 DEF FoldSignals
  <2>2. CASE HealProof BY <1>1, <2>2 DEF HealProof
  <2>3. CASE FinalProof /\ ~UNCHANGED proof BY <1>1, <2>3 DEF FinalProof
  <2>4. QED BY <2>1, <2>2, <2>3
<1>3. Blocks("proof", posture) BY DEF Blocks, AlwaysBlocking
<1>4. QED BY <1>2, <1>3, FoldLowers
\* A build leaves what comes before the first fold by that fold, or by failing.
LEMMA EarlyEnds ==
  ASSUME [Next]_vars, pc \in Early \cup {"done"}, delivered = 0, ~FoldSignals
  PROVE  pc' \in Early \cup {"done"} /\ delivered' = 0
<1>. USE DEF Outcome, Goto, Early
<1>1. CASE Stages \/ Deliver \/ FirstProof \/ FixRound \/ FixDone \/ Recover \/ Rescore
  BY <1>1 DEF Stages, Deliver, FirstProof, FixRound, FixDone, Recover, Rescore
<1>2. CASE Refreshed \/ Combine \/ HeadlessRepair \/ HeadlessDone \/ GameVisual \/ Playtest
  BY <1>2 DEF Refreshed, Combine, HeadlessRepair, HeadlessDone, GameVisual, RepairVisual, Playtest
<1>3. ~(SurfaceConfig \/ SelfHeal \/ HealProof \/ Liveness \/ Quality \/ Check \/ Stabilize)
  BY DEF SurfaceConfig, SelfHeal, HealProof, Liveness, Quality, Check, SeoCheck, McpCheck, Verified, RagCheck,
         AiNative, WorkflowCheck, CliCheck, CliPlaytest, Stabilize
<1>4. ~(\/ FinalConsistency \/ FinalProof \/ Ladder \/ LadderDidNotRun \/ Trace \/ RefreshMcp
        \/ Terminal \/ Rereviewed \/ Settle \/ Finalize)
  BY DEF FinalConsistency, FinalProof, Ladder, LadderDidNotRun, Trace, RefreshMcp, Terminal,
         Rereviewed, Settle, Finalize
<1>5. CASE Fail \/ Drift \/ SwitchPosture \/ UNCHANGED vars
  BY <1>5 DEF Fail, Drift, SwitchPosture, vars
<1>6. QED BY <1>1, <1>2, <1>3, <1>4, <1>5 DEF Next

LEMMA ProofKept ==
  ASSUME TypeOK, OrderInv, ProofInv, [Next]_vars
  PROVE  ProofInv'
<1>. SUFFICES ASSUME verdict' = "go", pc' \notin Early \cup {"done"} \/ delivered' # 0
              PROVE  Passed(proof')
  BY DEF ProofInv, Passed
<1>1. CASE FoldSignals BY <1>1, ProofIsFolded
<1>2. CASE (HealProof \/ FinalProof) /\ ~UNCHANGED proof BY <1>2, ProofIsFolded
<1>3. ASSUME ~FoldSignals PROVE pc \notin Early \cup {"done"} \/ delivered # 0
  BY <1>3, EarlyEnds
<1>4. CASE FirstProof \/ FixRound \/ Recover
  BY <1>3, <1>4 DEF FirstProof, FixRound, Recover, FoldSignals, OrderInv, Early
<1>5. CASE UNCHANGED proof /\ ~FoldSignals
  <2>1. CASE Lowers BY <1>3, <1>5, <2>1 DEF Lowers, ProofInv
  <2>2. CASE Stages \/ Refreshed \/ Combine
    BY <1>3, <1>5, <2>2 DEF Stages, Refreshed, Combine, OrderInv, Early
  <2>3. CASE Liveness BY <1>5, <2>1, <2>3, LivenessRules
  <2>4. CASE pc = "settling"
    <3>1. verdict = "go" BY <2>4, SettleRules, SettlingStays
    <3>2. QED BY <1>3, <1>5, <3>1 DEF ProofInv
  <2>5. QED BY <2>1, <2>2, <2>3, <2>4, OthersLower
<1>6. QED BY <1>1, <1>2, <1>4, <1>5, ProofMoves

LEMMA DeliveredKept ==
  ASSUME TypeOK, OrderInv, ReviewInv, McpInv, DeliveredInv, [Next]_vars
  PROVE  DeliveredInv'
<1>. SUFFICES ASSUME delivered' # 0, verdict' = "go"
              PROVE  /\ Reviewer' => review' = [verdict |-> "go", tree |-> delivered']
                     /\ stack' = "mcp" => mcp' = [ok |-> TRUE, tree |-> delivered']
                     /\ trace'.eligible => trace'.tree = delivered'
  BY DEF DeliveredInv, GoIsOfTheDeliveredTree, Final
<1>1. CASE Settle
  <2>1. /\ pc = "settling" /\ delivered' = tree
        /\ UNCHANGED <<stack, review, mcp>>
    BY <1>1 DEF Settle, Plan
  <2>2. verdict = "go" /\ UNCHANGED trace /\ ~Stale BY <1>1, SettleRules
  <2>3. Reviewer => review.verdict = "go" /\ review.tree = tree
    BY <2>1, <2>2 DEF ReviewInv
  <2>4. review \in [verdict : {"none", "go", "no_go"}, tree : 0..MaxTrees]
    BY DEF TypeOK, EvidenceType
  <2>5. Reviewer => review = [verdict |-> "go", tree |-> tree] BY <2>3, <2>4
  <2>6. stack = "mcp" => mcp = [ok |-> TRUE, tree |-> tree]
    BY <2>1, <2>2 DEF McpInv
  <2>7. trace.eligible => trace.tree = tree BY <2>2 DEF Stale
  <2>8. QED BY <2>1, <2>2, <2>5, <2>6, <2>7 DEF Reviewer
<1>2. CASE UNCHANGED <<stack, proof, review, mcp, trace, verdict, findings, delivered>>
  <2>1. GoIsOfTheDeliveredTree BY <1>2 DEF DeliveredInv
  <2>2. pc \in {"settled", "done"} BY <1>2 DEF OrderInv
  <2>3. QED BY <1>2, <2>1, <2>2 DEF GoIsOfTheDeliveredTree, Final, Reviewer
<1>3. QED BY <1>1, <1>2, AfterDelivery

-----------------------------------------------------------------------------
LEMMA BoundsCount ==
  ASSUME Bounded
  PROVE  /\ 0 \in 0..MaxTrees /\ 1 \in 1..MaxTrees /\ 0 \in 0..MaxFixes
         /\ 0 \in 0..MaxDrift /\ 0 \in 0..MaxSwitches
<1>1. MaxTrees \in Nat /\ MaxTrees # 0 BY DEF Bounded
<1>2. MaxFixes \in Nat /\ MaxDrift \in Nat /\ MaxSwitches \in Nat BY DEF Bounded
<1>3. 0 \in 0..MaxTrees /\ 1 \in 1..MaxTrees BY <1>1
<1>4. 0 \in 0..MaxFixes /\ 0 \in 0..MaxDrift /\ 0 \in 0..MaxSwitches BY <1>2
<1>5. QED BY <1>3, <1>4

LEMMA DInit == ASSUME Bounded, Init PROVE DInv
<1>. USE DEF Init
<1>1. TypeOK
  <2>1. /\ 0 \in 0..MaxTrees /\ 1 \in 1..MaxTrees /\ 0 \in 0..MaxFixes
        /\ 0 \in 0..MaxDrift /\ 0 \in 0..MaxSwitches
    BY BoundsCount
  <2>2. PlanType /\ SourceType BY <2>1 DEF PlanType, SourceType
  <2>3. WorldType BY <2>1 DEF WorldType
  <2>4. EvidenceType
    <3>1. NoProof \in [found : Condition, tree : 0..MaxTrees, advisory : BOOLEAN]
      BY <2>1 DEF NoProof, Condition
    <3>2. NoReview \in [verdict : {"none", "go", "no_go"}, tree : 0..MaxTrees]
      BY <2>1 DEF NoReview
    <3>3. NoCheck \in [ok : BOOLEAN, tree : 0..MaxTrees] BY <2>1 DEF NoCheck
    <3>4. NoTrace \in [mode : {"none", "enforced", "invalid", "stale"}, eligible : BOOLEAN,
                       tree : 0..MaxTrees]
      BY <2>1 DEF NoTrace
    <3>5. QED BY <2>1, <3>1, <3>2, <3>3, <3>4 DEF EvidenceType
  <2>5. RulingType BY DEF RulingType
  <2>6. OutcomeType BY <2>1 DEF OutcomeType
  <2>7. pc \in Places BY DEF Places
  <2>8. repaired \in BOOLEAN /\ fixed \in BOOLEAN /\ rounds \in 0..MaxFixes BY <2>1
  <2>9. QED BY <2>2, <2>3, <2>4, <2>5, <2>6, <2>7, <2>8 DEF TypeOK
<1>2. OrderInv BY DEF OrderInv
<1>3. ReviewInv BY DEF ReviewInv, MayRestore
<1>4. McpInv BY DEF McpInv
<1>5. FindingInv BY DEF FindingInv, MayRestore
<1>6. ProofInv /\ DeliveredInv BY DEF ProofInv, DeliveredInv
<1>7. QED BY <1>1, <1>2, <1>3, <1>4, <1>5, <1>6 DEF DInv

LEMMA DStep == ASSUME Bounded, DInv, [Next]_vars PROVE DInv'
  BY TypesKept, OrderKept, ReviewKept, McpKept, FindingKept, ProofKept, DeliveredKept DEF DInv

LEMMA Invariant == ASSUME Bounded PROVE Spec => []DInv
<1>1. Init => DInv BY DInit
<1>2. DInv /\ [Next]_vars => DInv' BY DStep
<1>3. QED BY <1>1, <1>2, PTL DEF Spec

\* The state of a build is well typed: every piece of evidence is of a version of the
\* source, every finding is of a gate under a posture.
THEOREM TypeCorrect == ASSUME Bounded PROVE Spec => []TypeOK
<1>1. DInv => TypeOK BY DEF DInv
<1>2. QED BY <1>1, Invariant, PTL

\* runner.py _start_build: whatever writes to the project while the build waits, a build
\* delivered as a go was reviewed, protocol-checked and traced as the tree it delivers.
THEOREM GoIsOfTheDeliveredTreeHolds == ASSUME Bounded PROVE Spec => []GoIsOfTheDeliveredTree
<1>1. DInv => GoIsOfTheDeliveredTree
  BY DEF DInv, DeliveredInv, GoIsOfTheDeliveredTree, Final
<1>2. QED BY <1>1, Invariant, PTL

\* runner.py _gate_outcome: a build delivered as a go has a last proof that passed and
\* no finding that blocks but the visual one, which only a healthy page takes back.
THEOREM GoIsUnblockedHolds == ASSUME Bounded PROVE Spec => []GoIsUnblocked
<1>1. DInv => GoIsUnblocked
  BY DEF DInv, ProofInv, FindingInv, GoIsUnblocked, Final
<1>2. QED BY <1>1, Invariant, PTL
=============================================================================

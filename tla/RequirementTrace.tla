--------------------------- MODULE RequirementTrace ---------------------------
(***************************************************************************)
(* Which requirements of a product specification a build has proven        *)
(* (studio/requirement_trace.py), and how the runner comes to the evidence *)
(* (studio/runner.py).  A requirement names acceptance ids; each is        *)
(* observed in the manifest.  When all evidence is in, a binding records   *)
(* what it speaks of: contract, source tree, runtime inputs, build, run,   *)
(* and a digest of the observations; the compiler accepts a pass only      *)
(* while the binding fits, and the delivery looks at it once more.         *)
(*                                                                         *)
(* One acceptance id of each kind, and one requirement beside it that      *)
(* names "build".  A record of evidence is cut down to what the compiler   *)
(* tells apart; a shape it refuses is one that is not "shaped".  Trees,    *)
(* runtime inputs, contracts and runs are numbers that change; digests     *)
(* are what they digest.                                                   *)
(***************************************************************************)
EXTENDS Naturals, FiniteSets

CONSTANTS
    Callers,     \* "runner", or "other": compiler and binding are functions of a library
    Focus,       \* acceptance ids of the first requirement
    MaxChanges   \* bound on what changes after the evidence

VARIABLES
    caller, stack, contract,
    at,                   \* the step that is next
    tree, runtime, run,   \* what is there, and the run that asks
    source, inputs,       \* what the evidence is taken to be of; 0: not readable, or unknown
    errors,               \* the runner's list of them is not empty
    extra,                \* the evidence the compiler is given
    binding, trace,
    ran,                  \* history: what was there while evidence was gathered
    minted,               \* history: [made, tree, runtime, run, version] of the binding
    changes

asking == <<caller, stack>>
world == <<tree, runtime, run>>
vars == <<asking, contract, at, world, source, inputs, errors, extra, binding, trace, ran, minted, changes>>

-----------------------------------------------------------------------------
\* The contract.

Ids == {"overall", "entrypoint", "artifact", "build", "headless", "gate",
        "route", "flow", "scenario", "capability", "unknown"}

Rows == {"first", "second"}
Requirement(c, r) == IF r = "first" THEN c.focus ELSE c.second
ActiveMusts(c) == {r \in Rows : Requirement(c, r).active /\ Requirement(c, r).must}
Asked(c) == UNION {Requirement(c, r).ids : r \in {q \in Rows : Requirement(c, q).active}}

Contract(ids, second, opted, wellformed) ==
    [focus |-> [ids |-> ids, must |-> TRUE, active |-> TRUE], second |-> second,
     opted |-> opted, wellformed |-> wellformed, version |-> 1]
Simple == [ids |-> {"build"}, must |-> TRUE, active |-> TRUE]
Contracts ==
    {Contract(ids, second, TRUE, TRUE) : ids \in {{f} : f \in Focus} \cup {{}},
       second \in [ids : {{}, {"build"}}, must : BOOLEAN, active : BOOLEAN]}
    \cup {Contract({f}, Simple, opted, ~opted) : f \in Focus, opted \in BOOLEAN}

Mode(c, enabled) ==
    IF ~enabled \/ ActiveMusts(c) = {} \/ \A r \in ActiveMusts(c) : Requirement(c, r).ids = {}
      THEN "legacy_advisory"
    ELSE IF \A r \in ActiveMusts(c) : Requirement(c, r).ids # {} THEN "enforced" ELSE "partial"

\* What the runner selects before it gathers evidence.
FullyBound ==
    contract.opted /\ ActiveMusts(contract) # {} /\ \A r \in ActiveMusts(contract) : Requirement(contract, r).ids # {}
Selected == IF FullyBound THEN UNION {Requirement(contract, r).ids : r \in ActiveMusts(contract)} ELSE {}
SafeProofs == Selected \cap {"artifact", "build"}
WebRoutes == Selected \cap (IF stack = "web" THEN {"route"} ELSE {})

-----------------------------------------------------------------------------
\* The evidence.

NoProof == [there |-> FALSE, skipped |-> FALSE, passed |-> "unset", detail |-> FALSE,
            entrypoints |-> "absent", boot |-> FALSE, artifact |-> "absent", build |-> "absent"]
Words == {"passed", "failed", "skipped", "absent"}

\* A step of the ladder: what it lists, and its records. "page" is a page, or a
\* flow, that no requirement names; a thin record passes without its artifacts.
NoStep == [found |-> "none", status |-> "skipped", shaped |-> TRUE, listed |-> {},
           records |-> [x \in {"it", "page"} |-> "none"]]
NoLadder == [there |-> FALSE, shaped |-> FALSE, saved |-> FALSE, status |-> "skipped",
             playwright |-> NoStep, maestro |-> NoStep]

NoGate == [there |-> FALSE, shaped |-> FALSE, skipped |-> FALSE, ok |-> FALSE, problems |-> FALSE]
NoHeadless == [there |-> FALSE, shaped |-> FALSE, applicable |-> FALSE, passed |-> FALSE, violations |-> FALSE]
NoCases == [there |-> FALSE, shaped |-> FALSE, status |-> "absent", asserted |-> FALSE, tree |-> 0]
Nothing == [proof |-> NoProof, gate |-> NoGate, headless |-> NoHeadless, ladder |-> NoLadder,
            scenarios |-> "absent", mcp |-> NoCases]

Seen(status) == [status |-> status, runtime |-> FALSE, run |-> 0]
Ran(status) == [status |-> status, runtime |-> TRUE, run |-> 0]
Climbed(status) == [status |-> status, runtime |-> TRUE, run |-> 1]
Word(w) == IF w = "absent" THEN "missing" ELSE w

ProofOverall(p) ==
    Seen(CASE ~p.there -> "missing"
           [] p.there /\ p.skipped -> "skipped"
           [] p.there /\ ~p.skipped /\ p.passed = "yes" -> "passed"
           [] p.there /\ ~p.skipped /\ p.passed = "no" -> "failed"
           [] OTHER -> "missing")

Entrypoint(p) ==
    Seen(IF ~p.there \/ ~p.detail \/ p.entrypoints = "absent" THEN "missing"
         ELSE IF p.passed = "yes" /\ p.entrypoints = "some" /\ ~p.boot THEN "passed" ELSE "failed")

StackArtifact(p) ==
    Seen(IF ~p.detail THEN "missing"
         ELSE CASE p.artifact = "pass" -> "passed" [] p.artifact = "fail" -> "failed"
                [] p.artifact = "generic" -> "skipped" [] OTHER -> "missing")

ProofDetail(p) == Seen(IF p.detail THEN Word(p.build) ELSE "missing")

\* A record that contradicts itself is a failure, whatever it says.
Gate(g) ==
    Ran(CASE ~g.there -> "missing"
          [] g.there /\ ~g.shaped -> "failed"
          [] g.there /\ g.shaped /\ g.skipped -> IF g.ok \/ g.problems THEN "failed" ELSE "skipped"
          [] OTHER -> IF g.ok /\ ~g.problems THEN "passed" ELSE "failed")

Headless(h) ==
    Ran(CASE ~h.there -> "missing"
          [] h.there /\ ~h.shaped -> "failed"
          [] h.there /\ h.shaped /\ ~h.applicable -> IF ~h.passed \/ h.violations THEN "failed" ELSE "skipped"
          [] OTHER -> IF h.passed /\ ~h.violations THEN "passed" ELSE "failed")

Scenario(s) ==
    Ran(CASE s \in {"absent", "nolist", "others"} -> "missing"
          [] s = "invalid" -> "failed" [] OTHER -> s)

Capability(m, src) ==
    Seen(CASE ~m.there -> "missing"
           [] m.there /\ ~m.shaped -> "failed"
           [] m.there /\ m.shaped /\ m.status = "absent" -> "missing"
           [] m.there /\ m.shaped /\ m.status = "skipped" -> "skipped"
           [] OTHER -> IF m.status # "passed" \/ ~m.asserted THEN "failed"
                       ELSE IF m.tree = src THEN "passed" ELSE "stale")

\* A ladder is what its required steps are, or it is not believed.
Steps(l) == {s \in {l.playwright, l.maestro} : s.found # "none"}
Required(l) == {s \in Steps(l) : s.found = "required"}
Aggregate(l) ==
    CASE \E s \in Required(l) : s.status = "failed" -> "failed"
      [] Required(l) = {} \/ \E s \in Required(l) : s.status = "skipped" -> "skipped"
      [] OTHER -> "passed"
ValidLadder(l) == l.there /\ l.shaped /\ l.saved /\ l.status = Aggregate(l)

\* Why the step as a whole says nothing better of its pages; "none": it does not.
MatchingStep(l, step) ==
    CASE step.found = "none" -> "missing"
      [] step.found = "optional" -> "failed"
      [] OTHER -> IF l.status # "passed" THEN l.status
                  ELSE IF step.status # "passed" THEN step.status ELSE "none"

Named(step) == {x \in DOMAIN step.records : step.records[x] # "none"}
Matched(step) == Named(step) = step.listed /\ \A x \in Named(step) : step.records[x] # "twice"

\* A pass without its report, its viewports and its shots is a failure.
RecordStatus(step, x) == IF step.records[x] \in {"passed", "skipped"} THEN step.records[x] ELSE "failed"

\* What a page has by its record: of exactly the pages that are listed, one each.
\* Where the step did not pass, what it was stands for every page it lists.
Records(l, step) ==
    LET default == MatchingStep(l, step)
    IN  IF step.found # "required" \/ ~step.shaped THEN <<>>
        ELSE IF default # "none" THEN [x \in step.listed |-> default]
        ELSE [x \in step.listed \cup Named(step) |-> IF Matched(step) THEN RecordStatus(step, x) ELSE "failed"]

\* What stands for a page that has none.
Default(l, step) ==
    CASE ~l.there -> "missing"
      [] l.there /\ ~ValidLadder(l) -> "failed"
      [] OTHER -> IF step.found = "required" /\ ~(step.shaped /\ Matched(step))
                    THEN "failed" ELSE MatchingStep(l, step)

RouteRecords(l) == IF ValidLadder(l) THEN Records(l, l.playwright) ELSE <<>>
FlowRecords(l) == IF ValidLadder(l) THEN Records(l, l.maestro) ELSE <<>>

Climb(l, status) == IF l.there /\ l.shaped THEN Climbed(status) ELSE Ran(status)

\* A default that is only "missing" says no more than that.
Looked(l, step, records) ==
    Climb(l, IF "it" \in DOMAIN records THEN records["it"]
             ELSE IF Default(l, step) \notin {"none", "missing"} THEN Default(l, step) ELSE "missing")

Route(l) == Looked(l, l.playwright, RouteRecords(l))
Flow(l) == Looked(l, l.maestro, FlowRecords(l))

Observe(e, id, src) ==
    CASE id = "overall" -> ProofOverall(e.proof)
      [] id = "entrypoint" -> Entrypoint(e.proof)
      [] id = "artifact" -> StackArtifact(e.proof)
      [] id = "build" -> ProofDetail(e.proof)
      [] id = "headless" -> Headless(e.headless)
      [] id = "gate" -> Gate(e.gate)
      [] id = "route" -> Route(e.ladder)
      [] id = "flow" -> Flow(e.ladder)
      [] id = "scenario" -> Scenario(e.scenarios)
      [] id = "capability" -> Capability(e.mcp, src)
      [] OTHER -> Seen("missing")

\* Only active requirements are observed.
Observations(c, e, src) == [id \in Asked(c) |-> Observe(e, id, src)]

-----------------------------------------------------------------------------
\* The binding and the compiler.

NoBinding == [made |-> FALSE, run |-> 0, version |-> 0, tree |-> 0, runtime |-> 0, digest |-> <<>>]
Readable(src) == src # 0
Known(inp) == inp # 0
ContractDigest(c) == c.version
Digest(o, asks) == <<o, asks>>
Runs(o) == {o[id].run : id \in DOMAIN o} \ {0}
NeedsRuntime(o) == \E id \in DOMAIN o : o[id].runtime /\ o[id].status = "passed"

\* A pass of something that ran cannot be bound without the inp of the run.
Bindable(c, o, src, inp, asks) ==
    c.wellformed /\ Readable(src) /\ Runs(o) \subseteq {asks} /\ (NeedsRuntime(o) => Known(inp))

Bound(c, o, src, inp, asks) ==
    [made |-> TRUE, run |-> asks, version |-> ContractDigest(c), tree |-> src,
     runtime |-> inp, digest |-> Digest(o, asks)]

BaseFresh(c, o, src, asks, b) ==
    /\ Readable(src) /\ b.made /\ b.run = asks /\ b.version = ContractDigest(c) /\ b.tree = src
    /\ b.digest = Digest(o, asks) /\ Runs(o) \subseteq {asks}

RuntimeFresh(o, inp, b) == NeedsRuntime(o) => Known(inp) /\ b.runtime = inp

\* Mutant: what has gone stale hides what had failed.
Effective_Hides(o, base, fresh) ==
    [id \in DOMAIN o |->
       IF ~base \/ (o[id].runtime /\ ~fresh) THEN "stale" ELSE o[id].status]

\* Only a claimed pass can go stale: a failure, a skip or an absence stands.
Effective(o, base, fresh) ==
    [id \in DOMAIN o |->
       IF o[id].status = "passed" /\ (~base \/ (o[id].runtime /\ ~fresh)) THEN "stale" ELSE o[id].status]

RowStatus(c, r, shown, enabled) ==
    LET statuses == {shown[id] : id \in Requirement(c, r).ids}
    IN  IF ~Requirement(c, r).active THEN "not_applicable"
        ELSE IF ~enabled \/ statuses = {} THEN "unbound"
        ELSE IF "stale" \in statuses THEN "stale"
        ELSE IF statuses = {"passed"} THEN "proven" ELSE "failed"

TopStatus(c, rows) ==
    LET statuses == {rows[r] : r \in ActiveMusts(c)}
    IN  IF statuses = {} THEN "unbound"
        ELSE IF "stale" \in statuses THEN "stale"
        ELSE IF "failed" \in statuses THEN "failed"
        ELSE IF "unbound" \in statuses THEN "unbound" ELSE "passed"

NoTrace == [mode |-> "none", status |-> "none", go |-> FALSE, blocks |-> FALSE,
            rows |-> <<>>, shown |-> <<>>]
Invalid == [NoTrace EXCEPT !.mode = "invalid", !.status = "failed", !.blocks = FullyBound]

Compile(c, e, src, inp, asks, b) ==
    LET o == IF c.opted THEN Observations(c, e, src) ELSE <<>>
        base == c.opted /\ BaseFresh(c, o, src, asks, b)
        inrun == c.opted /\ RuntimeFresh(o, inp, b)
        shown == Effective(o, base, inrun)
        rows == [r \in Rows |-> RowStatus(c, r, shown, c.opted)]
        mode == Mode(c, c.opted)
        top == TopStatus(c, rows)
        go == c.opted /\ mode = "enforced" /\ base /\ inrun /\ top = "passed"
    IN  IF ~c.wellformed THEN Invalid
        ELSE [mode |-> mode, status |-> top, go |-> go, blocks |-> mode = "enforced" /\ ~go,
              rows |-> rows, shown |-> shown]

-----------------------------------------------------------------------------
\* What the runner passes on.

\* Of a proof only what was selected, of commands only what Docker ran.
SanitizedProof(p, docker) ==
    [NoProof EXCEPT !.there = TRUE, !.passed = "no", !.detail = TRUE,
       !.artifact = IF "artifact" \in SafeProofs THEN p.artifact ELSE "absent",
       !.build = IF docker /\ "build" \in SafeProofs THEN p.build ELSE "absent"]

\* Of a ladder the web step, with the pages that were selected.
SanitizedLadder(l) ==
    LET step == l.playwright
    IN  [l EXCEPT !.maestro = NoStep, !.playwright = IF step.found = "none" THEN NoStep
           ELSE [step EXCEPT !.listed = step.listed \cap {"it"}, !.records["page"] = "none"]]

-----------------------------------------------------------------------------
\* The evidence there may be.

Proofs ==
    LET some == [NoProof EXCEPT !.there = TRUE, !.passed = "yes", !.detail = TRUE]
    IN  {[some EXCEPT !.skipped = s, !.passed = p] : s \in BOOLEAN, p \in {"yes", "no", "unset"}}
        \cup {[some EXCEPT !.passed = p, !.entrypoints = n, !.boot = x] :
                p \in {"yes", "no"}, n \in {"none", "some"}, x \in BOOLEAN}
        \cup {[some EXCEPT !.artifact = a] : a \in {"pass", "fail", "generic"}}

StepsOf ==
    {[NoStep EXCEPT !.found = f] : f \in {"none", "optional"}}
    \cup {[NoStep EXCEPT !.found = "required", !.status = s, !.shaped = FALSE] : s \in {"passed", "failed"}}
    \cup {[NoStep EXCEPT !.found = "required", !.status = s, !.listed = l,
             !.records = [x \in {"it", "page"} |-> IF x = "it" THEN r ELSE q]] :
            s \in {"passed", "failed", "skipped"}, l \in {{}, {"it"}, {"it", "page"}},
            r \in {"none", "passed", "thin", "failed", "skipped", "twice"}, q \in {"none", "passed"}}
Passing == [NoStep EXCEPT !.found = "required", !.status = "passed", !.listed = {"it"}, !.records["it"] = "passed"]
Ladders(kind) ==
    LET whole == [NoLadder EXCEPT !.there = TRUE, !.shaped = TRUE, !.saved = TRUE]
        As(step) == [whole EXCEPT ![kind] = step, !.status = Aggregate([whole EXCEPT ![kind] = step])]
    IN  {As(step) : step \in StepsOf}
        \cup {[As(Passing) EXCEPT !.shaped = FALSE], [As(Passing) EXCEPT !.saved = FALSE],
              [As(Passing) EXCEPT !.status = "failed"], [As(NoStep) EXCEPT !.status = "passed"]}

\* Evidence for an id, of tree 1 where it says so.
Evidence(id) ==
    CASE id \in {"overall", "entrypoint", "artifact", "build"} -> {[Nothing EXCEPT !.proof = p] : p \in Proofs}
      [] id = "gate" ->
           {[Nothing EXCEPT !.gate = g] :
              g \in [there : {TRUE}, shaped : BOOLEAN, skipped : BOOLEAN, ok : BOOLEAN, problems : BOOLEAN]}
      [] id = "headless" ->
           {[Nothing EXCEPT !.headless = h] :
              h \in [there : {TRUE}, shaped : BOOLEAN, applicable : BOOLEAN, passed : BOOLEAN, violations : BOOLEAN]}
      [] id = "route" -> {[Nothing EXCEPT !.ladder = l] : l \in Ladders("playwright")}
      [] id = "flow" -> {[Nothing EXCEPT !.ladder = l] : l \in Ladders("maestro")}
      [] id = "scenario" ->
           {[Nothing EXCEPT !.scenarios = s] : s \in {"nolist", "others", "invalid", "passed", "failed", "skipped"}}
      [] id = "capability" ->
           {[Nothing EXCEPT !.mcp = m] :
              m \in [there : {TRUE}, shaped : BOOLEAN, status : Words, asserted : BOOLEAN, tree : {1, 2}]}
      [] OTHER -> {Nothing}

\* Evidence for the contract: for its first requirement, with a word for "build".
EvidenceFor(c) ==
    UNION {{[e EXCEPT !.proof = IF w = "absent" THEN e.proof ELSE
                 [(IF e.proof.there THEN e.proof ELSE [NoProof EXCEPT !.there = TRUE, !.passed = "yes"])
                    EXCEPT !.detail = TRUE, !.build = w]] :
              w \in IF "build" \in Asked(c) THEN Words \ {"skipped"} ELSE {"absent"}} :
            e \in {Nothing} \cup UNION {Evidence(id) : id \in c.focus.ids}}

-----------------------------------------------------------------------------
\* The runner: final proof, ladder, binding and trace, delivery.

Init ==
    /\ caller \in Callers /\ stack \in {"web", "mcp"} /\ contract \in Contracts
    /\ at = (IF caller = "runner" THEN "proof" ELSE "bind")
    /\ tree = 1 /\ runtime = 1 /\ run = 1
    /\ source = 1 /\ inputs = 0 /\ errors = FALSE
    /\ extra \in IF caller = "runner" /\ stack = "mcp" /\ contract.opted /\ contract.focus.ids \cap {"gate", "capability"} # {}
                    THEN UNION {Evidence(id) : id \in contract.focus.ids} ELSE {Nothing}
    /\ binding = NoBinding /\ trace = NoTrace
    /\ ran = [trees |-> {}, inputs |-> {}]
    /\ minted = [made |-> FALSE, tree |-> 0, runtime |-> 0, run |-> 0, version |-> 0]
    /\ changes = 0

Go(s) == at' = s
Quiet == UNCHANGED changes
Change == changes < MaxChanges /\ changes' = changes + 1

\* Somebody writes while evidence is gathered, or nobody does.
Meanwhile ==
    \/ Quiet /\ UNCHANGED world
    \/ Change /\ tree' = tree + 1 /\ runtime' = runtime + 1 /\ UNCHANGED run
    \/ Change /\ runtime' = runtime + 1 /\ UNCHANGED <<tree, run>>

\* The source that cannot be read, a proof that does not run, and a source that
\* is another one afterwards, are errors.
FinalProof ==
    /\ at = "proof" /\ Go("ladder")
    /\ \/ /\ errors' = TRUE /\ source' = 0
          /\ UNCHANGED <<world, extra, ran, changes>>
       \/ /\ SafeProofs = {} /\ UNCHANGED <<world, errors, source, extra, ran, changes>>
       \/ /\ SafeProofs # {} /\ Meanwhile
          /\ \/ /\ errors' = TRUE /\ UNCHANGED extra
             \/ /\ \E e \in EvidenceFor(contract), docker \in BOOLEAN :
                     extra' = [extra EXCEPT !.proof = SanitizedProof(e.proof, docker)]
                /\ errors' = (tree' # tree)
          /\ ran' = [ran EXCEPT !.trees = {tree, tree'}]
          /\ source' = tree'
    /\ UNCHANGED <<asking, contract, inputs, binding, trace, minted>>

\* The ladder is for pages that are selected, or for every project with pages;
\* it needs the runtime inputs before and after it, and they must be the same; of
\* the pages that nobody selected only what was written meanwhile matters.
FinalLadder ==
    /\ at = "ladder" /\ Go("mint")
    /\ \/ /\ WebRoutes = {}
          /\ UNCHANGED <<world, errors, source, inputs, extra, ran, changes>>
       \/ /\ WebRoutes = {} /\ stack = "web" /\ ~errors /\ Change
          /\ tree' \in {tree, tree + 1} /\ runtime' = runtime + 1 /\ UNCHANGED run
          /\ errors' = TRUE /\ source' = tree' /\ UNCHANGED <<inputs, extra, ran>>
       \/ /\ WebRoutes # {} /\ ~errors /\ Meanwhile
          /\ \E l \in Ladders("playwright") : extra' = [extra EXCEPT !.ladder = SanitizedLadder(l)]
          /\ \E readable \in BOOLEAN :
               /\ errors' = (tree' # tree \/ runtime' # runtime \/ ~readable)
               /\ inputs' = IF readable THEN runtime' ELSE runtime
          /\ ran' = [trees |-> ran.trees \cup {tree, tree'}, inputs |-> {runtime, runtime'}]
          /\ source' = tree'
       \/ /\ WebRoutes # {}
          /\ errors' = TRUE
          /\ extra' = [extra EXCEPT !.ladder = [NoLadder EXCEPT !.there = TRUE, !.shaped = TRUE,
                                                 !.saved = TRUE, !.status = "failed"]]
          /\ UNCHANGED <<world, source, inputs, ran, changes>>
    /\ UNCHANGED <<asking, contract, binding, trace, minted>>

Mint(e, src, inp) ==
    LET o == Observations(contract, e, src)
        can == contract.opted /\ Bindable(contract, o, src, inp, run)
    IN  /\ binding' = IF can THEN Bound(contract, o, src, inp, run) ELSE NoBinding
        /\ minted' = [made |-> can, tree |-> tree, runtime |-> runtime, run |-> run, version |-> contract.version]

\* Nothing is awaited between the binding and the trace.
MintAndCompile ==
    /\ at = "mint" /\ Go("deliver")
    /\ IF FullyBound /\ ~errors THEN Mint(extra, source, inputs) ELSE UNCHANGED <<binding, minted>>
    /\ trace' = Compile(contract, extra, source, inputs, run, binding')
    /\ UNCHANGED <<asking, contract, world, source, inputs, errors, extra, ran, changes>>

\* Later stages, and others, write until the tree is delivered.
Drift ==
    /\ at = "deliver" /\ Change
    /\ \/ tree' = tree + 1 /\ runtime' = runtime + 1
       \/ runtime' = runtime + 1 /\ UNCHANGED tree
    /\ UNCHANGED <<asking, contract, at, run, source, inputs, errors, extra, binding, trace, ran, minted>>

\* The passes that are withdrawn: all when the source is another, those of what
\* ran when only the runtime inputs are.
Withdrawn(t, o, all) ==
    LET affected == {id \in DOMAIN t.shown : t.shown[id] = "passed" /\ (all \/ o[id].runtime)}
    IN  [t EXCEPT !.status = "stale", !.go = FALSE, !.blocks = TRUE,
           !.shown = [id \in DOMAIN t.shown |-> IF id \in affected THEN "stale" ELSE t.shown[id]],
           !.rows = [r \in Rows |->
             IF Requirement(contract, r).active /\ Requirement(contract, r).ids \cap affected # {}
               THEN "stale" ELSE t.rows[r]]]

Settle ==
    /\ at = "deliver" /\ Go("done")
    /\ \E readable, whole \in BOOLEAN :
         LET o == Observations(contract, extra, source)
             other == binding.tree # tree \/ ~whole
             inputsMoved == binding.runtime # 0 /\ (~readable \/ binding.runtime # runtime)
         IN  trace' = CASE trace.mode = "invalid" -> [trace EXCEPT !.blocks = TRUE]
                        [] trace.mode # "invalid" /\ ~trace.go -> trace
                        [] OTHER -> IF other \/ inputsMoved THEN Withdrawn(trace, o, other) ELSE trace
    /\ UNCHANGED <<asking, contract, world, source, inputs, errors, extra, binding, ran, minted, changes>>

-----------------------------------------------------------------------------
\* Other callers: they bind some evidence, things change, they ask.

Bind ==
    /\ at = "bind" /\ Go("ask")
    /\ extra' \in EvidenceFor(contract)
    /\ \E known \in {0, runtime} : Mint(extra', tree, known)
    /\ ran' = [trees |-> {tree}, inputs |-> {runtime}]
    /\ UNCHANGED <<asking, contract, world, source, inputs, errors, trace, changes>>

\* The source or its inputs change, the contract is amended, evidence is
\* replaced by some that passes, or it is another run that asks; where nothing was
\* bound nothing more can be wrong.
Upset ==
    /\ at = "ask" /\ binding.made /\ Change
    /\ \/ tree' = tree + 1 /\ UNCHANGED <<runtime, run, contract, extra>>
       \/ runtime' = runtime + 1 /\ UNCHANGED <<tree, run, contract, extra>>
       \/ run' = run + 1 /\ UNCHANGED <<tree, runtime, contract, extra>>
       \/ contract' = [contract EXCEPT !.version = @ + 1, !.second.must = ~@]
          /\ UNCHANGED <<tree, runtime, run, extra>>
       \/ /\ extra' = [Nothing EXCEPT
                 !.proof = [NoProof EXCEPT !.there = TRUE, !.passed = "yes", !.detail = TRUE, !.entrypoints = "some",
                                           !.artifact = "pass", !.build = "passed"],
                 !.gate = [NoGate EXCEPT !.there = TRUE, !.shaped = TRUE, !.ok = TRUE],
                 !.scenarios = "passed"]
          /\ UNCHANGED <<tree, runtime, run, contract>>
    /\ UNCHANGED <<asking, at, source, inputs, errors, binding, trace, ran, minted>>

Ask ==
    /\ at = "ask" /\ Go("done")
    /\ \/ source' = tree /\ inputs' = runtime
       \/ changes = 0 /\ source' = 0 /\ inputs' = runtime
       \/ changes = 0 /\ source' = tree /\ inputs' = 0
    /\ trace' = Compile(contract, extra, source', inputs', run, binding)
    /\ UNCHANGED <<asking, contract, world, errors, extra, binding, ran, minted, changes>>

Next ==
    \/ FinalProof \/ FinalLadder \/ MintAndCompile \/ Drift \/ Settle
    \/ Bind \/ Upset \/ Ask

Spec == Init /\ [][Next]_vars

-----------------------------------------------------------------------------
TypeOK ==
    /\ caller \in Callers /\ stack \in {"web", "mcp"}
    /\ at \in {"proof", "ladder", "mint", "deliver", "bind", "ask", "done"}
    /\ {tree, runtime, run, source, inputs} \subseteq 0 .. MaxChanges + 1
    /\ errors \in BOOLEAN /\ changes \in 0 .. MaxChanges
    /\ trace.mode \in {"none", "legacy_advisory", "partial", "enforced", "invalid"}
    /\ trace.status \in {"none", "unbound", "stale", "failed", "passed"}
    /\ \A id \in DOMAIN trace.shown : trace.shown[id] \in {"passed", "failed", "skipped", "missing", "stale"}

\* What the evidence of an id has to be for a reader to believe it.
Genuine(e, id) ==
    LET Shown(step) ==
            /\ e.ladder.saved /\ e.ladder.status = "passed" /\ step.found = "required" /\ step.status = "passed"
            /\ "it" \in step.listed /\ step.records["it"] = "passed"
    IN  CASE id = "overall" -> e.proof.passed = "yes" /\ ~e.proof.skipped
          [] id = "entrypoint" -> e.proof.passed = "yes" /\ e.proof.entrypoints = "some" /\ ~e.proof.boot
          [] id = "artifact" -> e.proof.artifact = "pass"
          [] id = "build" -> e.proof.build = "passed"
          [] id = "headless" -> e.headless.applicable /\ e.headless.passed /\ ~e.headless.violations
          [] id = "gate" -> e.gate.ok /\ ~e.gate.skipped /\ ~e.gate.problems
          [] id = "route" -> Shown(e.ladder.playwright)
          [] id = "flow" -> Shown(e.ladder.maestro)
          [] id = "scenario" -> e.scenarios = "passed"
          [] id = "capability" -> e.mcp.status = "passed" /\ e.mcp.asserted
          [] OTHER -> FALSE

Running == {"headless", "gate", "route", "flow", "scenario"}

\* A requirement that is shown as proven names what proves it, and each of these has
\* genuine evidence, bound by this run under this contract and gathered while nothing but the
\* source it was compiled for, and the runtime inputs where something ran, was there.
ProvenIsEarned ==
    \A r \in DOMAIN trace.rows : trace.rows[r] = "proven" =>
      /\ Requirement(contract, r).active /\ Requirement(contract, r).ids # {}
      /\ minted = [minted EXCEPT !.made = TRUE, !.tree = source, !.run = run, !.version = contract.version]
      /\ ran.trees \subseteq {source}
      /\ \A id \in Requirement(contract, r).ids :
           /\ Genuine(extra, id)
           /\ id = "capability" => extra.mcp.tree = source
           /\ id \in Running => inputs # 0 /\ minted.runtime = inputs /\ ran.inputs = {inputs}

\* What failed, was skipped or is missing is shown as that: only a pass goes stale.
NothingHidden ==
    \A id \in DOMAIN trace.shown : trace.shown[id] = "stale" => Genuine(extra, id)

\* The runner's selection and the compiler agree on who is bound: a contract every must of
\* which is bound goes only when all are proven, of the delivered tree and its inputs, and
\* blocks otherwise; any other contract blocks nothing, unless it cannot be compiled.
BoundBlocks ==
    at = "done" =>
      /\ trace.go =>
           /\ \A r \in ActiveMusts(contract) : trace.rows[r] = "proven"
           /\ FullyBound /\ source = tree
           /\ Asked(contract) \cap Running # {} => inputs = runtime
      /\ FullyBound => trace.go # trace.blocks
      /\ trace.blocks => FullyBound \/ trace.mode = "invalid"
===============================================================================

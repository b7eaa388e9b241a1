------------------------------- MODULE Proof -------------------------------
(***************************************************************************)
(* proof_run of skyn3t/studio/proof_run.py: the objective proof of one     *)
(* project, run again after each repair. A phase looks for the defects it  *)
(* can see; a command of the project may also time out or never start, and *)
(* a successful build leaves a receipt that lets the next proof skip it.   *)
(* The code between two commands is one step.                              *)
(***************************************************************************)
EXTENDS Naturals, FiniteSets

CONSTANTS
  Projects,   \* the kinds of project explored, of Kinds
  MaxDefects, \* bound: defects in the tree at one time
  MaxFaults,  \* bound: commands that time out or cannot be started
  MaxProofs   \* bound: proofs of the project, a repair between two

VARIABLES
  pc,         \* the phase the proof is in
  kind,       \* what the project is
  script,     \* how a Node project declares its type check
  lab,        \* build_posture is "lab"
  defects,    \* what is wrong with the source
  passed,     \* ProofResult.passed so far
  detail,     \* the defects the proof has reported
  advisory,   \* advisory_failures
  unassessed, \* history: phases that could not look
  late,       \* history: a command of this proof timed out
  seam,       \* the mock LLM server runs
  receipt,    \* the source the build receipt is for
  proofs, faults

vars == <<pc, kind, script, lab, defects, passed, detail, advisory, unassessed, late, seam,
          receipt, proofs, faults>>

Kinds == {"script", "package", "node", "swift", "ios", "static"}
Python == {"script", "package"}
Scripts == {"none", "chained", "separate"}

\* What the scanners read from the files alone, and what a command must run
\* to see.
Seen == {"syntax", "checklist", "entrypoint", "names", "artifact", "imports", "exports",
         "html", "unwired", "corrupted"}
Executed == {"boot", "build", "type_check", "tests", "ruff", "node_tests"}
Defects == Seen \cup Executed

\* The phases, in order; Command is where a phase runs a command.
Phases == {"scan", "deps", "boot", "static", "build", "validate", "swift_tests", "tests", "ruff",
           "node_tests", "close", "done"}

NoReceipt == {"none"}

TypeOK ==
  /\ pc \in Phases /\ kind \in Projects /\ script \in Scripts
  /\ lab \in BOOLEAN /\ passed \in BOOLEAN /\ late \in BOOLEAN /\ seam \in BOOLEAN
  /\ defects \subseteq Defects /\ Cardinality(defects) <= MaxDefects
  /\ detail \subseteq Defects
  /\ advisory \subseteq {"checklist", "unwired", "type_check", "ruff"}
  /\ unassessed \subseteq Executed
  /\ receipt = NoReceipt \/ receipt \subseteq Defects
  /\ proofs \in 1..MaxProofs /\ faults \in 0..MaxFaults

\* The defects a project of this kind can have.
Possible ==
  Seen \cup {"tests", "ruff"}
       \cup (IF kind \in Python THEN {"boot"} ELSE {})
       \cup (IF kind \notin {"script", "static"} THEN {"build"} ELSE {})
       \cup (IF kind = "node" THEN {"node_tests"} ELSE {})
       \cup (IF kind = "node" /\ script # "none" THEN {"type_check"} ELSE {})

SomeDefects == {s \in SUBSET Possible : Cardinality(s) <= MaxDefects}

Fresh ==
  /\ pc' = "scan" /\ passed' = TRUE
  /\ detail' = {} /\ advisory' = {} /\ unassessed' = {} /\ late' = FALSE

Init ==
  /\ pc = "scan" /\ kind \in Projects
  /\ script \in IF kind = "node" THEN Scripts ELSE {"none"}
  /\ lab \in BOOLEAN /\ defects \in SomeDefects
  /\ passed = TRUE /\ detail = {} /\ advisory = {} /\ unassessed = {} /\ late = FALSE
  /\ seam = FALSE /\ receipt = NoReceipt /\ proofs = 1 /\ faults = 0

Goto(phase) == pc' = phase

---------------------------------------------------------------------------
(* What a phase concludes.                                                 *)

\* Findings that block whatever the posture.
Block(found) ==
  /\ passed' = (passed /\ found = {})
  /\ detail' = detail \cup found
  /\ UNCHANGED advisory

\* Findings of quality: they block a release only.
Judge(found) ==
  /\ passed' = (passed /\ (lab \/ found = {}))
  /\ advisory' = IF lab THEN advisory \cup found ELSE advisory
  /\ detail' = detail \cup found

Nothing == UNCHANGED <<passed, detail, advisory>>

\* A phase that could not run: recorded as skipped, never a failure.
Skip(phase) == unassessed' = unassessed \cup {phase} /\ Nothing /\ UNCHANGED late

\* _run_proof_command: the exit status is the project's, unless the command
\* outlives its timeout (124) or cannot be started (127).
Ran == UNCHANGED <<faults, late>>
TimedOut == faults < MaxFaults /\ faults' = faults + 1 /\ late' = TRUE
Unlaunched == faults < MaxFaults /\ faults' = faults + 1 /\ UNCHANGED late

Source == <<kind, script, lab, defects>>

---------------------------------------------------------------------------
(* The phases of one proof.                                                *)

\* The file scan, and the checklist of files the plan promised.
Scan ==
  /\ pc = "scan" /\ Goto("deps")
  /\ passed' = (passed /\ "syntax" \notin defects /\ (lab \/ "checklist" \notin defects))
  /\ advisory' = IF lab THEN advisory \cup (defects \cap {"checklist"}) ELSE advisory
  /\ detail' = detail \cup (defects \cap {"syntax", "checklist"})
  /\ UNCHANGED <<Source, unassessed, late, seam, receipt, proofs, faults>>

\* _install_python_deps: whatever comes of it is only recorded. Without the
\* dependencies neither the entry point nor the tests can be imported, and an
\* import error of a third party is not held against the project.
InstallDeps ==
  /\ pc = "deps" /\ Goto("boot")
  /\ \/ Ran /\ UNCHANGED unassessed
     \/ /\ kind \in Python
        /\ Unlaunched \/ TimedOut
        /\ unassessed' = unassessed \cup {"boot", "tests"}
  /\ Nothing
  /\ UNCHANGED <<Source, seam, receipt, proofs>>

\* _entrypoint_check: an import that hangs, or an interpreter that does not
\* start, leaves a boot error like one that fails.
Boot ==
  /\ pc = "boot" /\ Goto("static")
  /\ \/ /\ kind \notin Python \/ "entrypoint" \in defects
        /\ Block(defects \cap {"entrypoint"}) /\ Ran
     \/ /\ kind \in Python /\ "entrypoint" \notin defects
        /\ Ran /\ Block(IF "boot" \in unassessed THEN {} ELSE defects \cap {"boot"})
     \/ /\ kind \in Python /\ "entrypoint" \notin defects
        /\ TimedOut \/ Unlaunched
        /\ Block({"boot"})
  /\ UNCHANGED <<Source, unassessed, seam, receipt, proofs>>

\* What each scanner of the source finds: invalid package names, no artifact
\* of the declared stack, imports, exports and page references that resolve to
\* nothing, an entry that reaches no component.
Named    == defects \cap {"names"}
Imports  == defects \cap {"imports"}
Exports  == defects \cap {"exports"}
Pages    == defects \cap {"html"}
Unwired  == defects \cap {"unwired"}
NodeArtifact  == IF kind = "node" THEN defects \cap {"artifact"} ELSE {}
OtherArtifact == IF kind = "node" THEN {} ELSE defects \cap {"artifact"}

\* _start_proof_mock_llm, of a project that calls a model.
StartSeam == seam' \in BOOLEAN

\* The offline checks; the artifact, and the guess about components, only
\* while nothing has failed. The mock LLM starts after them.
Static ==
  /\ pc = "static"
  /\ LET artifact == IF passed /\ Named = {} THEN NodeArtifact \cup OtherArtifact ELSE {}
         blocking == Named \cup artifact \cup Imports \cup Exports \cup Pages
         unwired  == IF passed /\ blocking = {} THEN Unwired ELSE {}
     IN /\ passed' = (passed /\ blocking = {} /\ (lab \/ unwired = {}))
        /\ advisory' = IF lab THEN advisory \cup unwired ELSE advisory
        /\ detail' = detail \cup blocking \cup unwired
        /\ IF passed' THEN StartSeam ELSE seam' = FALSE
        /\ Goto(IF passed' THEN "build" ELSE "close")
  /\ UNCHANGED <<Source, unassessed, late, receipt, proofs, faults>>

\* Where the proof goes from a build: the tests only while it passes.
AfterBuild == Goto(IF passed' THEN "tests" ELSE "close")

\* Swift and iOS: the package's own tests follow a build that succeeded, and
\* nothing looks at them when the build was skipped.
SwiftBuild ==
  /\ pc = "build" /\ kind \in {"swift", "ios"}
  /\ \/ Ran /\ Block(defects \cap {"build"}) /\ UNCHANGED unassessed
        /\ Goto(IF passed' THEN "swift_tests" ELSE "close")
     \/ TimedOut /\ Block({"build"}) /\ UNCHANGED unassessed /\ Goto("close")
     \/ Unlaunched /\ Skip("build") /\ Goto("tests")
  /\ UNCHANGED <<Source, seam, receipt, proofs>>

SwiftTests ==
  /\ pc = "swift_tests"
  /\ \/ Ran /\ Block(defects \cap {"tests"}) /\ UNCHANGED unassessed
     \/ TimedOut /\ Block({"tests"}) /\ UNCHANGED unassessed
     \/ Unlaunched /\ Skip("tests")
  /\ AfterBuild
  /\ UNCHANGED <<Source, seam, receipt, proofs>>

\* _run_python_package_build: the wheel is built from a staged copy, and its
\* console entry points are checked.
WheelBuild ==
  /\ pc = "build" /\ kind = "package"
  /\ \/ Ran /\ Block(defects \cap {"build"}) /\ UNCHANGED unassessed
     \/ TimedOut /\ Block({"build"}) /\ UNCHANGED unassessed
     \/ Unlaunched /\ Skip("build")
  /\ AfterBuild
  /\ UNCHANGED <<Source, seam, receipt, proofs>>

\* A project with nothing to compile.
NoBuild ==
  /\ pc = "build" /\ kind \in {"script", "static"}
  /\ Goto("tests") /\ Nothing
  /\ UNCHANGED <<Source, unassessed, late, seam, receipt, proofs, faults>>

\* _prepare_node_dependencies: an install that times out or fails throws
\* node_modules away, the build receipt in it included; one that cannot reach
\* the registry skips the build, and the tests that need what it installs.
NodeInstallFails ==
  /\ pc = "build" /\ kind = "node" /\ receipt' = NoReceipt
  /\ \/ TimedOut /\ Block({"build"}) /\ UNCHANGED unassessed
     \/ /\ Unlaunched /\ Nothing
        /\ unassessed' \in {unassessed \cup {"build"}, unassessed \cup {"build", "node_tests"}}
  /\ AfterBuild
  /\ UNCHANGED <<Source, seam, proofs>>

\* npm_build_current: the receipt is for these very inputs.
Current == receipt = defects

\* mark_npm_build_current, after the complete declared build alone;
\* invalidate_npm_build before every build.
Receipt(built, clean) == IF built /\ clean THEN defects ELSE NoReceipt

\* _run_node_build. A chained type check that fails is told from the build by
\* compiling alone; its diagnostics are then a finding of quality.
NodeBuild ==
  /\ pc = "build" /\ kind = "node"
  /\ \/ /\ Current /\ Ran /\ Nothing /\ UNCHANGED <<unassessed, receipt>>
        /\ Goto("validate")
     \/ /\ ~Current /\ Ran /\ "build" \in defects
        /\ Block({"build"}) /\ receipt' = Receipt(FALSE, FALSE) /\ UNCHANGED unassessed
        /\ Goto("close")
     \/ /\ ~Current /\ Ran /\ "build" \notin defects
        /\ script = "chained" /\ "type_check" \in defects
        /\ Judge({"type_check"}) /\ receipt' = Receipt(TRUE, FALSE) /\ UNCHANGED unassessed
        /\ AfterBuild
     \/ /\ ~Current /\ Ran /\ "build" \notin defects
        /\ ~(script = "chained" /\ "type_check" \in defects)
        /\ Nothing /\ receipt' \in {Receipt(TRUE, TRUE), NoReceipt} /\ UNCHANGED unassessed
        /\ Goto("validate")
     \/ /\ ~Current /\ TimedOut /\ Block({"build"}) /\ receipt' = NoReceipt
        /\ UNCHANGED unassessed /\ Goto("close")
     \/ /\ ~Current /\ Unlaunched /\ Skip("build") /\ receipt' = NoReceipt
        /\ Goto("tests")
  /\ UNCHANGED <<Source, seam, proofs>>

\* A type check the project declares beside its build.
Validate ==
  /\ pc = "validate"
  /\ \/ Ran /\ script = "separate" /\ Judge(defects \cap {"type_check"}) /\ UNCHANGED unassessed
     \/ Ran /\ script # "separate" /\ Nothing /\ UNCHANGED unassessed
     \/ script = "separate" /\ TimedOut /\ Block({"build"}) /\ UNCHANGED unassessed
     \/ script = "separate" /\ Unlaunched /\ Skip("type_check")
  /\ AfterBuild
  /\ UNCHANGED <<Source, seam, receipt, proofs>>

\* Mutant of GeneratedTests: a generated assertion that fails is advisory.
GeneratedTests_Advisory ==
  /\ pc = "tests"
  /\ Ran /\ Nothing /\ UNCHANGED unassessed
  /\ Goto(IF passed' THEN "ruff" ELSE "close")
  /\ UNCHANGED <<Source, seam, receipt, proofs>>

\* _run_generated_tests: pytest, when the project has tests and pytest and its
\* dependencies can be imported.
GeneratedTests ==
  /\ pc = "tests"
  /\ \/ Ran /\ kind \in {"swift", "ios"} /\ Nothing
        /\ unassessed' = unassessed \cup (IF "build" \in unassessed THEN {"tests"} ELSE {})
     \/ Ran /\ kind \notin {"swift", "ios"} /\ "tests" \notin unassessed
        /\ Block(defects \cap {"tests"}) /\ UNCHANGED unassessed
     \/ Ran /\ kind \notin {"swift", "ios"} /\ "tests" \in unassessed
        /\ Nothing /\ UNCHANGED unassessed
     \/ kind \notin {"swift", "ios"} /\ TimedOut /\ Block({"tests"}) /\ UNCHANGED unassessed
     \/ kind \notin {"swift", "ios"} /\ Unlaunched /\ Skip("tests")
  /\ Goto(IF passed' THEN "ruff" ELSE "close")
  /\ UNCHANGED <<Source, seam, receipt, proofs>>

\* _run_ruff_check, of a project that configures Ruff.
RuffCheck ==
  /\ pc = "ruff"
  /\ \/ Ran /\ Judge(defects \cap {"ruff"}) /\ UNCHANGED unassessed
     \/ TimedOut /\ Judge({"ruff"}) /\ UNCHANGED unassessed
     \/ Unlaunched /\ Skip("ruff")
  /\ Goto(IF passed' THEN "node_tests" ELSE "close")
  /\ UNCHANGED <<Source, seam, receipt, proofs>>

\* _run_node_tests, whatever became of the build.
NodeTests ==
  /\ pc = "node_tests" /\ Goto("close")
  /\ \/ Ran /\ kind = "node" /\ Block(defects \cap {"node_tests"}) /\ UNCHANGED unassessed
     \/ Ran /\ kind # "node" /\ Nothing /\ UNCHANGED unassessed
     \/ kind = "node" /\ TimedOut /\ Block({"node_tests"}) /\ UNCHANGED unassessed
     \/ kind = "node" /\ Unlaunched /\ Skip("node_tests")
  /\ UNCHANGED <<Source, seam, receipt, proofs>>

\* scan_persisted_write_receipts.
Corrupted == defects \cap {"corrupted"}

\* The finally stops the mock server; then the write receipts of an older
\* corruption, which block in every posture.
Close ==
  /\ pc = "close" /\ Goto("done") /\ seam' = FALSE
  /\ Block(Corrupted)
  /\ UNCHANGED <<Source, unassessed, late, receipt, proofs, faults>>

\* The next proof, of the source as the fix loop left it.
Repair ==
  /\ pc = "done" /\ proofs < MaxProofs /\ proofs' = proofs + 1
  /\ Fresh /\ defects' \in SomeDefects /\ lab' \in BOOLEAN
  /\ UNCHANGED <<kind, script, seam, receipt, faults>>

Next ==
  \/ Scan \/ InstallDeps \/ Boot \/ Static \/ SwiftBuild \/ SwiftTests \/ WheelBuild
  \/ NoBuild \/ NodeInstallFails \/ NodeBuild \/ Validate \/ GeneratedTests \/ RuffCheck
  \/ NodeTests \/ Close \/ Repair

Spec == Init /\ [][Next]_vars

---------------------------------------------------------------------------
(* Properties.                                                             *)

\* A proof that passes has looked for every defect the project has: each one
\* was reported and is advisory in this posture, or belongs to a phase that
\* could not run. Neither a demoted finding, nor a skipped phase, nor a build
\* receipt of an earlier source hides another defect (proof_run.py 4220-4728).
PassIsEarned ==
  pc = "done" /\ passed =>
    \A d \in defects : d \in advisory \/ d \in unassessed
                       \/ (d = "type_check" /\ "build" \in unassessed)

\* "Inability to run them is a soft skip, never a hard fail": a proof fails on
\* a defect of the project or on a command that ran out of time.
FailureHasEvidence == pc = "done" /\ ~passed => defects # {} \/ late
=============================================================================

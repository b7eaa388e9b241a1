------------------------------- MODULE Skills -------------------------------
(***************************************************************************)
(* The life of one advisory capability in the skill library                *)
(* (intelligence/skill_library.py): distilled, admitted, evaluated,        *)
(* activated, rolled back.  A library is an object in memory over files    *)
(* that other processes share: the markdown, the admission receipt, the    *)
(* retained evidence and a journal that only grows.  Threads of a process  *)
(* work on one library without a lock, so a step below is the code between *)
(* two operations on files.  Bodies stand for the whole text with its      *)
(* provenance, and for the Skill object that holds it; the hashes are      *)
(* taken to be right, the slug not to be retired, the journal not corrupt. *)
(***************************************************************************)
EXTENDS Naturals, Sequences, FiniteSetsExt

CONSTANTS
    Process, Thread, Home,  \* Home[t]: the process of a thread
    Body,                   \* the versions of the text
    First,                  \* the one in the library at first
    Admissible,             \* those that pass the admission check
    MaxCalls,               \* bound on operations
    MaxFaults               \* bound on failing writes, lost evidence and restarts

Libraries == Home \in [Thread -> Process] /\ First \in Body

None == "none"
Operators == {"evaluate", "activate", "rollback"}
Automatic == {"tick", "distill"}

VARIABLES
    file,       \* the markdown: its body, and whether its tags hold it back
    receipt,    \* the body of the saved admission check
    evidence,   \* the bodies whose source is retained
    journal,    \* evaluations, activations and rollbacks
    current,    \* current[p]: the body of the Skill that get() returns
    held,       \* held[p]: the objects of p that carry the quarantine tags
    doing,      \* doing[t]: its operation, the next step of it, the object it
                \* holds, the outcome of its evaluation, the evaluation it read of
    calls, faults,
    vetoed,     \* history: rolled back, and neither activated by an operator
                \* nor of another text since
    hasty       \* history: automation had read the journal before a rollback

files == <<file, receipt, evidence, journal>>
memory == <<current, held>>
history == <<calls, faults, vetoed, hasty>>
vars == <<file, receipt, evidence, journal, current, held, doing,
          calls, faults, vetoed, hasty>>

Idle == [op |-> None, at |-> "idle", obj |-> First, found |-> None, named |-> 0]

Init ==
    /\ file = [body |-> First, held |-> TRUE] /\ receipt = First
    /\ evidence = {First} /\ journal = <<>>
    /\ current = [p \in Process |-> First] /\ held = [p \in Process |-> Body]
    /\ doing = [t \in Thread |-> Idle]
    /\ calls = 0 /\ faults = 0 /\ vetoed = FALSE /\ hasty = FALSE

-----------------------------------------------------------------------------
(* What the files say.                                                     *)

\* The place of the last record of a kind, 0 if there is none.
Latest(kinds) == Max({0} \cup {i \in 1 .. Len(journal) : journal[i].kind \in kinds})

Admitted(p, b) == current[p] = b /\ receipt = b /\ b \in Admissible
Sound(p, b) == Admitted(p, b) /\ b \in evidence /\ file.body = b

\* Mutant of RolledBack: the last record decides, an evaluation hides a rollback.
RolledBack_LastRecord == journal # <<>> /\ journal[Len(journal)].kind = "rollback"
RolledBack == LET i == Latest({"activation", "rollback"})
              IN  i > 0 /\ journal[i].kind = "rollback"

\* The last evaluation counts while it is of this text; a pass only while its
\* checks still hold and nothing was rolled back after it.
StatusOf(b, sound) ==
    LET e == Latest({"evaluation"})
    IN  IF e = 0 \/ journal[e].body # b THEN "not_checked"
        ELSE IF ~journal[e].ok THEN "failed"
        ELSE IF ~sound \/ Latest({"rollback"}) > e THEN "not_checked"
        ELSE "passed"
ActiveOf(b, sound) ==
    /\ StatusOf(b, sound) = "passed"
    /\ LET last == journal[Len(journal)]
       IN  last.kind = "activation" /\ last.of = Latest({"evaluation"})

Status(p) == StatusOf(current[p], Sound(p, current[p]))
CanActivate(p) == Status(p) = "passed" /\ current[p] \in held[p]
Active(p) == ActiveOf(current[p], Sound(p, current[p])) /\ current[p] \notin held[p]

\* What a build of the process is given, as the prompt is rendered.
Advised(p) == Admitted(p, current[p]) /\ Active(p)

-----------------------------------------------------------------------------
(* The operations.                                                         *)

Step(t) == doing[t].at
Get(t) == current[Home[t]]
Become(t, d) == doing' = [doing EXCEPT ![t] = IF d.at = "idle" THEN Idle ELSE d]
Go(t, step) == Become(t, [doing[t] EXCEPT !.at = step])
Record(k, t, ok, of) ==
    journal' = Append(journal, [kind |-> k, body |-> doing[t].obj, ok |-> ok, of |-> of])

Begin(t, o) ==
    /\ Step(t) = "idle" /\ calls < MaxCalls /\ calls' = calls + 1
    /\ Become(t, [Idle EXCEPT !.op = o, !.obj = Get(t), !.at =
          CASE o = "evaluate" -> "check" [] o = "activate" -> "ask"
            [] o = "rollback" -> "veto" [] OTHER -> o])
    /\ UNCHANGED <<files, memory, faults, vetoed, hasty>>

\* evaluate_candidate: the checks, their record, then the quarantine.
Check(t) ==
    /\ Step(t) = "check"
    /\ Become(t, [doing[t] EXCEPT !.at = "verdict", !.obj = Get(t),
                     !.found = IF Sound(Home[t], Get(t)) THEN "ok" ELSE "bad"])
    /\ UNCHANGED <<files, memory, history>>
Verdict(t) ==
    /\ Step(t) = "verdict" /\ Go(t, "hold")
    /\ Record("evaluation", t, doing[t].found = "ok", 0)
    /\ UNCHANGED <<file, receipt, evidence, memory, history>>

\* Where an operation goes on after its object was quarantined and saved.
AfterHold(t) ==
    CASE doing[t].op = "tick" /\ doing[t].found # None -> "again"
      [] doing[t].op = "distill" /\ doing[t].found = "ok" -> "ask"
      [] OTHER -> "idle"

\* _persist of the object: the markdown, then its admission check; a write
\* that fails leaves the rest undone.
Whole(t) == faults' = faults
Saved(t) ==
    LET b == doing[t].obj
        markdown == file' = [body |-> b, held |-> b \in held'[Home[t]]]
    IN  \/ markdown /\ receipt' = b /\ UNCHANGED faults
        \/ /\ faults < MaxFaults /\ faults' = faults + 1 /\ UNCHANGED receipt
           /\ UNCHANGED file \/ markdown

Hold(t) ==
    /\ Step(t) = "hold"
    /\ held' = [held EXCEPT ![Home[t]] = @ \cup {doing[t].obj}]
    /\ Saved(t) /\ Go(t, AfterHold(t))
    /\ UNCHANGED <<evidence, journal, current, calls, vetoed, hasty>>

\* activate_candidate: may it, which evaluation, the record, the tags, and
\* once more whether it is active now.
Ask(t) ==
    /\ Step(t) = "ask"
    /\ Become(t, [doing[t] EXCEPT !.obj = Get(t), !.found = None,
                     !.at = IF CanActivate(Home[t]) THEN "name" ELSE "idle"])
    /\ UNCHANGED <<files, memory, history>>
Name(t) ==
    /\ Step(t) = "name"
    /\ Become(t, [doing[t] EXCEPT !.at = "activate", !.named = Latest({"evaluation"})])
    /\ UNCHANGED <<files, memory, history>>
Activate(t) ==
    /\ Step(t) = "activate" /\ Go(t, "open")
    /\ Record("activation", t, TRUE, doing[t].named)
    /\ vetoed' = (vetoed /\ doing[t].op \notin Operators)
    /\ UNCHANGED <<file, receipt, evidence, memory, calls, faults, hasty>>
Open(t) ==
    /\ Step(t) = "open"
    /\ held' = [held EXCEPT ![Home[t]] = @ \ {doing[t].obj}]
    /\ Saved(t) /\ Go(t, IF Whole(t) THEN "confirm" ELSE "hold")
    /\ UNCHANGED <<evidence, journal, current, calls, vetoed, hasty>>
Confirm(t) ==
    /\ Step(t) = "confirm"
    /\ Go(t, IF Get(t) = doing[t].obj /\ Active(Home[t]) THEN "idle" ELSE "hold")
    /\ UNCHANGED <<files, memory, history>>

\* rollback_candidate: the record is what counts, the quarantine follows.
Automated(t) == doing[t].op \in Automatic /\ Step(t) \notin {"tick", "distill"}
Veto(t) ==
    /\ Step(t) = "veto" /\ Go(t, "hold") /\ Record("rollback", t, TRUE, 0)
    /\ vetoed' = TRUE
    /\ hasty' = (hasty \/ \E u \in Thread : Automated(u))
    /\ UNCHANGED <<file, receipt, evidence, memory, calls, faults>>

\* evaluate_pending_capabilities(activate=True), for this capability: what an
\* operator rolled back is left alone; a text that was not evaluated, or whose
\* evaluation no longer counts, is evaluated; a passed one is activated.
Onward(t) == IF CanActivate(Home[t]) THEN "ask" ELSE "idle"
Tick(t) ==
    /\ Step(t) = "tick"
    /\ Become(t, [doing[t] EXCEPT !.obj = Get(t), !.named = Latest({"evaluation"}),
                     !.at = IF RolledBack THEN "idle" ELSE "look"])
    /\ UNCHANGED <<files, memory, history>>
Look(t) ==
    /\ Step(t) = "look"
    /\ LET e == doing[t].named
       IN  Go(t, IF \/ e = 0 \/ journal[e].body # doing[t].obj
                    \/ Status(Home[t]) = "not_checked"
                 THEN "check" ELSE Onward(t))
    /\ UNCHANGED <<files, memory, history>>
Again(t) ==
    /\ Step(t) = "again" /\ Go(t, Onward(t))
    /\ UNCHANGED <<files, memory, history>>

\* _distill_repo_skill(activate=True) of a text b: an unchanged one that was
\* evaluated, or rolled back, is left as it is, though a pass is activated; a
\* changed one is added, evaluated and activated.
Distill(t) ==
    /\ Step(t) = "distill"
    /\ Go(t, IF journal # <<>> /\ (RolledBack \/ Status(Home[t]) \in {"passed", "failed"})
             THEN IF RolledBack THEN "idle" ELSE Onward(t)
             ELSE "check")
    /\ UNCHANGED <<files, memory, history>>
Retain(t, b) ==
    /\ Step(t) = "distill" /\ b # Get(t)
    /\ Become(t, [doing[t] EXCEPT !.at = "add", !.obj = b])
    /\ evidence' = evidence \cup {b}
    /\ UNCHANGED <<file, receipt, journal, memory, history>>
Add(t) ==
    /\ Step(t) = "add"
    /\ held' = [held EXCEPT ![Home[t]] = @ \cup {doing[t].obj}]
    /\ Saved(t) /\ Go(t, IF Whole(t) THEN "check" ELSE "idle")
    /\ current' = IF Whole(t) THEN [current EXCEPT ![Home[t]] = doing[t].obj] ELSE current
    /\ vetoed' = (vetoed /\ ~Whole(t))
    /\ UNCHANGED <<evidence, journal, calls, hasty>>

\* Retained sources are files that may be removed.  A process that ends in the
\* middle of anything loads what is on disk, renews the admission check, and
\* holds back what the journal does not call active.
Fault == faults < MaxFaults /\ faults' = faults + 1 /\ UNCHANGED <<calls, vetoed, hasty>>
LoseEvidence(b) ==
    /\ b \in evidence /\ Fault /\ evidence' = evidence \ {b}
    /\ UNCHANGED <<file, receipt, journal, memory, doing>>
Restart(p) ==
    /\ Fault /\ receipt' = file.body
    /\ current' = [current EXCEPT ![p] = file.body]
    /\ held' = [held EXCEPT ![p] =
          IF file.held \/ ~ActiveOf(file.body, file.body \in Admissible \cap evidence)
          THEN Body ELSE Body \ {file.body}]
    /\ doing' = [t \in Thread |-> IF Home[t] = p THEN Idle ELSE doing[t]]
    /\ UNCHANGED <<file, evidence, journal>>

Next ==
    \/ \E t \in Thread :
          \/ \E o \in Operators \cup Automatic : Begin(t, o)
          \/ Check(t) \/ Verdict(t) \/ Hold(t) \/ Ask(t) \/ Name(t) \/ Activate(t)
          \/ Open(t) \/ Confirm(t) \/ Veto(t) \/ Tick(t) \/ Look(t) \/ Again(t) \/ Add(t)
          \/ Distill(t) \/ \E b \in Body : Retain(t, b)
    \/ \E b \in Body : LoseEvidence(b)
    \/ \E p \in Process : Restart(p)

Spec == Init /\ [][Next]_vars

-----------------------------------------------------------------------------
(* Properties.                                                             *)

Steps == {"check", "verdict", "hold", "ask", "name", "activate", "open", "confirm", "veto",
          "tick", "look", "again", "distill", "add"}
Records == [kind : {"evaluation", "activation", "rollback"}, body : Body,
            ok : BOOLEAN, of : Nat]
TypeOK ==
    /\ file \in [body : Body, held : BOOLEAN] /\ receipt \in Body
    /\ evidence \subseteq Body /\ journal \in Seq(Records)
    /\ current \in [Process -> Body] /\ held \in [Process -> SUBSET Body]
    /\ doing \in [Thread -> [op : Operators \cup Automatic \cup {None},
                              at : Steps \cup {"idle"}, obj : Body,
                              found : {None, "ok", "bad"}, named : Nat]]

\* "explicit rollback decisions remain in force" (docs/SWARM_SKILLS.md): no build of
\* any process is given the capability again until an operator activates it or its
\* text changes.  Not so: automation that had read the journal before the rollback
\* evaluates the capability after it, and activates it.
RollbackStands == vetoed => \A p \in Process : ~Advised(p)

\* What is left of it: whatever writes fail and whoever crashes, a rollback stands
\* against all automation that reads the journal after it.  Once a rollback found
\* automation past that reading, nothing more is said of it.
LaterAutomationYields == vetoed /\ ~hasty => \A p \in Process : ~Advised(p)

\* Processes that advise the capability advise one text, the one on disk.
OneText ==
    \A p \in Process : Advised(p) =>
        /\ file.body = current[p] /\ current[p] \in evidence \cap Admissible

\* What proves it: while it stands the last word of the journal is the rollback, and
\* the automation that is under way has not read the journal yet, or brings another text.
StandsInv ==
    /\ \A t \in Thread : Step(t) # "idle" => doing[t].op # None
    /\ vetoed /\ ~hasty =>
          /\ RolledBack
          /\ \A t \in Thread : doing[t].op \in Automatic => Step(t) \in {"tick", "distill", "add"}

IInv == TypeOK /\ StandsInv
=============================================================================

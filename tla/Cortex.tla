------------------------------- MODULE Cortex -------------------------------
(***************************************************************************)
(* Cortex of skyn3t/cortex with its ProposalStore: proposals are taken in, *)
(* triaged, decided by humans, tried by the ratchet and applied. It all    *)
(* runs on one event loop, and a step is the code between two awaits. The  *)
(* store mirrors a status to disk within the step that changes it, so that *)
(* a restarted process reads back what was in memory.                      *)
(***************************************************************************)
EXTENDS Naturals, FiniteSets

CONSTANTS
  Proposal,    \* proposals that are submitted, in any order
  Caller,      \* bound: calls of approve(), each made once
  Automation,  \* AutomaticCandidates, which triages open proposals again
  Nobody,      \* the subject of a call that was not made yet
  Key,         \* dedupe_key of a proposal
  Type,        \* ProposalType of a proposal
  Safe,        \* proposals marked safe,
  Confident,   \* confident enough for auto_approve_threshold,
  Proven,      \* marked proven_safe, ratchet_safe or proof_passed
  Research,    \* GitHub research of RepoScout
  Fleeting,    \* tunings of settings that are not persisted
  Flags,       \* combinations of the settings that a process may run with
  MaxCrashes   \* bound: restarts of the process

ProposalType == {"tuning", "feature", "ingest", "code_patch", "prompt"}

Settings == [approval_gates : BOOLEAN, auto_approve_safe : BOOLEAN, lab_autonomy : BOOLEAN,
             autonomous_improvement : BOOLEAN, ratchet : BOOLEAN]

ASSUME CortexAssumption ==
  /\ Caller \cap Proposal = {} /\ Automation \notin Caller \cup Proposal
  /\ Nobody \notin Proposal
  /\ Type \in [Proposal -> ProposalType]
  /\ Safe \subseteq Proposal /\ Confident \subseteq Proposal /\ Proven \subseteq Proposal
  /\ Research \subseteq {p \in Proposal : Type[p] = "ingest"}
  /\ Fleeting \subseteq {p \in Proposal : Type[p] = "tuning"}
  /\ Flags \subseteq Settings
  /\ MaxCrashes \in Nat

VARIABLES
  settings,  \* the flags that _decide() and _should_ratchet() read
  status,    \* status[p] in the store
  at,        \* where a coroutine stands
  subject,   \* the proposal it is about
  stored,    \* proposals whose change is on disk
  snapshot,  \* the override files as the ratchet of p found them
  human,     \* history: proposals that a human approved,
  refused,   \*   or rejected,
  revived,   \*   or approved after they were REJECTED,
  hasty,     \*   or that were decided while a coroutine worked on them
  crashes    \* history: restarts

history == <<human, refused, revived, hasty, crashes>>

vars == <<settings, status, at, subject, stored, snapshot, history>>

ProposalStatus == {"pending", "approved", "rejected", "applied", "failed", "gated"}

\* submit() of a proposal, approve() of a caller, and the tick of the automation.
Worker == Proposal \cup Caller \cup {Automation}

Busy == {"announcing", "approved", "bench", "trial", "applying"}

Working(p) == \E w \in Worker : subject[w] = p /\ at[w] \in Busy

\* A decision on a proposal while a coroutine works on it.
Rush(p) == hasty' = IF Working(p) THEN hasty \cup {p} ELSE hasty

\* What settings_overrides.json and prompt_overrides.json hold.
Overrides == {p \in stored : Type[p] \in {"tuning", "prompt"}}

-----------------------------------------------------------------------------
Init ==
  /\ settings \in Flags
  /\ status = [p \in Proposal |-> "absent"]
  /\ at = [w \in Worker |-> "idle"]
  /\ subject = [w \in Worker |-> IF w \in Proposal THEN w ELSE Nobody]
  /\ stored = {}
  /\ snapshot = [p \in Proposal |-> {}]
  /\ human = {} /\ refused = {} /\ revived = {} /\ hasty = {}
  /\ crashes = 0

Open == {"pending", "gated"}

\* Mutants: a gated proposal does not block; what was applied may come again.
Blocks_Ungated(p) ==
  \/ status[p] \in {"pending", "approved"}
  \/ status[p] = "applied" /\ p \notin Fleeting

Blocks_Applied(p) == status[p] \in Open \cup {"approved"}

\* _is_duplicate(): an applied change that is gone with its process does not block.
Blocks(p) ==
  \/ status[p] \in Open \cup {"approved"}
  \/ status[p] = "applied" /\ p \notin Fleeting

\* submit() up to the event that announces the proposal; ProposalStore.add() rejects
\* a duplicate.
Submit(p) ==
  /\ at[p] = "idle" /\ status[p] = "absent"
  /\ IF \E q \in Proposal : Key[q] = Key[p] /\ Blocks(q)
       THEN /\ status' = [status EXCEPT ![p] = "rejected"]
            /\ at' = [at EXCEPT ![p] = "done"]
       ELSE /\ status' = [status EXCEPT ![p] = "pending"]
            /\ at' = [at EXCEPT ![p] = "announcing"]
  /\ UNCHANGED <<settings, subject, stored, snapshot, history>>

GatesOn == settings.approval_gates /\ ~settings.lab_autonomy

Gated(p) == Type[p] \in {"feature", "ingest", "prompt"}

\* _can_auto_ratchet_gated()
AutoRatchet(p) ==
  /\ Gated(p)
  /\ p \in Proven \cap Safe \cap Confident
  /\ settings.auto_approve_safe /\ settings.ratchet

\* The proposals that autonomous_improvement lets through.
Autonomous(p) ==
  settings.autonomous_improvement /\ (p \in Research \/ Type[p] \in {"feature", "code_patch"})

\* Mutant: what is safe is approved, of whatever type it is.
Decide_Safe(p) ==
  IF Autonomous(p) THEN "apply"
  ELSE IF p \in Safe \cap Confident /\ settings.auto_approve_safe THEN "apply"
  ELSE IF GatesOn THEN "gate" ELSE "hold"

\* _decide(): the first rule that fits.
Decide(p) ==
  IF Autonomous(p) THEN "apply"
  ELSE IF settings.lab_autonomy /\ p \in Research THEN "apply"
  ELSE IF settings.lab_autonomy /\ Type[p] = "ingest" THEN "gate"
  ELSE IF GatesOn /\ AutoRatchet(p) THEN "apply"
  ELSE IF GatesOn /\ (Gated(p) \/ p \notin Safe) THEN "gate"
  ELSE IF /\ p \in Safe \cap Confident
          /\ settings.auto_approve_safe \/ settings.lab_autonomy
       THEN "apply"
  ELSE IF GatesOn THEN "gate" ELSE "hold"

\* _triage() up to its first await.
Triage(w, p) ==
  \/ /\ Decide(p) = "apply"
     /\ status' = [status EXCEPT ![p] = "approved"]
     /\ at' = [at EXCEPT ![w] = "approved"]
  \/ /\ Decide(p) = "gate"
     /\ status' = [status EXCEPT ![p] = "gated"]
     /\ at' = [at EXCEPT ![w] = "done"]
  \/ /\ Decide(p) = "hold"
     /\ at' = [at EXCEPT ![w] = "done"]
     /\ UNCHANGED status

\* submit() after its event: triage, whatever became of the proposal since.
Announced(p) ==
  /\ at[p] = "announcing"
  /\ Triage(p, p)
  /\ UNCHANGED <<settings, subject, stored, snapshot, history>>

\* A tick of AutomaticCandidates triages a proposal that is open.
Tick(p) ==
  /\ at[Automation] \notin Busy
  /\ Autonomous(p) /\ status[p] \in Open
  /\ subject' = [subject EXCEPT ![Automation] = p]
  /\ Triage(Automation, p)
  /\ Rush(p)
  /\ UNCHANGED <<settings, stored, snapshot, human, refused, revived, crashes>>

\* approve() up to its first await; it leaves what was applied, or failed, alone.
Approve(c, p) ==
  /\ at[c] = "idle"
  /\ status[p] \notin {"absent", "applied", "failed"}
  /\ status' = [status EXCEPT ![p] = "approved"]
  /\ at' = [at EXCEPT ![c] = "approved"]
  /\ subject' = [subject EXCEPT ![c] = p]
  /\ human' = human \cup {p}
  /\ revived' = IF status[p] = "rejected" THEN revived \cup {p} ELSE revived
  /\ Rush(p)
  /\ UNCHANGED <<settings, stored, snapshot, refused, crashes>>

\* reject()
Reject(p) ==
  /\ status[p] # "absent"
  /\ status' = [status EXCEPT ![p] = "rejected"]
  /\ refused' = refused \cup {p}
  /\ Rush(p)
  /\ UNCHANGED <<settings, at, subject, stored, snapshot, human, revived, crashes>>

\* expire_stale(): open proposals that are old, as one submit() still announces is not.
Expire ==
  /\ \E old \in SUBSET {p \in Proposal : status[p] \in Open /\ at[p] # "announcing"} :
       /\ old # {}
       /\ status' = [p \in Proposal |-> IF p \in old THEN "rejected" ELSE status[p]]
  /\ UNCHANGED <<settings, at, subject, stored, snapshot, history>>

-----------------------------------------------------------------------------
\* _should_ratchet(), which only _triage() asks.
Ratchets(w) ==
  /\ w \notin Caller
  /\ Type[subject[w]] = "tuning" \/ AutoRatchet(subject[w])
  /\ settings.ratchet

\* Mutant: apply() takes an approval for the end.
Terminal_Approved == {"applied", "failed", "approved"}

Terminal == {"applied", "failed"}

\* The event of the approval is out: the ratchet takes its snapshot and begins to
\* bench, or apply() calls the handler.
Begin(w) ==
  /\ at[w] = "approved"
  /\ IF Ratchets(w)
       THEN /\ at' = [at EXCEPT ![w] = "bench"]
            /\ snapshot' = [snapshot EXCEPT ![subject[w]] = Overrides]
       ELSE /\ at' = [at EXCEPT ![w] =
                        IF status[subject[w]] \in Terminal THEN "done" ELSE "applying"]
            /\ UNCHANGED snapshot
  /\ UNCHANGED <<settings, status, subject, stored, history>>

\* The coroutine of w ends with the result of its proposal.
End(w, result) ==
  /\ status' = [status EXCEPT ![subject[w]] = result]
  /\ at' = [at EXCEPT ![w] = "done"]
  /\ UNCHANGED <<settings, subject, snapshot, history>>

\* The handler makes the change; what it does last and APPLIED are one step.
Applied(w) ==
  /\ at[w] = "applying"
  /\ stored' = stored \cup ({subject[w]} \ Fleeting)
  /\ End(w, "applied")

\* The handler fails, or the ratchet before its trial.
Failed(w) ==
  /\ at[w] \in {"bench", "applying"}
  /\ End(w, "failed")
  /\ UNCHANGED stored

\* The bench before is over: the change is applied, on disk too, and benched.
Try(w) ==
  /\ at[w] = "bench"
  /\ Type[subject[w]] = "tuning" /\ subject[w] \notin Fleeting
  /\ stored' = stored \cup {subject[w]}
  /\ at' = [at EXCEPT ![w] = "trial"]
  /\ UNCHANGED <<settings, status, subject, snapshot, history>>

\* The bench after is better: kept.
Keep(w) ==
  /\ at[w] = "trial"
  /\ End(w, "applied")
  /\ UNCHANGED stored

\* It is not: restore_overrides() writes the snapshot back.
Revert(w) ==
  /\ at[w] = "trial"
  /\ stored' = (stored \ Overrides) \cup snapshot[subject[w]]
  /\ End(w, "failed")

\* The process dies, maybe between a change and its APPLIED, and starts again.
Restart ==
  /\ crashes < MaxCrashes
  /\ crashes' = crashes + 1
  /\ \E made \in SUBSET {subject[w] : w \in {v \in Worker : at[v] = "applying"}} :
       stored' = stored \cup (made \ Fleeting)
  /\ at' = [w \in Worker |-> IF at[w] = "idle" THEN "idle" ELSE "done"]
  /\ UNCHANGED <<settings, status, subject, snapshot, human, refused, revived, hasty>>

-----------------------------------------------------------------------------
Progress(w) ==
  Begin(w) \/ Applied(w) \/ Failed(w) \/ Try(w) \/ Keep(w) \/ Revert(w)

Next ==
  \/ \E p \in Proposal : Submit(p) \/ Announced(p) \/ Tick(p) \/ Reject(p)
  \/ \E p \in Proposal, c \in Caller : Approve(c, p)
  \/ \E w \in Worker : Progress(w)
  \/ Expire \/ Restart

Spec == Init /\ [][Next]_vars

\* Events are delivered; handlers, whose errors are results, and benches end.
FairSpec ==
  /\ Spec
  /\ \A p \in Proposal : WF_vars(Announced(p))
  /\ \A w \in Worker : WF_vars(Progress(w))

-----------------------------------------------------------------------------
TypeOK ==
  /\ settings \in Flags
  /\ status \in [Proposal -> ProposalStatus \cup {"absent"}]
  /\ at \in [Worker -> Busy \cup {"idle", "done"}]
  /\ subject \in [Worker -> Proposal \cup {Nobody}]
  /\ \A w \in Worker : /\ at[w] \in Busy => subject[w] \in Proposal
                       /\ at[w] = "announcing" => w \in Proposal
                       /\ at[w] \in {"bench", "trial"} => w \notin Caller
  /\ stored \subseteq Proposal \ Fleeting
  /\ snapshot \in [Proposal -> SUBSET (Proposal \ Fleeting)]
  /\ human \subseteq Proposal /\ refused \subseteq Proposal
  /\ revived \subseteq Proposal /\ hasty \subseteq Proposal
  /\ crashes \in 0 .. MaxCrashes

\* "Types that always require human sign-off when approval gates are on", and what is
\* not marked safe; in a lab, ingests that are no GitHub research. A proposal that is
\* proven and goes through the ratchet is excepted, and what runs autonomously.
NeedsHuman(p) ==
  /\ ~Autonomous(p)
  /\ \/ GatesOn /\ (Gated(p) \/ p \notin Safe) /\ ~AutoRatchet(p)
     \/ settings.lab_autonomy /\ Type[p] = "ingest" /\ p \notin Research

\* No change of those is made, or on disk, that no human approved: not by triage, the
\* automation, an approval that raced a rejection, or after a restart.
NoUnapprovedChange ==
  \A p \in Proposal :
    p \in stored \/ status[p] = "applied" => ~NeedsHuman(p) \/ p \in human

\* The autonomy loop cannot spam itself: of two proposals of a key at most one is open,
\* approved or applied for good, unless a human approved what had been rejected, or
\* decided while the proposal was in the works.
OneOpen ==
  \A p, q \in Proposal \ (revived \cup hasty) :
    p # q /\ Key[p] = Key[q] => ~(Blocks(p) /\ Blocks(q))

\* What is on disk is not proposed again, over restarts too, unless a human rejected it
\* since, or applying it again failed.
Remembered ==
  \A p \in stored \ (refused \cup hasty) : Blocks(p) \/ status[p] = "failed"

\* An approval comes to its result unless the process dies.
ApprovalSettles ==
  \A p \in Proposal :
    status[p] = "approved" ~> (status[p] # "approved" \/ crashes > 0)

-----------------------------------------------------------------------------
\* The inductive invariant. A coroutine is about a proposal of the store; unless a
\* decision came in between, it is alone with it and finds the status it left.
WorkInv ==
  /\ \A p \in Proposal : subject[p] = p
  /\ \A w \in Worker : at[w] \in Busy =>
       /\ status[subject[w]] # "absent"
       /\ subject[w] \notin hasty =>
            status[subject[w]] = IF at[w] = "announcing" THEN "pending" ELSE "approved"
  /\ \A v, w \in Worker :
       v # w /\ at[v] \in Busy /\ at[w] \in Busy /\ subject[v] = subject[w]
         => subject[w] \in hasty

Cleared(p) == ~NeedsHuman(p) \/ p \in human

\* What is approved, applied, on disk, in a snapshot or being made needs no human, or
\* has its approval.
ClearInv ==
  /\ \A p \in Proposal : status[p] \in {"approved", "applied"} => Cleared(p)
  /\ \A p \in stored : Cleared(p)
  /\ \A p \in Proposal : \A q \in snapshot[p] : Cleared(q)
  /\ \A w \in Worker : at[w] \in Busy \ {"announcing"} => Cleared(subject[w])

\* What is on disk, or in a snapshot, is approved or comes from an approval.
KeptInv ==
  /\ \A p \in stored \ (refused \cup hasty) : status[p] \in {"approved", "applied", "failed"}
  /\ \A p \in Proposal : \A q \in snapshot[p] \ (refused \cup hasty) :
       status[q] \in {"approved", "applied", "failed"}

IInv == TypeOK /\ WorkInv /\ ClearInv /\ KeptInv /\ OneOpen

-----------------------------------------------------------------------------
\* "Make the change survive a restart": an applied change is on disk.
AppliedIsStored ==
  \A p \in Proposal \ Fleeting : status[p] = "applied" => p \in stored
=============================================================================

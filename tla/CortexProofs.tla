---------------------------- MODULE CortexProofs ----------------------------
(***************************************************************************)
(* Proofs about Cortex for every set of proposals, callers, types and      *)
(* keys, every combination of the settings and every number of restarts.   *)
(***************************************************************************)
EXTENDS Cortex, TLAPS

\* What needs a human is never decided "apply".
LEMMA ApplyNeedsNoHuman ==
  ASSUME NEW p \in Proposal, Decide(p) = "apply"
  PROVE  ~NeedsHuman(p)
<1> USE DEF Decide, NeedsHuman
<1>1. CASE Autonomous(p)
  BY <1>1
<1>2. CASE ~Autonomous(p) /\ settings.lab_autonomy
  BY <1>2 DEF GatesOn
<1>3. CASE ~Autonomous(p) /\ ~settings.lab_autonomy
  BY <1>3
<1>4. QED BY <1>1, <1>2, <1>3

\* Triage approves what needs no human, gates the proposal, or leaves it as it is.
LEMMA TriageStep ==
  ASSUME NEW w \in Worker, NEW p \in Proposal, Triage(w, p)
  PROVE  \/ /\ status' = [status EXCEPT ![p] = "approved"]
            /\ at' = [at EXCEPT ![w] = "approved"]
            /\ ~NeedsHuman(p)
         \/ /\ status' = [status EXCEPT ![p] = "gated"] \/ status' = status
            /\ at' = [at EXCEPT ![w] = "done"]
  BY ApplyNeedsNoHuman DEF Triage

LEMMA Workers ==
  /\ Proposal \subseteq Worker /\ Caller \subseteq Worker /\ Automation \in Worker
  /\ Proposal \cap Caller = {} /\ Automation \notin Proposal /\ Automation \notin Caller
  /\ Nobody \notin Proposal
  BY CortexAssumption DEF Worker

\* The needs of a proposal do not change while the settings do not.
LEMMA SameNeeds ==
  ASSUME settings' = settings, human \subseteq human'
  PROVE  \A p : Cleared(p) => Cleared(p)'
  BY DEF Cleared, NeedsHuman, Autonomous, GatesOn, Gated, AutoRatchet

-----------------------------------------------------------------------------
LEMMA InitInv == Init => IInv
<1> SUFFICES ASSUME Init PROVE IInv
  OBVIOUS
<1> USE DEF Init
<1>1. TypeOK
  BY CortexAssumption, Workers DEF TypeOK, Busy
<1>2. WorkInv
  BY Workers DEF WorkInv, Busy
<1>3. ClearInv /\ KeptInv /\ OneOpen
  BY Workers DEF ClearInv, KeptInv, OneOpen, Blocks, Open, Busy
<1>4. QED BY <1>1, <1>2, <1>3 DEF IInv

LEMMA SubmitStep == ASSUME IInv, NEW p \in Proposal, Submit(p) PROVE IInv'
<1> USE Workers DEF IInv
<1>1. /\ at[p] = "idle" /\ status[p] = "absent"
      /\ UNCHANGED <<settings, subject, stored, snapshot, human, refused, revived, hasty, crashes>>
  BY DEF Submit, history
<1>2. TypeOK
  OBVIOUS
<1>3. CASE \E q \in Proposal : Key[q] = Key[p] /\ Blocks(q)
  <2>1. status' = [status EXCEPT ![p] = "rejected"] /\ at' = [at EXCEPT ![p] = "done"]
    BY <1>3 DEF Submit
  <2>2. TypeOK'
    BY <1>1, <1>2, <2>1 DEF TypeOK, ProposalStatus, Busy
  <2>3. WorkInv'
    BY <1>1, <1>2, <2>1 DEF TypeOK, WorkInv, Busy
  <2>4. ClearInv'
    BY <1>1, <1>2, <2>1, SameNeeds DEF TypeOK, ClearInv, Busy
  <2>5. KeptInv'
    BY <1>1, <1>2, <2>1 DEF TypeOK, KeptInv
  <2>6. OneOpen'
    BY <1>1, <1>2, <2>1 DEF TypeOK, OneOpen, Blocks, Open
  <2>7. QED BY <2>2, <2>3, <2>4, <2>5, <2>6
<1>4. CASE ~\E q \in Proposal : Key[q] = Key[p] /\ Blocks(q)
  <2>1. status' = [status EXCEPT ![p] = "pending"] /\ at' = [at EXCEPT ![p] = "announcing"]
    BY <1>4 DEF Submit
  <2>2. TypeOK'
    <3>1. status' \in [Proposal -> ProposalStatus \cup {"absent"}]
      BY <1>2, <2>1 DEF TypeOK, ProposalStatus
    <3>2. at' \in [Worker -> Busy \cup {"idle", "done"}]
      BY <1>2, <2>1 DEF TypeOK, Busy
    <3>3. subject[p] = p
      BY DEF WorkInv
    <3>4. QED BY <1>1, <1>2, <2>1, <3>1, <3>2, <3>3 DEF TypeOK
  <2>3. WorkInv'
    <3>1. \A w \in Worker : at[w] \in Busy => subject[w] # p
      BY <1>1 DEF WorkInv
    <3>2. QED BY <1>1, <1>2, <2>1, <3>1 DEF TypeOK, WorkInv, Busy
  <2>4. ClearInv'
    BY <1>1, <1>2, <2>1, SameNeeds DEF TypeOK, ClearInv, Busy
  <2>5. KeptInv'
    BY <1>1, <1>2, <2>1 DEF TypeOK, KeptInv
  <2>6. OneOpen'
    BY <1>1, <1>2, <1>4, <2>1 DEF TypeOK, OneOpen, Blocks, Open
  <2>7. QED BY <2>2, <2>3, <2>4, <2>5, <2>6
<1>5. QED BY <1>3, <1>4

\* A step after which no more proposals block leaves at most one open.
LEMMA OneOpenKept ==
  ASSUME OneOpen, revived \subseteq revived', hasty \subseteq hasty',
         \A p \in Proposal \ (revived' \cup hasty') : Blocks(p)' => Blocks(p)
  PROVE  OneOpen'
  BY DEF OneOpen

LEMMA AnnouncedStep == ASSUME IInv, NEW p \in Proposal, Announced(p) PROVE IInv'
<1> USE Workers DEF IInv
<1>1. /\ at[p] = "announcing" /\ Triage(p, p)
      /\ UNCHANGED <<settings, subject, stored, snapshot, human, refused, revived, hasty, crashes>>
  BY DEF Announced, history
<1>2. /\ TypeOK /\ subject[p] = p
      /\ p \notin hasty => status[p] = "pending"
      /\ status[p] # "absent"
      /\ \A w \in Worker \ {p} : at[w] \in Busy /\ subject[w] = p => p \in hasty
  BY <1>1 DEF WorkInv, Busy
<1>3. /\ \/ status' = [status EXCEPT ![p] = "approved"] /\ ~NeedsHuman(p)
         \/ status' = [status EXCEPT ![p] = "gated"] /\ at'[p] = "done"
         \/ status' = status /\ at'[p] = "done"
      /\ at'[p] \in {"approved", "done"}
      /\ at'[p] = "approved" => status'[p] = "approved" /\ ~NeedsHuman(p)
      /\ \A w \in Worker \ {p} : at'[w] = at[w]
      /\ \A q \in Proposal \ {p} : status'[q] = status[q]
  BY <1>1, <1>2, TriageStep DEF TypeOK
<1>4. TypeOK'
  <2>1. status' \in [Proposal -> ProposalStatus \cup {"absent"}]
    BY <1>2, <1>3 DEF TypeOK, ProposalStatus
  <2>2. at' \in [Worker -> Busy \cup {"idle", "done"}]
    BY <1>1, <1>2, TriageStep DEF TypeOK, Busy
  <2>3. QED BY <1>1, <1>2, <1>3, <2>1, <2>2 DEF TypeOK
<1>5. WorkInv'
  <2>1. \A q \in Proposal : subject'[q] = q
    BY <1>1 DEF WorkInv
  <2>2. \A w \in Worker : at'[w] \in Busy =>
          /\ status'[subject'[w]] # "absent"
          /\ subject'[w] \notin hasty' =>
               status'[subject'[w]] = IF at'[w] = "announcing" THEN "pending" ELSE "approved"
    BY <1>1, <1>2, <1>3 DEF WorkInv, Busy, TypeOK
  <2>3. \A v, w \in Worker :
          v # w /\ at'[v] \in Busy /\ at'[w] \in Busy /\ subject'[v] = subject'[w]
            => subject'[w] \in hasty'
    BY <1>1, <1>2, <1>3 DEF WorkInv
  <2>4. QED BY <2>1, <2>2, <2>3 DEF WorkInv
<1>6. ClearInv'
  BY <1>1, <1>2, <1>3, SameNeeds DEF ClearInv, Busy, Cleared, TypeOK
<1>7. KeptInv'
  BY <1>1, <1>2, <1>3 DEF KeptInv, TypeOK
<1>8. OneOpen'
  BY <1>1, <1>2, <1>3, OneOpenKept DEF Blocks, Open, TypeOK
<1>9. QED BY <1>4, <1>5, <1>6, <1>7, <1>8

LEMMA TickStep == ASSUME IInv, NEW p \in Proposal, Tick(p) PROVE IInv'
<1> USE Workers DEF IInv
<1>1. /\ at[Automation] \notin Busy /\ status[p] \in Open /\ Triage(Automation, p)
      /\ subject' = [subject EXCEPT ![Automation] = p]
      /\ UNCHANGED <<settings, stored, snapshot, human, refused, revived, crashes>>
  BY DEF Tick
<1>2. /\ TypeOK
      /\ hasty' \in {hasty, hasty \cup {p}}
      /\ \A w \in Worker : at[w] \in Busy /\ subject[w] = p => p \in hasty'
  BY DEF Tick, Rush, Working
<1>3. /\ \/ status' = [status EXCEPT ![p] = "approved"] /\ ~NeedsHuman(p)
         \/ status' = [status EXCEPT ![p] = "gated"] /\ at'[Automation] = "done"
         \/ status' = status /\ at'[Automation] = "done"
      /\ at'[Automation] \in {"approved", "done"}
      /\ at'[Automation] = "approved" => status'[p] = "approved" /\ ~NeedsHuman(p)
      /\ \A w \in Worker \ {Automation} : at'[w] = at[w] /\ subject'[w] = subject[w]
      /\ \A q \in Proposal \ {p} : status'[q] = status[q]
      /\ subject'[Automation] = p
  BY <1>1, <1>2, TriageStep DEF TypeOK
<1>4. TypeOK'
  <2>1. status' \in [Proposal -> ProposalStatus \cup {"absent"}]
    BY <1>2, <1>3 DEF TypeOK, ProposalStatus
  <2>2. at' \in [Worker -> Busy \cup {"idle", "done"}]
    BY <1>1, <1>2, TriageStep DEF TypeOK, Busy
  <2>3. subject' \in [Worker -> Proposal \cup {Nobody}]
    BY <1>1, <1>2 DEF TypeOK
  <2>4. hasty' \subseteq Proposal
    BY <1>2 DEF TypeOK
  <2>5. QED BY <1>1, <1>2, <1>3, <2>1, <2>2, <2>3, <2>4 DEF TypeOK
<1>5. WorkInv'
  <2>1. \A q \in Proposal : subject'[q] = q
    BY <1>3 DEF WorkInv
  <2>2. \A w \in Worker : at'[w] \in Busy =>
          /\ status'[subject'[w]] # "absent"
          /\ subject'[w] \notin hasty' =>
               status'[subject'[w]] = IF at'[w] = "announcing" THEN "pending" ELSE "approved"
    BY <1>1, <1>2, <1>3 DEF WorkInv, Busy, TypeOK
  <2>3. \A v, w \in Worker :
          v # w /\ at'[v] \in Busy /\ at'[w] \in Busy /\ subject'[v] = subject'[w]
            => subject'[w] \in hasty'
    BY <1>1, <1>2, <1>3 DEF WorkInv
  <2>4. QED BY <2>1, <2>2, <2>3 DEF WorkInv
<1>6. ClearInv'
  BY <1>1, <1>2, <1>3, SameNeeds DEF ClearInv, Busy, Cleared, TypeOK
<1>7. KeptInv'
  BY <1>1, <1>2, <1>3 DEF KeptInv, TypeOK, Open
<1>8. OneOpen'
  BY <1>1, <1>2, <1>3, OneOpenKept DEF Blocks, Open, TypeOK
<1>9. QED BY <1>4, <1>5, <1>6, <1>7, <1>8

LEMMA ApproveStep ==
  ASSUME IInv, NEW c \in Caller, NEW p \in Proposal, Approve(c, p) PROVE IInv'
<1> USE Workers DEF IInv
<1>1. /\ at[c] = "idle" /\ status[p] \notin {"absent", "applied", "failed"}
      /\ status' = [status EXCEPT ![p] = "approved"]
      /\ at' = [at EXCEPT ![c] = "approved"]
      /\ subject' = [subject EXCEPT ![c] = p]
      /\ human' = human \cup {p}
      /\ UNCHANGED <<settings, stored, snapshot, refused, crashes>>
  BY DEF Approve
<1>2. /\ TypeOK
      /\ hasty' \in {hasty, hasty \cup {p}}
      /\ \A w \in Worker : at[w] \in Busy /\ subject[w] = p => p \in hasty'
      /\ revived' \in {revived, revived \cup {p}}
      /\ status[p] = "rejected" => p \in revived'
  BY DEF Approve, Rush, Working
<1>3. /\ at'[c] = "approved" /\ subject'[c] = p /\ status'[p] = "approved"
      /\ \A w \in Worker \ {c} : at'[w] = at[w] /\ subject'[w] = subject[w]
      /\ \A q \in Proposal \ {p} : status'[q] = status[q]
      /\ Cleared(p)'
  BY <1>1, <1>2 DEF TypeOK, Cleared
<1>4. TypeOK'
  <2>1. status' \in [Proposal -> ProposalStatus \cup {"absent"}]
    BY <1>1, <1>2 DEF TypeOK, ProposalStatus
  <2>2. at' \in [Worker -> Busy \cup {"idle", "done"}]
    BY <1>1, <1>2 DEF TypeOK, Busy
  <2>3. subject' \in [Worker -> Proposal \cup {Nobody}]
    BY <1>1, <1>2 DEF TypeOK
  <2>4. hasty' \subseteq Proposal /\ revived' \subseteq Proposal /\ human' \subseteq Proposal
    BY <1>1, <1>2 DEF TypeOK
  <2>5. QED BY <1>1, <1>2, <1>3, <2>1, <2>2, <2>3, <2>4 DEF TypeOK
<1>5. WorkInv'
  <2>1. \A q \in Proposal : subject'[q] = q
    BY <1>3 DEF WorkInv
  <2>2. \A w \in Worker : at'[w] \in Busy =>
          /\ status'[subject'[w]] # "absent"
          /\ subject'[w] \notin hasty' =>
               status'[subject'[w]] = IF at'[w] = "announcing" THEN "pending" ELSE "approved"
    BY <1>1, <1>2, <1>3 DEF WorkInv, Busy, TypeOK
  <2>3. \A v, w \in Worker :
          v # w /\ at'[v] \in Busy /\ at'[w] \in Busy /\ subject'[v] = subject'[w]
            => subject'[w] \in hasty'
    BY <1>1, <1>2, <1>3 DEF WorkInv
  <2>4. QED BY <2>1, <2>2, <2>3 DEF WorkInv
<1>6. ClearInv'
  BY <1>1, <1>2, <1>3, SameNeeds DEF ClearInv, Busy, TypeOK
<1>7. KeptInv'
  BY <1>1, <1>2, <1>3 DEF KeptInv, TypeOK
<1>8. OneOpen'
  BY <1>1, <1>2, <1>3, OneOpenKept DEF Blocks, Open, TypeOK, ProposalStatus
<1>9. QED BY <1>4, <1>5, <1>6, <1>7, <1>8

LEMMA RejectStep == ASSUME IInv, NEW p \in Proposal, Reject(p) PROVE IInv'
<1> USE Workers DEF IInv
<1>1. /\ status' = [status EXCEPT ![p] = "rejected"]
      /\ refused' = refused \cup {p}
      /\ UNCHANGED <<settings, at, subject, stored, snapshot, human, revived, crashes>>
  BY DEF Reject
<1>2. /\ TypeOK
      /\ hasty' \in {hasty, hasty \cup {p}}
      /\ \A w \in Worker : at[w] \in Busy /\ subject[w] = p => p \in hasty'
  BY DEF Reject, Rush, Working
<1>3. /\ status'[p] = "rejected"
      /\ \A q \in Proposal \ {p} : status'[q] = status[q]
  BY <1>1, <1>2 DEF TypeOK
<1>4. TypeOK'
  <2>1. status' \in [Proposal -> ProposalStatus \cup {"absent"}]
    BY <1>1, <1>2 DEF TypeOK, ProposalStatus
  <2>2. hasty' \subseteq Proposal /\ refused' \subseteq Proposal
    BY <1>1, <1>2 DEF TypeOK
  <2>3. QED BY <1>1, <1>2, <2>1, <2>2 DEF TypeOK
<1>5. WorkInv'
  BY <1>1, <1>2, <1>3 DEF WorkInv, TypeOK
<1>6. ClearInv'
  BY <1>1, <1>2, <1>3, SameNeeds DEF ClearInv, Busy, TypeOK
<1>7. KeptInv'
  BY <1>1, <1>2, <1>3 DEF KeptInv, TypeOK
<1>8. OneOpen'
  BY <1>1, <1>2, <1>3, OneOpenKept DEF Blocks, Open
<1>9. QED BY <1>4, <1>5, <1>6, <1>7, <1>8

LEMMA ExpireStep == ASSUME IInv, Expire PROVE IInv'
<1> USE Workers DEF IInv
<1>1. PICK old \in SUBSET {p \in Proposal : status[p] \in Open /\ at[p] # "announcing"} :
        status' = [p \in Proposal |-> IF p \in old THEN "rejected" ELSE status[p]]
  BY DEF Expire
<1>2. UNCHANGED <<settings, at, subject, stored, snapshot, human, refused, revived, hasty, crashes>>
  BY DEF Expire, history
<1>3. \A p \in Proposal : \/ status'[p] = status[p] /\ p \notin old
                          \/ /\ status'[p] = "rejected" /\ status[p] \in Open
                             /\ at[p] # "announcing"
  BY <1>1
<1>4. TypeOK'
  <2>1. status' \in [Proposal -> ProposalStatus \cup {"absent"}]
    BY <1>1 DEF TypeOK, ProposalStatus
  <2>2. QED BY <1>2, <2>1 DEF TypeOK
<1>5. WorkInv'
  <2>1. ASSUME NEW w \in Worker, at[w] \in Busy
        PROVE  /\ status'[subject[w]] # "absent"
               /\ subject[w] \notin hasty =>
                    status'[subject[w]] = IF at[w] = "announcing" THEN "pending" ELSE "approved"
    <3>1. subject[w] \in Proposal /\ (at[w] = "announcing" => subject[w] = w)
      BY <2>1 DEF TypeOK, WorkInv
    <3>2. QED BY <1>3, <2>1, <3>1 DEF WorkInv, Open
  <2>2. QED BY <1>2, <2>1 DEF WorkInv
<1>6. ClearInv'
  BY <1>2, <1>3, SameNeeds DEF ClearInv
<1>7. KeptInv'
  BY <1>2, <1>3 DEF KeptInv, TypeOK, Open
<1>8. OneOpen'
  BY <1>2, <1>3, OneOpenKept DEF Blocks, Open
<1>9. QED BY <1>4, <1>5, <1>6, <1>7, <1>8

-----------------------------------------------------------------------------
LEMMA BeginStep == ASSUME IInv, NEW w \in Worker, Begin(w) PROVE IInv'
<1> USE Workers DEF IInv
<1>1. /\ at[w] = "approved"
      /\ UNCHANGED <<settings, status, subject, stored, human, refused, revived, hasty, crashes>>
  BY DEF Begin, history
<1>2. /\ TypeOK /\ subject[w] \in Proposal /\ Overrides \subseteq stored
      /\ at[w] \in Busy \ {"announcing"}
  BY <1>1 DEF TypeOK, Busy, Overrides
<1>3. /\ \/ at' = [at EXCEPT ![w] = "bench"] /\ w \notin Caller
         \/ at' = [at EXCEPT ![w] = "applying"]
         \/ at' = [at EXCEPT ![w] = "done"]
      /\ snapshot' \in {snapshot, [snapshot EXCEPT ![subject[w]] = Overrides]}
  BY <1>1 DEF Begin, Ratchets
<1>4. /\ at'[w] \in {"bench", "applying", "done"} /\ (at'[w] = "bench" => w \notin Caller)
      /\ \A v \in Worker \ {w} : at'[v] = at[v]
  BY <1>2, <1>3 DEF TypeOK
<1>5. \A p \in Proposal : \A q \in snapshot'[p] : q \in snapshot[p] \/ q \in stored
  BY <1>2, <1>3 DEF TypeOK
<1>6. TypeOK'
  <2>1. at' \in [Worker -> Busy \cup {"idle", "done"}]
    BY <1>2, <1>3 DEF TypeOK, Busy
  <2>2. snapshot' \in [Proposal -> SUBSET (Proposal \ Fleeting)]
    BY <1>2, <1>3 DEF TypeOK
  <2>3. \A v \in Worker : /\ at'[v] \in Busy => subject[v] \in Proposal
                          /\ at'[v] = "announcing" => v \in Proposal
                          /\ at'[v] \in {"bench", "trial"} => v \notin Caller
    BY <1>2, <1>4 DEF TypeOK
  <2>4. QED BY <1>1, <2>1, <2>2, <2>3 DEF TypeOK
<1>7. WorkInv'
  BY <1>1, <1>2, <1>4 DEF WorkInv, Busy
<1>8. ClearInv'
  BY <1>1, <1>2, <1>4, <1>5, SameNeeds DEF ClearInv, Busy
<1>9. KeptInv'
  BY <1>1, <1>5 DEF KeptInv
<1>10. OneOpen'
  BY <1>1 DEF OneOpen, Blocks
<1>11. QED BY <1>6, <1>7, <1>8, <1>9, <1>10

\* A coroutine ends with a result, and with a change that was, or may be, on disk.
LEMMA EndStep ==
  ASSUME IInv, NEW w \in Worker, NEW result \in {"applied", "failed"}, End(w, result),
         at[w] \in Busy \ {"announcing"},
         NEW p, p = subject[w],
         stored' \subseteq Proposal \ Fleeting,
         \A q \in stored' : q \in stored \/ q = p \/ \E r \in Proposal : q \in snapshot[r]
  PROVE  IInv'
<1> USE Workers DEF IInv
<1>1. /\ status' = [status EXCEPT ![p] = result]
      /\ at' = [at EXCEPT ![w] = "done"]
      /\ UNCHANGED <<settings, subject, snapshot, human, refused, revived, hasty, crashes>>
  BY DEF End, history
<1>2. /\ TypeOK /\ p \in Proposal /\ Cleared(p)
      /\ p \notin hasty => status[p] = "approved"
      /\ \A v \in Worker \ {w} : at[v] \in Busy /\ subject[v] = p => p \in hasty
  BY DEF TypeOK, WorkInv, ClearInv
<1>3. /\ at'[w] = "done" /\ status'[p] = result
      /\ \A v \in Worker \ {w} : at'[v] = at[v]
      /\ \A q \in Proposal \ {p} : status'[q] = status[q]
  BY <1>1, <1>2 DEF TypeOK
<1>4. TypeOK'
  <2>1. status' \in [Proposal -> ProposalStatus \cup {"absent"}]
    BY <1>1, <1>2 DEF TypeOK, ProposalStatus
  <2>2. at' \in [Worker -> Busy \cup {"idle", "done"}]
    BY <1>1, <1>2 DEF TypeOK
  <2>3. \A v \in Worker : at'[v] \in Busy \cup {"bench", "trial"} => at'[v] = at[v]
    BY <1>3 DEF Busy
  <2>4. QED BY <1>1, <1>2, <2>1, <2>2, <2>3 DEF TypeOK, Busy
<1>5. WorkInv'
  <2>1. ASSUME NEW v \in Worker, at'[v] \in Busy
        PROVE  /\ v # w /\ at'[v] = at[v] /\ subject[v] \in Proposal
               /\ status'[subject[v]] # "absent"
               /\ subject[v] \notin hasty =>
                    status'[subject[v]] = IF at[v] = "announcing" THEN "pending" ELSE "approved"
    BY <1>2, <1>3, <2>1 DEF WorkInv, Busy, TypeOK
  <2>2. QED BY <1>1, <2>1 DEF WorkInv
<1>6. ClearInv'
  BY <1>1, <1>2, <1>3, SameNeeds DEF ClearInv, Busy
<1>7. KeptInv'
  BY <1>1, <1>2, <1>3 DEF KeptInv, TypeOK
<1>8. OneOpen'
  BY <1>1, <1>2, <1>3, OneOpenKept DEF Blocks, Open
<1>9. QED BY <1>4, <1>5, <1>6, <1>7, <1>8

LEMMA TryStep == ASSUME IInv, NEW w \in Worker, Try(w) PROVE IInv'
<1> USE Workers DEF IInv
<1> DEFINE p == subject[w]
<1>1. /\ at[w] = "bench" /\ p \notin Fleeting
      /\ stored' = stored \cup {p}
      /\ at' = [at EXCEPT ![w] = "trial"]
      /\ UNCHANGED <<settings, status, subject, snapshot, human, refused, revived, hasty, crashes>>
  BY DEF Try, history
<1>2. /\ TypeOK /\ p \in Proposal /\ w \notin Caller /\ Cleared(p)
      /\ p \notin hasty => status[p] = "approved"
  BY <1>1 DEF TypeOK, WorkInv, ClearInv, Busy
<1>3. at'[w] = "trial" /\ \A v \in Worker \ {w} : at'[v] = at[v]
  BY <1>1, <1>2 DEF TypeOK
<1>4. TypeOK'
  <2>1. at' \in [Worker -> Busy \cup {"idle", "done"}]
    BY <1>1, <1>2 DEF TypeOK, Busy
  <2>2. stored' \subseteq Proposal \ Fleeting
    BY <1>1, <1>2 DEF TypeOK
  <2>3. QED BY <1>1, <1>2, <1>3, <2>1, <2>2 DEF TypeOK
<1>5. WorkInv'
  BY <1>1, <1>3 DEF WorkInv, Busy
<1>6. ClearInv'
  BY <1>1, <1>2, <1>3, SameNeeds DEF ClearInv, Busy
<1>7. KeptInv'
  BY <1>1, <1>2 DEF KeptInv
<1>8. OneOpen'
  BY <1>1 DEF OneOpen, Blocks
<1>9. QED BY <1>4, <1>5, <1>6, <1>7, <1>8

LEMMA ProgressStep == ASSUME IInv, NEW w \in Worker, Progress(w) PROVE IInv'
<1> DEFINE p == subject[w]
<1>1. /\ stored \subseteq Proposal \ Fleeting
      /\ \A q \in Proposal : snapshot[q] \subseteq Proposal \ Fleeting
      /\ at[w] \in Busy => p \in Proposal
  BY DEF IInv, TypeOK
<1>2. CASE Begin(w)
  BY <1>2, BeginStep
<1>3. CASE Applied(w)
  <2>1. /\ at[w] \in Busy \ {"announcing"} /\ End(w, "applied")
        /\ stored' = stored \cup ({p} \ Fleeting)
    BY <1>3 DEF Applied, Busy
  <2>2. QED BY <1>1, <2>1, EndStep
<1>4. CASE Failed(w)
  <2>1. at[w] \in Busy \ {"announcing"} /\ End(w, "failed") /\ stored' = stored
    BY <1>4 DEF Failed, Busy
  <2>2. QED BY <1>1, <2>1, EndStep
<1>5. CASE Try(w)
  BY <1>5, TryStep
<1>6. CASE Keep(w)
  <2>1. at[w] \in Busy \ {"announcing"} /\ End(w, "applied") /\ stored' = stored
    BY <1>6 DEF Keep, Busy
  <2>2. QED BY <1>1, <2>1, EndStep
<1>7. CASE Revert(w)
  <2>1. /\ at[w] \in Busy \ {"announcing"} /\ End(w, "failed")
        /\ stored' = (stored \ Overrides) \cup snapshot[p]
    BY <1>7 DEF Revert, Busy
  <2>2. QED BY <1>1, <2>1, EndStep
<1>8. QED
  BY <1>2, <1>3, <1>4, <1>5, <1>6, <1>7 DEF Progress

LEMMA RestartStep == ASSUME IInv, Restart PROVE IInv'
<1> USE Workers DEF IInv
<1> DEFINE applying == {subject[w] : w \in {v \in Worker : at[v] = "applying"}}
<1>1. PICK made \in SUBSET applying : stored' = stored \cup (made \ Fleeting)
  BY DEF Restart
<1>2. /\ at' = [w \in Worker |-> IF at[w] = "idle" THEN "idle" ELSE "done"]
      /\ crashes < MaxCrashes /\ crashes' = crashes + 1
      /\ UNCHANGED <<settings, status, subject, snapshot, human, refused, revived, hasty>>
  BY DEF Restart
<1>3. \A w \in Worker : at'[w] \notin Busy
  BY <1>2 DEF Busy
<1>4. \A p \in made : /\ p \in Proposal /\ Cleared(p)
                      /\ p \notin hasty => status[p] = "approved"
  BY <1>1 DEF TypeOK, WorkInv, ClearInv, Busy
<1>5. TypeOK'
  <2>1. at' \in [Worker -> Busy \cup {"idle", "done"}]
    BY <1>2
  <2>2. stored' \subseteq Proposal \ Fleeting
    BY <1>1, <1>4 DEF TypeOK
  <2>3. crashes' \in 0 .. MaxCrashes
    BY <1>2, CortexAssumption DEF TypeOK
  <2>4. \A w \in Worker : at'[w] \in {"idle", "done"}
    BY <1>2
  <2>5. QED BY <1>2, <1>3, <2>1, <2>2, <2>3, <2>4 DEF TypeOK, Busy
<1>6. WorkInv'
  BY <1>2, <1>3 DEF WorkInv
<1>7. ClearInv'
  BY <1>1, <1>2, <1>3, <1>4, SameNeeds DEF ClearInv
<1>8. KeptInv'
  BY <1>1, <1>2, <1>4 DEF KeptInv
<1>9. OneOpen'
  BY <1>2 DEF OneOpen, Blocks
<1>10. QED BY <1>5, <1>6, <1>7, <1>8, <1>9

LEMMA NextInv == IInv /\ [Next]_vars => IInv'
<1> SUFFICES ASSUME IInv, [Next]_vars PROVE IInv'
  OBVIOUS
<1>1. CASE UNCHANGED vars
  <2>1. TypeOK'
    BY <1>1 DEF IInv, TypeOK, vars, history
  <2>2. WorkInv' /\ KeptInv' /\ OneOpen'
    BY <1>1 DEF IInv, vars, history, WorkInv, KeptInv, OneOpen, Blocks
  <2>3. ClearInv'
    BY <1>1, SameNeeds DEF IInv, vars, history, ClearInv
  <2>4. QED BY <2>1, <2>2, <2>3 DEF IInv
<1>2. CASE Next
  BY <1>2, SubmitStep, AnnouncedStep, TickStep, ApproveStep, RejectStep, ExpireStep,
     ProgressStep, RestartStep
  DEF Next
<1>3. QED BY <1>1, <1>2

\* The inductive invariant holds in every state.
THEOREM Invariance == Spec => []IInv
  BY InitInv, NextInv, PTL DEF Spec

\* The store, the coroutines and the override files stay well typed: what is not
\* persistable is never on disk or in a snapshot, and approve() never benches.
THEOREM TypeCorrect == Spec => []TypeOK
<1>1. IInv => TypeOK
  BY DEF IInv
<1>2. QED BY <1>1, Invariance, PTL

\* No change that needs a human is made or on disk without a human's approval.
THEOREM NoUnapprovedChangeHolds == Spec => []NoUnapprovedChange
<1>1. IInv => NoUnapprovedChange
  BY DEF IInv, TypeOK, ClearInv, Cleared, NoUnapprovedChange
<1>2. QED BY <1>1, Invariance, PTL

\* Of the proposals of a key at most one is open, approved or applied for good, but
\* for those a human revived or decided while they were in the works.
THEOREM OneOpenHolds == Spec => []OneOpen
<1>1. IInv => OneOpen
  BY DEF IInv
<1>2. QED BY <1>1, Invariance, PTL

\* What is on disk goes on blocking its key, unless a human rejected it since or
\* applying it again failed.
THEOREM RememberedHolds == Spec => []Remembered
<1>1. IInv => Remembered
  BY DEF IInv, TypeOK, KeptInv, Remembered, Blocks
<1>2. QED BY <1>1, Invariance, PTL
=============================================================================

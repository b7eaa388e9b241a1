------------------------- MODULE OrchestratorProofs -------------------------
(***************************************************************************)
(* Proofs about Orchestrator for every set of submissions, keys, agents    *)
(* and limits: types, a single flight per key, no joiner without a leader, *)
(* and the implementation of IdempotentService.                            *)
(***************************************************************************)
EXTENDS Orchestrator, TLAPS, FiniteSetTheorems, SequenceTheorems

\* A function on 1 .. n is a sequence of length n.
LEMMA IsSequence ==
  ASSUME NEW S, NEW n \in Nat, NEW f \in [1 .. n -> S]
  PROVE  f \in Seq(S) /\ Len(f) = n
  OBVIOUS

\* The elements of a sequence and of one that is longer by one.
LEMMA ToSetAppend ==
  ASSUME NEW S, NEW q \in Seq(S), NEW e \in S
  PROVE  ToSet(Append(q, e)) = ToSet(q) \cup {e}
<1>1. /\ Len(q) \in Nat /\ DOMAIN q = 1 .. Len(q)
      /\ DOMAIN Append(q, e) = 1 .. Len(q) + 1
      /\ \A i \in 1 .. Len(q) : Append(q, e)[i] = q[i]
      /\ Append(q, e)[Len(q) + 1] = e
  BY AppendProperties, LenProperties
<1>2. QED BY <1>1 DEF ToSet

LEMMA ToSetType ==
  ASSUME NEW S, NEW q \in Seq(S)
  PROVE  ToSet(q) \subseteq S
  BY ElementOfSeq, LenProperties DEF ToSet

\* What is kept under a key is a submission.
LEMMA CachedType ==
  ASSUME TypeOK, NEW s \in Submission
  PROVE  CachedFor(s) \subseteq Submission
  BY ToSetType DEF TypeOK, CachedFor

\* The bound of the cache is kept.
LEMMA KeptType ==
  ASSUME TypeOK, NEW s \in Submission, NEW ok \in BOOLEAN
  PROVE  Kept(s, ok) \in Seq(Submission) /\ Len(Kept(s, ok)) <= CacheSize
<1> USE OrchestratorAssumption
<1>0. cache \in Seq(Submission) /\ Len(cache) \in Nat /\ Len(cache) <= CacheSize
  BY LenProperties DEF TypeOK
<1>1. Store(s) \in Seq(Submission) /\ Len(Store(s)) \in {Len(cache), Len(cache) + 1}
  <2>1. CASE CachedFor(s) # {}
    <3> DEFINE e(i) == IF KeyOf[cache[i]] = KeyOf[s] THEN s ELSE cache[i]
    <3>1. DOMAIN cache = 1 .. Len(cache) /\ \A i \in 1 .. Len(cache) : e(i) \in Submission
      BY <1>0, LenProperties, ElementOfSeq
    <3>2. Store(s) = [i \in 1 .. Len(cache) |-> e(i)]
      BY <2>1, <3>1 DEF Store
    <3>3. Store(s) \in [1 .. Len(cache) -> Submission]
      BY <3>1, <3>2
    <3>4. Store(s) \in Seq(Submission) /\ Len(Store(s)) = Len(cache)
      BY <3>3, <1>0, IsSequence
    <3>5. QED BY <3>4
  <2>2. CASE CachedFor(s) = {}
    BY <2>2, <1>0, AppendProperties DEF Store
  <2>3. QED BY <2>1, <2>2
<1>2. CASE Len(Store(s)) > CacheSize
  <2>1. Store(s) # <<>>
    BY <1>2, EmptySeq
  <2>2. Tail(Store(s)) \in Seq(Submission) /\ Len(Tail(Store(s))) = Len(Store(s)) - 1
    BY <1>1, <2>1, HeadTailProperties
  <2>3. Len(Store(s)) \in Nat /\ Len(Store(s)) <= CacheSize + 1 /\ CacheSize \in Nat
    BY <1>0, <1>1
  <2>6. Len(Tail(Store(s))) <= CacheSize
    BY <2>2, <2>3
  <2>4. Kept(s, ok) \in {cache, Tail(Store(s))}
    BY <1>2 DEF Kept
  <2>5. QED BY <1>0, <2>2, <2>6, <2>4
<1>3. CASE ~(Len(Store(s)) > CacheSize)
  <2>1. Len(Store(s)) <= CacheSize
    BY <1>0, <1>1, <1>3
  <2>2. Kept(s, ok) \in {cache, Store(s)}
    BY <1>3 DEF Kept
  <2>3. QED BY <1>0, <1>1, <2>1, <2>2
<1>4. QED BY <1>2, <1>3

\* A step moves one submission.
LEMMA PcStep ==
  ASSUME NEW s \in Submission, Submit(s) \/ Progress(s) \/ Cancel(s)
  PROVE  \E p \in PcState \ {"new"} : pc' = [pc EXCEPT ![s] = p]
<1> DEFINE Goes(p) == pc' = [pc EXCEPT ![s] = p]
<1>1. \/ Goes("returned") \/ Goes("cancelled") \/ Goes("joining") \/ Goes("submitting")
      \/ Goes("queued") \/ Goes("locking") \/ Goes("executing") \/ Goes("reporting")
      \/ Goes("backoff") \/ Goes("healing") \/ Goes("recovered") \/ Goes("persisting")
  <2>1. CASE Submit(s)
    BY <2>1 DEF Submit, SubmitCached, Join, Lead
  <2>2. CASE Route(s) \/ AcquireSlot(s) \/ StartRun(s) \/ Executed(s) \/ Reported(s)
    BY <2>2 DEF Route, AcquireSlot, StartRun, Executed, Reported
  <2>3. CASE Backoff(s) \/ Healed(s) \/ HealFailed(s) \/ Recovered(s) \/ Persisted(s)
    BY <2>3 DEF Backoff, Healed, HealFailed, Recovered, Persisted, Reroute
  <2>4. CASE Wake(s) \/ Cancel(s)
    BY <2>4 DEF Wake, Cancel
  <2>5. QED BY <2>1, <2>2, <2>3, <2>4 DEF Progress
<1>2. QED BY <1>1, Zenon DEF PcState, Leading, Ended

\* Routing finds an agent or none.
LEMMA RoutesType ==
  ASSUME NEW s \in Submission, NEW st
  PROVE  Routes(s, st) \subseteq Agent
  BY OrchestratorAssumption DEF Routes

\* A future is set once, and a key is freed or taken by a submission.
LEMMA FlightType ==
  ASSUME TypeOK, NEW s \in Submission, Submit(s) \/ Progress(s) \/ Cancel(s)
  PROVE  future' \in [Submission -> Future] /\ inflight' \in [Key -> Submission \cup {NoOne}]
<1>1. future \in [Submission -> Future] /\ inflight \in [Key -> Submission \cup {NoOne}]
  BY DEF TypeOK
<1>2. CASE Lead(s)
  <2>1. CASE KeyOf[s] = NoKey
    BY <1>1, <1>2, <2>1 DEF Lead
  <2>2. CASE KeyOf[s] # NoKey
    BY <1>1, <1>2, <2>2 DEF Lead, Future
  <2>3. QED BY <2>1, <2>2
<1>3. ASSUME NEW how \in Future, Publish(s, how)
      PROVE  future' \in [Submission -> Future] /\ inflight' \in [Key -> Submission \cup {NoOne}]
  BY <1>1, <1>3 DEF Publish
<1>4. CASE CancelJoiner(s)
  BY <1>1, <1>4 DEF CancelJoiner, Future
<1>5. CASE Persisted(s) \/ CancelLeader(s)
  <2>1. "result" \in Future /\ "raised" \in Future
    BY DEF Future
  <2>2. Publish(s, "result") \/ Publish(s, "raised")
    BY <1>5 DEF Persisted, CancelLeader
  <2>3. QED BY <2>1, <2>2, <1>3
<1>6. CASE UNCHANGED <<inflight, future>>
  BY <1>1, <1>6
<1>7. QED
  <2>1. CASE Submit(s)
    BY <2>1, <1>2, <1>6 DEF Submit, SubmitCached, Join
  <2>2. CASE Progress(s)
    BY <2>2, <1>5, <1>6 DEF Progress, Route, AcquireSlot, StartRun, Executed, Reported,
       Backoff, Healed, HealFailed, Recovered, Wake
  <2>3. CASE Cancel(s)
    BY <2>3, <1>4, <1>5 DEF Cancel
  <2>4. QED BY <2>1, <2>2, <2>3

\* What a submission learns: an outcome and an answer; the cache keeps its bound.
LEMMA ResultType ==
  ASSUME TypeOK, NEW s \in Submission, Submit(s) \/ Progress(s) \/ Cancel(s)
  PROVE  /\ outcome' \in [Submission -> Attempted]
         /\ answer' \in [Submission -> Submission \cup {NoOne}]
         /\ leads' \in [Submission -> Submission \cup {NoOne}]
         /\ cache' \in Seq(Submission) /\ Len(cache') <= CacheSize
<1>1. /\ outcome \in [Submission -> Attempted]
      /\ answer \in [Submission -> Submission \cup {NoOne}]
      /\ leads \in [Submission -> Submission \cup {NoOne}]
      /\ inflight \in [Key -> Submission \cup {NoOne}]
      /\ cache \in Seq(Submission) /\ Len(cache) <= CacheSize
  BY DEF TypeOK
<1>2. CASE UNCHANGED <<outcome, answer, leads, cache>>
  BY <1>1, <1>2
<1>3. CASE Submit(s)
  <2>1. CASE SubmitCached(s)
    <3>1. PICK t \in Submission :
            /\ answer' = [answer EXCEPT ![s] = t]
            /\ leads' = [leads EXCEPT ![s] = t]
      BY <2>1, CachedType DEF SubmitCached
    <3>2. UNCHANGED <<outcome, cache>>
      BY <2>1 DEF SubmitCached
    <3>3. QED BY <1>1, <3>1, <3>2
  <2>2. CASE Join(s)
    <3>1. inflight[KeyOf[s]] \in Submission \cup {NoOne}
      BY <1>1, <2>2 DEF Join, Key
    <3>2. QED BY <1>1, <2>2, <3>1 DEF Join
  <2>3. CASE Lead(s)
    BY <1>1, <2>3 DEF Lead
  <2>4. QED BY <1>3, <2>1, <2>2, <2>3 DEF Submit
<1>4. CASE Route(s)
  <2>1. cache' = cache \/ cache' = Kept(s, FALSE)
    BY <1>4 DEF Route
  <2>2. outcome' = outcome \/ outcome' = [outcome EXCEPT ![s] = "permanent"]
    BY <1>4 DEF Route
  <2>3. outcome' \in [Submission -> Attempted]
    BY <1>1, <2>2 DEF Attempted
  <2>4. cache' \in Seq(Submission) /\ Len(cache') <= CacheSize
    BY <1>1, <2>1, KeptType
  <2>5. UNCHANGED <<answer, leads>>
    BY <1>4 DEF Route
  <2>6. QED BY <1>1, <2>3, <2>4, <2>5
<1>5. CASE Executed(s)
  BY <1>1, <1>5 DEF Executed, Attempted
<1>6. CASE Reported(s)
  <2>1. cache' = cache \/ cache' = Kept(s, outcome[s] = "success")
    BY <1>6 DEF Reported
  <2>2. cache' \in Seq(Submission) /\ Len(cache') <= CacheSize
    BY <1>1, <2>1, KeptType
  <2>3. QED BY <1>1, <1>6, <2>2 DEF Reported
<1>7. CASE Persisted(s)
  BY <1>1, <1>7 DEF Persisted
<1>8. CASE Wake(s)
  <2>1. answer' = answer \/ answer' = [answer EXCEPT ![s] = leads[s]]
    BY <1>8 DEF Wake
  <2>2. QED BY <1>1, <1>8, <2>1 DEF Wake
<1>9. QED
  <2>1. CASE Cancel(s)
    BY <2>1, <1>2 DEF Cancel
  <2>2. CASE Progress(s)
    BY <2>2, <1>2, <1>4, <1>5, <1>6, <1>7, <1>8 DEF Progress, AcquireSlot, StartRun,
       Backoff, Healed, HealFailed, Recovered
  <2>3. QED BY <2>1, <2>2, <1>3

\* Agents, and the attempts made on them.
LEMMA AgentType ==
  ASSUME TypeOK, RetryInv, NEW s \in Submission, Submit(s) \/ Progress(s) \/ Cancel(s)
  PROVE  /\ agentOf' \in [Submission -> Agent \cup {NoAgent}]
         /\ status' \in [Agent -> {"ready", "busy", "failed"}]
         /\ failures' \in [Agent -> Nat]
         /\ attempt' \in [Submission -> 0 .. MaxRetries + 1]
         /\ RetryInv'
<1>1. /\ agentOf \in [Submission -> Agent \cup {NoAgent}]
      /\ status \in [Agent -> {"ready", "busy", "failed"}]
      /\ attempt \in [Submission -> 0 .. MaxRetries + 1]
      /\ failures \in [Agent -> Nat]
      /\ pc \in [Submission -> PcState]
  BY DEF TypeOK
<1>2. MaxRetries \in Nat
  BY OrchestratorAssumption
<1> DEFINE Retrying == {"backoff", "healing", "recovered"}
<1>3. ASSUME UNCHANGED attempt, NEW p \in PcState, pc' = [pc EXCEPT ![s] = p],
             p \in Retrying => pc[s] \in Retrying \/ attempt[s] <= MaxRetries
      PROVE  attempt' \in [Submission -> 0 .. MaxRetries + 1] /\ RetryInv'
  BY <1>1, <1>3 DEF RetryInv
<1>4. ASSUME NEW st, Reroute(s, st), pc[s] \in Retrying
      PROVE  /\ agentOf' \in [Submission -> Agent \cup {NoAgent}]
             /\ attempt' \in [Submission -> 0 .. MaxRetries + 1]
             /\ RetryInv'
  <2>1. PICK a \in Agent \cup {NoAgent} : agentOf' = [agentOf EXCEPT ![s] = a]
    BY <1>1, <1>4, RoutesType DEF Reroute
  <2>2. attempt[s] \in 0 .. MaxRetries + 1 /\ attempt[s] <= MaxRetries
    BY <1>1, <1>4 DEF RetryInv
  <2>3. attempt[s] + 1 \in 0 .. MaxRetries + 1
    BY <1>2, <2>2
  <2>4. attempt' = [attempt EXCEPT ![s] = attempt[s] + 1] /\ pc' = [pc EXCEPT ![s] = "queued"]
    BY <1>4 DEF Reroute
  <2>5. \A t \in Submission : pc'[t] \in Retrying => pc[t] \in Retrying /\ attempt'[t] = attempt[t]
    BY <1>1, <2>4
  <2>6. QED BY <1>1, <2>1, <2>3, <2>4, <2>5 DEF RetryInv
<1>5. PICK p \in PcState : pc' = [pc EXCEPT ![s] = p]
  BY PcStep
<1>6. CASE Submit(s)
  <2>1. pc'[s] \in {"returned", "joining", "cancelled", "submitting"}
    BY <1>1, <1>6 DEF Submit, SubmitCached, Join, Lead
  <2>2. UNCHANGED <<agentOf, status, failures, attempt>>
    BY <1>6 DEF Submit, SubmitCached, Join, Lead
  <2>3. p \notin Retrying
    BY <1>1, <1>5, <2>1
  <2>4. QED BY <1>1, <1>3, <1>5, <2>2, <2>3
<1>7. CASE Route(s)
  <2>1. UNCHANGED <<status, failures>>
    BY <1>7 DEF Route
  <2>2. agentOf' = agentOf \/ \E a \in Agent : agentOf' = [agentOf EXCEPT ![s] = a]
    BY <1>7, RoutesType DEF Route
  <2>3. attempt' = attempt \/ attempt' = [attempt EXCEPT ![s] = 1]
    BY <1>7 DEF Route
  <2>4. attempt' \in [Submission -> 0 .. MaxRetries + 1]
    BY <1>1, <1>2, <2>3
  <2>5. pc'[s] \in {"queued", "persisting"}
    BY <1>1, <1>7 DEF Route
  <2>6. \A t \in Submission : pc'[t] \in Retrying => pc[t] \in Retrying /\ attempt'[t] = attempt[t]
    BY <1>1, <1>5, <2>3, <2>5
  <2>7. QED BY <1>1, <2>1, <2>2, <2>4, <2>6 DEF RetryInv
<1>8. CASE AcquireSlot(s) \/ StartRun(s) \/ Executed(s) \/ Persisted(s) \/ Wake(s) \/ Cancel(s)
  <2>1. UNCHANGED <<agentOf, failures, attempt>>
    BY <1>8 DEF AcquireSlot, StartRun, Executed, Persisted, Wake, Cancel
  <2>2. status' \in [Agent -> {"ready", "busy", "failed"}]
    BY <1>1, <1>8 DEF AcquireSlot, StartRun, Executed, Persisted, Wake, Cancel
  <2>3. pc'[s] \in {"locking", "executing", "reporting", "returned", "cancelled"}
    BY <1>1, <1>8 DEF AcquireSlot, StartRun, Executed, Persisted, Wake, Cancel
  <2>4. p \notin Retrying
    BY <1>1, <1>5, <2>3
  <2>5. QED BY <1>1, <1>3, <1>5, <2>1, <2>2, <2>4
<1>9. CASE Reported(s)
  <2>1. UNCHANGED <<agentOf, failures, attempt, status>>
    BY <1>9 DEF Reported
  <2>2. p \in Retrying => attempt[s] <= MaxRetries
    BY <1>1, <1>5, <1>9 DEF Reported
  <2>3. QED BY <1>1, <1>3, <1>5, <2>1, <2>2
<1>10. CASE Backoff(s)
  <2>1. failures' = [failures EXCEPT ![agentOf[s]] = failures[agentOf[s]] + 1] /\ UNCHANGED status
    BY <1>10 DEF Backoff
  <2>2. failures' \in [Agent -> Nat]
    <3>1. CASE agentOf[s] \in Agent
      BY <1>1, <2>1, <3>1
    <3>2. CASE agentOf[s] \notin Agent
      BY <1>1, <2>1, <3>2
    <3>3. QED BY <3>1, <3>2
  <2>3. pc[s] \in Retrying
    BY <1>10 DEF Backoff
  <2>4. CASE Reroute(s, status)
    BY <1>1, <1>4, <2>1, <2>2, <2>3, <2>4
  <2>5. CASE UNCHANGED <<agentOf, attempt>>
    BY <1>1, <1>3, <1>5, <2>1, <2>2, <2>3, <2>5
  <2>6. QED BY <1>10, <2>4, <2>5 DEF Backoff
<1>11. CASE Healed(s)
  <2>1. UNCHANGED <<agentOf, attempt>> /\ pc[s] \in Retrying
    BY <1>11 DEF Healed
  <2>2. /\ status' \in [Agent -> {"ready", "busy", "failed"}]
        /\ failures' \in [Agent -> Nat]
    BY <1>1, <1>11 DEF Healed
  <2>3. QED BY <1>1, <1>3, <1>5, <2>1, <2>2
<1>12. CASE HealFailed(s) \/ Recovered(s)
  <2>1. pc[s] \in Retrying /\ UNCHANGED failures
    BY <1>12 DEF HealFailed, Recovered
  <2>2. status' \in [Agent -> {"ready", "busy", "failed"}]
    BY <1>1, <1>12 DEF HealFailed, Recovered
  <2>3. Reroute(s, status') \/ Reroute(s, status)
    BY <1>12 DEF HealFailed, Recovered
  <2>4. QED BY <1>1, <1>4, <2>1, <2>2, <2>3
<1>13. QED
  BY <1>6, <1>7, <1>8, <1>9, <1>10, <1>11, <1>12 DEF Progress

\* A step keeps the types, and an attempt for who waits to retry.
LEMMA TypeStep ==
  ASSUME TypeOK, RetryInv, NEW s \in Submission, Submit(s) \/ Progress(s) \/ Cancel(s)
  PROVE  TypeOK' /\ RetryInv'
<1>1. pc' \in [Submission -> PcState]
  BY PcStep DEF TypeOK
<1>2. cancelled' \in SUBSET Submission
  BY DEF TypeOK, Submit, SubmitCached, Join, Lead, Progress, Route, AcquireSlot, StartRun,
     Executed, Reported, Backoff, Healed, HealFailed, Recovered, Persisted, Wake, Cancel
<1>3. QED BY <1>1, <1>2, FlightType, ResultType, AgentType DEF TypeOK

\* A new orchestrator is well typed.
LEMMA InitType == Init => TypeOK /\ RetryInv
<1> SUFFICES ASSUME Init PROVE TypeOK /\ RetryInv
  OBVIOUS
<1>1. cache \in Seq(Submission) /\ Len(cache) <= CacheSize
  BY OrchestratorAssumption, EmptySeq DEF Init
<1>2. pc \in [Submission -> PcState] /\ RetryInv
  BY DEF Init, PcState, RetryInv
<1>3. /\ outcome \in [Submission -> Attempted]
      /\ future \in [Submission -> Future]
  BY DEF Init, Attempted, Future
<1>4. attempt \in [Submission -> 0 .. MaxRetries + 1]
  BY OrchestratorAssumption DEF Init
<1>5. QED BY <1>1, <1>2, <1>3, <1>4 DEF Init, TypeOK

LEMMA TypeNext == TypeOK /\ RetryInv /\ [Next]_vars => TypeOK' /\ RetryInv'
<1> SUFFICES ASSUME TypeOK, RetryInv, [Next]_vars PROVE TypeOK' /\ RetryInv'
  OBVIOUS
<1>1. CASE Next
  BY <1>1, TypeStep DEF Next
<1>2. CASE UNCHANGED vars
  BY <1>2 DEF vars, TypeOK, RetryInv
<1>3. QED BY <1>1, <1>2

\* A submission never makes more than MaxRetries + 1 attempts, and the cache stays
\* within its bound.
THEOREM TypeCorrect == Spec => []TypeOK
<1>1. Spec => [](TypeOK /\ RetryInv)
  BY InitType, TypeNext, PTL DEF Spec
<1>2. QED BY <1>1, PTL

-----------------------------------------------------------------------------
(***************************************************************************)
(* One leader per key: the key of a leader is taken by it from its first   *)
(* step to its last, and the last one settles the future it is joined by.  *)
(***************************************************************************)
\* Steps of a leader between its first and its last.
Running(s) ==
  \/ Route(s) \/ AcquireSlot(s) \/ StartRun(s) \/ Executed(s) \/ Reported(s)
  \/ Backoff(s) \/ Healed(s) \/ HealFailed(s) \/ Recovered(s)

LEMMA RunningStep ==
  ASSUME TypeOK, NEW s \in Submission, Running(s)
  PROVE  /\ pc[s] \in Leading /\ pc'[s] \in Leading
         /\ \A t \in Submission \ {s} : pc'[t] = pc[t]
         /\ UNCHANGED <<leads, inflight, future, answer>>
<1>1. pc \in [Submission -> PcState]
  BY DEF TypeOK
<1>2. UNCHANGED <<leads, inflight, future, answer>>
  BY DEF Running, Route, AcquireSlot, StartRun, Executed, Reported, Backoff, Healed,
     HealFailed, Recovered
<1>3. pc[s] \in {"submitting", "queued", "locking", "executing", "reporting", "backoff",
                 "healing", "recovered"}
  BY DEF Running, Route, AcquireSlot, StartRun, Executed, Reported, Backoff, Healed,
     HealFailed, Recovered
<1>4. \E p \in {"queued", "locking", "executing", "reporting", "backoff", "healing",
                "recovered", "persisting"} : pc' = [pc EXCEPT ![s] = p]
  BY DEF Running, Route, AcquireSlot, StartRun, Executed, Reported, Backoff, Healed,
     HealFailed, Recovered, Reroute
<1>5. QED BY <1>1, <1>2, <1>3, <1>4 DEF Leading

\* A key is taken exactly while its leader runs, whatever step is made.
LEMMA FlightStep ==
  ASSUME TypeOK, FlightInv, NEW s \in Submission, Submit(s) \/ Progress(s) \/ Cancel(s)
  PROVE  FlightInv'
<1> USE DEF FlightInv, LeaderHoldsKey, KeyHasLeader, JoinedALeader, JoinersHaveALeader
<1>1. /\ pc \in [Submission -> PcState]
      /\ leads \in [Submission -> Submission \cup {NoOne}]
      /\ inflight \in [Key -> Submission \cup {NoOne}]
      /\ future \in [Submission -> Future]
  BY DEF TypeOK
<1>2. \A t \in Submission : KeyOf[t] # NoKey => KeyOf[t] \in Key
  BY DEF Key
<1>3. NoOne \notin Submission
  BY OrchestratorAssumption
<1>4. {"new", "joining", "returned", "cancelled"} \cap Leading = {}
      /\ {"submitting", "persisting"} \subseteq Leading
  BY DEF Leading
<1>5. CASE SubmitCached(s)
  <2>1. /\ pc[s] = "new" /\ pc' = [pc EXCEPT ![s] = "returned"]
        /\ \A t \in Submission \ {s} : leads'[t] = leads[t]
        /\ UNCHANGED <<inflight, future>>
    BY <1>1, <1>5 DEF SubmitCached
  <2>2. QED BY <1>1, <1>2, <1>4, <2>1
<1>6. CASE Join(s)
  <2> DEFINE l == inflight[KeyOf[s]]
  <2>1. /\ pc[s] = "new" /\ KeyOf[s] # NoKey /\ l # NoOne
        /\ leads' = [leads EXCEPT ![s] = l]
        /\ pc' = [pc EXCEPT ![s] = IF future[l] = "cancelled" THEN "cancelled" ELSE "joining"]
        /\ UNCHANGED <<inflight, future>>
    BY <1>6 DEF Join
  <2>2. l \in Submission /\ KeyOf[l] = KeyOf[s] /\ pc[l] \in Leading /\ l # s
    BY <1>1, <1>2, <1>4, <2>1
  <2>3. /\ \A t \in Submission \ {s} : pc'[t] = pc[t] /\ leads'[t] = leads[t]
        /\ leads'[s] = l /\ pc'[s] \in {"joining", "cancelled"}
    BY <1>1, <2>1
  <2> HIDE DEF l
  <2>4. LeaderHoldsKey' /\ KeyHasLeader'
    BY <1>1, <1>2, <1>4, <2>1, <2>3
  <2>5. JoinedALeader' /\ JoinersHaveALeader'
    BY <1>1, <2>1, <2>2, <2>3, <1>4
  <2>6. QED BY <2>4, <2>5
<1>7. CASE Lead(s)
  <2>1. /\ pc[s] = "new" /\ pc' = [pc EXCEPT ![s] = "submitting"]
        /\ leads' = [leads EXCEPT ![s] = s]
    BY <1>7 DEF Lead
  <2>2. \A t \in Submission \ {s} : pc'[t] = pc[t] /\ leads'[t] = leads[t]
    BY <1>1, <2>1
  <2>3. pc'[s] = "submitting"
    BY <1>1, <2>1
  <2>4. CASE KeyOf[s] = NoKey
    BY <1>1, <1>2, <1>4, <1>7, <2>1, <2>2, <2>3, <2>4 DEF Lead
  <2>5. CASE KeyOf[s] # NoKey
    <3>1. /\ inflight[KeyOf[s]] = NoOne
          /\ inflight' = [inflight EXCEPT ![KeyOf[s]] = s]
          /\ future' = [future EXCEPT ![s] = "pending"]
      BY <1>7, <2>5 DEF Lead
    <3>2. \A t \in Submission \ {s} : pc[t] \in Leading => KeyOf[t] # KeyOf[s]
      BY <1>3, <2>5, <3>1
    <3>3. LeaderHoldsKey' /\ KeyHasLeader'
      BY <1>1, <1>2, <1>3, <1>4, <2>2, <2>3, <2>5, <3>1, <3>2
    <3>4. JoinedALeader' /\ JoinersHaveALeader'
      BY <1>1, <1>4, <2>1, <2>2, <2>3, <3>1
    <3>5. QED BY <3>3, <3>4
  <2>6. QED BY <2>4, <2>5
<1>8. CASE Running(s)
  BY <1>1, <1>2, <1>4, <1>8, RunningStep
<1>9. ASSUME NEW how \in {"result", "raised"}, Publish(s, how), pc[s] \in Leading,
             NEW p \in {"returned", "cancelled"}, pc' = [pc EXCEPT ![s] = p],
             UNCHANGED leads
      PROVE  FlightInv'
  <2>1. \A t \in Submission \ {s} : pc'[t] = pc[t]
    BY <1>1, <1>9
  <2>2. pc'[s] \in {"returned", "cancelled"}
    BY <1>1, <1>9
  <2>3. CASE KeyOf[s] = NoKey
    <3>1. UNCHANGED <<inflight, future>>
      BY <1>9, <2>3 DEF Publish
    <3>2. NoKey \notin Key
      BY DEF Key
    <3>3. LeaderHoldsKey' /\ KeyHasLeader'
      BY <1>1, <1>2, <1>3, <1>4, <2>1, <2>2, <2>3, <3>1, <3>2
    <3>4. JoinedALeader' /\ JoinersHaveALeader'
      BY <1>1, <1>4, <1>9, <2>1, <2>2, <2>3, <3>1
    <3>5. QED BY <3>3, <3>4
  <2>4. CASE KeyOf[s] # NoKey
    <3>1. /\ inflight' = [inflight EXCEPT ![KeyOf[s]] = NoOne]
          /\ \A t \in Submission \ {s} : future'[t] = future[t]
          /\ future'[s] # "pending"
      BY <1>1, <1>9, <2>4 DEF Publish
    <3>2. \A t \in Submission \ {s} : pc[t] \in Leading => KeyOf[t] # KeyOf[s]
      BY <1>9, <2>4
    <3>3. LeaderHoldsKey' /\ KeyHasLeader'
      BY <1>1, <1>2, <1>3, <1>4, <2>1, <2>2, <2>4, <3>1, <3>2
    <3>4. JoinedALeader' /\ JoinersHaveALeader'
      BY <1>1, <1>4, <1>9, <2>1, <2>2, <3>1
    <3>5. QED BY <3>3, <3>4
  <2>5. QED BY <2>3, <2>4
<1>10. CASE Persisted(s)
  BY <1>9, <1>10, <1>4 DEF Persisted
<1>11. CASE Wake(s)
  <2>1. /\ pc[s] = "joining" /\ pc'[s] \in {"returned", "cancelled"}
        /\ \A t \in Submission \ {s} : pc'[t] = pc[t]
        /\ UNCHANGED <<leads, inflight, future>>
    BY <1>1, <1>11 DEF Wake
  <2>2. QED BY <1>1, <1>2, <1>4, <2>1
<1>12. CASE Cancel(s)
  <2>1. CASE CancelLeader(s)
    BY <1>9, <1>12, <2>1 DEF Cancel, CancelLeader
  <2>2. CASE CancelJoiner(s)
    <3>1. /\ pc[s] = "joining" /\ pc'[s] = "cancelled"
          /\ \A t \in Submission \ {s} : pc'[t] = pc[t]
          /\ UNCHANGED <<leads, inflight>>
      BY <1>1, <1>12, <2>2 DEF Cancel, CancelJoiner
    <3>2. \A t \in Submission : future'[t] = "pending" => future[t] = "pending"
      BY <1>1, <2>2 DEF CancelJoiner
    <3>3. QED BY <1>1, <1>2, <1>4, <3>1, <3>2
  <2>3. QED BY <1>12, <2>1, <2>2 DEF Cancel
<1>13. QED
  BY <1>5, <1>6, <1>7, <1>8, <1>10, <1>11, <1>12 DEF Submit, Progress, Running

\* Nobody leads or joins at first.
LEMMA FlightInit == Init => FlightInv
  BY DEF Init, FlightInv, LeaderHoldsKey, KeyHasLeader, JoinedALeader, JoinersHaveALeader,
     Leading

\* The inductive invariant of the flight.
THEOREM FlightInvariance == Spec => [](TypeOK /\ RetryInv /\ FlightInv)
<1>1. Init => TypeOK /\ RetryInv /\ FlightInv
  BY InitType, FlightInit
<1>2. TypeOK /\ RetryInv /\ FlightInv /\ [Next]_vars => (TypeOK /\ RetryInv /\ FlightInv)'
  <2> SUFFICES ASSUME TypeOK, RetryInv, FlightInv, [Next]_vars
               PROVE  FlightInv'
    BY TypeNext
  <2>1. CASE Next
    BY <2>1, FlightStep DEF Next
  <2>2. CASE UNCHANGED vars
    BY <2>2 DEF vars, FlightInv, LeaderHoldsKey, KeyHasLeader, JoinedALeader,
       JoinersHaveALeader
  <2>3. QED BY <2>1, <2>2
<1>3. QED BY <1>1, <1>2, PTL DEF Spec

\* A key has one leader at a time, for any number of callers, cancellations, errors
\* and evictions.
THEOREM SingleFlightHolds == Spec => []SingleFlight
<1>1. FlightInv => SingleFlight
  BY DEF FlightInv, LeaderHoldsKey, SingleFlight
<1>2. QED BY <1>1, FlightInvariance, PTL

\* Nobody is left waiting for a future that no one will set.
THEOREM JoinersHaveALeaderHolds == Spec => []JoinersHaveALeader
<1>1. FlightInv => JoinersHaveALeader
  BY DEF FlightInv
<1>2. QED BY <1>1, FlightInvariance, PTL

-----------------------------------------------------------------------------
(***************************************************************************)
(* With a key or without, and whatever is evicted, the submissions         *)
(* implement IdempotentService: its kept successes are the cache.          *)
(***************************************************************************)
LEMMA ToSetTail ==
  ASSUME NEW S, NEW q \in Seq(S), q # <<>>
  PROVE  ToSet(Tail(q)) \subseteq ToSet(q)
<1>1. /\ Len(q) \in Nat /\ DOMAIN q = 1 .. Len(q)
      /\ Tail(q) \in Seq(S) /\ Len(Tail(q)) = Len(q) - 1
      /\ \A i \in 1 .. Len(Tail(q)) : Tail(q)[i] = q[i + 1]
  BY HeadTailProperties, LenProperties
<1>2. DOMAIN Tail(q) = 1 .. Len(q) - 1
  BY <1>1, LenProperties
<1>3. \A i \in 1 .. Len(q) - 1 : i + 1 \in 1 .. Len(q)
  BY <1>1
<1>4. QED BY <1>1, <1>2, <1>3 DEF ToSet

\* A success of a key without one is kept at the end, and the oldest may go.
LEMMA KeptRemembers ==
  ASSUME TypeOK, NEW s \in Submission, KeyOf[s] # NoKey, CachedFor(s) = {}
  PROVE  /\ Kept(s, TRUE) = Service!Remember(s)
         /\ ToSet(Kept(s, TRUE)) \subseteq ToSet(cache) \cup {s}
<1>1. cache \in Seq(Submission)
  BY DEF TypeOK
<1>2. Store(s) = Append(cache, s)
  BY DEF Store
<1>3. Kept(s, TRUE) = IF Len(Append(cache, s)) > CacheSize THEN Tail(Append(cache, s))
                                                             ELSE Append(cache, s)
  BY <1>2 DEF Kept
<1>4. /\ Append(cache, s) \in Seq(Submission) /\ Append(cache, s) # <<>>
      /\ ToSet(Append(cache, s)) = ToSet(cache) \cup {s}
  BY <1>1, AppendProperties, ToSetAppend
<1>5. ToSet(Tail(Append(cache, s))) \subseteq ToSet(cache) \cup {s}
  BY <1>4, ToSetTail
<1>6. QED BY <1>3, <1>4, <1>5 DEF Service!Remember

\* What a step does to the cache: nothing, or the success of a leader is kept.
Adds(s) ==
  /\ cache' = Service!Remember(s)
  /\ ToSet(cache') \subseteq ToSet(cache) \cup {s}
  /\ pc[s] = "reporting" /\ pc'[s] = "persisting"
  /\ outcome[s] = "success" /\ KeyOf[s] # NoKey /\ CachedFor(s) = {}
  /\ UNCHANGED outcome

Leaves(s) ==
  /\ cache' = cache
  /\ pc'[s] = "persisting" /\ KeyOf[s] # NoKey => outcome'[s] # "success"

\* Which of the two it is.
LEMMA CacheEffect ==
  ASSUME TypeOK, CacheInv, NEW s \in Submission, Submit(s) \/ Progress(s) \/ Cancel(s)
  PROVE  Adds(s) \/ Leaves(s)
<1>1. pc \in [Submission -> PcState] /\ outcome \in [Submission -> Attempted]
  BY DEF TypeOK
<1>2. CASE Route(s)
  BY <1>1, <1>2 DEF Route, Kept, Leaves
<1>3. CASE Reported(s)
  <2>1. CASE outcome[s] = "success" /\ KeyOf[s] # NoKey
    <3>1. CachedFor(s) = {}
      BY <1>3, <2>1 DEF Reported, CacheInv, Leading
    <3>2. pc'[s] = "persisting" /\ cache' = Kept(s, TRUE)
      BY <1>1, <1>3, <2>1 DEF Reported
    <3>3. cache' = Service!Remember(s) /\ ToSet(cache') \subseteq ToSet(cache) \cup {s}
      BY <2>1, <3>1, <3>2, KeptRemembers
    <3>4. QED BY <1>3, <2>1, <3>1, <3>2, <3>3 DEF Reported, Adds
  <2>2. CASE ~(outcome[s] = "success" /\ KeyOf[s] # NoKey)
    BY <1>1, <1>3, <2>2 DEF Reported, Kept, Leaves
  <2>3. QED BY <2>1, <2>2
<1>4. CASE cache' = cache /\ pc'[s] # "persisting"
  BY <1>4 DEF Leaves
<1>5. ASSUME Submit(s) \/ Cancel(s) \/ Persisted(s) \/ Wake(s) \/ AcquireSlot(s) \/ StartRun(s)
             \/ Executed(s) \/ Backoff(s) \/ Healed(s) \/ HealFailed(s) \/ Recovered(s)
      PROVE  cache' = cache /\ pc'[s] # "persisting"
  <2>1. CASE Submit(s) \/ Cancel(s) \/ Persisted(s) \/ Wake(s)
    BY <1>1, <2>1 DEF Submit, SubmitCached, Join, Lead, Cancel, Persisted, Wake
  <2>2. CASE AcquireSlot(s) \/ StartRun(s) \/ Executed(s) \/ Backoff(s) \/ Healed(s)
             \/ HealFailed(s) \/ Recovered(s)
    BY <1>1, <2>2 DEF AcquireSlot, StartRun, Executed, Backoff, Healed, HealFailed,
       Recovered, Reroute
  <2>3. QED BY <1>5, <2>1, <2>2
<1>6. QED BY <1>2, <1>3, <1>4, <1>5 DEF Progress

\* Whose attempts are over keeps its outcome, and a step is never of one that ended.
LEMMA OverKept ==
  ASSUME TypeOK, NEW s \in Submission, Submit(s) \/ Progress(s) \/ Cancel(s)
  PROVE  /\ pc[s] \notin Ended
         /\ \A t \in Submission \ {s} : pc'[t] = pc[t] /\ outcome'[t] = outcome[t]
         /\ \A t \in Submission : pc[t] \in Over => pc'[t] \in Over /\ outcome'[t] = outcome[t]
<1>1. pc \in [Submission -> PcState] /\ outcome \in [Submission -> Attempted]
  BY DEF TypeOK
<1>2. \A t \in Submission \ {s} : pc'[t] = pc[t]
  BY <1>1, PcStep
<1>3. CASE Submit(s)
  BY <1>1, <1>2, <1>3 DEF Submit, SubmitCached, Join, Lead, Ended, Over
<1>4. CASE Running(s)
  <2>1. \A t \in Submission \ {s} : outcome'[t] = outcome[t]
    BY <1>1, <1>4 DEF Running, Route, AcquireSlot, StartRun, Executed, Reported, Backoff,
       Healed, HealFailed, Recovered
  <2>2. pc[s] \notin Over /\ pc[s] \notin Ended
    BY <1>4 DEF Running, Route, AcquireSlot, StartRun, Executed, Reported, Backoff, Healed,
       HealFailed, Recovered, Over, Ended
  <2>3. QED BY <1>2, <2>1, <2>2
<1>5. CASE Persisted(s) \/ Wake(s)
  BY <1>1, <1>2, <1>5 DEF Persisted, Wake, Ended, Over
<1>6. CASE Cancel(s)
  BY <1>1, <1>2, <1>6 DEF Cancel, CancelLeader, CancelJoiner, Leading, Ended, Over
<1>7. QED BY <1>3, <1>4, <1>5, <1>6 DEF Progress, Running

\* The cache keeps successes only, and none of a key that is being run.
LEMMA CacheStep ==
  ASSUME TypeOK, FlightInv, CacheInv, NEW s \in Submission,
         Submit(s) \/ Progress(s) \/ Cancel(s)
  PROVE  CacheInv'
<1>1. cache \in Seq(Submission) /\ pc \in [Submission -> PcState]
  BY DEF TypeOK
<1>2. ToSet(cache) \subseteq Submission
  BY <1>1, ToSetType
<1>3. CASE Adds(s)
  <2>1. ToSet(cache') \subseteq ToSet(cache) \cup {s}
    BY <1>3 DEF Adds
  <2>2. \A t \in ToSet(cache) \cup {s} :
          KeyOf[t] # NoKey /\ outcome'[t] = "success" /\ pc'[t] \in Over
    BY <1>2, <1>3, OverKept DEF Adds, CacheInv, Over
  <2>3. ASSUME NEW u \in Submission, pc'[u] \in Leading \ {"persisting"}, KeyOf[u] # NoKey
        PROVE  CachedFor(u)' = {}
    <3>1. u # s /\ pc[u] = pc'[u]
      BY <1>3, <2>3, OverKept DEF Adds
    <3>2. KeyOf[u] # KeyOf[s]
      BY <1>3, <2>3, <3>1 DEF Adds, FlightInv, LeaderHoldsKey, Leading
    <3>3. CachedFor(u) = {}
      BY <2>3, <3>1 DEF CacheInv
    <3>4. QED BY <2>1, <3>2, <3>3 DEF CachedFor
  <2>4. QED BY <2>1, <2>2, <2>3 DEF CacheInv
<1>4. CASE Leaves(s)
  <2>1. cache' = cache
    BY <1>4 DEF Leaves
  <2>2. \A t \in ToSet(cache) : KeyOf[t] # NoKey /\ outcome'[t] = "success" /\ pc'[t] \in Over
    BY <1>2, OverKept DEF CacheInv
  <2>3. ASSUME NEW u \in Submission, pc'[u] \in Leading \ {"persisting"}, KeyOf[u] # NoKey
        PROVE  CachedFor(u) = {}
    <3>1. CASE u # s
      BY <2>3, <3>1, OverKept DEF CacheInv
    <3>2. CASE u = s
      <4>1. CASE Lead(s)
        BY <2>3, <3>2, <4>1 DEF Lead
      <4>2. CASE Running(s)
        <5>1. pc[s] \in Leading \ {"persisting"}
          BY <4>2 DEF Running, Route, AcquireSlot, StartRun, Executed, Reported, Backoff,
             Healed, HealFailed, Recovered, Leading
        <5>2. QED BY <2>3, <3>2, <5>1 DEF CacheInv
      <4>3. CASE SubmitCached(s) \/ Join(s) \/ Persisted(s) \/ Wake(s) \/ Cancel(s)
        <5>1. pc'[s] \in {"returned", "cancelled", "joining"}
          BY <1>1, <4>3 DEF SubmitCached, Join, Persisted, Wake, Cancel
        <5>2. QED BY <2>3, <3>2, <5>1 DEF Leading
      <4>4. QED BY <4>1, <4>2, <4>3 DEF Submit, Progress, Running
    <3>3. QED BY <3>1, <3>2
  <2>4. \A u : CachedFor(u)' = CachedFor(u)
    BY <2>1 DEF CachedFor
  <2>5. QED BY <2>1, <2>2, <2>3, <2>4 DEF CacheInv
<1>5. QED BY <1>3, <1>4, CacheEffect

\* A leader leads itself, a joiner another, and who returned has an answer that is over.
LEMMA SourceStep ==
  ASSUME TypeOK, FlightInv, CacheInv, SourceInv, NEW s \in Submission,
         Submit(s) \/ Progress(s) \/ Cancel(s)
  PROVE  SourceInv'
<1>1. /\ pc \in [Submission -> PcState]
      /\ answer \in [Submission -> Submission \cup {NoOne}]
      /\ future \in [Submission -> Future]
      /\ leads \in [Submission -> Submission \cup {NoOne}]
  BY DEF TypeOK
<1>2. /\ pc[s] \notin Ended
      /\ \A t \in Submission \ {s} : pc'[t] = pc[t]
      /\ \A t \in Submission : pc[t] \in Over => pc'[t] \in Over
  BY OverKept
<1>3. \A t \in Submission : future[t] = "result" => t # s
  BY <1>2 DEF SourceInv, Ended
\* What the step has to show of s alone.
<1>4. ASSUME \A t \in Submission \ {s} : leads'[t] = leads[t] /\ answer'[t] = answer[t],
             pc'[s] \in Leading => leads'[s] = s,
             pc'[s] = "joining" => leads'[s] # s,
             pc'[s] = "returned" => answer'[s] \in Submission /\ pc'[answer'[s]] \in Over,
             \A t \in Submission : future'[t] = "result"
                => future[t] = "result" \/ (t = s /\ pc'[s] = "returned" /\ answer'[s] = s)
      PROVE  SourceInv'
  <2>1. \A t \in Submission : pc'[t] \in Leading => leads'[t] = t
    BY <1>2, <1>4 DEF SourceInv
  <2>2. \A t \in Submission : pc'[t] = "joining" => leads'[t] # t
    BY <1>2, <1>4 DEF SourceInv
  <2>3. \A t \in Submission : future'[t] = "result" => pc'[t] = "returned" /\ answer'[t] = t
    BY <1>2, <1>3, <1>4 DEF SourceInv
  <2>4. ASSUME NEW t \in Submission, pc'[t] = "returned"
        PROVE  answer'[t] \in Submission /\ pc'[answer'[t]] \in Over
    <3>1. CASE t = s
      BY <1>4, <2>4, <3>1
    <3>2. CASE t # s
      <4>1. pc[t] = "returned" /\ answer'[t] = answer[t]
        BY <1>2, <1>4, <2>4, <3>2
      <4>2. answer[t] \in Submission /\ pc[answer[t]] \in Over
        BY <4>1 DEF SourceInv
      <4>3. QED BY <1>2, <4>1, <4>2
    <3>3. QED BY <3>1, <3>2
  <2>5. QED BY <2>1, <2>2, <2>3, <2>4 DEF SourceInv
<1>5. CASE SubmitCached(s)
  <2>1. PICK t \in CachedFor(s) :
          /\ answer' = [answer EXCEPT ![s] = t]
          /\ leads' = [leads EXCEPT ![s] = t]
    BY <1>5 DEF SubmitCached
  <2>2. t \in Submission /\ pc[t] \in Over
    BY <2>1, CachedType DEF CachedFor, CacheInv
  <2>3. pc'[t] \in Over
    BY <1>2, <2>2
  <2>4. /\ answer'[s] = t
        /\ \A u \in Submission \ {s} : answer'[u] = answer[u] /\ leads'[u] = leads[u]
    BY <1>1, <2>1
  <2>5. pc'[s] = "returned" /\ UNCHANGED future
    BY <1>1, <1>5 DEF SubmitCached
  <2>6. pc'[s] \notin Leading /\ pc'[s] # "joining"
    BY <2>5 DEF Leading
  <2>7. QED BY <1>4, <2>2, <2>3, <2>4, <2>5, <2>6
<1>6. CASE Join(s)
  <2>1. PICK l : l = inflight[KeyOf[s]]
    OBVIOUS
  <2>2. /\ pc[s] = "new" /\ leads' = [leads EXCEPT ![s] = l]
        /\ UNCHANGED <<answer, future>>
        /\ pc'[s] \in {"joining", "cancelled"}
    BY <1>1, <1>6, <2>1 DEF Join
  <2>3. l # s
    <3>1. KeyOf[s] \in Key
      BY <1>6 DEF Join, Key
    <3>2. pc[l] \in Leading
      BY <1>6, <2>1, <3>1 DEF Join, FlightInv, KeyHasLeader
    <3>3. QED BY <2>2, <3>2 DEF Leading
  <2>4. pc'[s] \notin Leading /\ pc'[s] # "returned"
    BY <2>2 DEF Leading
  <2>5. leads'[s] = l /\ \A u \in Submission \ {s} : leads'[u] = leads[u]
    BY <1>1, <2>2
  <2>6. QED BY <1>4, <2>2, <2>3, <2>4, <2>5
<1>7. CASE Lead(s)
  <2>1. leads' = [leads EXCEPT ![s] = s] /\ pc'[s] = "submitting" /\ UNCHANGED answer
    BY <1>1, <1>7 DEF Lead
  <2>2. \A t \in Submission : future'[t] = "result" => future[t] = "result"
    BY <1>1, <1>7 DEF Lead
  <2>3. leads'[s] = s /\ \A u \in Submission \ {s} : leads'[u] = leads[u]
    BY <1>1, <2>1
  <2>4. QED BY <1>4, <2>1, <2>2, <2>3
<1>8. CASE Running(s)
  <2>1. /\ UNCHANGED <<answer, future, leads>>
        /\ pc[s] \in Leading /\ pc'[s] \in Leading
    BY <1>8, RunningStep
  <2>2. pc'[s] # "returned" /\ pc'[s] # "joining"
    BY <2>1 DEF Leading
  <2>3. leads'[s] = s
    BY <2>1 DEF SourceInv
  <2>4. QED BY <1>4, <2>1, <2>2, <2>3
<1>9. CASE Persisted(s)
  <2>1. /\ pc'[s] = "returned" /\ UNCHANGED leads
        /\ answer'[s] = s /\ \A t \in Submission \ {s} : answer'[t] = answer[t]
    BY <1>1, <1>9 DEF Persisted
  <2>2. \A t \in Submission \ {s} : future'[t] = future[t]
    BY <1>1, <1>9 DEF Persisted, Publish
  <2>3. pc'[s] \notin Leading /\ pc'[s] # "joining" /\ pc'[s] \in Over
    BY <2>1 DEF Leading, Over
  <2>4. QED BY <1>4, <2>1, <2>2, <2>3
<1>10. CASE Wake(s)
  <2>1. pc[s] = "joining" /\ UNCHANGED <<future, leads>>
    BY <1>10 DEF Wake
  <2>2. CASE future[leads[s]] = "result" /\ pc'[s] = "returned"
    <3>0. PICK l : l = leads[s]
      OBVIOUS
    <3>1. l \in Submission
      BY <2>1, <3>0 DEF FlightInv, JoinedALeader
    <3>2. pc[l] = "returned"
      BY <2>2, <3>0, <3>1 DEF SourceInv
    <3>3. pc'[l] \in Over
      BY <1>2, <3>1, <3>2 DEF Over
    <3>4. answer'[s] = l /\ \A t \in Submission \ {s} : answer'[t] = answer[t]
      BY <1>1, <1>10, <2>2, <3>0 DEF Wake
    <3>5. pc'[s] \notin Leading /\ pc'[s] # "joining"
      BY <2>2 DEF Leading
    <3>6. QED BY <1>4, <2>1, <3>1, <3>3, <3>4, <3>5
  <2>3. CASE pc'[s] = "cancelled" /\ UNCHANGED answer
    <3>1. pc'[s] \notin Leading
      BY <2>3 DEF Leading
    <3>2. QED BY <1>4, <2>1, <2>3, <3>1
  <2>4. QED BY <1>1, <1>10, <2>2, <2>3 DEF Wake
<1>11. CASE Cancel(s)
  <2>1. UNCHANGED <<answer, leads>> /\ pc'[s] = "cancelled"
    BY <1>1, <1>11 DEF Cancel
  <2>2. \A t \in Submission : future'[t] = "result" => future[t] = "result"
    BY <1>1, <1>11 DEF Cancel, CancelLeader, CancelJoiner, Publish
  <2>3. pc'[s] \notin Leading
    BY <2>1 DEF Leading
  <2>4. QED BY <1>4, <2>1, <2>2, <2>3
<1>12. QED
  BY <1>5, <1>6, <1>7, <1>8, <1>9, <1>10, <1>11 DEF Submit, Progress, Running

\* Who is not answered yet is asked, and a leader's work is open to others.
LEMMA ToldOpen ==
  ASSUME NEW s \in Submission
  PROVE  /\ pc[s] \in Leading \cup {"joining"} => Told[s] \in Service!Open
         /\ pc[s] \in (Leading \cup {"joining"}) \ {"persisting"} => Told[s] = "asked"
         /\ Told[s] \in Service!Open => pc[s] \notin Ended \cup {"new"}
  BY DEF Told, Leading, Ended, Service!Open

\* Every step is one of the service's, or none.
LEMMA ServiceStep ==
  ASSUME TypeOK, FlightInv, CacheInv, SourceInv,
         NEW s \in Submission, Submit(s) \/ Progress(s) \/ Cancel(s)
  PROVE  [Service!Next]_(Service!vars)
<1>1. /\ pc \in [Submission -> PcState]
      /\ leads \in [Submission -> Submission \cup {NoOne}]
      /\ answer \in [Submission -> Submission \cup {NoOne}]
      /\ inflight \in [Key -> Submission \cup {NoOne}]
      /\ cache \in Seq(Submission)
  BY DEF TypeOK
<1>2. \A t \in Submission \ {s} : answer'[t] = answer[t]
  <2>1. \/ UNCHANGED answer
        \/ \E a : answer' = [answer EXCEPT ![s] = a]
    BY DEF Submit, SubmitCached, Join, Lead, Progress, Route, AcquireSlot, StartRun, Executed,
       Reported, Backoff, Healed, HealFailed, Recovered, Persisted, Wake, Cancel
  <2>2. QED BY <1>1, <2>1
<1>3. ASSUME NEW t \in Submission \ {s} PROVE Told'[t] = Told[t]
  <2>1. pc[t] = "returned" => answer[t] \in Submission /\ pc[answer[t]] \in Over
    BY DEF SourceInv
  <2>2. pc[t] = "returned" => outcome'[answer[t]] = outcome[answer[t]]
    BY <2>1, OverKept
  <2>3. pc'[t] = pc[t] /\ answer'[t] = answer[t] /\ outcome'[t] = outcome[t]
    BY <1>2, OverKept
  <2>4. QED BY <2>2, <2>3 DEF Told
<1>4. ASSUME NEW how, Told'[s] = how PROVE Service!Become(s, how)
  <2>1. Told = [t \in Submission |-> Told[t]]
    BY DEF Told
  <2>2. Told' = [t \in Submission |-> Told'[t]]
    BY DEF Told
  <2>3. Told' = [Told EXCEPT ![s] = how]
    BY <1>3, <1>4, <2>1, <2>2
  <2>4. QED BY <2>3 DEF Service!Become
<1>5. pc[s] = "new" => Told[s] = "new"
  BY DEF Told
<1>6. Service!Standing(s) = CachedFor(s)
  BY DEF Service!Standing, CachedFor, Service!ToSet, ToSet
<1>7. CASE SubmitCached(s)
  <2>1. PICK t \in CachedFor(s) :
          /\ answer' = [answer EXCEPT ![s] = t]
          /\ leads' = [leads EXCEPT ![s] = t]
    BY <1>7 DEF SubmitCached
  <2>2. t \in Submission /\ t \in Service!Standing(s) /\ outcome[t] = "success"
    BY <1>6, <2>1, CachedType DEF CachedFor, CacheInv
  <2>3. pc[s] = "new" /\ pc'[s] = "returned" /\ answer'[s] = t /\ UNCHANGED <<outcome, cache>>
    BY <1>1, <1>7, <2>1 DEF SubmitCached
  <2>4. Told'[s] = "success"
    BY <2>2, <2>3 DEF Told
  <2>5. Service!Follow(s, t) /\ Service!Become(s, "success")
    BY <1>4, <1>5, <2>1, <2>3, <2>4 DEF Service!Follow
  <2>6. QED BY <2>2, <2>5 DEF Service!Recall, Service!Next
<1>8. CASE Join(s)
  <2>1. PICK l : l = inflight[KeyOf[s]]
    OBVIOUS
  <2>2. /\ pc[s] = "new" /\ KeyOf[s] # NoKey /\ CachedFor(s) = {} /\ l # NoOne
        /\ leads' = [leads EXCEPT ![s] = l]
        /\ pc'[s] \in {"joining", "cancelled"}
        /\ UNCHANGED cache
    BY <1>1, <1>8, <2>1 DEF Join
  <2>3. KeyOf[s] \in Key
    BY <2>2 DEF Key
  <2>4. l \in Submission /\ KeyOf[l] = KeyOf[s] /\ pc[l] \in Leading
    BY <1>1, <2>1, <2>2, <2>3 DEF FlightInv, KeyHasLeader
  <2>5. l \in Service!Working(s)
    BY <2>2, <2>4, ToldOpen DEF SourceInv, Service!Working
  <2>6. Service!Standing(s) = {}
    BY <1>6, <2>2
  <2>7. Told'[s] \in {"asked", "cancelled"}
    BY <2>2 DEF Told
  <2>8. Service!Become(s, "asked") \/ Service!Become(s, "cancelled")
    BY <1>4, <2>7
  <2>9. Service!Follow(s, l)
    BY <1>5, <2>2 DEF Service!Follow
  <2>10. QED BY <2>5, <2>6, <2>8, <2>9 DEF Service!Share, Service!Next
<1>9. CASE Lead(s)
  <2>1. /\ pc[s] = "new" /\ pc'[s] = "submitting"
        /\ leads' = [leads EXCEPT ![s] = s] /\ UNCHANGED cache
        /\ KeyOf[s] # NoKey => CachedFor(s) = {} /\ inflight[KeyOf[s]] = NoOne
    BY <1>1, <1>9 DEF Lead
  <2>2. Service!Standing(s) = {}
    BY <1>6, <2>1 DEF CacheInv, CachedFor
  <2>3. Service!Working(s) = {}
    <3>1. SUFFICES ASSUME NEW t \in Submission, KeyOf[t] = KeyOf[s], KeyOf[s] # NoKey,
                          leads[t] = t, Told[t] \in Service!Open
                   PROVE  FALSE
      BY DEF Service!Working
    <3>2. pc[t] \notin Ended \cup {"new"}
      BY <3>1, ToldOpen
    <3>3. pc[t] # "joining"
      BY <3>1 DEF SourceInv
    <3>4. pc[t] \in Leading
      BY <1>1, <3>2, <3>3 DEF PcState
    <3>5. inflight[KeyOf[s]] = t
      BY <3>1, <3>4 DEF FlightInv, LeaderHoldsKey
    <3>6. QED BY <2>1, <3>1, <3>5, OrchestratorAssumption
  <2>4. Told'[s] = "asked"
    BY <2>1 DEF Told
  <2>5. Service!Follow(s, s) /\ Service!Become(s, "asked")
    BY <1>4, <1>5, <2>1, <2>4 DEF Service!Follow
  <2>6. QED BY <2>2, <2>3, <2>5 DEF Service!Begin, Service!Next
<1>10. CASE Running(s)
  <2>1. pc[s] \in Leading \ {"persisting"} /\ pc'[s] \in Leading
    <3>1. pc[s] # "persisting"
      BY <1>10 DEF Running, Route, AcquireSlot, StartRun, Executed, Reported, Backoff, Healed,
         HealFailed, Recovered
    <3>2. QED BY <1>10, <3>1, RunningStep
  <2>2. Told[s] = "asked" /\ leads[s] = s /\ UNCHANGED leads
    BY <1>10, <2>1, RunningStep, ToldOpen DEF SourceInv
  <2>3. CASE Adds(s)
    <3>1. Told'[s] = "won" /\ KeyOf[s] # NoKey /\ cache' = Service!Remember(s)
      BY <2>3 DEF Adds, Told
    <3>2. Service!Become(s, "won")
      BY <1>4, <3>1
    <3>3. QED BY <2>2, <3>1, <3>2 DEF Service!Finish, Service!Next
  <2>4. CASE Leaves(s) /\ pc'[s] = "persisting"
    <3>1. CASE outcome'[s] = "success"
      <4>1. Told'[s] = "won" /\ KeyOf[s] = NoKey /\ cache' = cache
        BY <2>4, <3>1 DEF Leaves, Told
      <4>2. Service!Become(s, "won")
        BY <1>4, <4>1
      <4>3. QED BY <2>2, <4>1, <4>2 DEF Service!Finish, Service!Next
    <3>2. CASE outcome'[s] # "success"
      <4>1. Told'[s] = "lost" /\ cache' = cache
        BY <2>4, <3>2 DEF Leaves, Told
      <4>2. Service!Become(s, "lost")
        BY <1>4, <4>1
      <4>3. QED BY <2>2, <4>1, <4>2 DEF Service!Finish, Service!Next
    <3>3. QED BY <3>1, <3>2
  <2>5. CASE Leaves(s) /\ pc'[s] # "persisting"
    <3>1. Told'[s] = Told[s]
      BY <2>1, <2>2, <2>5 DEF Told, Leading
    <3>2. Told' = Told
      BY <1>3, <3>1 DEF Told
    <3>3. QED BY <2>2, <2>5, <3>2 DEF Leaves, Service!vars
  <2>6. QED BY <2>3, <2>4, <2>5, CacheEffect
<1>11. CASE Persisted(s)
  <2>1. /\ pc[s] = "persisting" /\ pc'[s] = "returned" /\ answer'[s] = s
        /\ UNCHANGED <<leads, cache, outcome>>
    BY <1>1, <1>11 DEF Persisted
  <2>2. \/ Told[s] = "won" /\ Told'[s] = "success"
        \/ Told[s] = "lost" /\ Told'[s] = "failure"
    BY <2>1 DEF Told
  <2>3. QED BY <1>4, <2>1, <2>2 DEF Service!Tell, Service!Next
<1>12. CASE Wake(s)
  <2>1. pc[s] = "joining" /\ UNCHANGED <<leads, cache, outcome>>
    BY <1>12 DEF Wake
  <2>2. Told[s] = "asked" /\ Told[s] \in Service!Open
    BY <2>1, ToldOpen
  <2>3. CASE pc'[s] = "cancelled"
    <3>1. Told'[s] = "cancelled"
      BY <2>3 DEF Told
    <3>2. QED BY <1>4, <2>1, <2>2, <3>1 DEF Service!Cancel, Service!Next
  <2>4. CASE future[leads[s]] = "result" /\ pc'[s] = "returned"
    <3>0. PICK l : l = leads[s]
      OBVIOUS
    <3>1. l \in Submission /\ answer'[s] = l
      BY <1>1, <1>12, <2>1, <2>4, <3>0 DEF Wake, FlightInv, JoinedALeader
    <3>2. pc[l] = "returned" /\ answer[l] = l
      BY <2>4, <3>0, <3>1 DEF SourceInv
    <3>3. Told'[s] = Told[l] /\ Told[l] \in {"success", "failure"}
      BY <2>1, <2>4, <3>1, <3>2 DEF Told
    <3>4. QED BY <1>4, <2>1, <2>2, <3>0, <3>3 DEF Service!Tell, Service!Next
  <2>5. QED BY <1>1, <1>12, <2>3, <2>4 DEF Wake
<1>13. CASE Cancel(s)
  <2>1. pc'[s] = "cancelled" /\ UNCHANGED <<leads, cache>> /\ pc[s] \in Leading \cup {"joining"}
    BY <1>1, <1>13 DEF Cancel, CancelLeader, CancelJoiner
  <2>2. Told[s] \in Service!Open
    BY <2>1, ToldOpen
  <2>3. Told'[s] = "cancelled"
    BY <2>1 DEF Told
  <2>4. QED BY <1>4, <2>1, <2>2, <2>3 DEF Service!Cancel, Service!Next
<1>14. QED
  BY <1>7, <1>8, <1>9, <1>10, <1>11, <1>12, <1>13 DEF Submit, Progress, Running

\* Submitting with a key is idempotent: the submissions, as their callers see them,
\* implement IdempotentService, whatever is retried, cancelled or evicted.
THEOREM IdempotencyKept == Spec => KeepsIdempotency
<1> DEFINE AllInv == TypeOK /\ RetryInv /\ FlightInv /\ CacheInv /\ SourceInv
<1>1. Init => AllInv /\ Service!Init
  <2> SUFFICES ASSUME Init PROVE CacheInv /\ SourceInv /\ Service!Init
    BY InitType, FlightInit
  <2>1. cache = <<>> /\ ToSet(cache) = {}
    BY DEF Init, ToSet
  <2>2. CacheInv
    BY <2>1 DEF Init, CacheInv, CachedFor
  <2>3. SourceInv
    BY DEF Init, SourceInv, Leading
  <2>4. Service!Init
    BY <2>1 DEF Init, Service!Init, Told
  <2>5. QED BY <2>2, <2>3, <2>4
<1>2. AllInv /\ [Next]_vars => AllInv' /\ [Service!Next]_(Service!vars)
  <2> SUFFICES ASSUME AllInv, [Next]_vars
               PROVE  FlightInv' /\ CacheInv' /\ SourceInv' /\ [Service!Next]_(Service!vars)
    BY TypeNext
  <2>1. CASE Next
    BY <2>1, FlightStep, CacheStep, SourceStep, ServiceStep DEF Next
  <2>2. CASE UNCHANGED vars
    <3>1. FlightInv'
      BY <2>2 DEF vars, FlightInv, LeaderHoldsKey, KeyHasLeader, JoinedALeader,
         JoinersHaveALeader
    <3>2. CacheInv'
      BY <2>2 DEF vars, CacheInv, CachedFor
    <3>3. SourceInv'
      BY <2>2 DEF vars, SourceInv
    <3>4. UNCHANGED Service!vars
      BY <2>2 DEF vars, Service!vars, Told
    <3>5. QED BY <3>1, <3>2, <3>3, <3>4
  <2>3. QED BY <2>1, <2>2
<1>3. QED BY <1>1, <1>2, PTL DEF Spec, KeepsIdempotency, Service!Spec
=============================================================================

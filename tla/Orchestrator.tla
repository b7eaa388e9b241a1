---------------------------- MODULE Orchestrator ----------------------------
(***************************************************************************)
(* Orchestrator, BaseAgent.run and SelfHealingManager of skyn3t/core: each *)
(* submission is a coroutine that is answered from the idempotency cache,  *)
(* joins an equal one in flight, or leads: it is routed to an agent, runs  *)
(* there under a slot of the semaphore and the agent's run lock, is        *)
(* retried after transient errors, and its result is kept and persisted.   *)
(* The pc of a submission names the await it stands at. An emit stands     *)
(* with the await that follows it when nothing changes between them.       *)
(***************************************************************************)
EXTENDS Integers, FiniteSets, SequencesExt

CONSTANTS
  Submission,      \* the calls of submit()
  NoOne,           \* no submission
  KeyOf,           \* KeyOf[s]: its idempotency key, NoKey when it has none
  NoKey,
  Agent,
  NoAgent,         \* not routed yet
  Capable,         \* Capable[s]: agents with the capabilities it requires
  Typed,           \* Typed[s]: agents whose type is that of the task
  MaxConcurrency,  \* slots of the semaphore
  MaxRetries,      \* the task's max_retries
  CacheSize,       \* _idempotency_max
  Threshold,       \* failures before an agent is initialised again
  MaxCancels       \* bound: submissions that are cancelled

ASSUME OrchestratorAssumption ==
  /\ NoOne \notin Submission
  /\ NoAgent \notin Agent
  /\ Capable \in [Submission -> SUBSET Agent]
  /\ Typed \in [Submission -> SUBSET Agent]
  /\ MaxConcurrency \in Nat \ {0}
  /\ MaxRetries \in Nat
  /\ CacheSize \in Nat \ {0}
  /\ Threshold \in Nat \ {0}
  /\ MaxCancels \in Nat

VARIABLES
  pc,         \* where a submission stands
  leads,      \* leads[s]: the submission whose result s waits for
  agentOf,    \* agentOf[s]: the agent it was routed to
  attempt,
  outcome,    \* outcome[s]: how its last attempt ended
  answer,     \* answer[s]: the submission whose result was returned to it
  cache,      \* _idempotency: whose results are kept, the oldest first
  inflight,   \* inflight[k]: the leader of key k
  future,     \* future[s]: what leader s publishes to those that join it
  status,     \* status[a] of an agent
  failures,   \* failures[a]: errors counted by the SelfHealingManager
  cancelled   \* history: submissions that were cancelled by their caller

vars == <<pc, leads, agentOf, attempt, outcome, answer, cache, inflight, future,
          status, failures, cancelled>>

Key == {KeyOf[s] : s \in Submission} \ {NoKey}

Leading == {"submitting", "queued", "locking", "executing", "reporting", "backoff",
            "healing", "recovered", "persisting"}
Ended == {"returned", "cancelled"}
PcState == Leading \cup Ended \cup {"new", "joining"}

Attempted == {"none", "success", "transient", "permanent"}
Future == {"none", "pending", "result", "raised", "cancelled"}

\* Mutant: a slot taken by a submission that is cancelled is not given back.
Holding_Leaked ==
  {s \in Submission : \/ pc[s] \in {"locking", "executing", "reporting"}
                      \/ s \in cancelled /\ attempt[s] > 0}

Holding == {s \in Submission : pc[s] \in {"locking", "executing", "reporting"}}
RunningOn(a) == {s \in Submission : pc[s] \in {"executing", "reporting"} /\ agentOf[s] = a}

CachedFor(s) == {t \in ToSet(cache) : KeyOf[t] = KeyOf[s]}

-----------------------------------------------------------------------------
Init ==
  /\ pc = [s \in Submission |-> "new"]
  /\ leads = [s \in Submission |-> NoOne]
  /\ agentOf = [s \in Submission |-> NoAgent]
  /\ attempt = [s \in Submission |-> 0]
  /\ outcome = [s \in Submission |-> "none"]
  /\ answer = [s \in Submission |-> NoOne]
  /\ cache = <<>>
  /\ inflight = [k \in Key |-> NoOne]
  /\ future = [s \in Submission |-> "none"]
  /\ status = [a \in Agent |-> "ready"]
  /\ failures = [a \in Agent |-> 0]
  /\ cancelled = {}

(***************************************************************************)
(* submit(): from the cache, by joining, or by leading.                    *)
(***************************************************************************)
SubmitCached(s) ==
  /\ pc[s] = "new"
  /\ KeyOf[s] # NoKey
  /\ \E t \in CachedFor(s) :
       /\ answer' = [answer EXCEPT ![s] = t]
       /\ leads' = [leads EXCEPT ![s] = t]
  /\ pc' = [pc EXCEPT ![s] = "returned"]
  /\ UNCHANGED <<agentOf, attempt, outcome, cache, inflight, future, status, failures,
                 cancelled>>

\* Awaiting a future that was cancelled raises at once.
Join(s) ==
  /\ pc[s] = "new"
  /\ KeyOf[s] # NoKey
  /\ CachedFor(s) = {}
  /\ inflight[KeyOf[s]] # NoOne
  /\ leads' = [leads EXCEPT ![s] = inflight[KeyOf[s]]]
  /\ pc' = [pc EXCEPT ![s] = IF future[inflight[KeyOf[s]]] = "cancelled" THEN "cancelled"
                                                                         ELSE "joining"]
  /\ UNCHANGED <<agentOf, attempt, outcome, answer, cache, inflight, future, status,
                 failures, cancelled>>

\* Mutant: what is in flight is not looked at.
Lead_Always(s) ==
  /\ pc[s] = "new"
  /\ KeyOf[s] # NoKey => CachedFor(s) = {}
  /\ leads' = [leads EXCEPT ![s] = s]
  /\ pc' = [pc EXCEPT ![s] = "submitting"]
  /\ IF KeyOf[s] = NoKey
       THEN UNCHANGED <<inflight, future>>
       ELSE /\ inflight' = [inflight EXCEPT ![KeyOf[s]] = s]
            /\ future' = [future EXCEPT ![s] = "pending"]
  /\ UNCHANGED <<agentOf, attempt, outcome, answer, cache, status, failures, cancelled>>

Lead(s) ==
  /\ pc[s] = "new"
  /\ KeyOf[s] # NoKey => CachedFor(s) = {} /\ inflight[KeyOf[s]] = NoOne
  /\ leads' = [leads EXCEPT ![s] = s]
  /\ pc' = [pc EXCEPT ![s] = "submitting"]
  /\ IF KeyOf[s] = NoKey
       THEN UNCHANGED <<inflight, future>>
       ELSE /\ inflight' = [inflight EXCEPT ![KeyOf[s]] = s]
            /\ future' = [future EXCEPT ![s] = "pending"]
  /\ UNCHANGED <<agentOf, attempt, outcome, answer, cache, status, failures, cancelled>>

-----------------------------------------------------------------------------
(***************************************************************************)
(* _route: capable agents that are up, those of the task's type before the *)
(* others, and ready ones before busy ones. The code takes the first in    *)
(* the order of registration; here any of them.                            *)
(***************************************************************************)
Routes(s, st) ==
  LET up    == {a \in Capable[s] : st[a] \in {"ready", "busy"}}
      pool  == IF up \cap Typed[s] # {} THEN up \cap Typed[s] ELSE up
      ready == {a \in pool : st[a] = "ready"}
  IN IF ready # {} THEN ready ELSE pool

\* _finalize: a success is kept under its key, and the oldest is evicted.
Store(s) ==
  IF CachedFor(s) # {}
    THEN [i \in DOMAIN cache |-> IF KeyOf[cache[i]] = KeyOf[s] THEN s ELSE cache[i]]
    ELSE Append(cache, s)

\* Mutant: nothing is evicted.
Kept_Unbounded(s, ok) == IF ok /\ KeyOf[s] # NoKey THEN Store(s) ELSE cache

\* Mutant: a failure is kept under its key.
Kept_Failure(s, ok) ==
  IF KeyOf[s] = NoKey THEN cache
  ELSE IF Len(Store(s)) > CacheSize THEN Tail(Store(s)) ELSE Store(s)

Kept(s, ok) ==
  IF ~ok \/ KeyOf[s] = NoKey THEN cache
  ELSE IF Len(Store(s)) > CacheSize THEN Tail(Store(s)) ELSE Store(s)

\* _do_submit after TASK_SUBMITTED: route, or end with "no agent".
Route(s) ==
  /\ pc[s] = "submitting"
  /\ \/ /\ \E a \in Routes(s, status) : agentOf' = [agentOf EXCEPT ![s] = a]
        /\ attempt' = [attempt EXCEPT ![s] = 1]
        /\ pc' = [pc EXCEPT ![s] = "queued"]
        /\ UNCHANGED <<outcome, cache>>
     \/ /\ Routes(s, status) = {}
        /\ outcome' = [outcome EXCEPT ![s] = "permanent"]
        /\ cache' = Kept(s, FALSE)
        /\ pc' = [pc EXCEPT ![s] = "persisting"]
        /\ UNCHANGED <<agentOf, attempt>>
  /\ UNCHANGED <<leads, answer, inflight, future, status, failures, cancelled>>

AcquireSlot(s) ==
  /\ pc[s] = "queued"
  /\ Cardinality(Holding) < MaxConcurrency
  /\ pc' = [pc EXCEPT ![s] = "locking"]
  /\ UNCHANGED <<leads, agentOf, attempt, outcome, answer, cache, inflight, future, status,
                 failures, cancelled>>

\* BaseAgent.run: one task per agent.
StartRun(s) ==
  /\ pc[s] = "locking"
  /\ RunningOn(agentOf[s]) = {}
  /\ pc' = [pc EXCEPT ![s] = "executing"]
  /\ status' = [status EXCEPT ![agentOf[s]] = "busy"]
  /\ UNCHANGED <<leads, agentOf, attempt, outcome, answer, cache, inflight, future,
                 failures, cancelled>>

\* execute() returned or raised: a success, an error worth a retry, or another.
Executed(s) ==
  /\ pc[s] = "executing"
  /\ \E o \in {"success", "transient", "permanent"} :
       outcome' = [outcome EXCEPT ![s] = o]
  /\ pc' = [pc EXCEPT ![s] = "reporting"]
  /\ status' = [status EXCEPT ![agentOf[s]] = "ready"]
  /\ UNCHANGED <<leads, agentOf, attempt, answer, cache, inflight, future, failures,
                 cancelled>>

\* The lock and the slot are released: retry after a backoff, or finalize.
Reported(s) ==
  /\ pc[s] = "reporting"
  /\ IF outcome[s] = "transient" /\ attempt[s] <= MaxRetries
       THEN pc' = [pc EXCEPT ![s] = "backoff"] /\ UNCHANGED cache
       ELSE pc' = [pc EXCEPT ![s] = "persisting"] /\ cache' = Kept(s, outcome[s] = "success")
  /\ UNCHANGED <<leads, agentOf, attempt, outcome, answer, inflight, future, status,
                 failures, cancelled>>

\* The next attempt: on another agent if routing finds one, else on the same.
Reroute(s, st) ==
  /\ \E a \in IF Routes(s, st) # {} THEN Routes(s, st) ELSE {agentOf[s]} :
       agentOf' = [agentOf EXCEPT ![s] = a]
  /\ attempt' = [attempt EXCEPT ![s] = @ + 1]
  /\ pc' = [pc EXCEPT ![s] = "queued"]

(***************************************************************************)
(* on_agent_error: count, and from the threshold on initialise the agent   *)
(* again, whoever runs on it.                                              *)
(***************************************************************************)
Backoff(s) ==
  /\ pc[s] = "backoff"
  /\ failures' = [failures EXCEPT ![agentOf[s]] = @ + 1]
  /\ IF failures[agentOf[s]] + 1 < Threshold
       THEN Reroute(s, status)
       ELSE pc' = [pc EXCEPT ![s] = "healing"] /\ UNCHANGED <<agentOf, attempt>>
  /\ UNCHANGED <<leads, outcome, answer, cache, inflight, future, status, cancelled>>

Healed(s) ==
  /\ pc[s] = "healing"
  /\ status' = [status EXCEPT ![agentOf[s]] = "ready"]
  /\ failures' = [failures EXCEPT ![agentOf[s]] = 0]
  /\ pc' = [pc EXCEPT ![s] = "recovered"]
  /\ UNCHANGED <<leads, agentOf, attempt, outcome, answer, cache, inflight, future,
                 cancelled>>

HealFailed(s) ==
  /\ pc[s] = "healing"
  /\ status' = [status EXCEPT ![agentOf[s]] = "failed"]
  /\ Reroute(s, status')
  /\ UNCHANGED <<leads, outcome, answer, cache, inflight, future, failures, cancelled>>

Recovered(s) ==
  /\ pc[s] = "recovered"
  /\ Reroute(s, status)
  /\ UNCHANGED <<leads, outcome, answer, cache, inflight, future, status, failures,
                 cancelled>>

-----------------------------------------------------------------------------
\* The end of a leader: its future is set unless it is done, and the key is free.
Publish(s, how) ==
  IF KeyOf[s] = NoKey
    THEN UNCHANGED <<inflight, future>>
    ELSE /\ future' = [future EXCEPT ![s] = IF @ = "pending" THEN how ELSE @]
         /\ inflight' = [inflight EXCEPT ![KeyOf[s]] = NoOne]

Persisted(s) ==
  /\ pc[s] = "persisting"
  /\ pc' = [pc EXCEPT ![s] = "returned"]
  /\ answer' = [answer EXCEPT ![s] = s]
  /\ Publish(s, "result")
  /\ UNCHANGED <<leads, agentOf, attempt, outcome, cache, status, failures, cancelled>>

\* A joiner wakes up with the leader's result, or with a CancelledError.
Wake(s) ==
  /\ pc[s] = "joining"
  /\ \/ /\ future[leads[s]] = "result"
        /\ pc' = [pc EXCEPT ![s] = "returned"]
        /\ answer' = [answer EXCEPT ![s] = leads[s]]
     \/ /\ future[leads[s]] \in {"raised", "cancelled"}
        /\ pc' = [pc EXCEPT ![s] = "cancelled"]
        /\ UNCHANGED answer
  /\ UNCHANGED <<leads, agentOf, attempt, outcome, cache, inflight, future, status,
                 failures, cancelled>>

\* The caller cancels the submission (a stage timeout, a cancelled build): a
\* leader unwinds where it stands, leaving the agent's status as it is,
CancelLeader(s) ==
  /\ pc[s] \in Leading
  /\ Publish(s, "raised")

\* and a joiner takes the future it awaits with it.
CancelJoiner(s) ==
  /\ pc[s] = "joining"
  /\ future' = [future EXCEPT ![leads[s]] = IF @ = "pending" THEN "cancelled" ELSE @]
  /\ UNCHANGED inflight

Cancel(s) ==
  /\ Cardinality(cancelled) < MaxCancels
  /\ CancelLeader(s) \/ CancelJoiner(s)
  /\ pc' = [pc EXCEPT ![s] = "cancelled"]
  /\ cancelled' = cancelled \cup {s}
  /\ UNCHANGED <<leads, agentOf, attempt, outcome, answer, cache, status, failures>>

-----------------------------------------------------------------------------
Submit(s) == SubmitCached(s) \/ Join(s) \/ Lead(s)

Progress(s) ==
  \/ Route(s) \/ AcquireSlot(s) \/ StartRun(s) \/ Executed(s) \/ Reported(s)
  \/ Backoff(s) \/ Healed(s) \/ HealFailed(s) \/ Recovered(s) \/ Persisted(s) \/ Wake(s)

Next == \E s \in Submission : Submit(s) \/ Progress(s) \/ Cancel(s)

Spec == Init /\ [][Next]_vars

\* Awaits end: agents return, backoffs elapse, locks and slots are granted.
FairSpec == Spec /\ \A s \in Submission : WF_vars(Progress(s))

-----------------------------------------------------------------------------
TypeOK ==
  /\ pc \in [Submission -> PcState]
  /\ leads \in [Submission -> Submission \cup {NoOne}]
  /\ agentOf \in [Submission -> Agent \cup {NoAgent}]
  /\ attempt \in [Submission -> 0 .. MaxRetries + 1]
  /\ outcome \in [Submission -> Attempted]
  /\ answer \in [Submission -> Submission \cup {NoOne}]
  /\ cache \in Seq(Submission) /\ Len(cache) <= CacheSize
  /\ inflight \in [Key -> Submission \cup {NoOne}]
  /\ future \in [Submission -> Future]
  /\ status \in [Agent -> {"ready", "busy", "failed"}]
  /\ failures \in [Agent -> Nat]
  /\ cancelled \in SUBSET Submission

\* "Identical key already running -> join it instead of executing twice": a key
\* has one leader at a time, whatever is cancelled, fails or is evicted meanwhile.
SingleFlight ==
  \A s, t \in Submission :
    pc[s] \in Leading /\ pc[t] \in Leading /\ KeyOf[s] = KeyOf[t] /\ KeyOf[s] # NoKey
      => s = t

\* A key is free for a new leader only when its last one has told its joiners:
\* nobody waits for a future that no one will set.
JoinersHaveALeader ==
  \A s \in Submission :
    pc[s] = "joining" => future[leads[s]] # "pending" \/ pc[leads[s]] \in Leading

\* Every submission returns or raises: none is new twice, nor leaves an end, so that
\* nobody stays under way when again and again nobody is.
Settles == []<>(\A s \in Submission : pc[s] \in Ended \cup {"new"})

\* Submitting with a key is idempotent (submit, _finalize): as their callers see them,
\* and whatever is evicted, the submissions implement IdempotentService.
Told == [s \in Submission |->
  CASE pc[s] \in {"new", "cancelled"} -> pc[s]
    [] pc[s] = "persisting" -> IF outcome[s] = "success" THEN "won" ELSE "lost"
    [] pc[s] = "returned" -> IF outcome[answer[s]] = "success" THEN "success" ELSE "failure"
    [] OTHER -> "asked"]

Service == INSTANCE IdempotentService WITH
  Capacity <- CacheSize, source <- leads, state <- Told, kept <- cache

KeepsIdempotency == Service!Spec

-----------------------------------------------------------------------------
(***************************************************************************)
(* The inductive invariants. A key is taken exactly while its leader runs. *)
(***************************************************************************)
LeaderHoldsKey ==
  \A s \in Submission : pc[s] \in Leading /\ KeyOf[s] # NoKey => inflight[KeyOf[s]] = s

KeyHasLeader ==
  \A k \in Key : inflight[k] # NoOne => KeyOf[inflight[k]] = k /\ pc[inflight[k]] \in Leading

JoinedALeader ==
  \A s \in Submission :
    pc[s] = "joining" =>
      /\ leads[s] \in Submission
      /\ KeyOf[leads[s]] = KeyOf[s] /\ KeyOf[s] # NoKey

\* An attempt is left for who waits to retry.
RetryInv ==
  \A s \in Submission : pc[s] \in {"backoff", "healing", "recovered"} => attempt[s] <= MaxRetries

FlightInv == LeaderHoldsKey /\ KeyHasLeader /\ JoinedALeader /\ JoinersHaveALeader

\* What is kept are successes, and none of a key that is being run.
Over == {"persisting", "returned", "cancelled"}

CacheInv ==
  /\ \A t \in ToSet(cache) : KeyOf[t] # NoKey /\ outcome[t] = "success" /\ pc[t] \in Over
  /\ \A s \in Submission :
       pc[s] \in Leading \ {"persisting"} /\ KeyOf[s] # NoKey => CachedFor(s) = {}

\* A leader leads itself, and an answer is that of a submission that is over.
SourceInv ==
  /\ \A s \in Submission : pc[s] \in Leading => leads[s] = s
  /\ \A s \in Submission : pc[s] = "joining" => leads[s] # s
  /\ \A s \in Submission : future[s] = "result" => pc[s] = "returned" /\ answer[s] = s
  /\ \A s \in Submission :
       pc[s] = "returned" => answer[s] \in Submission /\ pc[answer[s]] \in Over

-----------------------------------------------------------------------------
\* "Propagate to joiners": a joiner shares the fate of its leader, so it is only
\* cancelled by its own caller or with the leader.
JoinersUndisturbed ==
  \A s \in Submission :
    pc[s] = "cancelled" => s \in cancelled \/ leads[s] \in cancelled
=============================================================================

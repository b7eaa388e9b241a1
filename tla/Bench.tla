-------------------------------- MODULE Bench --------------------------------
(***************************************************************************)
(* Golden benchmarks (studio/golden_bench.py) and the evaluations that     *)
(* speak of them (cortex/evaluation.py).  A run builds every case a number *)
(* of times and checkpoints its whole ledger before and after each build;  *)
(* several runs may be given one file, and are cancelled or killed.  An    *)
(* evaluation hashes two ledgers, then loads and compares them, and keeps  *)
(* a record that is never replaced.  What the checks of a case look at is  *)
(* in the result of its attempt; seeds and timestamps are left out.        *)
(***************************************************************************)
EXTENDS Naturals, Sequences, FiniteSets

CONSTANTS
    Runs, Evaluator,
    Out,            \* Out[r]: the file a run writes its ledger to
    Inputs,         \* Inputs[r]: what a fingerprint is made of, suite and seed included
    Cases, Repeats, \* how many
    MinPassed,      \* the attempts of a case that must pass
    MaxDrop,        \* how many attempts fewer than the baseline may pass
    MaxFaults       \* bound on writes that fail

File == {"baseline", "candidate"}
Total == Cases * Repeats
CaseOf(i) == (i - 1) \div Repeats + 1

VARIABLES
    disk,       \* disk[f]: the ledger in a file
    at,         \* at[r]: "idle", "building", "raised", "dead", or "returned", which
                \* it is as well when only its report cannot be written
    attempts,   \* attempts[r]: the results of its builds in order
    stage,      \* stage[e]: the step an evaluation is at
    hashed,     \* hashed[e]: the ledgers it has hashed, by label
    loaded,     \* loaded[e]: the ledgers it has compared, or is about to
    records,    \* the records of evaluations on disk
    faults

bench == <<disk, at, attempts>>
evaluation == <<stage, hashed, loaded, records>>
vars == <<disk, at, attempts, stage, hashed, loaded, records, faults>>

None == [status |-> "none", run |-> "none", attempts |-> <<>>]
Ledger(r, s, status) == [status |-> status, run |-> r, attempts |-> s]

Init ==
    /\ disk = [f \in File |-> None]
    /\ at = [r \in Runs |-> "idle"] /\ attempts = [r \in Runs |-> <<>>]
    /\ stage = [e \in Evaluator |-> "hash"]
    /\ hashed = [e \in Evaluator |-> [f \in {} |-> None]] /\ loaded = hashed
    /\ records = {} /\ faults = 0

-----------------------------------------------------------------------------
(* A run.                                                                  *)

Save(r, s, status) == disk' = [disk EXCEPT ![Out[r]] = Ledger(r, s, status)]
\* What the checks of an attempt may come to.
Result == {"passed", "failed"}

Enter(r, state) == at' = [at EXCEPT ![r] = state]
Fault == faults < MaxFaults /\ faults' = faults + 1

Begin(r) ==
    /\ at[r] = "idle"
    /\ \/ Save(r, <<>>, "partial") /\ Enter(r, "building") /\ UNCHANGED faults
       \/ Fault /\ Enter(r, "raised") /\ (Save(r, <<>>, "partial") \/ UNCHANGED disk)
    /\ UNCHANGED <<attempts, evaluation>>

\* A checkpoint or a report cannot be written: the run ends in error, and tries to
\* write that as well.
Break(r, s) ==
    /\ Fault /\ Enter(r, "raised")
    /\ \/ \E status \in {"partial", "error"} : Save(r, s, status)
       \/ UNCHANGED disk

\* A build passes its checks, or fails one or raises; the ledger is checkpointed.
Attempt(r, result) ==
    /\ at[r] = "building" /\ Len(attempts[r]) < Total
    /\ LET s == Append(attempts[r], result)
       IN  /\ attempts' = [attempts EXCEPT ![r] = s]
           /\ \/ Save(r, s, "partial") /\ UNCHANGED <<at, faults>>
              \/ Break(r, s)
    /\ UNCHANGED evaluation

\* A cancellation during a build is an attempt that failed, and ends the run.
Interrupt(r) ==
    /\ at[r] = "building" /\ Len(attempts[r]) < Total
    /\ LET s == Append(attempts[r], "failed")
       IN  /\ attempts' = [attempts EXCEPT ![r] = s]
           /\ \/ Save(r, s, "partial") /\ Enter(r, "raised") /\ UNCHANGED faults
              \/ Break(r, s)
    /\ UNCHANGED evaluation

\* Mutant of Whole: a run that was asked to stop ends as any other.
Whole_Interrupted(r) == at[r] = "raised" \/ Len(attempts[r]) = Total
Whole(r) == at[r] = "building" /\ Len(attempts[r]) = Total
Complete(r) ==
    /\ at[r] \in {"building", "raised"} /\ Whole(r)
    /\ \/ Save(r, attempts[r], "completed") /\ Enter(r, "returned") /\ UNCHANGED faults
       \/ Fault /\ Enter(r, "raised") /\ UNCHANGED disk
    /\ UNCHANGED <<attempts, evaluation>>

Kill(r) ==
    /\ at[r] = "building" /\ Enter(r, "dead")
    /\ UNCHANGED <<disk, attempts, evaluation, faults>>

-----------------------------------------------------------------------------
(* An evaluation.                                                          *)

Count(l, S) == Cardinality({i \in DOMAIN l.attempts \cap S : l.attempts[i] = "passed"})
CaseSet(c) == {i \in 1..Total : CaseOf(i) = c}

Compatible(b, c) ==
    b.status = "completed" /\ c.status = "completed" /\ Inputs[b.run] = Inputs[c.run]
\* Mutant of NoWorse: the suite alone is looked at.
NoWorse_Suite(b, c) == Count(b, 1..Total) <= Count(c, 1..Total) + MaxDrop
NoWorse(b, c) ==
    /\ Count(b, 1..Total) <= Count(c, 1..Total) + MaxDrop
    /\ \A k \in 1..Cases : Count(c, CaseSet(k)) >= MinPassed

Status(b, c) ==
    IF Compatible(b, c) /\ NoWorse(b, c) THEN "review_required" ELSE "rejected"

\* Each ledger is read twice: for its hash, and for the comparison.
With(g, f, l) == [x \in DOMAIN g \cup {f} |-> IF x = f THEN l ELSE g[x]]
Hash(e, f) ==
    /\ stage[e] = "hash" /\ f \notin DOMAIN hashed[e]
    /\ f = "candidate" => "baseline" \in DOMAIN hashed[e]
    /\ IF disk[f] = None THEN stage' = [stage EXCEPT ![e] = "refused"] /\ UNCHANGED hashed
       ELSE /\ hashed' = [hashed EXCEPT ![e] = With(@, f, disk[f])]
            /\ stage' = [stage EXCEPT ![e] = IF f = "candidate" THEN "load" ELSE @]
    /\ UNCHANGED <<bench, loaded, records, faults>>
Load(e, f) ==
    /\ stage[e] = "load" /\ f \notin DOMAIN loaded[e]
    /\ f = "candidate" => "baseline" \in DOMAIN loaded[e]
    /\ loaded' = [loaded EXCEPT ![e] = With(@, f, disk[f])]
    /\ stage' = [stage EXCEPT ![e] = IF f = "candidate" THEN "compare" ELSE @]
    /\ UNCHANGED <<bench, hashed, records, faults>>

\* The record is named by what it says, less the time; one that is there stays.
Record(e) ==
    /\ stage[e] = "compare"
    /\ LET new == [evidence |-> hashed[e], compared |-> loaded[e],
                   status |-> Status(loaded[e]["baseline"], loaded[e]["candidate"])]
       IN  \/ /\ records' = records \cup {new}
              /\ stage' = [stage EXCEPT ![e] = "recorded"] /\ UNCHANGED faults
           \/ /\ new \notin records /\ Fault
              /\ stage' = [stage EXCEPT ![e] = "refused"] /\ UNCHANGED records
    /\ UNCHANGED <<bench, hashed, loaded>>

Next ==
    \/ \E r \in Runs :
          \/ Begin(r) \/ Interrupt(r) \/ Complete(r) \/ Kill(r)
          \/ \E result \in Result : Attempt(r, result)
    \/ \E e \in Evaluator : Record(e) \/ \E f \in File : Hash(e, f) \/ Load(e, f)

Spec == Init /\ [][Next]_vars

-----------------------------------------------------------------------------
(* Properties.                                                             *)

Ledgers == [status : {"none", "partial", "completed", "error"}, run : Runs \cup {"none"},
            attempts : UNION {[1..n -> Result] : n \in 0..Total}]
TypeOK ==
    /\ disk \in [File -> Ledgers]
    /\ at \in [Runs -> {"idle", "building", "returned", "raised", "dead"}]
    /\ \A r \in Runs : Len(attempts[r]) \in 0..Total
    /\ stage \in [Evaluator -> {"hash", "load", "compare", "recorded", "refused"}]
    /\ faults \in 0..MaxFaults

\* A ledger that says completed holds every attempt of one run, as it went, and
\* of a run that was neither interrupted nor killed, whoever else writes to the file.
CompletedIsWhole ==
    \A f \in File : disk[f].status = "completed" =>
        /\ at[disk[f].run] = "returned" /\ disk[f].attempts = attempts[disk[f].run]
        /\ Len(disk[f].attempts) = Total

\* A record that asks for a review rests on two whole runs of the same inputs, in
\* which the candidate passes enough of each case, and not less than the baseline.
ReviewIsEarned ==
    \A m \in records : m.status = "review_required" =>
        \E b, c \in Runs :
            /\ at[b] = "returned" /\ at[c] = "returned" /\ Inputs[b] = Inputs[c]
            /\ \A k \in 1..Cases :
                  Cardinality({i \in CaseSet(k) : attempts[c][i] = "passed"}) >= MinPassed
            /\ Cardinality({i \in 1..Total : attempts[b][i] = "passed"})
               <= Cardinality({i \in 1..Total : attempts[c][i] = "passed"}) + MaxDrop

\* A record names the ledgers that were compared.  Not so: they are hashed first
\* and loaded after, and a run may write to its file between.
NamesWhatItCompared == \A m \in records : m.evidence = m.compared
=============================================================================

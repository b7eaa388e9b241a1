------------------------------- MODULE Budget -------------------------------
(***************************************************************************)
(* The spend caps of the LLM client (adapters/llm.py, BudgetTracker and    *)
(* LLMClient.complete).  Every completion is let through by a check of the *)
(* caps and recorded after the provider answered.  The day's spend lives   *)
(* in a ledger file that the trackers of several processes share: a        *)
(* transaction on it holds the tracker's own lock and a lock file, reads   *)
(* the ledger, and writes it back.  The lock file may be unavailable (the  *)
(* transaction goes on without it), and so may the ledger.                 *)
(*                                                                         *)
(* Costs are whole units, one per call; a day is a number.                 *)
(***************************************************************************)
EXTENDS Naturals, FiniteSets

CONSTANTS
    Process,    \* the processes that share the ledger
    Caller,     \* the tasks that call the client
    Home,       \* [Caller -> Process]
    DayCap, BuildCap,
    MaxFaults,  \* lock, read and write failures
    MaxDays,    \* midnights
    MaxBuilds   \* builds a process begins after its first

None == "none"

VARIABLES
    today,
    disk,       \* the ledger file: its day and the day's spend
    mem,        \* the same two fields of each process's tracker
    build,      \* the spend of the build each process runs
    builds,
    holder,     \* the process that holds the lock file
    tx,         \* the transaction each process is in, at most one
    at,         \* where each caller is
    spent,      \* history: what the calls of each day have cost
    sound,      \* history: no ledger fault so far
    faults

vars == <<today, disk, mem, build, builds, holder, tx, at, spent, sound, faults>>

Days == 0..MaxDays
Ledger == [day: Days, spent: Nat]
Idle == [who |-> None, kind |-> None, step |-> None]

Init ==
    /\ today = 0 /\ disk = [day |-> 0, spent |-> 0]
    /\ mem = [p \in Process |-> disk] /\ build = [p \in Process |-> 0] /\ builds = 0
    /\ holder = None /\ tx = [p \in Process |-> Idle]
    /\ at = [c \in Caller |-> "idle"]
    /\ spent = [d \in Days |-> 0] /\ sound = TRUE /\ faults = 0

-----------------------------------------------------------------------------
(* The transaction: the process-wide lock, then the lock file.             *)

Enter(c, kind) ==
    /\ tx[Home[c]] = Idle
    /\ tx' = [tx EXCEPT ![Home[c]] = [who |-> c, kind |-> kind, step |-> "lock"]]
    /\ UNCHANGED <<today, disk, mem, build, builds, holder, spent, sound, faults>>

Go(p, step) == tx' = [tx EXCEPT ![p].step = step]
Fault == faults < MaxFaults /\ faults' = faults + 1 /\ sound' = FALSE
NoFault == UNCHANGED <<sound, faults>>

\* The lock file, or on a timeout or an error the transaction without it.
Lock(p) ==
    /\ tx[p].step = "lock" /\ Go(p, "roll")
    /\ \/ holder = None /\ holder' = p /\ NoFault
       \/ Fault /\ UNCHANGED holder
    /\ UNCHANGED <<today, disk, mem, build, builds, at, spent>>

\* What the tracker knows after reading the ledger: a record takes what the
\* disk says, a check the larger of the two; another day's ledger is no news.
Loaded(p, merge) ==
    IF disk.day # today THEN mem[p]
    ELSE [day |-> today,
          spent |-> IF merge /\ mem[p].spent > disk.spent THEN mem[p].spent ELSE disk.spent]

\* A new day: another process's ledger of today is adopted, or a zero one is
\* written.
Roll(p) ==
    /\ tx[p].step = "roll"
    /\ mem' = [mem EXCEPT ![p] =
          IF mem[p].day = today THEN @
          ELSE IF disk.day = today THEN disk ELSE [day |-> today, spent |-> 0]]
    /\ Go(p, IF mem[p].day = today \/ disk.day = today THEN "load" ELSE "zero")
    /\ UNCHANGED <<today, disk, build, builds, holder, at, spent, sound, faults>>
Zero(p) ==
    /\ tx[p].step = "zero" /\ Go(p, "load")
    /\ \/ disk' = mem[p] /\ NoFault
       \/ Fault /\ UNCHANGED disk
    /\ UNCHANGED <<today, mem, build, builds, holder, at, spent>>

\* The transaction ends: the caller goes on, unless a cap is crossed.
Over(p) == build'[p] > BuildCap \/ mem'[p].spent > DayCap
Leave(p, next) ==
    /\ tx' = [tx EXCEPT ![p] = Idle]
    /\ holder' = IF holder = p THEN None ELSE holder
    /\ at' = [at EXCEPT ![tx[p].who] = IF Over(p) THEN "refused" ELSE next]

\* check: refuses the call before it is sent.
Check(p) ==
    /\ tx[p].step = "load" /\ tx[p].kind = "check"
    /\ \/ mem' = [mem EXCEPT ![p] = Loaded(p, TRUE)] /\ NoFault
       \/ Fault /\ UNCHANGED mem
    /\ UNCHANGED build /\ Leave(p, "calling")
    /\ UNCHANGED <<today, disk, builds, spent>>

\* record: the call's cost is added to what the ledger says.
\* Mutant of Add: to what the tracker remembers.
Add_Remembered(p) ==
    /\ tx[p].step = "load" /\ tx[p].kind = "record" /\ Go(p, "save") /\ NoFault
    /\ mem' = [mem EXCEPT ![p].spent = @ + 1]
    /\ spent' = [spent EXCEPT ![mem'[p].day] = @ + 1]
    /\ build' = [build EXCEPT ![p] = @ + 1]
    /\ UNCHANGED <<today, disk, builds, holder, at>>
Add(p) ==
    /\ tx[p].step = "load" /\ tx[p].kind = "record" /\ Go(p, "save")
    /\ \E known \in {Loaded(p, FALSE), mem[p]} :
          /\ IF known = Loaded(p, FALSE) THEN NoFault ELSE Fault
          /\ mem' = [mem EXCEPT ![p] = [known EXCEPT !.spent = @ + 1]]
          /\ spent' = [spent EXCEPT ![known.day] = @ + 1]
    /\ build' = [build EXCEPT ![p] = @ + 1]
    /\ UNCHANGED <<today, disk, builds, holder, at>>
Save(p) ==
    /\ tx[p].step = "save"
    /\ \/ disk' = mem[p] /\ NoFault
       \/ Fault /\ UNCHANGED disk
    /\ UNCHANGED <<mem, build>> /\ Leave(p, "idle")
    /\ UNCHANGED <<today, builds, spent>>

-----------------------------------------------------------------------------
(* The callers.                                                            *)

\* complete: the caps are checked before anything is sent.
Call(c) == at[c] = "idle" /\ Enter(c, "check") /\ at' = [at EXCEPT ![c] = "checking"]

\* The provider answered: recorded and checked again.
Answer(c) == at[c] = "calling" /\ Enter(c, "record") /\ at' = [at EXCEPT ![c] = "recording"]

\* A caller that was refused gives up; the next build of its process starts
\* from nothing.
Begin(p) ==
    /\ builds < MaxBuilds /\ builds' = builds + 1
    /\ \A c \in Caller : Home[c] = p => at[c] \in {"idle", "refused"}
    /\ build' = [build EXCEPT ![p] = 0]
    /\ at' = [c \in Caller |-> IF Home[c] = p THEN "idle" ELSE at[c]]
    /\ UNCHANGED <<today, disk, mem, holder, tx, spent, sound, faults>>

Midnight ==
    /\ today < MaxDays /\ today' = today + 1
    /\ UNCHANGED <<disk, mem, build, builds, holder, tx, at, spent, sound, faults>>

Next ==
    \/ \E p \in Process :
          Lock(p) \/ Roll(p) \/ Zero(p) \/ Check(p) \/ Add(p) \/ Save(p) \/ Begin(p)
    \/ \E c \in Caller : Call(c) \/ Answer(c)
    \/ Midnight

Spec == Init /\ [][Next]_vars

-----------------------------------------------------------------------------
(* Properties.                                                             *)

TypeOK ==
    /\ today \in Days /\ disk \in Ledger /\ mem \in [Process -> Ledger]
    /\ build \in [Process -> Nat] /\ holder \in Process \cup {None}
    /\ at \in [Caller -> {"idle", "checking", "calling", "recording", "refused"}]
    /\ \A p \in Process : tx[p] # Idle => Home[tx[p].who] = p
    /\ spent \in [Days -> Nat]

\* No spend is lost: between two transactions today's ledger holds exactly what
\* the calls of the day have cost, whichever process recorded them and across
\* midnight, as long as the lock file and the ledger could be used.
NoSpendLost == sound /\ holder = None /\ disk.day = today => disk.spent = spent[today]

\* The caps overshoot by the calls in flight and no more: a call is sent only
\* after a check that saw every recorded call.  The build's cap is kept in
\* memory and holds even when the ledger fails.
CapsBind ==
    /\ sound => \A d \in Days : spent[d] <= DayCap + Cardinality(Caller)
    /\ \A p \in Process : build[p] <= BuildCap + Cardinality({c \in Caller : Home[c] = p})
=============================================================================

------------------------------ MODULE CodeAgent ------------------------------
(***************************************************************************)
(* The code agent (agents/code_agent.py, class CodeAgent): tasks of one    *)
(* worktree, one after the other behind a lock that exists only while      *)
(* somebody uses it, each letting a coding agent write into the tree and   *)
(* then bringing the tree back to what the task was allowed to change.     *)
(*                                                                         *)
(* A task is a whole build or a slice that owns some of the planned        *)
(* files.  A file is told apart by what the clean-up does with it, and its *)
(* content by whose it is: "old" as it was before the first task, "code",  *)
(* "prose" (chat text where a program should be) or "absent".              *)
(***************************************************************************)
EXTENDS Naturals, FiniteSets

CONSTANTS
    Tasks,       \* the tasks for this worktree
    Owned,       \* of a task that is a slice: its files
    Planned,     \* the files the architecture names
    Floor,       \* those of them the scaffold can supply
    Trivial,     \* those whose content is only decoration
    MaxRetries,  \* agentic_retries
    MaxWrites    \* bound: files the coding agent touches in one session

Deliverables ==
    /\ IsFiniteSet(Tasks) /\ "nobody" \notin Tasks
    /\ Planned \cap {"contract", "asset", "other", "extra", "stray"} = {}
    /\ Floor \subseteq Planned /\ Trivial \subseteq Planned
    /\ \A r \in DOMAIN Owned : Owned[r] \subseteq Planned
    /\ MaxRetries \in Nat /\ MaxWrites \in Nat

\* A contract, an asset and another file that were there before; a new file of an
\* accepted place and one of a place the plan does not know.
File == Planned \cup {"contract", "asset", "other", "extra", "stray"}
Content == {"old", "code", "prose", "absent"}
Sliced == DOMAIN Owned
Task(r) == IF r \in Sliced THEN Owned[r] ELSE Planned

VARIABLES
    at,               \* of a task
    entry,            \* the lock entry in the table (0: none)
    mine,             \* of a task: the entry it uses
    holder,           \* of an entry: the task that holds its lock, or "nobody"
    tree,             \* the worktree
    was,              \* of a task: the tree as the task found it
    attempt, writes,  \* of the task in its sessions
    degraded          \* of a task: what it reports

vars == <<at, entry, mine, holder, tree, was, attempt, writes, degraded>>
locks == <<entry, mine, holder>>
Unseen == [f \in File |-> "absent"]

Init ==
    /\ at = [r \in Tasks |-> "new"]
    /\ entry = 0 /\ mine = [r \in Tasks |-> 0]
    /\ holder = [e \in 1..Cardinality(Tasks) |-> "nobody"]
    /\ tree = [f \in File |-> IF f \in {"contract", "asset", "other"} THEN "old" ELSE "absent"]
    /\ was = [r \in Tasks |-> Unseen]
    /\ attempt = 0 /\ writes = 0 /\ degraded = [r \in Tasks |-> FALSE]

-----------------------------------------------------------------------------
(* The lock of the worktree. *)

Users(e) == {r \in Tasks : mine[r] = e}

\* The task joins the entry in the table, or puts a new one there.
Enter(r) ==
    /\ at[r] = "new" /\ at' = [at EXCEPT ![r] = "waiting"]
    /\ LET fresh == 1 + Cardinality({s \in Tasks : at[s] # "new"})
           joined == IF entry = 0 THEN fresh ELSE entry
       IN entry' = joined /\ mine' = [mine EXCEPT ![r] = joined]
    /\ UNCHANGED <<holder, tree, was, attempt, writes, degraded>>

\* The task has the lock: it notes the tree it finds.
Acquire(r) ==
    /\ at[r] = "waiting" /\ holder[mine[r]] = "nobody"
    /\ holder' = [holder EXCEPT ![mine[r]] = r]
    /\ at' = [at EXCEPT ![r] = "session"]
    /\ was' = [was EXCEPT ![r] = tree] /\ attempt' = 0 /\ writes' = 0
    /\ UNCHANGED <<entry, mine, tree, degraded>>

\* Leaving: the lock is freed; the last user takes the entry off the table.
Depart(r) ==
    /\ at' = [at EXCEPT ![r] = "gone"]
    /\ mine' = [mine EXCEPT ![r] = 0]
    /\ holder' = [e \in DOMAIN holder |-> IF holder[e] = r THEN "nobody" ELSE holder[e]]
    /\ entry' = IF Users(mine[r]) = {r} /\ entry = mine[r] THEN 0 ELSE entry

\* A task cancelled in the queue, or a finished one.
Leave(r) ==
    /\ at[r] \in {"waiting", "done", "broken"} /\ Depart(r)
    /\ was' = [was EXCEPT ![r] = Unseen] /\ degraded' = [degraded EXCEPT ![r] = FALSE]
    /\ UNCHANGED <<tree, attempt, writes>>

-----------------------------------------------------------------------------
(* A session of the coding agent, and what follows it. *)

\* The agent touches a file, any file, in any way.
Write(r) ==
    /\ at[r] = "session" /\ writes < MaxWrites /\ writes' = writes + 1
    /\ \E f \in File, c \in {"code", "prose", "absent"} : tree' = [tree EXCEPT ![f] = c]
    /\ UNCHANGED <<at, locks, was, attempt, degraded>>

\* Contracts come back in both kinds of task.
Contracts(r, t) == [t EXCEPT !["contract"] = was[r]["contract"]]

\* A whole build: upstream assets come back, new files of unknown places go,
\* source that is prose goes unless the scaffold replaces it, and missing
\* decoration is made up.
Whole(r, t) ==
    [f \in File |->
        CASE f = "asset" /\ was[r][f] # "absent" -> was[r][f]
          [] f = "stray" /\ was[r][f] = "absent" -> "absent"
          [] f \in Trivial /\ t[f] = "absent" -> "code"
          [] t[f] = "prose" /\ f \notin Floor /\ f # "asset" ->
                IF f \in Trivial THEN "code" ELSE "absent"
          [] OTHER -> t[f]]

\* A slice: every file it does not own is put back, and its own prose goes.
Slice(r, t) ==
    [f \in File |-> IF f \notin Task(r) THEN was[r][f]
                    ELSE IF t[f] = "prose" THEN "absent" ELSE t[f]]

Cleaned(r, t) ==
    LET c == Contracts(r, t) IN IF r \notin Sliced THEN Whole(r, c) ELSE Slice(r, c)

Missing(r, t) == {f \in Task(r) : t[f] = "absent"}

\* After a session: clean up, then once more with the missing files, or go on.  A
\* whole build may also be too small or break the contract of its stack.
\* Mutant of Settle: the last attempt is taken at the agent's word.
Settle_Trusting(r) ==
    /\ at[r] = "session" /\ tree' = Cleaned(r, tree)
    /\ \E confirmed, thin \in BOOLEAN :
         LET whole == confirmed /\ Missing(r, tree') = {} /\ ~(thin /\ r \notin Sliced)
         IN  IF whole \/ attempt = MaxRetries
             THEN /\ at' = [at EXCEPT ![r] = "writing"] /\ UNCHANGED <<attempt, writes>>
                  /\ degraded' = [degraded EXCEPT ![r] = ~confirmed]
             ELSE attempt' = attempt + 1 /\ writes' = 0 /\ UNCHANGED <<at, degraded>>
    /\ UNCHANGED <<locks, was>>
Settle(r) ==
    /\ at[r] = "session" /\ tree' = Cleaned(r, tree)
    /\ \E confirmed, thin \in BOOLEAN :
         LET whole == confirmed /\ Missing(r, tree') = {} /\ ~(thin /\ r \notin Sliced)
         IN  IF whole \/ attempt = MaxRetries
             THEN /\ at' = [at EXCEPT ![r] = "writing"] /\ UNCHANGED <<attempt, writes>>
                  /\ degraded' = [degraded EXCEPT ![r] = ~whole]
             ELSE attempt' = attempt + 1 /\ writes' = 0 /\ UNCHANGED <<at, degraded>>
    /\ UNCHANGED <<locks, was>>

\* A backend that completes one file at a time instead of working in the tree: what
\* it did not generate is named as missing, and for a whole build left to the scaffold.
Generate(r) ==
    /\ at[r] = "session" /\ attempt = 0 /\ writes = 0
    /\ \E made \in SUBSET Task(r) :
         /\ tree' = [f \in File |-> IF f \in made THEN "code" ELSE tree[f]]
         /\ degraded' = [degraded EXCEPT ![r] = made # Task(r)]
    /\ at' = [at EXCEPT ![r] = "writing"]
    /\ UNCHANGED <<locks, was, attempt, writes>>

\* The files are written once more: the scaffold under an incomplete whole build
\* and over its prose; last of all the contracts.
Deliver(r) ==
    /\ at[r] = "writing" /\ at' = [at EXCEPT ![r] = "done"]
    /\ tree' = Contracts(r, [f \in File |->
            IF r \notin Sliced /\ f \in Floor
               /\ (tree[f] = "prose" \/ (tree[f] = "absent" /\ degraded[r]))
            THEN "code" ELSE tree[f]])
    /\ UNCHANGED <<locks, was, attempt, writes, degraded>>

\* The session raises, or the task is cancelled in it: only the contracts come back.
Break(r) ==
    /\ at[r] = "session" /\ at' = [at EXCEPT ![r] = "broken"]
    /\ tree' = Contracts(r, tree)
    /\ UNCHANGED <<locks, was, attempt, writes, degraded>>

Next ==
    \E r \in Tasks : Enter(r) \/ Acquire(r) \/ Leave(r) \/ Write(r) \/ Settle(r)
                   \/ Generate(r) \/ Deliver(r) \/ Break(r)

Spec == Init /\ [][Next]_vars

-----------------------------------------------------------------------------
TypeOK ==
    /\ at \in [Tasks -> {"new", "waiting", "session", "writing", "done", "broken", "gone"}]
    /\ entry \in 0..Cardinality(Tasks) /\ mine \in [Tasks -> 0..Cardinality(Tasks)]
    /\ holder \in [1..Cardinality(Tasks) -> Tasks \cup {"nobody"}]
    /\ tree \in [File -> Content] /\ was \in [Tasks -> [File -> Content]]
    /\ attempt \in 0..MaxRetries /\ writes \in 0..MaxWrites
    /\ degraded \in [Tasks -> BOOLEAN]

\* Two tasks never work in the same worktree at once, although the lock they share
\* is made when the first one comes and thrown away when the last one leaves.
OneAtATime ==
    Cardinality({r \in Tasks : at[r] \in {"session", "writing", "done", "broken"}}) <= 1

\* No task, however it ends, leaves an acceptance contract other than it was before
\* the first one: what judges the build is not the build's to write.
ContractsStand ==
    (\A r \in Tasks : at[r] \notin {"session"}) => tree["contract"] = "old"

\* A task that reports no degradation left every file it was to write, and none of
\* them is prose; a slice left everything that is not its own as it found it.
ReportIsTrue ==
    \A r \in Tasks : at[r] = "done" =>
        /\ ~degraded[r] => \A f \in Task(r) : tree[f] \notin {"absent", "prose"}
        /\ r \in Sliced => \A f \in File \ Task(r) : tree[f] = was[r][f]

\* The invariant that proves them.  All tasks that are not gone share the entry in the
\* table, and it stays there until the last of them left: the one that works holds its lock.
Active == {"session", "writing", "done", "broken"}
LockInv ==
    /\ \A r \in Tasks : IF at[r] \in {"new", "gone"} THEN mine[r] = 0
                        ELSE mine[r] # 0 /\ mine[r] = entry
    /\ \A r \in Tasks : at[r] \in Active => holder[mine[r]] = r
    /\ \A e \in DOMAIN holder : holder[e] # "nobody" =>
          at[holder[e]] \in Active /\ mine[holder[e]] = e
    /\ entry # 0 => \E r \in Tasks : mine[r] = entry

\* What a task has to put back is what it found, and the contracts it found are the first.
FoundInv ==
    \A r \in Tasks :
        /\ at[r] \in {"session", "writing"} => was[r]["contract"] = "old"
        /\ at[r] = "session" /\ attempt = 0 /\ writes = 0 => tree = was[r]

\* Before the last write only what the scaffold will replace may be prose.
WritingInv ==
    \A r \in Tasks : at[r] = "writing" =>
        /\ ~degraded[r] => \A f \in Task(r) :
              tree[f] # "absent" /\ (tree[f] = "prose" => r \notin Sliced /\ f \in Floor)
        /\ r \in Sliced => \A f \in File \ Task(r) : tree[f] = was[r][f]

IInv == TypeOK /\ LockInv /\ FoundInv /\ WritingInv /\ ContractsStand /\ ReportIsTrue
=============================================================================

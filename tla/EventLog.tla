------------------------------- MODULE EventLog -------------------------------
(***************************************************************************)
(* Events of the bus (core/events.py) on their way to the database: the    *)
(* sink of memory/store.py buffers them in a bounded queue, of which one   *)
(* worker commits batches.  Publishers wait for room with the events of    *)
(* builds and tasks, and may be cancelled meanwhile; the database fails;   *)
(* the sink is flushed and closed; the loop ends and cancels the worker.   *)
(***************************************************************************)
EXTENDS Naturals, Sequences

CONSTANTS
    Event, Critical,    \* events, and those of builds and tasks
    QueueSize, BatchSize, MaxAttempts,
    MaxFaults,          \* bound on transactions that fail
    MaxCancels          \* bound on cancellations of the worker and of publishers

VARIABLES
    todo,       \* events that are not published yet
    waiting,    \* events whose publishers wait for room
    queue,      \* the queue
    unfinished, \* its count of items that are not done
    worker,     \* the await of the worker: "get", "fill", "save", "saved", "ended"
    draining,   \* it was cancelled
    batch, tries,
    log,        \* the rows in the order of their ids
    closing,    \* close(): "open", "joining", "cancelled", "closed"
    flush,      \* a flush: "idle", "joining", "returned"
    due,        \* what had been accepted when it began
    accepted,   \* history: what entered the queue, in order
    lost,       \* history: what was reported as given up
    faults, cancels, crashed

sink == <<queue, unfinished, accepted>>
ends == <<closing, flush, due>>
hits == <<faults, cancels, crashed>>
vars == <<todo, waiting, worker, draining, batch, tries, log, lost, sink, ends, hits>>

Elements(s) == {s[i] : i \in DOMAIN s}

Init ==
    /\ todo = Event /\ waiting = {} /\ queue = <<>> /\ unfinished = 0
    /\ worker = "get" /\ draining = FALSE /\ batch = <<>> /\ tries = 0
    /\ log = <<>> /\ closing = "open" /\ flush = "idle" /\ due = {}
    /\ accepted = <<>> /\ lost = {} /\ faults = 0 /\ cancels = 0 /\ crashed = FALSE

-----------------------------------------------------------------------------
(* The subscriber, in the task of whoever publishes.                       *)

Put(e) ==
    /\ queue' = Append(queue, e) /\ unfinished' = unfinished + 1
    /\ accepted' = Append(accepted, e)

OnEvent(e) ==
    /\ ~crashed /\ e \in todo /\ todo' = todo \ {e}
    /\ IF closing # "open" THEN UNCHANGED <<sink, waiting>>
       ELSE IF Len(queue) < QueueSize THEN Put(e) /\ UNCHANGED waiting
       ELSE /\ waiting' = (IF e \in Critical THEN waiting \cup {e} ELSE waiting)
            /\ UNCHANGED sink
    /\ UNCHANGED <<worker, draining, batch, tries, log, lost, ends, hits>>

\* There is room, for which several may have been waiting.
Wake(e) ==
    /\ ~crashed /\ e \in waiting /\ Len(queue) < QueueSize
    /\ waiting' = waiting \ {e} /\ Put(e)
    /\ UNCHANGED <<todo, worker, draining, batch, tries, log, lost, ends, hits>>

Withdraw(e) ==
    /\ ~crashed /\ e \in waiting /\ cancels < MaxCancels /\ cancels' = cancels + 1
    /\ waiting' = waiting \ {e}
    /\ UNCHANGED <<todo, sink, worker, draining, batch, tries, log, lost, ends, faults, crashed>>

-----------------------------------------------------------------------------
(* The worker.                                                             *)

Working(state) == ~crashed /\ worker = state
Take(n) == /\ queue' = SubSeq(queue, n + 1, Len(queue))
           /\ batch' = batch \o SubSeq(queue, 1, n)
           /\ UNCHANGED <<unfinished, accepted>>

\* One item, and what comes in a short while; after a cancellation what is there.
Get ==
    /\ Working("get")
    /\ IF queue # <<>>
       THEN IF draining
            THEN /\ Take(IF Len(queue) < BatchSize THEN Len(queue) ELSE BatchSize)
                 /\ worker' = "save" /\ tries' = 1
            ELSE Take(1) /\ worker' = "fill" /\ UNCHANGED tries
       ELSE draining /\ worker' = "ended" /\ UNCHANGED <<sink, batch, tries>>
    /\ UNCHANGED <<todo, waiting, draining, log, lost, ends, hits>>
Fill ==
    /\ Working("fill") /\ Len(batch) < BatchSize /\ queue # <<>> /\ Take(1)
    /\ UNCHANGED <<todo, waiting, worker, draining, tries, log, lost, ends, hits>>
Filled ==
    /\ Working("fill") /\ worker' = "save" /\ tries' = 1
    /\ UNCHANGED <<todo, waiting, sink, draining, batch, log, lost, ends, hits>>

\* The database answers after those who were woken have run.
Settled == waiting = {} \/ Len(queue) = QueueSize
Commit ==
    /\ Working("save") /\ Settled
    /\ log' = log \o batch /\ worker' = "saved"
    /\ UNCHANGED <<todo, waiting, sink, draining, batch, tries, lost, ends, hits>>

\* Mutant of Done: the items count as done when they are taken over for a commit.
Done_Batch == unfinished' = 0
Done == unfinished' = unfinished - Len(batch)
Finish ==
    /\ Working("saved") /\ worker' = "get" /\ Done /\ batch' = <<>>
    /\ UNCHANGED <<todo, waiting, queue, accepted, draining, tries, log, lost, ends, hits>>

\* A transaction fails and is tried again, the last time with no more than a report.
Fail ==
    /\ Working("save") /\ Settled /\ faults < MaxFaults /\ faults' = faults + 1
    /\ IF tries < MaxAttempts
       THEN tries' = tries + 1 /\ UNCHANGED <<worker, batch, unfinished, lost>>
       ELSE /\ worker' = "get" /\ Done /\ batch' = <<>> /\ lost' = lost \cup Elements(batch)
            /\ UNCHANGED tries
    /\ UNCHANGED <<todo, waiting, queue, accepted, draining, log, ends, cancels, crashed>>

\* Mutant of InHand: a batch whose commit is under way is taken to be committed.
InHand_Filled == batch # <<>> /\ worker = "fill"
InHand == batch # <<>>

\* The worker is cancelled at its await: what it has in hand is saved, again if
\* its commit had gone through, and the queue is drained.  Cancelled once more, it ends.
Stop ==
    /\ worker # "ended" /\ ~crashed
    /\ IF draining THEN worker' = "ended" /\ Done /\ batch' = <<>> /\ tries' = 0
       ELSE IF InHand THEN worker' = "save" /\ tries' = 1 /\ UNCHANGED <<unfinished, batch>>
       ELSE worker' = "get" /\ batch' = <<>> /\ Done /\ tries' = 0
    /\ draining' = TRUE
    /\ UNCHANGED <<todo, waiting, queue, accepted, log, lost>>

\* The loop of a command ends, or the task that closes the sink is cancelled.
Cancel ==
    /\ cancels < MaxCancels /\ cancels' = cancels + 1
    /\ \/ closing \in {"open", "joining"} /\ ~draining
       \/ closing = "cancelled"
    /\ Stop /\ UNCHANGED <<ends, faults, crashed>>

-----------------------------------------------------------------------------
(* Flushing and closing.                                                   *)

Flush ==
    /\ ~crashed /\ flush = "idle" /\ flush' = "joining" /\ due' = Elements(accepted)
    /\ UNCHANGED <<todo, waiting, sink, worker, draining, batch, tries, log, lost, closing, hits>>
Flushed ==
    /\ ~crashed /\ flush = "joining" /\ unfinished = 0 /\ flush' = "returned"
    /\ UNCHANGED <<todo, waiting, sink, worker, draining, batch, tries, log, lost, closing, due, hits>>

Close ==
    /\ ~crashed /\ closing = "open" /\ closing' = "joining"
    /\ UNCHANGED <<todo, waiting, sink, worker, draining, batch, tries, log, lost, flush, due, hits>>
Joined ==
    /\ closing = "joining" /\ unfinished = 0 /\ closing' = "cancelled"
    /\ Stop /\ UNCHANGED <<flush, due, hits>>
Closed ==
    /\ ~crashed /\ closing = "cancelled" /\ worker = "ended" /\ closing' = "closed"
    /\ UNCHANGED <<todo, waiting, sink, worker, draining, batch, tries, log, lost, flush, due, hits>>

Crash ==
    /\ ~crashed /\ crashed' = TRUE
    /\ UNCHANGED <<todo, waiting, sink, worker, draining, batch, tries, log, lost, ends, faults, cancels>>

Next ==
    \/ \E e \in Event : OnEvent(e) \/ Wake(e) \/ Withdraw(e)
    \/ Get \/ Fill \/ Filled \/ Commit \/ Finish \/ Fail \/ Cancel
    \/ Flush \/ Flushed \/ Close \/ Joined \/ Closed \/ Crash

Spec == Init /\ [][Next]_vars

-----------------------------------------------------------------------------
(* Properties.                                                             *)

TypeOK ==
    /\ todo \cup waiting \cup lost \cup due \subseteq Event
    /\ Len(queue) \in 0..QueueSize /\ Len(batch) \in 0..BatchSize
    /\ Elements(queue) \cup Elements(batch) \cup Elements(log) \subseteq Event
    /\ worker \in {"get", "fill", "save", "saved", "ended"} /\ draining \in BOOLEAN
    /\ unfinished \in Nat /\ tries \in 0..MaxAttempts
    /\ closing \in {"open", "joining", "cancelled", "closed"}
    /\ flush \in {"idle", "joining", "returned"}
    /\ faults \in 0..MaxFaults /\ cancels \in 0..MaxCancels /\ crashed \in BOOLEAN

Recorded == Elements(log) \cup lost

\* What was accepted is on its way, recorded, or was reported as given up,
\* through failing transactions, a cancellation of the worker and a close().
NothingForgotten ==
    cancels <= 1 => Elements(accepted) \subseteq Recorded \cup Elements(queue) \cup Elements(batch)

\* A flush, and a close(), return when what was accepted before them is recorded or reported.
FlushedIsRecorded ==
    /\ flush = "returned" => due \subseteq Recorded
    /\ closing = "closed" /\ cancels = 0 => Elements(accepted) \subseteq Recorded /\ waiting = {}

\* Rows are in the order in which events were accepted, and an event has one row,
\* or after a cancellation a second one further down.
InOrder ==
    /\ \A i, j \in DOMAIN accepted : \A k \in DOMAIN log :
          i < j /\ log[k] = accepted[j] /\ accepted[i] \in Elements(log)
             => \E h \in 1..k : log[h] = accepted[i]
    /\ cancels = 0 /\ ~draining => \A h, k \in DOMAIN log : log[h] = log[k] => h = k

\* Events of builds and tasks are never discarded.  Not so: a batch that cannot be
\* committed is given up like any other.
CriticalKept == lost \cap Critical = {}
=============================================================================

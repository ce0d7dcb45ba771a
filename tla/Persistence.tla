---------------------------- MODULE Persistence ----------------------------
(***************************************************************************)
(* Persistence of the live state (internal/storage/persistence.go,         *)
(* writer.go, retry.go and the budget in retention.go): a goroutine takes  *)
(* a batch from the engine at every tick and puts it on a bounded Go       *)
(* channel, whose oldest batch gives way when it is full; another one      *)
(* writes the batches, a transaction each, with retries; a third pauses    *)
(* persistence while the database is too large.                            *)
(*                                                                         *)
(* A process numbers its events from 1 again after a restart, while the    *)
(* rows of the processes before it stay: a stored row is an id and the     *)
(* process (boot) whose event it holds.  The samples of a batch are left to *)
(* modules Rollups and HistoryDeletion, and so is what retention deletes:  *)
(* the rows here are those that were written.                              *)
(***************************************************************************)
EXTENDS Engine, FiniteSets

CONSTANTS
    Collector,      \* names of collectors
    Health,         \* the states a collector reports
    QueueLimit,     \* capacity of the queue (60 in the code)
    MaxAttempts,    \* attempts of Retry (5 in the code)
    Size,           \* database sizes the budget sees
    Target,         \* the budget
    MaxBatches,     \* bound: batches of a process
    MaxFaults,      \* bound: storage errors
    MaxBoots        \* bound: processes

ASSUME PersistenceAssumption ==
    /\ QueueLimit \in Nat \ {0}
    /\ MaxAttempts \in Nat \ {0}
    /\ Size \subseteq Nat
    /\ Target \in Nat
    /\ MaxBatches \in Nat
    /\ MaxFaults \in Nat
    /\ MaxBoots \in Nat \ {0}

Unknown == "unknown"
State == Health \cup {Unknown}

VARIABLES
    health,       \* collector states of the current snapshot
    queue,        \* the Go channel of batches
    producer,     \* where enqueue is, and its batch
    writer,       \* where the writer is, its batch and its attempts
    paused,       \* emergencyPause
    previous,     \* prevCollectors: the collector states the writer remembers
    stored,       \* events: [id, boot]; id 0 is the budget's own event
    transitions,  \* collector_state_events of every collector, oldest first
    boot,         \* the process
    dropped,      \* the Dropped counter
    made, done,   \* history: batches taken from the engine, given up or written
    synced,       \* history: the newest message the written batches cover
    faults, forgotten   \* storage errors, and those of a commit

tables == <<stored, transitions>>
control == <<health, paused, boot>>
count == <<dropped, made, done, synced, faults, forgotten>>
vars == <<engineVars, control, queue, producer, writer, previous, tables, count>>

Batch == [sequence : Id, events : Seq(Id), health : [Collector -> State]]
NoBatch == [sequence |-> 0, events |-> <<>>, health |-> [c \in Collector |-> Unknown]]
Resting == [at |-> "idle", batch |-> NoBatch]
Waits == [at |-> "idle", batch |-> NoBatch, attempt |-> 0]

-----------------------------------------------------------------------------
(* The sampler publishes. *)

PublishSnapshot(n, h) ==
    /\ Publish(n)
    /\ health' = h
    /\ UNCHANGED <<paused, boot, queue, producer, writer, previous, tables, count>>

-----------------------------------------------------------------------------
(* The producer. *)

\* Mutant: a batch carries the events of the last snapshot only.
RecentBatch ==
    [sequence |-> sequence, events |-> SelectSeq(events, LAMBDA e : e > sequence),
     health |-> health]

\* The current snapshot and the whole ring.
PersistenceBatch == [sequence |-> sequence, events |-> events, health |-> health]

\* enqueue: nothing before the first snapshot; a paused batch is dropped; a full
\* queue is dealt with in the next steps.
Enqueue ==
    /\ producer.at = "idle"
    /\ sequence > 0
    /\ made < MaxBatches
    /\ made' = made + 1
    /\ \/ /\ paused
          /\ dropped' = dropped + 1
          /\ UNCHANGED <<queue, producer>>
       \/ /\ ~paused
          /\ Len(queue) < QueueLimit
          /\ queue' = Append(queue, PersistenceBatch)
          /\ UNCHANGED <<producer, dropped>>
       \/ /\ ~paused
          /\ Len(queue) = QueueLimit
          /\ producer' = [at |-> "drop", batch |-> PersistenceBatch]
          /\ UNCHANGED <<queue, dropped>>
    /\ UNCHANGED <<engineVars, control, writer, previous, tables, done, synced,
                   faults, forgotten>>

\* Mutant: the oldest batch counts as dropped although the writer has it.
DropOldestAlways ==
    /\ producer.at = "drop"
    /\ queue' = IF queue = <<>> THEN queue ELSE Tail(queue)
    /\ dropped' = dropped + 1
    /\ producer' = [producer EXCEPT !.at = "send"]
    /\ UNCHANGED <<engineVars, control, writer, previous, tables, made, done, synced,
                   faults, forgotten>>

\* Mutant: nothing is dropped, so that the new batch gives way.
DropNothing ==
    /\ producer.at = "drop"
    /\ producer' = [producer EXCEPT !.at = "send"]
    /\ UNCHANGED <<engineVars, control, queue, writer, previous, tables, dropped, made, done,
                   synced, faults, forgotten>>

\* The oldest batch is dropped, unless the writer has emptied the queue.
DropOldest ==
    /\ producer.at = "drop"
    /\ IF queue = <<>> THEN UNCHANGED <<queue, dropped>>
       ELSE queue' = Tail(queue) /\ dropped' = dropped + 1
    /\ producer' = [producer EXCEPT !.at = "send"]
    /\ UNCHANGED <<engineVars, control, writer, previous, tables, made, done, synced,
                   faults, forgotten>>

\* The second attempt to send.
SendAgain ==
    /\ producer.at = "send"
    /\ IF Len(queue) < QueueLimit
       THEN queue' = Append(queue, producer.batch) /\ UNCHANGED dropped
       ELSE dropped' = dropped + 1 /\ UNCHANGED queue
    /\ producer' = Resting
    /\ UNCHANGED <<engineVars, control, writer, previous, tables, made, done, synced,
                   faults, forgotten>>

-----------------------------------------------------------------------------
(* The writer. *)

Take ==
    /\ writer.at = "idle"
    /\ queue # <<>>
    /\ writer' = [at |-> "write", batch |-> Head(queue), attempt |-> 1]
    /\ queue' = Tail(queue)
    /\ UNCHANGED <<engineVars, control, producer, previous, tables, count>>

\* INSERT OR IGNORE INTO events.
Insert(ids) ==
    stored' = stored \cup {[id |-> i, boot |-> boot] :
                              i \in {k \in ids : \A row \in stored : row.id # k}}

Changed(b) == {c \in Collector : b.health[c] # previous[c]}

\* Mutant: the remembered state is not brought up to date.
RememberNothing(b, reached) == previous' = previous

\* writeCollectorStateEvents: the remembered states change one by one with the
\* inserts, and stay changed when the transaction rolls back.
Remember(b, reached) ==
    previous' = [c \in Collector |-> IF c \in reached THEN b.health[c] ELSE previous[c]]

\* Its rows, one per changed collector.
Logged(b) ==
    [c \in Collector |->
        IF c \in Changed(b)
        THEN Append(transitions[c], [from |-> previous[c], to |-> b.health[c], boot |-> boot])
        ELSE transitions[c]]

\* WriteBatch commits (its samples only matter to the history tables).
WriteBatch ==
    LET b == writer.batch IN
    /\ writer.at = "write"
    /\ Insert(ToSet(b.events))
    /\ transitions' = Logged(b)
    /\ Remember(b, Changed(b))
    /\ writer' = Waits
    /\ done' = done + 1
    /\ synced' = IF b.events # <<>> /\ Last(b.events) > b.sequence THEN Last(b.events)
                 ELSE b.sequence
    /\ UNCHANGED <<engineVars, control, queue, producer, dropped, made, faults, forgotten>>

\* Retry: a transient error is tried again; any other one, and the last, gives the
\* batch up.
Again(transient) ==
    IF transient /\ writer.attempt < MaxAttempts
    THEN writer' = [writer EXCEPT !.attempt = @ + 1] /\ UNCHANGED done
    ELSE writer' = Waits /\ done' = done + 1

\* WriteBatch fails when it has remembered the states of some collectors (none,
\* some or all of the changed ones), and rolls back.
WriteFails(transient, reached) ==
    /\ writer.at = "write"
    /\ faults < MaxFaults
    /\ faults' = faults + 1
    /\ reached \subseteq Changed(writer.batch)
    /\ Remember(writer.batch, reached)
    /\ forgotten' = forgotten + (IF reached = {} THEN 0 ELSE 1)
    /\ Again(transient)
    /\ UNCHANGED <<engineVars, control, queue, producer, tables, dropped, made, synced>>

-----------------------------------------------------------------------------
(* The budget. *)

\* EvaluateBudget, in percent of the target.
EvaluateBudget(used) ==
    LET reaches(p) == 100 * used >= p * Target IN
    IF Target = 0 THEN "ok"
    ELSE IF reaches(98) THEN "emergency"
    ELSE IF reaches(95) THEN "critical"
    ELSE IF reaches(80) THEN "warning"
    ELSE "ok"

\* evaluateBudgetAndRetention: a change of state is logged (both events have id
\* 0; the write may fail).  (The retention that follows is in module Rollups.)
EvaluateBudgetNow(used) ==
    /\ paused' = (EvaluateBudget(used) = "emergency")
    /\ \/ paused' # paused /\ Insert({0})
       \/ UNCHANGED stored
    /\ UNCHANGED <<engineVars, health, boot, queue, producer, writer, previous, transitions,
                   count>>

-----------------------------------------------------------------------------
\* The process stops or crashes, and the next one starts.
Restart ==
    /\ boot < MaxBoots
    /\ boot' = boot + 1
    /\ sequence' = 0 /\ nextMessage' = 0 /\ events' = <<>>
    /\ live' = [s \in Subscriber |-> Closed]
    /\ reader' = [s \in Subscriber |-> Browser]
    /\ health' = NoBatch.health
    /\ queue' = <<>> /\ producer' = Resting /\ writer' = Waits
    /\ paused' = FALSE
    /\ previous' = NoBatch.health
    /\ dropped' = 0 /\ made' = 0 /\ done' = 0 /\ synced' = 0
    /\ UNCHANGED <<tables, faults, forgotten>>

Init ==
    /\ EngineInit
    /\ health = NoBatch.health
    /\ queue = <<>> /\ producer = Resting /\ writer = Waits
    /\ paused = FALSE
    /\ previous = NoBatch.health
    /\ stored = {} /\ transitions = [c \in Collector |-> <<>>]
    /\ boot = 1
    /\ dropped = 0 /\ made = 0 /\ done = 0 /\ synced = 0
    /\ faults = 0 /\ forgotten = 0

Next ==
    \/ \E n \in 0..MaxBurst, h \in [Collector -> Health] : PublishSnapshot(n, h)
    \/ Enqueue \/ DropOldest \/ SendAgain
    \/ Take \/ WriteBatch
    \/ \E transient \in BOOLEAN, reached \in SUBSET Collector : WriteFails(transient, reached)
    \/ \E used \in Size : EvaluateBudgetNow(used)
    \/ Restart

Spec == Init /\ [][Next]_vars

-----------------------------------------------------------------------------
(* Properties. *)

\* The queue, the goroutines and the tables hold values of their types.
TypeOK ==
    /\ health \in [Collector -> State]
    /\ queue \in Seq(Batch) /\ Len(queue) =< QueueLimit
    /\ producer \in [at : {"idle", "drop", "send"}, batch : Batch]
    /\ writer \in [at : {"idle", "write"}, batch : Batch, attempt : 0..MaxAttempts]
    /\ paused \in BOOLEAN
    /\ previous \in [Collector -> State]
    /\ stored \subseteq [id : Id, boot : 1..MaxBoots]
    /\ transitions \in [Collector -> Seq([from : State, to : State, boot : 1..MaxBoots])]
    /\ boot \in 1..MaxBoots

InFlight == Len(queue) + (IF writer.at = "idle" THEN 0 ELSE 1)
                       + (IF producer.at = "idle" THEN 0 ELSE 1)

\* Every batch taken from the engine is on the queue, in the hands of one of the
\* two goroutines, finished, or counted as dropped, once: the steps of the drop
\* race with the writer, and the number is what the interface reports.
BatchesAccounted == made = dropped + done + InFlight

\* Batches are written in the order of their snapshots, and the newest is never
\* the one that gives way: once the oldest was dropped there is room, since only
\* the writer has touched the queue in between.
NewestKept ==
    /\ \A i \in 1..(Len(queue) - 1) : queue[i].sequence =< queue[i + 1].sequence
    /\ queue # <<>> => writer.batch.sequence =< Head(queue).sequence
    /\ producer.at = "send" => Len(queue) < QueueLimit

\* A dropped or failed batch loses no event: once a later batch is written, every
\* event that is still in the ring has a row.  (The row may be one of an earlier
\* process: events are numbered from 1 by every process, and the insert ignores
\* an id that exists.)
EventsStored ==
    \A e \in ToSet(events) : e =< synced => \E row \in stored : row.id = e

\* Where the recorded transitions of a collector do not follow each other within
\* a process, the state the writer remembers included.
Breaks(c) ==
    LET rows == transitions[c]
        last == Len(rows)
    IN {i \in 1..last :
            IF i < last /\ rows[i + 1].boot = rows[i].boot
            THEN rows[i + 1].from # rows[i].to
            ELSE rows[i].boot = boot /\ previous[c] # rows[i].to}

\* The recorded transitions of a collector form a chain: batches that are dropped,
\* repeated or fail break it nowhere, except that a commit that fails after the
\* states were remembered hides the transitions of its batch from the retry.
TransitionsChain ==
    \A c \in Collector :
        /\ Cardinality(Breaks(c)) =< forgotten
        /\ \A i \in DOMAIN transitions[c] : transitions[c][i].from # transitions[c][i].to

\* The queue of batches: typed, nothing is lost uncounted or written out of order,
\* and the newest batch is never the one that gives way.
QueueInv == TypeOK /\ BatchesAccounted /\ NewestKept
=============================================================================

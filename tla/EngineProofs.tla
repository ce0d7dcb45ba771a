---------------------------- MODULE EngineProofs ----------------------------
(***************************************************************************)
(* Machine-checked proofs about the metrics engine of module Engine and    *)
(* about the two modules that use it.  Of Persistence: the bounded queue   *)
(* of batches, the events that reach the database and the chain of         *)
(* collector transitions, for every set of collectors, capacity of the     *)
(* queue, size of the ring, number of attempts, of storage errors and of   *)
(* processes.  Of Sampler: the live streams, the events of Docker, the     *)
(* rates of the host, the metadata cache and what a pass says of the       *)
(* resources, for every set of containers and readers and every capacity.  *)
(***************************************************************************)
EXTENDS Persistence, Sampler, SequenceTheorems, FiniteSetTheorems, TLAPS

-----------------------------------------------------------------------------
(* The inductive invariants. *)

\* The counters are numbers, and nothing is newer than the counter of messages.
Numbered ==
    /\ sequence \in Id /\ nextMessage \in Id /\ sequence =< nextMessage
    /\ events \in Seq(Id) /\ \A e \in ToSet(events) : e =< nextMessage
    /\ dropped \in Nat /\ made \in Nat /\ done \in Nat
    /\ synced \in Nat /\ faults \in Nat /\ forgotten \in Nat

Typed == TypeOK /\ Numbered

\* The part of it that is the engine's.
RingNumbered ==
    /\ sequence \in Id /\ nextMessage \in Id /\ sequence =< nextMessage
    /\ events \in Seq(Id) /\ \A e \in ToSet(events) : e =< nextMessage

\* The batches in flight, from the writer's over the queue to the producer's, are
\* in the order of their snapshots; an idle goroutine holds none.
Ordered ==
    /\ \A i \in 1..Len(queue) :
          /\ queue[i].sequence =< sequence
          /\ writer.batch.sequence =< queue[i].sequence
          /\ \A j \in 1..Len(queue) : i =< j => queue[i].sequence =< queue[j].sequence
          /\ producer.at # "idle" => queue[i].sequence =< producer.batch.sequence
    /\ producer.batch.sequence =< sequence
    /\ producer.at # "idle" => writer.batch.sequence =< producer.batch.sequence
    /\ writer.batch.sequence =< sequence
    /\ writer.at = "idle" => writer.batch.sequence = 0
    /\ producer.at = "send" => Len(queue) < QueueLimit

\* The newest message a batch holds.
Newest(b) ==
    IF b.events # <<>> /\ Last(b.events) > b.sequence THEN Last(b.events) ELSE b.sequence

\* Of the events in a ring, a batch has all that are not newer than itself, and is
\* itself not newer than the counter n.
Complete(b, ring, n) ==
    /\ Newest(b) \in Nat /\ Newest(b) =< n
    /\ \A e \in ToSet(ring) : e =< Newest(b) => e \in ToSet(b.events)

\* Every batch in flight holds the events of the ring up to its snapshot.
AllComplete ==
    /\ \A i \in 1..Len(queue) : Complete(queue[i], events, nextMessage)
    /\ writer.at # "idle" => Complete(writer.batch, events, nextMessage)
    /\ producer.at # "idle" => Complete(producer.batch, events, nextMessage)
    /\ synced =< nextMessage

Row == [from : State, to : State, boot : 1..MaxBoots]

\* The rows of one collector: in the order of the processes that wrote them, of
\* this process or an earlier one, each a change of state.
Chain(log, current) ==
    /\ \A i \in 1..Len(log) : log[i].boot =< current /\ log[i].from # log[i].to
    /\ \A i, j \in 1..Len(log) : i =< j => log[i].boot =< log[j].boot

Chained == \A c \in Collector : Chain(transitions[c], boot)

-----------------------------------------------------------------------------
(* Sequences. *)

\* The elements of a sequence are the values at its positions.
LEMMA Elements ==
    ASSUME NEW S, NEW s \in Seq(S)
    PROVE  /\ Len(s) \in Nat
           /\ \A i \in 1..Len(s) : s[i] \in S /\ s[i] \in ToSet(s)
           /\ \A e \in ToSet(s) : \E i \in 1..Len(s) : s[i] = e
           /\ ToSet(s) \subseteq S
  BY LenProperties, ElementOfSeq DEF ToSet

\* Ids are numbers.
LEMMA IdsNat ==
    ASSUME NEW s \in Seq(Id)
    PROVE  \A e \in ToSet(s) : e \in Nat
<1>1. ToSet(s) \subseteq Id
  BY Elements
<1> QED BY <1>1 DEF Id

\* The last element of a sequence.
LEMMA LastElement ==
    ASSUME NEW S, NEW s \in Seq(S), s # <<>>
    PROVE  Last(s) \in S /\ Last(s) \in ToSet(s)
<1>1. Len(s) \in 1..Len(s)
  BY EmptySeq, LenProperties
<1> QED BY <1>1, Elements DEF Last

\* A batch taken off the queue, and the ones behind it.
LEMMA TakenOff ==
    ASSUME NEW S, NEW s \in Seq(S), s # <<>>
    PROVE  /\ Head(s) = s[1] /\ Head(s) \in S /\ 1 \in 1..Len(s)
           /\ Tail(s) \in Seq(S) /\ Len(Tail(s)) = Len(s) - 1 /\ Len(s) \in Nat
           /\ \A i \in 1..Len(Tail(s)) : i + 1 \in 1..Len(s) /\ Tail(s)[i] = s[i + 1]
<1>1. Len(s) \in Nat \ {0}
  BY EmptySeq
<1>2. Head(s) = s[1]
  BY DEF Head
<1>3. /\ Head(s) \in S /\ Tail(s) \in Seq(S) /\ Len(Tail(s)) = Len(s) - 1
      /\ \A i \in 1..Len(Tail(s)) : Tail(s)[i] = s[i + 1]
  BY HeadTailProperties
<1> QED BY <1>1, <1>2, <1>3

\* A batch put on the queue.
LEMMA PutOn ==
    ASSUME NEW S, NEW s \in Seq(S), NEW x \in S
    PROVE  /\ Append(s, x) \in Seq(S) /\ Len(s) \in Nat /\ Len(Append(s, x)) = Len(s) + 1
           /\ \A i \in 1..Len(Append(s, x)) :
                 \/ i \in 1..Len(s) /\ Append(s, x)[i] = s[i]
                 \/ i = Len(s) + 1 /\ Append(s, x)[i] = x
<1>1. /\ Append(s, x) \in Seq(S) /\ Len(Append(s, x)) = Len(s) + 1
      /\ \A i \in 1..Len(s) : Append(s, x)[i] = s[i]
      /\ Append(s, x)[Len(s) + 1] = x
  BY AppendProperties
<1>2. Len(s) \in Nat
  BY LenProperties
<1> QED BY <1>1, <1>2

-----------------------------------------------------------------------------
(* The engine. *)

\* The ids of a burst are numbers above the counter, in their order.
LEMMA BurstIds ==
    ASSUME RingNumbered, NEW n \in Nat, nextMessage + 1 + n =< MaxMessages
    PROVE  /\ Burst(n) \in Seq(Id) /\ Len(Burst(n)) = n
           /\ \A i \in 1..n : Burst(n)[i] = nextMessage + 1 + i
           /\ \A e \in ToSet(Burst(n)) : e \in Id /\ nextMessage + 1 < e /\ e =< nextMessage + 1 + n
<1>1. nextMessage \in Nat /\ MaxMessages \in Nat
  BY EngineAssumption DEF RingNumbered, Id
<1>2. \A i \in 1..n : nextMessage + 1 + i \in Id
  BY <1>1 DEF Id
<1>3. Burst(n) \in [1..n -> Id] /\ \A i \in 1..n : Burst(n)[i] = nextMessage + 1 + i
  BY <1>2 DEF Burst
<1>4. Burst(n) \in Seq(Id) /\ Len(Burst(n)) = n
  BY <1>3
<1>5. ASSUME NEW e \in ToSet(Burst(n))
      PROVE  e \in Id /\ nextMessage + 1 < e /\ e =< nextMessage + 1 + n
  <2>1. PICK i \in 1..n : e = Burst(n)[i]
    BY <1>4, Elements
  <2>2. e = nextMessage + 1 + i
    BY <1>3, <2>1
  <2> QED BY <1>1, <1>2, <2>2
<1> QED BY <1>3, <1>4, <1>5

\* Publishing assigns ids above the counter: the ring keeps a part of what it had
\* and gains events of the burst, which are newer than every earlier message.
LEMMA PublishedRing ==
    ASSUME RingNumbered, NEW n \in Nat, Publish(n)
    PROVE  /\ sequence' \in Id /\ nextMessage' \in Id /\ sequence' =< nextMessage'
           /\ nextMessage < nextMessage' /\ sequence =< sequence'
           /\ events' \in Seq(Id) /\ Len(events') =< RingSize
           /\ \A e \in ToSet(events') : e \in ToSet(events) \/ e \in ToSet(Burst(n))
           /\ \A e \in ToSet(events') : e \in ToSet(events) \/ nextMessage < e
           /\ \A e \in ToSet(events') : e =< nextMessage'
<1> DEFINE b == Burst(n)
           all == events \o b
           first == IF Len(all) > RingSize THEN Len(all) - RingSize + 1 ELSE 1
<1>1. /\ n \in Nat /\ nextMessage \in Nat /\ sequence \in Nat /\ MaxMessages \in Nat
      /\ RingSize \in Nat \ {0} /\ sequence =< nextMessage
  BY EngineAssumption DEF RingNumbered, Id
<1>2. /\ sequence' = nextMessage + 1 /\ nextMessage' = nextMessage + 1 + n
      /\ nextMessage + 1 + n =< MaxMessages /\ events' = SubSeq(all, first, Len(all))
  BY DEF Publish
<1>3. /\ sequence' \in Id /\ nextMessage' \in Id /\ sequence' =< nextMessage'
      /\ nextMessage < nextMessage' /\ sequence =< sequence'
  BY <1>1, <1>2 DEF Id
<1>4. /\ b \in Seq(Id) /\ Len(b) = n
      /\ \A e \in ToSet(b) : nextMessage + 1 < e /\ e \in Id /\ e =< nextMessage + 1 + n
  BY <1>2, BurstIds
<1>5. events \in Seq(Id)
  BY DEF RingNumbered
<1> HIDE DEF b
<1>6. /\ all \in Seq(Id) /\ Len(all) = Len(events) + n
      /\ \A i \in 1..(Len(events) + n) :
            all[i] = IF i =< Len(events) THEN events[i] ELSE b[i - Len(events)]
  BY <1>4, <1>5, ConcatProperties
<1>7. Len(events) \in Nat /\ Len(all) \in Nat
  BY <1>5, <1>6, LenProperties
<1>8. \A i \in 1..Len(all) : all[i] \in Id /\ (all[i] \in ToSet(events) \/ all[i] \in ToSet(b))
  <2> SUFFICES ASSUME NEW i \in 1..Len(all)
               PROVE  all[i] \in Id /\ (all[i] \in ToSet(events) \/ all[i] \in ToSet(b))
    OBVIOUS
  <2>1. all[i] \in Id
    BY <1>6, Elements
  <2>2. CASE i =< Len(events)
    <3>1. i \in 1..Len(events) /\ all[i] = events[i]
      BY <1>1, <1>6, <1>7, <2>2
    <3> QED BY <1>5, <2>1, <3>1, Elements
  <2>3. CASE ~(i =< Len(events))
    <3>1. i - Len(events) \in 1..Len(b) /\ all[i] = b[i - Len(events)]
      BY <1>1, <1>4, <1>6, <1>7, <2>3
    <3> QED BY <1>4, <2>1, <3>1, Elements
  <2> QED BY <2>2, <2>3
<1> HIDE DEF all
<1>9. first \in 1..(Len(all) + 1) /\ Len(all) - first + 1 =< RingSize
  BY <1>1, <1>7
<1> HIDE DEF first
<1>10. /\ events' \in Seq(Id)
       /\ Len(events') = IF first =< Len(all) THEN Len(all) - first + 1 ELSE 0
       /\ \A i \in 1..(Len(all) - first + 1) : events'[i] = all[first + i - 1]
  <2>1. \A i \in first..Len(all) : all[i] \in Id
    BY <1>8, <1>9
  <2> QED BY <1>2, <1>7, <1>9, <2>1, SubSeqProperties
<1>11. \A e \in ToSet(events') : \E i \in 1..Len(all) : e = all[i]
  <2> SUFFICES ASSUME NEW e \in ToSet(events')
               PROVE  \E i \in 1..Len(all) : e = all[i]
    OBVIOUS
  <2>1. PICK i \in 1..Len(events') : e = events'[i]
    BY <1>10, Elements
  <2>2. first + i - 1 \in 1..Len(all) /\ i \in 1..(Len(all) - first + 1)
    BY <1>7, <1>9, <1>10
  <2> QED BY <1>10, <2>1, <2>2
<1>12. Len(events') =< RingSize
  BY <1>1, <1>7, <1>9, <1>10
<1>13. \A e \in ToSet(events') : e \in ToSet(events) \/ e \in ToSet(b)
  BY <1>8, <1>11
<1>14. \A e \in ToSet(events') : (e \in ToSet(events) \/ nextMessage < e) /\ e =< nextMessage'
  <2> SUFFICES ASSUME NEW e \in ToSet(events')
               PROVE  (e \in ToSet(events) \/ nextMessage < e) /\ e =< nextMessage'
    OBVIOUS
  <2>1. CASE e \in ToSet(events)
    <3>1. e \in Nat /\ e =< nextMessage
      BY <1>5, <2>1, IdsNat DEF RingNumbered
    <3> QED BY <1>1, <1>2, <2>1, <3>1
  <2>2. CASE e \in ToSet(b)
    <3>1. e \in Nat /\ nextMessage + 1 < e /\ e =< nextMessage + 1 + n
      BY <1>4, <2>2 DEF Id
    <3> QED BY <1>1, <1>2, <3>1
  <2> QED BY <1>13, <2>1, <2>2
<1> QED BY <1>3, <1>10, <1>12, <1>13, <1>14 DEF b

\* A snapshot of the engine that Persistence publishes.
LEMMA SnapshotPublished ==
    ASSUME Numbered, NEW n \in 0..MaxBurst, Publish(n)
    PROVE  /\ sequence' \in Id /\ nextMessage' \in Id /\ sequence' =< nextMessage'
           /\ nextMessage < nextMessage' /\ sequence =< sequence'
           /\ events' \in Seq(Id)
           /\ \A e \in ToSet(events') : e \in ToSet(events) \/ nextMessage < e
           /\ \A e \in ToSet(events') : e =< nextMessage'
<1>1. RingNumbered /\ n \in Nat
  BY DEF Numbered, RingNumbered
<1> QED BY <1>1, PublishedRing

-----------------------------------------------------------------------------
(* Types. *)

\* A batch of no process, and the snapshot of a fresh process.
LEMMA FreshTyped ==
    /\ NoBatch \in Batch /\ NoBatch.sequence = 0 /\ NoBatch.events = <<>>
    /\ NoBatch.health \in [Collector -> State]
    /\ Resting \in [at : {"idle", "drop", "send"}, batch : Batch]
    /\ Waits \in [at : {"idle", "write"}, batch : Batch, attempt : 0..MaxAttempts]
<1>1. <<>> \in Seq(Id) /\ 0 \in Id /\ 0 \in 0..MaxAttempts
  BY EmptySeq, EngineAssumption, PersistenceAssumption DEF Id
<1>2. [c \in Collector |-> Unknown] \in [Collector -> State]
  BY DEF State
<1>3. NoBatch \in Batch
  BY <1>1, <1>2 DEF NoBatch, Batch
<1>4. /\ NoBatch.sequence = 0 /\ NoBatch.events = <<>>
      /\ NoBatch.health \in [Collector -> State]
  BY <1>2 DEF NoBatch
<1> QED BY <1>1, <1>3, <1>4 DEF Resting, Waits

\* The parts of a batch.
LEMMA BatchParts ==
    ASSUME NEW b \in Batch
    PROVE  b.sequence \in Id /\ b.events \in Seq(Id) /\ b.health \in [Collector -> State]
  BY DEF Batch

\* The batch the producer takes.
LEMMA TakenTyped ==
    ASSUME Typed
    PROVE  /\ PersistenceBatch \in Batch
           /\ PersistenceBatch.sequence = sequence /\ PersistenceBatch.events = events
  BY DEF Typed, TypeOK, Numbered, PersistenceBatch, Batch

\* The newest message of a batch is a number.
LEMMA NewestNat ==
    ASSUME NEW b \in Batch
    PROVE  Newest(b) \in Nat
<1>1. b.sequence \in Id /\ b.events \in Seq(Id)
  BY BatchParts
<1>2. CASE b.events # <<>> /\ Last(b.events) > b.sequence
  <2>1. Last(b.events) \in Id
    BY <1>1, <1>2, LastElement
  <2> QED BY <1>2, <2>1 DEF Newest, Id
<1>3. CASE ~(b.events # <<>> /\ Last(b.events) > b.sequence)
  BY <1>1, <1>3 DEF Newest, Id
<1> QED BY <1>2, <1>3

\* Insert adds rows of this process only, and removes none.
LEMMA InsertTyped ==
    ASSUME stored \subseteq [id : Id, boot : 1..MaxBoots], boot \in 1..MaxBoots,
           NEW ids \in SUBSET Id, Insert(ids)
    PROVE  /\ stored' \subseteq [id : Id, boot : 1..MaxBoots]
           /\ stored \subseteq stored'
           /\ \A i \in ids : \E row \in stored' : row.id = i
<1>1. stored' = stored \cup {[id |-> i, boot |-> boot] :
                              i \in {k \in ids : \A row \in stored : row.id # k}}
  BY DEF Insert
<1>2. stored' \subseteq [id : Id, boot : 1..MaxBoots]
  BY <1>1
<1>3. ASSUME NEW i \in ids PROVE \E row \in stored' : row.id = i
  <2>1. CASE \E row \in stored : row.id = i
    BY <1>1, <2>1
  <2>2. CASE \A row \in stored : row.id # i
    <3>1. [id |-> i, boot |-> boot] \in stored'
      BY <1>1, <2>2
    <3> QED BY <3>1
  <2> QED BY <2>1, <2>2
<1> QED BY <1>1, <1>2, <1>3

\* The types hold of the first process.
LEMMA TypedInit == Init => Typed
<1> SUFFICES ASSUME Init PROVE Typed
  OBVIOUS
<1>1. <<>> \in Seq(Id) /\ <<>> \in Seq(Batch) /\ Len(<<>>) = 0
      /\ <<>> \in Seq([from : State, to : State, boot : 1..MaxBoots]) /\ ToSet(<<>>) = {}
  BY EmptySeq DEF ToSet
<1>2. boot \in 1..MaxBoots /\ 0 =< QueueLimit /\ 0 \in Id
  BY EngineAssumption, PersistenceAssumption DEF Init, Id
<1>3. /\ queue \in Seq(Batch) /\ Len(queue) =< QueueLimit
      /\ stored \subseteq [id : Id, boot : 1..MaxBoots]
      /\ transitions \in [Collector -> Seq([from : State, to : State, boot : 1..MaxBoots])]
  BY <1>1, <1>2 DEF Init
<1>4. paused \in BOOLEAN
  BY DEF Init
<1>5. TypeOK
  BY <1>2, <1>3, <1>4, FreshTyped DEF Init, TypeOK
<1>6. Numbered
  BY <1>1, <1>2 DEF Init, EngineInit, Numbered
<1> QED BY <1>5, <1>6 DEF Typed

\* What Remember leaves is a state of every collector.
LEMMA RememberTyped ==
    ASSUME previous \in [Collector -> State], NEW b \in Batch, NEW reached, Remember(b, reached)
    PROVE  /\ previous' \in [Collector -> State]
           /\ \A c \in Collector : previous'[c] = IF c \in reached THEN b.health[c] ELSE previous[c]
<1>1. b.health \in [Collector -> State]
  BY BatchParts
<1> QED BY <1>1 DEF Remember

\* Every step preserves the types.
LEMMA TypedStep ==
    ASSUME Typed, [Next]_vars
    PROVE  Typed'
<1> USE DEF Row
<1>1. /\ TypeOK /\ Numbered
      /\ queue \in Seq(Batch) /\ Len(queue) \in Nat /\ QueueLimit \in Nat
      /\ Len(queue) =< QueueLimit
  <2>1. /\ TypeOK /\ Numbered /\ queue \in Seq(Batch) /\ Len(queue) =< QueueLimit
    BY DEF Typed, TypeOK
  <2> QED BY <2>1, LenProperties, PersistenceAssumption
<1> USE DEF engineVars, engine, control, tables, count
<1>2. ASSUME NEW n \in 0..MaxBurst, NEW h \in [Collector -> Health], PublishSnapshot(n, h)
      PROVE  Typed'
  <2>1. /\ sequence' \in Id /\ nextMessage' \in Id /\ sequence' =< nextMessage'
        /\ nextMessage < nextMessage' /\ events' \in Seq(Id)
        /\ \A e \in ToSet(events') : e =< nextMessage'
    BY <1>1, <1>2, SnapshotPublished DEF PublishSnapshot
  <2>4. Numbered'
    BY <1>1, <1>2, <2>1 DEF PublishSnapshot, Numbered
  <2>5. health' \in [Collector -> State]
    BY <1>2 DEF PublishSnapshot, State
  <2>6. TypeOK'
    BY <1>1, <1>2, <2>5 DEF PublishSnapshot, TypeOK
  <2> QED BY <2>4, <2>6 DEF Typed
<1>3. CASE Enqueue
  <2>1. Numbered'
    BY <1>1, <1>3 DEF Enqueue, Numbered
  <2>2. /\ PersistenceBatch \in Batch
        /\ Append(queue, PersistenceBatch) \in Seq(Batch)
        /\ Len(Append(queue, PersistenceBatch)) = Len(queue) + 1
    BY <1>1, TakenTyped, PutOn DEF Typed
  <2>3. queue' \in Seq(Batch) /\ Len(queue') =< QueueLimit
    <3>1. \/ queue' = queue
          \/ Len(queue) < QueueLimit /\ queue' = Append(queue, PersistenceBatch)
      BY <1>3 DEF Enqueue
    <3> QED BY <1>1, <2>2, <3>1
  <2>4. producer' \in [at : {"idle", "drop", "send"}, batch : Batch]
    BY <1>1, <1>3, <2>2 DEF Enqueue, TypeOK
  <2>5. TypeOK'
    BY <1>1, <1>3, <2>3, <2>4 DEF Enqueue, TypeOK
  <2> QED BY <2>1, <2>5 DEF Typed
<1>4. CASE DropOldest
  <2>1. Numbered'
    BY <1>1, <1>4 DEF DropOldest, Numbered
  <2>2. queue # <<>> => Tail(queue) \in Seq(Batch) /\ Len(Tail(queue)) = Len(queue) - 1
    BY <1>1, TakenOff
  <2>3. queue' \in Seq(Batch) /\ Len(queue') =< QueueLimit
    BY <1>1, <1>4, <2>2 DEF DropOldest
  <2>4. producer' \in [at : {"idle", "drop", "send"}, batch : Batch]
    BY <1>1, <1>4 DEF DropOldest, TypeOK
  <2>5. TypeOK'
    BY <1>1, <1>4, <2>3, <2>4 DEF DropOldest, TypeOK
  <2> QED BY <2>1, <2>5 DEF Typed
<1>5. CASE SendAgain
  <2>1. Numbered'
    BY <1>1, <1>5 DEF SendAgain, Numbered
  <2>2. producer.batch \in Batch
    BY <1>1 DEF TypeOK
  <2>3. /\ Append(queue, producer.batch) \in Seq(Batch)
        /\ Len(Append(queue, producer.batch)) = Len(queue) + 1
    BY <1>1, <2>2, PutOn
  <2>4. queue' \in Seq(Batch) /\ Len(queue') =< QueueLimit
    BY <1>1, <1>5, <2>3 DEF SendAgain
  <2>5. producer' \in [at : {"idle", "drop", "send"}, batch : Batch]
    BY <1>5, FreshTyped DEF SendAgain
  <2>6. TypeOK'
    BY <1>1, <1>5, <2>4, <2>5 DEF SendAgain, TypeOK
  <2> QED BY <2>1, <2>6 DEF Typed
<1>6. CASE Take
  <2>1. Numbered'
    BY <1>1, <1>6 DEF Take, Numbered
  <2>2. /\ Tail(queue) \in Seq(Batch) /\ Len(Tail(queue)) = Len(queue) - 1
        /\ Head(queue) \in Batch
    BY <1>1, <1>6, TakenOff DEF Take
  <2>3. queue' \in Seq(Batch) /\ Len(queue') =< QueueLimit
    BY <1>1, <1>6, <2>2 DEF Take
  <2>4. 1 \in 0..MaxAttempts
    BY PersistenceAssumption
  <2>5. writer' \in [at : {"idle", "write"}, batch : Batch, attempt : 0..MaxAttempts]
    BY <1>6, <2>2, <2>4 DEF Take
  <2>6. TypeOK'
    BY <1>1, <1>6, <2>3, <2>5 DEF Take, TypeOK
  <2> QED BY <2>1, <2>6 DEF Typed
<1>7. CASE WriteBatch
  <2> DEFINE b == writer.batch
  <2>1. b \in Batch /\ b.events \in Seq(Id) /\ b.health \in [Collector -> State]
    BY <1>1, BatchParts DEF TypeOK
  <2>2. synced' \in Nat
    <3>1. synced' = Newest(b)
      BY <1>7 DEF WriteBatch, Newest
    <3> QED BY <2>1, <3>1, NewestNat
  <2>3. Numbered'
    BY <1>1, <1>7, <2>2 DEF WriteBatch, Numbered
  <2>4. stored' \subseteq [id : Id, boot : 1..MaxBoots]
    <3>1. ToSet(b.events) \in SUBSET Id
      BY <2>1, Elements
    <3> QED BY <1>1, <1>7, <3>1, InsertTyped DEF WriteBatch, TypeOK
  <2>5. previous' \in [Collector -> State]
    BY <1>1, <1>7, <2>1, RememberTyped DEF WriteBatch, TypeOK
  <2>6. transitions' \in [Collector -> Seq(Row)]
    <3>1. ASSUME NEW c \in Collector
          PROVE  Append(transitions[c],
                        [from |-> previous[c], to |-> b.health[c], boot |-> boot]) \in Seq(Row)
      <4>1. [from |-> previous[c], to |-> b.health[c], boot |-> boot] \in Row
        BY <1>1, <2>1 DEF TypeOK
      <4>2. transitions[c] \in Seq(Row)
        BY <1>1 DEF TypeOK
      <4> HIDE DEF Row
      <4> QED BY <4>1, <4>2, PutOn
    <3>2. \A c \in Collector : transitions[c] \in Seq(Row)
      BY <1>1 DEF TypeOK
    <3> HIDE DEF Row
    <3> QED BY <1>7, <3>1, <3>2 DEF WriteBatch, Logged
  <2>7. writer' \in [at : {"idle", "write"}, batch : Batch, attempt : 0..MaxAttempts]
    BY <1>7, FreshTyped DEF WriteBatch
  <2>8. TypeOK'
    BY <1>1, <1>7, <2>4, <2>5, <2>6, <2>7 DEF WriteBatch, TypeOK
  <2> QED BY <2>3, <2>8 DEF Typed
<1>8. ASSUME NEW transient \in BOOLEAN, NEW reached \in SUBSET Collector,
             WriteFails(transient, reached)
      PROVE  Typed'
  <2>1. writer.batch \in Batch
    BY <1>1 DEF TypeOK
  <2>2. previous' \in [Collector -> State]
    BY <1>1, <1>8, <2>1, RememberTyped DEF WriteFails, TypeOK
  <2>3. done' \in Nat
    BY <1>1, <1>8 DEF WriteFails, Again, Numbered
  <2>4. writer' \in [at : {"idle", "write"}, batch : Batch, attempt : 0..MaxAttempts]
    <3>1. CASE writer' = Waits
      BY <3>1, FreshTyped
    <3>2. CASE writer.attempt < MaxAttempts /\ writer' = [writer EXCEPT !.attempt = @ + 1]
      <4>1. writer \in [at : {"idle", "write"}, batch : Batch, attempt : 0..MaxAttempts]
        BY <1>1 DEF TypeOK
      <4>2. writer.attempt + 1 \in 0..MaxAttempts
        BY <3>2, <4>1, PersistenceAssumption
      <4> QED BY <3>2, <4>1, <4>2
    <3> QED BY <1>8, <3>1, <3>2 DEF WriteFails, Again
  <2>5. faults' \in Nat /\ forgotten' \in Nat
    BY <1>1, <1>8 DEF WriteFails, Numbered
  <2>6. Numbered'
    BY <1>1, <1>8, <2>3, <2>5 DEF WriteFails, Numbered
  <2>7. TypeOK'
    BY <1>1, <1>8, <2>2, <2>4 DEF WriteFails, TypeOK
  <2> QED BY <2>6, <2>7 DEF Typed
<1>9. ASSUME NEW used \in Size, EvaluateBudgetNow(used)
      PROVE  Typed'
  <2>1. paused' \in BOOLEAN
    BY <1>9 DEF EvaluateBudgetNow
  <2>2. stored' \subseteq [id : Id, boot : 1..MaxBoots]
    <3>1. {0} \in SUBSET Id
      BY EngineAssumption DEF Id
    <3> QED BY <1>1, <1>9, <3>1, InsertTyped DEF EvaluateBudgetNow, TypeOK
  <2>3. Numbered'
    BY <1>1, <1>9 DEF EvaluateBudgetNow, Numbered
  <2>4. TypeOK'
    BY <1>1, <1>9, <2>1, <2>2 DEF EvaluateBudgetNow, TypeOK
  <2> QED BY <2>3, <2>4 DEF Typed
<1>10. CASE Restart
  <2>1. /\ <<>> \in Seq(Id) /\ <<>> \in Seq(Batch) /\ Len(<<>>) = 0 /\ ToSet(<<>>) = {}
        /\ 0 \in Id /\ 0 \in Nat
    BY EmptySeq, EngineAssumption DEF Id, ToSet
  <2>2. boot' \in 1..MaxBoots
    BY <1>1, <1>10, PersistenceAssumption DEF Restart, TypeOK
  <2>3. Numbered'
    BY <1>1, <1>10, <2>1 DEF Restart, Numbered
  <2>4. paused' \in BOOLEAN
    BY <1>10 DEF Restart
  <2>5. /\ health' \in [Collector -> State] /\ previous' \in [Collector -> State]
        /\ producer' \in [at : {"idle", "drop", "send"}, batch : Batch]
        /\ writer' \in [at : {"idle", "write"}, batch : Batch, attempt : 0..MaxAttempts]
        /\ queue' \in Seq(Batch) /\ Len(queue') =< QueueLimit
    BY <1>1, <1>10, <2>1, FreshTyped DEF Restart
  <2>6. stored' = stored /\ transitions' = transitions
    BY <1>10 DEF Restart
  <2>7. TypeOK'
    BY <1>1, <2>2, <2>4, <2>5, <2>6 DEF TypeOK
  <2> QED BY <2>3, <2>7 DEF Typed
<1>11. CASE UNCHANGED vars
  <2>1. TypeOK'
    BY <1>1, <1>11 DEF vars, TypeOK
  <2>2. Numbered'
    BY <1>1, <1>11 DEF vars, Numbered
  <2> QED BY <2>1, <2>2 DEF Typed
<1> QED BY <1>2, <1>3, <1>4, <1>5, <1>6, <1>7, <1>8, <1>9, <1>10, <1>11 DEF Next

-----------------------------------------------------------------------------
(* The queue. *)

\* The numbers of the batches in flight.
LEMMA Numbers ==
    ASSUME Typed
    PROVE  /\ sequence \in Nat /\ nextMessage \in Nat /\ Len(queue) \in Nat
           /\ queue \in Seq(Batch) /\ QueueLimit \in Nat \ {0} /\ Len(queue) =< QueueLimit
           /\ \A i \in 1..Len(queue) : queue[i] \in Batch /\ queue[i].sequence \in Nat
           /\ writer.batch \in Batch /\ writer.batch.sequence \in Nat
           /\ producer.batch \in Batch /\ producer.batch.sequence \in Nat
<1>1. /\ queue \in Seq(Batch) /\ Len(queue) =< QueueLimit
      /\ writer.batch \in Batch /\ producer.batch \in Batch
  BY DEF Typed, TypeOK
<1>2. /\ sequence \in Nat /\ nextMessage \in Nat /\ QueueLimit \in Nat \ {0}
  BY PersistenceAssumption DEF Typed, Numbered, Id
<1>3. /\ Len(queue) \in Nat /\ \A i \in 1..Len(queue) : queue[i] \in Batch
  BY <1>1, Elements
<1>4. \A b \in Batch : b.sequence \in Nat
  BY BatchParts DEF Id
<1> QED BY <1>1, <1>2, <1>3, <1>4

\* Steps that leave the queue and its goroutines alone keep the order.
LEMMA OrderedUnchanged ==
    ASSUME Typed, Typed', Ordered, UNCHANGED <<queue, producer, writer>>, sequence =< sequence'
    PROVE  Ordered'
<1>1. sequence \in Nat /\ sequence' \in Nat
  BY Numbers DEF Typed, Numbered, Id
<1> QED BY <1>1, Numbers DEF Ordered

\* The batches in flight stay in the order of their snapshots.
LEMMA OrderedStep ==
    ASSUME Typed, Ordered, [Next]_vars
    PROVE  Ordered'
<1> USE DEF engineVars, engine, control, tables, count
<1>1. Typed'
  BY TypedStep
<1>2. /\ sequence \in Nat /\ Len(queue) \in Nat /\ queue \in Seq(Batch)
      /\ QueueLimit \in Nat \ {0} /\ Len(queue) =< QueueLimit
      /\ \A i \in 1..Len(queue) : queue[i] \in Batch /\ queue[i].sequence \in Nat
      /\ writer.batch.sequence \in Nat
      /\ producer.batch \in Batch /\ producer.batch.sequence \in Nat
  BY Numbers
<1>3. ASSUME NEW n \in 0..MaxBurst, NEW h \in [Collector -> Health], PublishSnapshot(n, h)
      PROVE  Ordered'
  <2>1. sequence =< sequence'
    BY <1>3, SnapshotPublished DEF PublishSnapshot, Typed
  <2> QED BY <1>1, <1>3, <2>1, OrderedUnchanged DEF PublishSnapshot
<1>4. CASE Enqueue
  <2>1. producer.at = "idle" /\ sequence' = sequence /\ writer' = writer
    BY <1>4 DEF Enqueue
  <2>2. /\ PersistenceBatch \in Batch /\ PersistenceBatch.sequence = sequence
    BY TakenTyped
  <2>3. CASE UNCHANGED <<queue, producer>>
    BY <1>1, <1>2, <2>1, <2>3, OrderedUnchanged
  <2>4. CASE queue' = Append(queue, PersistenceBatch) /\ producer' = producer
    <3>1. /\ Len(queue') = Len(queue) + 1
          /\ \A i \in 1..Len(queue') :
                \/ i \in 1..Len(queue) /\ queue'[i] = queue[i]
                \/ i = Len(queue) + 1 /\ queue'[i] = PersistenceBatch
      BY <1>2, <2>2, <2>4, PutOn
    <3>2. \A i \in 1..Len(queue') :
             /\ queue'[i].sequence =< sequence'
             /\ writer'.batch.sequence =< queue'[i].sequence
      BY <1>2, <2>1, <2>2, <3>1 DEF Ordered
    <3>3. \A i, j \in 1..Len(queue') : i =< j => queue'[i].sequence =< queue'[j].sequence
      BY <1>2, <2>1, <2>2, <3>1 DEF Ordered
    <3> QED BY <1>2, <2>1, <2>4, <3>2, <3>3 DEF Ordered
  <2>5. CASE queue' = queue /\ producer' = [at |-> "drop", batch |-> PersistenceBatch]
    <3>1. producer'.at = "drop" /\ producer'.batch.sequence = sequence
      BY <2>2, <2>5
    <3> QED BY <1>2, <2>1, <2>5, <3>1 DEF Ordered
  <2> QED BY <1>4, <2>3, <2>4, <2>5 DEF Enqueue
<1>5. CASE DropOldest
  <2>1. /\ producer.at = "drop" /\ producer'.at = "send" /\ producer'.batch = producer.batch
        /\ writer' = writer /\ sequence' = sequence
    BY <1>5 DEF DropOldest, Typed, TypeOK
  <2>2. CASE queue = <<>> /\ queue' = queue
    <3>1. Len(queue) = 0
      BY <2>2, EmptySeq
    <3> QED BY <1>2, <2>1, <2>2, <3>1 DEF Ordered
  <2>3. CASE queue # <<>> /\ queue' = Tail(queue)
    <3>1. /\ Len(queue') = Len(queue) - 1
          /\ \A i \in 1..Len(queue') : i + 1 \in 1..Len(queue) /\ queue'[i] = queue[i + 1]
      BY <1>2, <2>3, TakenOff
    <3>2. \A i \in 1..Len(queue') :
             /\ queue'[i].sequence =< sequence'
             /\ writer'.batch.sequence =< queue'[i].sequence
             /\ queue'[i].sequence =< producer'.batch.sequence
      <4> SUFFICES ASSUME NEW i \in 1..Len(queue')
                   PROVE  /\ queue'[i].sequence =< sequence'
                          /\ writer'.batch.sequence =< queue'[i].sequence
                          /\ queue'[i].sequence =< producer'.batch.sequence
        OBVIOUS
      <4>1. i + 1 \in 1..Len(queue) /\ queue'[i] = queue[i + 1]
        BY <3>1
      <4>2. /\ queue[i + 1].sequence =< sequence
            /\ writer.batch.sequence =< queue[i + 1].sequence
            /\ queue[i + 1].sequence =< producer.batch.sequence
        BY <2>1, <4>1 DEF Ordered
      <4> QED BY <2>1, <4>1, <4>2
    <3>3. \A i, j \in 1..Len(queue') : i =< j => queue'[i].sequence =< queue'[j].sequence
      <4> SUFFICES ASSUME NEW i \in 1..Len(queue'), NEW j \in 1..Len(queue'), i =< j
                   PROVE  queue'[i].sequence =< queue'[j].sequence
        OBVIOUS
      <4>1. /\ i + 1 \in 1..Len(queue) /\ queue'[i] = queue[i + 1]
            /\ j + 1 \in 1..Len(queue) /\ queue'[j] = queue[j + 1]
        BY <3>1
      <4>2. i + 1 =< j + 1
        BY <1>2, <3>1
      <4>3. queue[i + 1].sequence =< queue[j + 1].sequence
        BY <4>1, <4>2 DEF Ordered
      <4> QED BY <4>1, <4>3
    <3>4. Len(queue') < QueueLimit
      BY <1>2, <3>1
    <3> QED BY <2>1, <3>2, <3>3, <3>4 DEF Ordered
  <2> QED BY <1>5, <2>2, <2>3 DEF DropOldest
<1>6. CASE SendAgain
  <2>1. /\ producer.at = "send" /\ producer' = Resting
        /\ writer' = writer /\ sequence' = sequence
        /\ queue' = Append(queue, producer.batch)
    BY <1>6 DEF SendAgain, Ordered
  <2>2. producer'.at = "idle" /\ producer'.batch.sequence = 0
    BY <2>1, FreshTyped DEF Resting
  <2>3. /\ Len(queue') = Len(queue) + 1
        /\ \A i \in 1..Len(queue') :
              \/ i \in 1..Len(queue) /\ queue'[i] = queue[i]
              \/ i = Len(queue) + 1 /\ queue'[i] = producer.batch
    BY <1>2, <2>1, PutOn
  <2>4. \A i \in 1..Len(queue') :
           /\ queue'[i].sequence =< sequence'
           /\ writer'.batch.sequence =< queue'[i].sequence
    BY <1>2, <2>1, <2>3 DEF Ordered
  <2>5. \A i, j \in 1..Len(queue') : i =< j => queue'[i].sequence =< queue'[j].sequence
    BY <1>2, <2>1, <2>3 DEF Ordered
  <2> QED BY <1>2, <2>1, <2>2, <2>4, <2>5 DEF Ordered
<1>7. CASE Take
  <2>1. /\ queue # <<>> /\ producer' = producer /\ sequence' = sequence
        /\ queue' = Tail(queue) /\ writer'.at = "write" /\ writer'.batch = Head(queue)
    BY <1>7 DEF Take
  <2>2. /\ Head(queue) = queue[1] /\ 1 \in 1..Len(queue) /\ Len(queue') = Len(queue) - 1
        /\ \A i \in 1..Len(queue') : i + 1 \in 1..Len(queue) /\ queue'[i] = queue[i + 1]
    BY <1>2, <2>1, TakenOff
  <2> QED BY <1>2, <2>1, <2>2 DEF Ordered
<1>8. ASSUME writer' = Waits, UNCHANGED <<queue, producer, sequence>>
      PROVE  Ordered'
  <2>1. writer'.at = "idle" /\ writer'.batch.sequence = 0
    BY <1>8, FreshTyped DEF Waits
  <2> QED BY <1>2, <1>8, <2>1 DEF Ordered
<1>9. CASE WriteBatch
  BY <1>8, <1>9 DEF WriteBatch
<1>10. ASSUME NEW transient \in BOOLEAN, NEW reached \in SUBSET Collector,
              WriteFails(transient, reached)
       PROVE  Ordered'
  <2>1. UNCHANGED <<queue, producer, sequence>>
    BY <1>10 DEF WriteFails
  <2>2. CASE writer' = Waits
    BY <1>8, <2>1, <2>2
  <2>3. CASE writer' = [writer EXCEPT !.attempt = @ + 1]
    <3>1. writer'.at = writer.at /\ writer'.batch = writer.batch
      BY <2>3 DEF Typed, TypeOK
    <3> QED BY <2>1, <3>1 DEF Ordered
  <2> QED BY <1>10, <2>2, <2>3 DEF WriteFails, Again
<1>11. ASSUME NEW used \in Size, EvaluateBudgetNow(used)
       PROVE  Ordered'
  <2>1. UNCHANGED <<queue, producer, writer, sequence>>
    BY <1>11 DEF EvaluateBudgetNow
  <2> QED BY <1>1, <1>2, <2>1, OrderedUnchanged
<1>12. CASE Restart
  <2>1. /\ queue' = <<>> /\ Len(queue') = 0 /\ sequence' = 0
        /\ producer'.at = "idle" /\ producer'.batch.sequence = 0
        /\ writer'.at = "idle" /\ writer'.batch.sequence = 0
    BY <1>12, FreshTyped, EmptySeq DEF Restart, Resting, Waits
  <2> QED BY <2>1 DEF Ordered
<1>13. CASE UNCHANGED vars
  BY <1>1, <1>2, <1>13, OrderedUnchanged DEF vars
<1> QED
  BY <1>3, <1>4, <1>5, <1>6, <1>7, <1>9, <1>10, <1>11, <1>12, <1>13 DEF Next

\* The first process has no batches.
LEMMA QueueInit == Init => Ordered /\ BatchesAccounted
<1> SUFFICES ASSUME Init PROVE Ordered /\ BatchesAccounted
  OBVIOUS
<1>1. /\ queue = <<>> /\ Len(queue) = 0 /\ sequence = 0
      /\ producer.at = "idle" /\ producer.batch.sequence = 0
      /\ writer.at = "idle" /\ writer.batch.sequence = 0
      /\ made = 0 /\ dropped = 0 /\ done = 0
  BY FreshTyped, EmptySeq DEF Init, EngineInit, Resting, Waits
<1> QED BY <1>1 DEF Ordered, BatchesAccounted, InFlight

\* Every step moves a batch, or finishes or drops and counts it.
LEMMA AccountedStep ==
    ASSUME Typed, Ordered, BatchesAccounted, [Next]_vars
    PROVE  BatchesAccounted'
<1> USE DEF engineVars, engine, control, tables, count
<1>1. /\ Len(queue) \in Nat /\ queue \in Seq(Batch) /\ QueueLimit \in Nat \ {0}
      /\ producer.batch \in Batch
  BY Numbers
<1>2. made \in Nat /\ dropped \in Nat /\ done \in Nat
  BY DEF Typed, Numbered
<1> DEFINE Taken(w) == IF w.at = "idle" THEN 0 ELSE 1
<1>4. made = dropped + done + (Len(queue) + Taken(writer) + Taken(producer))
  BY DEF BatchesAccounted, InFlight
<1>5. /\ \A w : w.at = "idle" => Taken(w) = 0
      /\ \A w : w.at # "idle" => Taken(w) = 1
  OBVIOUS
<1> SUFFICES made' = dropped' + done' + (Len(queue') + Taken(writer') + Taken(producer'))
  BY DEF BatchesAccounted, InFlight
<1> HIDE DEF Taken
<1>6. ASSUME UNCHANGED <<queue, producer, writer, made, dropped, done>>
      PROVE  made' = dropped' + done' + (Len(queue') + Taken(writer') + Taken(producer'))
  BY <1>4, <1>6
<1>7. ASSUME NEW n \in 0..MaxBurst, NEW h \in [Collector -> Health], PublishSnapshot(n, h)
      PROVE  UNCHANGED <<queue, producer, writer, made, dropped, done>>
  BY <1>7 DEF PublishSnapshot
<1>8. CASE Enqueue
  <2>1. /\ producer.at = "idle" /\ writer' = writer /\ done' = done /\ made' = made + 1
    BY <1>8 DEF Enqueue
  <2>2. \/ dropped' = dropped + 1 /\ UNCHANGED <<queue, producer>>
        \/ queue' = Append(queue, PersistenceBatch) /\ UNCHANGED <<producer, dropped>>
        \/ producer'.at = "drop" /\ UNCHANGED <<queue, dropped>>
    BY <1>8 DEF Enqueue
  <2>3. Len(Append(queue, PersistenceBatch)) = Len(queue) + 1
    BY <1>1, TakenTyped, PutOn
  <2>4. Taken(producer) = 0 /\ Taken(writer') = Taken(writer)
    BY <1>5, <2>1
  <2>5. Taken(writer) \in {0, 1}
    BY <1>5
  <2>6. CASE dropped' = dropped + 1 /\ UNCHANGED <<queue, producer>>
    BY <1>1, <1>2, <1>4, <2>1, <2>4, <2>5, <2>6
  <2>7. CASE queue' = Append(queue, PersistenceBatch) /\ UNCHANGED <<producer, dropped>>
    <3>1. Len(queue') = Len(queue) + 1
      BY <2>3, <2>7
    <3>2. Taken(producer') = 0 /\ dropped' = dropped
      BY <2>4, <2>7
    <3> QED BY <1>1, <1>2, <1>4, <2>1, <2>4, <2>5, <3>1, <3>2
  <2>8. CASE producer'.at = "drop" /\ UNCHANGED <<queue, dropped>>
    <3>1. Taken(producer') = 1
      BY <1>5, <2>8
    <3> QED BY <1>1, <1>2, <1>4, <2>1, <2>4, <2>5, <2>8, <3>1
  <2> QED BY <2>2, <2>6, <2>7, <2>8
<1>9. CASE DropOldest
  <2>1. /\ producer.at = "drop" /\ producer'.at = "send"
        /\ writer' = writer /\ done' = done /\ made' = made
    BY <1>9 DEF DropOldest, Typed, TypeOK
  <2>2. queue # <<>> => Len(Tail(queue)) = Len(queue) - 1 /\ Len(queue) > 0
    BY <1>1, TakenOff
  <2>3. Taken(producer) = 1 /\ Taken(producer') = 1 /\ Taken(writer') = Taken(writer)
    BY <1>5, <2>1
  <2>4. Taken(writer) \in {0, 1}
    BY <1>5
  <2> QED BY <1>1, <1>2, <1>4, <1>9, <2>1, <2>2, <2>3, <2>4 DEF DropOldest
<1>10. CASE SendAgain
  <2>1. /\ producer.at = "send" /\ producer'.at = "idle"
        /\ writer' = writer /\ done' = done /\ made' = made
    BY <1>10 DEF SendAgain, Resting
  <2>2. Len(Append(queue, producer.batch)) = Len(queue) + 1
    BY <1>1, PutOn
  <2>3. Taken(producer) = 1 /\ Taken(producer') = 0 /\ Taken(writer') = Taken(writer)
    BY <1>5, <2>1
  <2>4. Taken(writer) \in {0, 1}
    BY <1>5
  <2> QED BY <1>1, <1>2, <1>4, <1>10, <2>1, <2>2, <2>3, <2>4 DEF SendAgain
<1>11. CASE Take
  <2>1. /\ queue # <<>> /\ writer.at = "idle" /\ writer'.at = "write" /\ queue' = Tail(queue)
        /\ UNCHANGED <<producer, made, dropped, done>>
    BY <1>11 DEF Take
  <2>2. Len(queue') = Len(queue) - 1
    BY <1>1, <2>1, TakenOff
  <2>3. Taken(writer) = 0 /\ Taken(writer') = 1 /\ Taken(producer') = Taken(producer)
    BY <1>5, <2>1
  <2>4. Taken(producer) \in {0, 1}
    BY <1>5
  <2> QED BY <1>1, <1>2, <1>4, <2>1, <2>2, <2>3, <2>4
<1>12. CASE WriteBatch
  <2>1. /\ writer.at = "write" /\ writer'.at = "idle" /\ done' = done + 1
        /\ UNCHANGED <<queue, producer, made, dropped>>
    BY <1>12 DEF WriteBatch, Waits
  <2>2. Taken(writer) = 1 /\ Taken(writer') = 0 /\ Taken(producer') = Taken(producer)
    BY <1>5, <2>1
  <2>3. Taken(producer) \in {0, 1}
    BY <1>5
  <2> QED BY <1>1, <1>2, <1>4, <2>1, <2>2, <2>3
<1>13. ASSUME NEW transient \in BOOLEAN, NEW reached \in SUBSET Collector,
              WriteFails(transient, reached)
       PROVE  made' = dropped' + done' + (Len(queue') + Taken(writer') + Taken(producer'))
  <2>1. writer.at = "write" /\ UNCHANGED <<queue, producer, made, dropped>>
    BY <1>13 DEF WriteFails
  <2>2. CASE writer' = Waits /\ done' = done + 1
    <3>1. writer'.at = "idle"
      BY <2>2 DEF Waits
    <3>2. Taken(writer) = 1 /\ Taken(writer') = 0 /\ Taken(producer') = Taken(producer)
      BY <1>5, <2>1, <3>1
    <3>3. Taken(producer) \in {0, 1}
      BY <1>5
    <3> QED BY <1>1, <1>2, <1>4, <2>1, <2>2, <3>2, <3>3
  <2>3. CASE writer' = [writer EXCEPT !.attempt = @ + 1] /\ done' = done
    <3>1. writer'.at = writer.at
      BY <2>3 DEF Typed, TypeOK
    <3>2. Taken(writer') = Taken(writer)
      BY <1>5, <3>1
    <3> QED BY <1>4, <2>1, <2>3, <3>2
  <2> QED BY <1>13, <2>2, <2>3 DEF WriteFails, Again
<1>14. ASSUME NEW used \in Size, EvaluateBudgetNow(used)
       PROVE  UNCHANGED <<queue, producer, writer, made, dropped, done>>
  BY <1>14 DEF EvaluateBudgetNow
<1>15. CASE Restart
  <2>1. /\ Len(queue') = 0 /\ producer'.at = "idle" /\ writer'.at = "idle"
        /\ made' = 0 /\ dropped' = 0 /\ done' = 0
    BY <1>15, EmptySeq DEF Restart, Resting, Waits
  <2> QED BY <1>5, <2>1
<1>16. ASSUME UNCHANGED vars
       PROVE  UNCHANGED <<queue, producer, writer, made, dropped, done>>
  BY <1>16 DEF vars
<1> QED
  BY <1>6, <1>7, <1>8, <1>9, <1>10, <1>11, <1>12, <1>13, <1>14, <1>15, <1>16 DEF Next

\* The queue of batches (persistence.go: enqueue, run): nothing is lost without
\* being counted, batches are written in the order of their snapshots, and when the
\* queue is full the oldest gives way, never the newest, however the steps of the
\* producer and of the writer interleave.
THEOREM QueueExact == Spec => []QueueInv
<1> DEFINE Inv == Typed /\ Ordered /\ BatchesAccounted
<1>1. Init => Inv
  BY TypedInit, QueueInit
<1>2. Inv /\ [Next]_vars => Inv'
  BY TypedStep, OrderedStep, AccountedStep
<1>3. Inv => QueueInv
  <2> SUFFICES ASSUME Inv PROVE QueueInv
    OBVIOUS
  <2>1. Len(queue) \in Nat /\ queue \in Seq(Batch)
    BY Numbers
  <2>2. \A i \in 1..(Len(queue) - 1) : queue[i].sequence =< queue[i + 1].sequence
    <3> SUFFICES ASSUME NEW i \in 1..(Len(queue) - 1)
                 PROVE  queue[i].sequence =< queue[i + 1].sequence
      OBVIOUS
    <3>1. i \in 1..Len(queue) /\ i + 1 \in 1..Len(queue) /\ i =< i + 1
      BY <2>1
    <3> QED BY <3>1 DEF Ordered
  <2>3. queue # <<>> => writer.batch.sequence =< Head(queue).sequence
    BY <2>1, TakenOff DEF Ordered
  <2>4. producer.at = "send" => Len(queue) < QueueLimit
    BY DEF Ordered
  <2> QED BY <2>2, <2>3, <2>4 DEF QueueInv, NewestKept, Typed
<1> QED BY <1>1, <1>2, <1>3, PTL DEF Spec

-----------------------------------------------------------------------------
(* The events. *)

\* A batch that was complete stays so while the ring only gains newer events.
LEMMA StaysComplete ==
    ASSUME NEW b, NEW ring, NEW ring2, NEW n \in Nat, NEW m \in Nat, n =< m,
           Complete(b, ring, n),
           \A e \in ToSet(ring2) : e \in Nat /\ (e \in ToSet(ring) \/ n < e)
    PROVE  Complete(b, ring2, m)
<1>1. /\ Newest(b) \in Nat /\ Newest(b) =< n
      /\ \A e \in ToSet(ring) : e =< Newest(b) => e \in ToSet(b.events)
  BY DEF Complete
<1>2. Newest(b) =< m
  BY <1>1
<1>3. ASSUME NEW e \in ToSet(ring2), e =< Newest(b) PROVE e \in ToSet(b.events)
  <2>1. e \in Nat /\ ~(n < e)
    BY <1>1, <1>3
  <2> QED BY <1>1, <1>3, <2>1
<1> QED BY <1>1, <1>2, <1>3 DEF Complete

\* A fresh batch has the whole ring.
LEMMA FreshComplete ==
    ASSUME Typed
    PROVE  Complete(PersistenceBatch, events, nextMessage)
<1> DEFINE b == PersistenceBatch
<1>1. b \in Batch /\ b.sequence = sequence /\ b.events = events
  BY TakenTyped
<1>2. /\ events \in Seq(Id) /\ \A e \in ToSet(events) : e =< nextMessage
      /\ sequence =< nextMessage
  BY DEF Typed, Numbered
<1> HIDE DEF b
<1>3. Newest(b) \in Nat
  BY <1>1, NewestNat
<1>4. Newest(b) =< nextMessage
  <2>1. CASE b.events # <<>> /\ Last(b.events) > b.sequence
    <3>1. Last(events) \in ToSet(events)
      BY <1>1, <1>2, <2>1, LastElement
    <3> QED BY <1>1, <1>2, <2>1, <3>1 DEF Newest
  <2>2. CASE ~(b.events # <<>> /\ Last(b.events) > b.sequence)
    BY <1>1, <1>2, <2>2 DEF Newest
  <2> QED BY <2>1, <2>2
<1>5. Complete(b, events, nextMessage)
  BY <1>1, <1>3, <1>4 DEF Complete
<1> QED BY <1>5 DEF b

\* What the writer holds is what the queue, and before it the producer, held: the
\* batches in flight stay complete.
LEMMA CompleteStep ==
    ASSUME Typed, AllComplete, [Next]_vars
    PROVE  AllComplete'
<1> USE DEF engineVars, engine, control, tables, count
<1>1. /\ Len(queue) \in Nat /\ queue \in Seq(Batch) /\ nextMessage \in Nat
      /\ producer.batch \in Batch /\ writer.batch \in Batch
  BY Numbers
<1>2. /\ \A i \in 1..Len(queue) : Complete(queue[i], events, nextMessage)
      /\ writer.at # "idle" => Complete(writer.batch, events, nextMessage)
      /\ producer.at # "idle" => Complete(producer.batch, events, nextMessage)
      /\ synced \in Nat /\ synced =< nextMessage
  BY DEF AllComplete, Typed, Numbered
<1>3. ASSUME NEW n \in 0..MaxBurst, NEW h \in [Collector -> Health], PublishSnapshot(n, h)
      PROVE  AllComplete'
  <2>1. /\ nextMessage' \in Id /\ nextMessage < nextMessage' /\ events' \in Seq(Id)
        /\ \A e \in ToSet(events') : e \in ToSet(events) \/ nextMessage < e
    BY <1>3, SnapshotPublished DEF PublishSnapshot, Typed
  <2>2. nextMessage' \in Nat /\ nextMessage =< nextMessage'
    BY <1>1, <2>1 DEF Id
  <2>3. \A e \in ToSet(events') : e \in Nat /\ (e \in ToSet(events) \/ nextMessage < e)
    BY <2>1, IdsNat
  <2>4. \A b : Complete(b, events, nextMessage) => Complete(b, events', nextMessage')
    BY <1>1, <2>2, <2>3, StaysComplete
  <2>5. UNCHANGED <<queue, writer, producer, synced>>
    BY <1>3 DEF PublishSnapshot
  <2>6. synced' =< nextMessage'
    BY <1>1, <1>2, <2>2, <2>5
  <2> QED BY <1>2, <2>4, <2>5, <2>6 DEF AllComplete
<1>4. CASE Enqueue
  <2>1. UNCHANGED <<nextMessage, events, writer, synced>>
    BY <1>4 DEF Enqueue
  <2>2. Complete(PersistenceBatch, events, nextMessage) /\ PersistenceBatch \in Batch
    BY FreshComplete, TakenTyped
  <2>3. \/ UNCHANGED <<queue, producer>>
        \/ queue' = Append(queue, PersistenceBatch) /\ producer' = producer
        \/ queue' = queue /\ producer'.batch = PersistenceBatch
    BY <1>4 DEF Enqueue
  <2>4. \A i \in 1..Len(Append(queue, PersistenceBatch)) :
           \/ i \in 1..Len(queue) /\ Append(queue, PersistenceBatch)[i] = queue[i]
           \/ Append(queue, PersistenceBatch)[i] = PersistenceBatch
    BY <1>1, <2>2, PutOn
  <2>5. \A i \in 1..Len(queue') : Complete(queue'[i], events, nextMessage)
    BY <1>2, <2>2, <2>3, <2>4
  <2>6. producer'.at # "idle" => Complete(producer'.batch, events, nextMessage)
    BY <1>2, <2>2, <2>3
  <2> QED BY <1>2, <2>1, <2>5, <2>6 DEF AllComplete
<1>5. ASSUME queue # <<>>
      PROVE  /\ Complete(Head(queue), events, nextMessage)
             /\ \A i \in 1..Len(Tail(queue)) : Complete(Tail(queue)[i], events, nextMessage)
  <2>1. /\ Head(queue) = queue[1] /\ 1 \in 1..Len(queue)
        /\ \A i \in 1..Len(Tail(queue)) : i + 1 \in 1..Len(queue) /\ Tail(queue)[i] = queue[i + 1]
    BY <1>1, <1>5, TakenOff
  <2> QED BY <1>2, <2>1
<1>6. CASE DropOldest
  <2>1. /\ UNCHANGED <<nextMessage, events, writer, synced>>
        /\ producer.at = "drop" /\ producer'.batch = producer.batch
        /\ queue' = queue \/ (queue # <<>> /\ queue' = Tail(queue))
    BY <1>6 DEF DropOldest, Typed, TypeOK
  <2> QED BY <1>2, <1>5, <2>1 DEF AllComplete
<1>7. CASE SendAgain
  <2>1. /\ UNCHANGED <<nextMessage, events, writer, synced>>
        /\ producer.at = "send" /\ producer'.at = "idle"
        /\ queue' = queue \/ queue' = Append(queue, producer.batch)
    BY <1>7 DEF SendAgain, Resting
  <2>2. \A i \in 1..Len(Append(queue, producer.batch)) :
           \/ i \in 1..Len(queue) /\ Append(queue, producer.batch)[i] = queue[i]
           \/ Append(queue, producer.batch)[i] = producer.batch
    BY <1>1, PutOn
  <2>3. \A i \in 1..Len(queue') : Complete(queue'[i], events, nextMessage)
    BY <1>2, <2>1, <2>2
  <2> QED BY <1>2, <2>1, <2>3 DEF AllComplete
<1>8. CASE Take
  <2>1. /\ UNCHANGED <<nextMessage, events, producer, synced>>
        /\ queue # <<>> /\ queue' = Tail(queue) /\ writer'.batch = Head(queue)
    BY <1>8 DEF Take
  <2> QED BY <1>2, <1>5, <2>1 DEF AllComplete
<1>9. CASE WriteBatch
  <2>1. /\ UNCHANGED <<nextMessage, events, producer, queue>>
        /\ writer.at = "write" /\ writer'.at = "idle" /\ synced' = Newest(writer.batch)
    BY <1>9 DEF WriteBatch, Waits, Newest
  <2>2. synced' =< nextMessage'
    BY <1>2, <2>1 DEF Complete
  <2> QED BY <1>2, <2>1, <2>2 DEF AllComplete
<1>10. ASSUME NEW transient \in BOOLEAN, NEW reached \in SUBSET Collector,
              WriteFails(transient, reached)
       PROVE  AllComplete'
  <2>1. writer.at = "write" /\ UNCHANGED <<nextMessage, events, producer, queue, synced>>
    BY <1>10 DEF WriteFails
  <2>2. writer'.at = "idle" \/ (writer'.at = writer.at /\ writer'.batch = writer.batch)
    <3>1. writer' = Waits => writer'.at = "idle"
      BY DEF Waits
    <3>2. writer' = [writer EXCEPT !.attempt = @ + 1]
             => writer'.at = writer.at /\ writer'.batch = writer.batch
      BY DEF Typed, TypeOK
    <3> QED BY <1>10, <3>1, <3>2 DEF WriteFails, Again
  <2> QED BY <1>2, <2>1, <2>2 DEF AllComplete
<1>11. ASSUME UNCHANGED <<nextMessage, events, producer, writer, queue, synced>>
       PROVE  AllComplete'
  BY <1>11 DEF AllComplete
<1>12. ASSUME NEW used \in Size, EvaluateBudgetNow(used)
       PROVE  AllComplete'
  BY <1>11, <1>12 DEF EvaluateBudgetNow
<1>13. CASE Restart
  <2>1. /\ Len(queue') = 0 /\ writer'.at = "idle" /\ producer'.at = "idle"
        /\ synced' = 0 /\ nextMessage' = 0
    BY <1>13, EmptySeq DEF Restart, Resting, Waits
  <2> QED BY <2>1 DEF AllComplete
<1>14. CASE UNCHANGED vars
  BY <1>11, <1>14 DEF vars
<1> QED
  BY <1>3, <1>4, <1>6, <1>7, <1>8, <1>9, <1>10, <1>12, <1>13, <1>14 DEF Next

\* Rows are added and never removed.
LEMMA RowsStep ==
    ASSUME Typed, [Next]_vars
    PROVE  stored \subseteq stored'
<1> USE DEF engineVars, engine, control, tables, count
<1>1. stored \subseteq [id : Id, boot : 1..MaxBoots] /\ boot \in 1..MaxBoots
  BY DEF Typed, TypeOK
<1>2. CASE WriteBatch
  <2>1. writer.batch \in Batch
    BY DEF Typed, TypeOK
  <2>2. ToSet(writer.batch.events) \in SUBSET Id
    BY <2>1, BatchParts, Elements
  <2> QED BY <1>1, <1>2, <2>2, InsertTyped DEF WriteBatch
<1>3. ASSUME NEW used \in Size, EvaluateBudgetNow(used)
      PROVE  stored \subseteq stored'
  <2>1. {0} \in SUBSET Id
    BY EngineAssumption DEF Id
  <2> QED BY <1>1, <1>3, <2>1, InsertTyped DEF EvaluateBudgetNow
<1> QED
  BY <1>2, <1>3 DEF Next, vars, PublishSnapshot, Enqueue, DropOldest, SendAgain, Take,
                    WriteFails, Restart

\* A written batch stores what the ring has up to it; later events are newer.
LEMMA StoredStep ==
    ASSUME Typed, AllComplete, EventsStored, [Next]_vars
    PROVE  EventsStored'
<1> USE DEF engineVars, engine, control, tables, count
<1>1. stored \subseteq stored'
  BY RowsStep
<1>2. ASSUME UNCHANGED <<events, synced>> PROVE EventsStored'
  BY <1>1, <1>2 DEF EventsStored
<1>3. ASSUME NEW n \in 0..MaxBurst, NEW h \in [Collector -> Health], PublishSnapshot(n, h)
      PROVE  EventsStored'
  <2>1. /\ events' \in Seq(Id) /\ \A e \in ToSet(events') : e \in ToSet(events) \/ nextMessage < e
    BY <1>3, SnapshotPublished DEF PublishSnapshot, Typed
  <2>2. synced' = synced /\ synced =< nextMessage /\ synced \in Nat /\ nextMessage \in Nat
    BY <1>3 DEF PublishSnapshot, AllComplete, Typed, Numbered, Id
  <2>3. \A e \in ToSet(events') : e \in Nat
    BY <2>1, IdsNat
  <2> QED BY <1>1, <2>1, <2>2, <2>3 DEF EventsStored
<1>4. CASE WriteBatch
  <2> DEFINE b == writer.batch
  <2>1. /\ UNCHANGED events /\ synced' = Newest(b) /\ Insert(ToSet(b.events))
        /\ Complete(b, events, nextMessage)
    BY <1>4 DEF WriteBatch, Newest, AllComplete
  <2>2. b \in Batch
    BY DEF Typed, TypeOK
  <2>3. ToSet(b.events) \in SUBSET Id
    BY <2>2, BatchParts, Elements
  <2>4. stored \subseteq [id : Id, boot : 1..MaxBoots] /\ boot \in 1..MaxBoots
    BY DEF Typed, TypeOK
  <2> HIDE DEF b
  <2>5. \A i \in ToSet(b.events) : \E row \in stored' : row.id = i
    BY <2>1, <2>3, <2>4, InsertTyped
  <2> QED BY <2>1, <2>5 DEF EventsStored, Complete
<1>5. CASE Restart
  <2>1. ToSet(events') = {}
    BY <1>5 DEF Restart, ToSet
  <2> QED BY <2>1 DEF EventsStored
<1> QED
  BY <1>2, <1>3, <1>4, <1>5 DEF Next, vars, Enqueue, DropOldest, SendAgain, Take,
                                WriteFails, EvaluateBudgetNow

\* No event is lost to a dropped or failed batch (persistence.go: enqueue; writer.go:
\* WriteBatch): every event that is still in the ring and no newer than the last
\* written batch has a row, since a batch carries the whole ring.
THEOREM EventsReachStorage == Spec => []EventsStored
<1> DEFINE Inv == Typed /\ AllComplete /\ EventsStored
<1>1. Init => Inv
  <2> SUFFICES ASSUME Init PROVE Inv
    OBVIOUS
  <2>1. /\ Len(queue) = 0 /\ writer.at = "idle" /\ producer.at = "idle"
        /\ synced = 0 /\ nextMessage = 0 /\ ToSet(events) = {}
    BY EmptySeq DEF Init, EngineInit, Resting, Waits, ToSet
  <2> QED BY <2>1, TypedInit DEF AllComplete, EventsStored
<1>2. Inv /\ [Next]_vars => Inv'
  BY TypedStep, CompleteStep, StoredStep
<1> QED BY <1>1, <1>2, PTL DEF Spec

-----------------------------------------------------------------------------
(* The transitions of the collectors. *)

\* Where the rows of one collector do not follow each other, for a process and the
\* state it remembers.
BreaksOf(log, current, state) ==
    {i \in 1..Len(log) :
        IF i < Len(log) /\ log[i + 1].boot = log[i].boot
        THEN log[i + 1].from # log[i].to
        ELSE log[i].boot = current /\ state # log[i].to}

\* The breaks of a collector, from its rows.
LEMMA BreaksAre ==
    \A c : Breaks(c) = BreaksOf(transitions[c], boot, previous[c])
  BY DEF Breaks, BreaksOf

\* The breaks are positions: finitely many, and no more when there are fewer.
LEMMA BreaksCounted ==
    ASSUME NEW log \in Seq(Row), NEW current, NEW state, NEW T \in SUBSET BreaksOf(log, current, state)
    PROVE  /\ IsFiniteSet(BreaksOf(log, current, state)) /\ Cardinality(BreaksOf(log, current, state)) \in Nat
           /\ Cardinality(T) \in Nat /\ Cardinality(T) =< Cardinality(BreaksOf(log, current, state))
<1>1. Len(log) \in Int /\ 1 \in Int
  BY LenProperties
<1>2. IsFiniteSet(1..Len(log))
  BY <1>1, FS_Interval
<1>3. BreaksOf(log, current, state) \in SUBSET (1..Len(log))
  BY DEF BreaksOf
<1>4. IsFiniteSet(BreaksOf(log, current, state))
  BY <1>2, <1>3, FS_Subset
<1>5. IsFiniteSet(T) /\ Cardinality(T) =< Cardinality(BreaksOf(log, current, state))
  BY <1>4, FS_Subset
<1> QED BY <1>4, <1>5, FS_CardinalityType

\* Types of a row.
LEMMA RowParts ==
    ASSUME NEW log \in Seq(Row)
    PROVE  Len(log) \in Nat /\ \A i \in 1..Len(log) : log[i] \in Row /\ log[i].boot \in Nat
<1>1. Len(log) \in Nat /\ \A i \in 1..Len(log) : log[i] \in Row
  BY Elements
<1>2. \A r \in Row : r.boot \in Nat
  BY PersistenceAssumption DEF Row
<1> QED BY <1>1, <1>2

\* In a chain only the last row can break with the state that is remembered.
LEMMA OnlyLastBreaks ==
    ASSUME NEW log \in Seq(Row), NEW current \in Nat, NEW i \in 1..Len(log), Chain(log, current),
           i < Len(log)
    PROVE  log[i + 1].boot # log[i].boot => log[i].boot # current
<1>1. Len(log) \in Nat
  BY RowParts
<1>2. i + 1 \in 1..Len(log) /\ i =< i + 1
  BY <1>1
<1>3. log[i].boot \in Nat /\ log[i + 1].boot \in Nat
  BY <1>2, RowParts
<1>4. log[i].boot =< log[i + 1].boot /\ log[i + 1].boot =< current
  BY <1>2 DEF Chain
<1> QED BY <1>3, <1>4

\* A committed batch extends the chain of a collector, and breaks it nowhere.
LEMMA LoggedChain ==
    ASSUME NEW log \in Seq(Row), NEW current \in 1..MaxBoots, NEW from \in State, NEW to \in State,
           from # to, Chain(log, current)
    PROVE  LET log2 == Append(log, [from |-> from, to |-> to, boot |-> current])
           IN  Chain(log2, current) /\ BreaksOf(log2, current, to) \subseteq BreaksOf(log, current, from)
<1> DEFINE r == [from |-> from, to |-> to, boot |-> current]
           log2 == Append(log, r)
           last == Len(log)
<1>1. r \in Row /\ r.from = from /\ r.to = to /\ r.boot = current
  BY DEF Row
<1> HIDE DEF r
<1>2. /\ log2 \in Seq(Row) /\ last \in Nat /\ Len(log2) = last + 1
      /\ \A i \in 1..last : log2[i] = log[i]
      /\ log2[last + 1] = r
  BY <1>1, AppendProperties, LenProperties
<1>3. current \in Nat
  BY PersistenceAssumption
<1>4. \A i \in 1..last : log[i].boot \in Nat /\ log[i].boot =< current /\ log[i].from # log[i].to
  BY RowParts DEF Chain
<1> HIDE DEF log2
<1>5. Chain(log2, current)
  <2>1. \A i \in 1..(last + 1) : log2[i].boot =< current /\ log2[i].from # log2[i].to
    BY <1>1, <1>2, <1>3, <1>4
  <2>2. ASSUME NEW i \in 1..(last + 1), NEW j \in 1..(last + 1), i =< j
        PROVE  log2[i].boot =< log2[j].boot
    <3>1. CASE j = last + 1
      BY <1>1, <1>2, <2>1, <3>1
    <3>2. CASE j # last + 1
      <4>1. i \in 1..last /\ j \in 1..last
        BY <1>2, <2>2, <3>2
      <4> QED BY <1>2, <2>2, <4>1 DEF Chain
    <3> QED BY <3>1, <3>2
  <2> QED BY <1>2, <2>1, <2>2 DEF Chain
<1>6. ASSUME NEW i \in BreaksOf(log2, current, to) PROVE i \in BreaksOf(log, current, from)
  <2>1. /\ i \in 1..(last + 1)
        /\ IF i < last + 1 /\ log2[i + 1].boot = log2[i].boot
           THEN log2[i + 1].from # log2[i].to
           ELSE log2[i].boot = current /\ to # log2[i].to
    BY <1>2, <1>6 DEF BreaksOf
  <2>2. i # last + 1
    BY <1>1, <1>2, <2>1
  <2>3. i \in 1..last /\ i < last + 1 /\ log2[i] = log[i]
    BY <1>2, <2>1, <2>2
  <2>4. CASE i = last
    <3>1. log2[i + 1] = r
      BY <1>2, <2>4
    <3>2. log[i].boot = current /\ from # log[i].to
      BY <1>1, <2>1, <2>3, <3>1
    <3> QED BY <1>2, <2>3, <2>4, <3>2 DEF BreaksOf
  <2>5. CASE i # last
    <3>1. i < last /\ i + 1 \in 1..last /\ log2[i + 1] = log[i + 1]
      BY <1>2, <2>3, <2>5
    <3>2. log[i + 1].boot # log[i].boot => log[i].boot # current
      BY <1>3, <2>3, <3>1, OnlyLastBreaks
    <3>3. log[i + 1].boot = log[i].boot /\ log[i + 1].from # log[i].to
      BY <2>1, <2>3, <3>1, <3>2
    <3> QED BY <2>3, <3>1, <3>3 DEF BreaksOf
  <2> QED BY <2>4, <2>5
<1> QED BY <1>5, <1>6 DEF log2, r

\* A change of the remembered state can only break the chain at its end.
LEMMA ForgottenBreaks ==
    ASSUME NEW log \in Seq(Row), NEW current \in Nat, NEW a, NEW b, Chain(log, current)
    PROVE  BreaksOf(log, current, b) \subseteq BreaksOf(log, current, a) \cup {Len(log)}
<1> SUFFICES ASSUME NEW i \in BreaksOf(log, current, b), i # Len(log)
             PROVE  i \in BreaksOf(log, current, a)
  OBVIOUS
<1>1. Len(log) \in Nat
  BY RowParts
<1>2. /\ i \in 1..Len(log)
      /\ IF i < Len(log) /\ log[i + 1].boot = log[i].boot
         THEN log[i + 1].from # log[i].to
         ELSE log[i].boot = current /\ b # log[i].to
  BY DEF BreaksOf
<1>3. i < Len(log)
  BY <1>1, <1>2
<1>4. log[i + 1].boot # log[i].boot => log[i].boot # current
  BY <1>2, <1>3, OnlyLastBreaks
<1> QED BY <1>2, <1>3, <1>4 DEF BreaksOf

\* A new process has written nothing: its rows cannot break with what it remembers.
LEMMA RestartBreaks ==
    ASSUME NEW log \in Seq(Row), NEW current \in Nat, NEW a, NEW b, Chain(log, current)
    PROVE  /\ Chain(log, current + 1)
           /\ BreaksOf(log, current + 1, b) \subseteq BreaksOf(log, current, a)
<1>1. \A i \in 1..Len(log) : log[i].boot \in Nat /\ log[i].boot =< current
  BY RowParts DEF Chain
<1>2. \A i \in 1..Len(log) : log[i].boot =< current + 1 /\ log[i].boot # current + 1
  BY <1>1
<1> QED BY <1>2 DEF Chain, BreaksOf

\* The remembered states, the rows and the counter of what was forgotten change
\* together: the breaks of a collector are never more than the failed commits.
LEMMA ChainStep ==
    ASSUME Typed, Chained, \A c \in Collector : Cardinality(Breaks(c)) =< forgotten, [Next]_vars
    PROVE  /\ Chained'
           /\ \A c \in Collector : Cardinality(Breaks(c)') =< forgotten'
<1> USE DEF engineVars, engine, control, tables, count
<1>1. /\ boot \in 1..MaxBoots /\ boot \in Nat /\ forgotten \in Nat
      /\ previous \in [Collector -> State] /\ writer.batch \in Batch
      /\ \A c \in Collector : transitions[c] \in Seq(Row)
  <2>1. /\ boot \in 1..MaxBoots /\ previous \in [Collector -> State] /\ writer.batch \in Batch
        /\ \A c \in Collector : transitions[c] \in Seq(Row)
    BY DEF Typed, TypeOK, Row
  <2>2. forgotten \in Nat
    BY DEF Typed, Numbered
  <2> QED BY <2>1, <2>2, PersistenceAssumption
<1> DEFINE Old(c) == BreaksOf(transitions[c], boot, previous[c])
           New(c) == BreaksOf(transitions'[c], boot', previous'[c])
<1>2. \A c : Breaks(c) = Old(c) /\ Breaks(c)' = New(c)
  BY DEF Breaks, BreaksOf
<1>3. \A c \in Collector : Cardinality(Old(c)) =< forgotten
  BY <1>2
<1>4. SUFFICES ASSUME NEW c \in Collector
               PROVE  Chain(transitions'[c], boot') /\ Cardinality(New(c)) =< forgotten'
  BY <1>2 DEF Chained
<1>5. /\ Chain(transitions[c], boot) /\ transitions[c] \in Seq(Row)
      /\ Cardinality(Old(c)) =< forgotten
  BY <1>1, <1>3 DEF Chained
<1>6. ASSUME Chain(transitions'[c], boot'), New(c) \subseteq Old(c), forgotten' = forgotten
      PROVE  Chain(transitions'[c], boot') /\ Cardinality(New(c)) =< forgotten'
  <2>1. New(c) \in SUBSET Old(c)
    BY <1>6
  <2>2. /\ Cardinality(Old(c)) \in Nat /\ Cardinality(New(c)) \in Nat
        /\ Cardinality(New(c)) =< Cardinality(Old(c))
    <3> HIDE DEF New
    <3> QED BY <1>5, <2>1, BreaksCounted
  <2> HIDE DEF New, Old
  <2> QED BY <1>1, <1>5, <1>6, <2>2
<1>7. ASSUME UNCHANGED <<transitions, boot, previous, forgotten>>
      PROVE  Chain(transitions'[c], boot') /\ Cardinality(New(c)) =< forgotten'
  BY <1>5, <1>7
<1>8. CASE WriteBatch
  <2> DEFINE b == writer.batch
  <2>1. /\ transitions' = Logged(b) /\ Remember(b, Changed(b)) /\ UNCHANGED <<boot, forgotten>>
    BY <1>8 DEF WriteBatch
  <2>2. previous'[c] = IF c \in Changed(b) THEN b.health[c] ELSE previous[c]
    BY <1>1, <2>1, RememberTyped
  <2>3. CASE c \in Changed(b)
    <3>1. b.health[c] # previous[c] /\ b.health[c] \in State /\ previous[c] \in State
      BY <1>1, <2>3, BatchParts DEF Changed
    <3>2. transitions'[c] = Append(transitions[c],
                                [from |-> previous[c], to |-> b.health[c], boot |-> boot])
      BY <2>1, <2>3 DEF Logged
    <3>3. previous'[c] = b.health[c]
      BY <2>2, <2>3
    <3> HIDE DEF b
    <3>4. /\ Chain(transitions'[c], boot)
          /\ BreaksOf(transitions'[c], boot, b.health[c]) \subseteq Old(c)
      BY <1>1, <1>5, <3>1, <3>2, LoggedChain
    <3> QED BY <1>6, <2>1, <3>3, <3>4
  <2>4. CASE c \notin Changed(b)
    <3>1. transitions'[c] = transitions[c] /\ previous'[c] = previous[c]
      BY <2>1, <2>2, <2>4 DEF Logged
    <3> QED BY <1>5, <1>6, <2>1, <3>1
  <2> QED BY <2>3, <2>4
<1>9. ASSUME NEW transient \in BOOLEAN, NEW reached \in SUBSET Collector,
             WriteFails(transient, reached)
      PROVE  Chain(transitions'[c], boot') /\ Cardinality(New(c)) =< forgotten'
  <2>1. /\ Remember(writer.batch, reached) /\ UNCHANGED <<boot, transitions>>
        /\ forgotten' = forgotten + (IF reached = {} THEN 0 ELSE 1)
    BY <1>9 DEF WriteFails
  <2>2. previous'[c] = IF c \in reached THEN writer.batch.health[c] ELSE previous[c]
    BY <1>1, <2>1, RememberTyped
  <2>3. CASE reached = {}
    BY <1>1, <1>5, <1>6, <2>1, <2>2, <2>3
  <2>4. CASE reached # {}
    <3> DEFINE last == Len(transitions[c])
    <3>1. New(c) \in SUBSET (Old(c) \cup {last})
      BY <1>1, <1>5, <2>1, ForgottenBreaks
    <3>2. IsFiniteSet(Old(c)) /\ Cardinality(Old(c)) \in Nat
      BY <1>5, BreaksCounted
    <3> HIDE DEF New, Old, last
    <3>3. /\ IsFiniteSet(Old(c) \cup {last})
          /\ Cardinality(Old(c) \cup {last}) =
                IF last \in Old(c) THEN Cardinality(Old(c)) ELSE Cardinality(Old(c)) + 1
      BY <3>2, FS_AddElement
    <3>4. IsFiniteSet(New(c)) /\ Cardinality(New(c)) =< Cardinality(Old(c) \cup {last})
      BY <3>1, <3>3, FS_Subset
    <3>5. Cardinality(New(c)) \in Nat
      BY <3>4, FS_CardinalityType
    <3>6. forgotten' = forgotten + 1
      BY <2>1, <2>4
    <3>7. Cardinality(New(c)) =< forgotten'
      BY <1>1, <1>5, <3>2, <3>3, <3>4, <3>5, <3>6
    <3> QED BY <1>5, <2>1, <3>7
  <2> QED BY <2>3, <2>4
<1>10. CASE Restart
  <2>1. boot' = boot + 1 /\ UNCHANGED <<transitions, forgotten>>
    BY <1>10 DEF Restart
  <2> QED BY <1>1, <1>5, <1>6, <2>1, RestartBreaks
<1>11. CASE UNCHANGED vars
  BY <1>7, <1>11 DEF vars
<1>12. CASE \E n \in 0..MaxBurst, h \in [Collector -> Health] : PublishSnapshot(n, h)
  BY <1>7, <1>12 DEF PublishSnapshot
<1>13. CASE Enqueue \/ DropOldest \/ SendAgain \/ Take
  BY <1>7, <1>13 DEF Enqueue, DropOldest, SendAgain, Take
<1>14. CASE \E used \in Size : EvaluateBudgetNow(used)
  BY <1>7, <1>14 DEF EvaluateBudgetNow
<1> HIDE DEF New, Old
<1> QED BY <1>8, <1>9, <1>10, <1>11, <1>12, <1>13, <1>14 DEF Next

\* The recorded transitions of a collector follow each other (writer.go:
\* writeCollectorStateEvents), for any number of dropped, repeated and failed
\* batches and of restarts, except at most once for every transaction that failed
\* after the writer had changed the states it remembers.
THEOREM TransitionsFollow == Spec => []TransitionsChain
<1> DEFINE Inv == /\ Typed /\ Chained
                  /\ \A c \in Collector : Cardinality(Breaks(c)) =< forgotten
<1>1. Init => Inv
  <2> SUFFICES ASSUME Init PROVE Inv
    OBVIOUS
  <2>1. forgotten = 0 /\ \A c \in Collector : transitions[c] = <<>>
    BY DEF Init
  <2>2. Len(<<>>) = 0
    BY EmptySeq
  <2>3. \A c \in Collector : Breaks(c) = {}
    BY <2>1, <2>2 DEF Breaks
  <2>4. Chained
    BY <2>1, <2>2 DEF Chained, Chain
  <2>5. \A c \in Collector : Cardinality(Breaks(c)) =< forgotten
    BY <2>1, <2>3, FS_EmptySet
  <2> QED BY <2>4, <2>5, TypedInit
<1>2. Inv /\ [Next]_vars => Inv'
  <2> SUFFICES ASSUME Inv, [Next]_vars PROVE Inv'
    OBVIOUS
  <2>1. Typed'
    BY TypedStep
  <2>2. Chained' /\ \A c \in Collector : Cardinality(Breaks(c)') =< forgotten'
    BY ChainStep
  <2> QED BY <2>1, <2>2
<1>3. Inv => TransitionsChain
  <2> SUFFICES ASSUME Inv, NEW c \in Collector, NEW i \in DOMAIN transitions[c]
               PROVE  transitions[c][i].from # transitions[c][i].to
    BY DEF TransitionsChain
  <2>1. transitions[c] \in Seq(Row)
    BY DEF Typed, TypeOK, Row
  <2>2. i \in 1..Len(transitions[c])
    BY <2>1, LenProperties
  <2> QED BY <2>2 DEF Chained, Chain
<1> QED BY <1>1, <1>2, <1>3, PTL DEF Spec

-----------------------------------------------------------------------------
(* The inductive invariants of the sampler and of the live stream. *)

Channel == [open : BOOLEAN, messages : Seq(Message)]
Reader == [at : {"away", "replay", "stream"}, last : Id \cup {NoHeader},
           shown : Id, since : Id, seen : SUBSET Id, displaced : SUBSET Id]

\* What waits on a channel is in the order of the ids, up to the counter n, and of
\* the snapshots only ones that are newer than the one shown and not newer than
\* the current one.
InOrder(q, shown, current, n) ==
    /\ shown =< current
    /\ \A i \in 1..Len(q) :
          /\ q[i].id =< n
          /\ \A j \in 1..Len(q) : i < j => q[i].id < q[j].id
          /\ q[i].kind = "snapshot" => shown < q[i].id /\ q[i].id =< current

\* The current snapshot is shown or waits.
Current(channel, shown, current) ==
    channel.open /\ current > 0 =>
        Snapshot(current) \in ToSet(channel.messages) \/ shown = current

\* The id the browser comes back with is older than an event it was not sent.
Asked(e, channel, r) ==
    /\ ~channel.open /\ e > r.last
    /\ \A m \in ToSet(channel.messages) : e > m.id

\* Where an event is that a reader has to get.
Tracked(e, channel, r) ==
    \/ e \in r.seen \cup r.displaced
    \/ r.at # "away" /\ Event(e) \in ToSet(channel.messages) /\ e > r.last
    \/ r.at # "away" /\ Asked(e, channel, r)
    \/ r.at # "stream" /\ r.last # NoHeader /\ e > r.last
    \/ r.at = "away" /\ r.last = NoHeader

\* A reader and its channel, with the current snapshot, the counter and the ring.
Served(channel, r, current, n, ring) ==
    /\ channel \in Channel /\ r \in Reader
    /\ Len(channel.messages) =< LiveCapacity
    /\ InOrder(channel.messages, r.shown, current, n)
    /\ Current(channel, r.shown, current)
    /\ r.last =< n
    /\ r.at = "away" => channel = Closed
    /\ \A e \in ToSet(ring) : e > r.since => Tracked(e, channel, r)

\* The inductive invariant of the live streams.
ReadersServed ==
    /\ RingNumbered /\ Len(events) =< RingSize
    /\ live \in [Subscriber -> Channel] /\ reader \in [Subscriber -> Reader]
    /\ \A s \in Subscriber : Served(live[s], reader[s], sequence, nextMessage, events)

\* The counters of the host: zero is only what stands for disk counters that could
\* not be read.
HostCounted ==
    /\ kernel \in Nat \ {0}
    /\ lastSample \in [network : Nat \cup {-1}, disk : Nat \cup {-1}]
    /\ lastSample.network # 0
    /\ rates \in [network : Int, disk : Int]
    /\ unread \in [last : BOOLEAN, before : BOOLEAN]
    /\ lastSample.disk = lastSample.network \/ unread.last

\* The numbers in a line are in order and not above n.
Ascending(line, n) ==
    \A i \in 1..Len(line) :
        line[i] =< n /\ \A j \in 1..Len(line) : i < j => line[i] < line[j]

\* The events published and pending are in order, and every other one that counts
\* is older than the last PendingCap of them.
Line == published \o pending

\* An event that is not in the line is older than the last PendingCap of it.
Displaced(a, line) ==
    /\ PendingCap =< Len(line)
    /\ \A i \in 1..Len(line) : Len(line) - PendingCap < i => a < line[i]

\* The inductive invariant of the events of Docker.
LogInOrder ==
    /\ pending \in Seq(Nat) /\ published \in Seq(Nat) /\ Len(pending) =< PendingCap
    /\ received \in Nat /\ accepted \in SUBSET Nat
    /\ \A a \in accepted : a =< received
    /\ Ascending(Line, received)
    /\ \A a \in accepted : a \notin ToSet(Line) => Displaced(a, Line)

Action == {"create", "start", "destroy", "die", "pause", "unpause",
           "health_status: healthy", "health_status: unhealthy"}
ContainerEvent == [id : Container, action : Action]

\* The daemon, its events, the cache and the table.
DockerTyped ==
    /\ docker \in [Container -> [state : ContainerState \cup {Absent, "destroyed"},
                                 health : ContainerHealth \cup {"none"}]]
    /\ cache \in [Container -> [state : ContainerState \cup {Absent, "die", "stop", "pause"},
                                health : ContainerHealth \cup {"none"}]]
    /\ stream \in [connected : BOOLEAN, events : Seq(ContainerEvent)]
    /\ failures \in [host : Nat, docker : Nat]
    /\ lastResources \in [Resource -> DOMAIN Rank \cup {Absent}]
    /\ rows \in [Resource -> [status : DOMAIN Rank \cup {Absent, "archived"}, seen : Nat]]
    /\ now \in Nat

\* The state an event leaves its container in.
After == [start |-> "running", unpause |-> "running", die |-> "exited",
          pause |-> "paused", destroy |-> "destroyed"]
Telling == {"start", "unpause", "die", "pause", "destroy"}

\* An event of container c that tells of its state waits.
Told(c, waiting) == \E i \in 1..Len(waiting) : waiting[i].id = c /\ waiting[i].action \in Telling

\* The last event of a container tells of the state it is in.
LastTells(waiting) ==
    \A i \in 1..Len(waiting) :
        /\ waiting[i].action \in Telling
        /\ \A j \in 1..Len(waiting) :
              i < j /\ waiting[j].id = waiting[i].id => waiting[j].action \notin Telling
        => docker[waiting[i].id].state = After[waiting[i].action]

\* Of a container no event tells of, the cache is right.
CacheRight ==
    \A c \in Container \ unrefreshed :
        ~Told(c, stream.events) /\ cache[c] # NoMetadata =>
            /\ c \in Listed
            /\ cache[c].state = "running" <=> docker[c].state = "running"

\* Stream and cache together know the state of every container.
StreamTells == stream.connected => LastTells(stream.events) /\ CacheRight

\* The inductive invariant of the cache.
CacheInductive == DockerTyped /\ StreamTells

-----------------------------------------------------------------------------
(* What publishing sends to one channel. *)

\* Messages and their parts.
LEMMA MessageParts ==
    /\ \A m \in Message : m.id \in Nat /\ m.id \in Id /\ m.kind \in {"snapshot", "event"}
    /\ \A k \in Id : /\ Snapshot(k) \in Message /\ Snapshot(k).id = k /\ Snapshot(k).kind = "snapshot"
                     /\ Event(k) \in Message /\ Event(k).id = k /\ Event(k).kind = "event"
                     /\ Snapshot(k) # Event(k)
  BY EngineAssumption DEF Message, Id, Snapshot, Event

\* The messages of a channel after a snapshot and a burst: what was there without
\* the oldest, the snapshot, and the events there is room for.
LEMMA SentPositions ==
    ASSUME RingNumbered, NEW n \in Nat, nextMessage + 1 + n =< MaxMessages,
           NEW q \in Seq(Message), Len(q) =< LiveCapacity
    PROVE  LET c == sendEvents(sendSnapshot(q, nextMessage + 1), Burst(n)) IN
           \E r, w \in Nat :
              /\ r = (IF q = <<>> THEN 0 ELSE Len(q) - 1)
              /\ w =< n /\ r + 1 + w =< LiveCapacity /\ (c.open <=> w = n)
              /\ c \in Channel /\ Len(c.messages) = r + 1 + w
              /\ \A i \in 1..r : i + 1 \in 1..Len(q) /\ c.messages[i] = q[i + 1]
              /\ c.messages[r + 1] = Snapshot(nextMessage + 1)
              /\ \A i \in 1..w : c.messages[r + 1 + i] = Event(nextMessage + 1 + i)
<1> DEFINE k == nextMessage + 1
           rest == IF q = <<>> THEN <<>> ELSE Tail(q)
           r == Len(rest)
           p == Append(rest, Snapshot(k))
           room == LiveCapacity - Len(p)
           w == IF n =< room THEN n ELSE room
           sent == SubSeq(Burst(n), 1, w)
           tail == [i \in DOMAIN sent |-> Event(sent[i])]
           c == sendEvents(sendSnapshot(q, k), Burst(n))
<1>1. /\ nextMessage \in Nat /\ MaxMessages \in Nat /\ LiveCapacity \in Nat \ {0}
      /\ k \in Nat /\ k \in Id /\ Len(q) \in Nat
  BY EngineAssumption, LenProperties DEF RingNumbered, Id
<1>2. /\ rest \in Seq(Message) /\ r = (IF q = <<>> THEN 0 ELSE Len(q) - 1) /\ r \in Nat
      /\ r + 1 =< LiveCapacity
      /\ \A i \in 1..r : i + 1 \in 1..Len(q) /\ rest[i] = q[i + 1]
  <2>1. CASE q = <<>>
    <3>1. rest \in Seq(Message) /\ r = 0
      BY <2>1, EmptySeq
    <3> QED BY <1>1, <2>1, <3>1
  <2>2. CASE q # <<>>
    <3>1. rest = Tail(q)
      BY <2>2
    <3>2. /\ Tail(q) \in Seq(Message) /\ Len(Tail(q)) = Len(q) - 1 /\ 1 \in 1..Len(q)
          /\ \A i \in 1..Len(Tail(q)) : i + 1 \in 1..Len(q) /\ Tail(q)[i] = q[i + 1]
      BY <2>2, TakenOff
    <3> QED BY <1>1, <2>2, <3>1, <3>2
  <2> QED BY <2>1, <2>2
<1>3. Snapshot(k) \in Message
  BY <1>1, MessageParts
<1> HIDE DEF rest, k
<1>4. /\ p \in Seq(Message) /\ Len(p) = r + 1
      /\ \A i \in 1..r : p[i] = rest[i]
      /\ p[r + 1] = Snapshot(k)
  BY <1>2, <1>3, AppendProperties
<1>5. /\ Burst(n) \in Seq(Id) /\ Len(Burst(n)) = n
      /\ \A i \in 1..n : Burst(n)[i] = nextMessage + 1 + i
  BY BurstIds
<1>6. w \in Nat /\ w =< n /\ r + 1 + w =< LiveCapacity /\ ((n =< room) <=> (w = n))
  <2>1. room = LiveCapacity - (r + 1) /\ r \in Nat /\ r + 1 =< LiveCapacity
    BY <1>2, <1>4
  <2> HIDE DEF room, r
  <2> QED BY <1>1, <2>1
<1> HIDE DEF p, r, room, w
<1>7. /\ sent \in Seq(Id) /\ Len(sent) = w /\ DOMAIN sent = 1..w
      /\ \A i \in 1..w : sent[i] = Burst(n)[i] /\ sent[i] \in Id
  <2>1. \A i \in 1..w : Burst(n)[i] \in Id
    BY <1>5, <1>6, Elements
  <2>2. /\ sent \in Seq(Id) /\ Len(sent) = (IF 1 =< w THEN w - 1 + 1 ELSE 0)
        /\ \A i \in 1..(w - 1 + 1) : sent[i] = Burst(n)[1 + i - 1]
    <3>1. 1 \in 1..(Len(Burst(n)) + 1) /\ w \in 0..Len(Burst(n)) /\ w \in (1 - 1)..Len(Burst(n))
      BY <1>5, <1>6
    <3> QED BY <2>1, <3>1, <1>5, <1>6, SubSeqProperties
  <2>3. Len(sent) = w /\ \A i \in 1..w : sent[i] = Burst(n)[i]
    BY <1>6, <2>2
  <2> QED BY <2>1, <2>2, <2>3, LenProperties
<1> HIDE DEF sent
<1>8. /\ tail \in Seq(Message) /\ Len(tail) = w
      /\ \A i \in 1..w : tail[i] = Event(nextMessage + 1 + i)
  <2>1. \A i \in 1..w : Event(sent[i]) \in Message
    BY <1>7, MessageParts
  <2>2. tail \in [1..w -> Message]
    BY <1>7, <2>1
  <2>3. tail \in Seq(Message) /\ Len(tail) = w
    BY <1>6, <2>2
  <2>4. \A i \in 1..w : tail[i] = Event(sent[i]) /\ sent[i] = nextMessage + 1 + i
    BY <1>5, <1>6, <1>7
  <2> QED BY <2>3, <2>4
<1>9. /\ c.open <=> w = n
      /\ c.messages = p \o tail
      /\ c = [open |-> n =< room, messages |-> p \o tail]
      /\ (n =< room) \in BOOLEAN
  <2>1. sendSnapshot(q, k) = p
    BY DEF sendSnapshot, p, rest
  <2>2. c = [open |-> n =< room, messages |-> p \o tail]
    BY <1>5, <2>1 DEF sendEvents, room, w, sent
  <2> HIDE DEF tail, c
  <2>3. c.messages = p \o tail /\ c.open = (n =< room) /\ (n =< room) \in BOOLEAN
    BY <2>2
  <2>4. c.open <=> w = n
    BY <1>6, <2>3
  <2> QED BY <2>2, <2>3, <2>4
<1> HIDE DEF tail, c
<1>11. r \in Nat
  BY <1>2 DEF r
<1>10. /\ p \o tail \in Seq(Message) /\ Len(p \o tail) = r + 1 + w
       /\ \A i \in 1..(r + 1 + w) :
             (p \o tail)[i] = IF i =< r + 1 THEN p[i] ELSE tail[i - (r + 1)]
  <2>1. /\ p \o tail \in Seq(Message) /\ Len(p \o tail) = Len(p) + Len(tail)
        /\ \A i \in 1..(Len(p) + Len(tail)) :
              (p \o tail)[i] = IF i =< Len(p) THEN p[i] ELSE tail[i - Len(p)]
    BY <1>4, <1>8, ConcatProperties
  <2> QED BY <1>4, <1>6, <1>8, <1>11, <2>1
<1>12. \A i \in 1..r : c.messages[i] = rest[i]
  BY <1>4, <1>6, <1>9, <1>10, <1>11
<1>13. c.messages[r + 1] = Snapshot(k)
  BY <1>4, <1>6, <1>9, <1>10, <1>11
<1>14. ASSUME NEW i \in 1..w PROVE c.messages[r + 1 + i] = Event(nextMessage + 1 + i)
  <2>1. r + 1 + i \in 1..(r + 1 + w) /\ ~(r + 1 + i =< r + 1) /\ (r + 1 + i) - (r + 1) = i
    BY <1>6, <1>11
  <2> QED BY <1>8, <1>9, <1>10, <2>1
<1>15. c \in Channel /\ Len(c.messages) = r + 1 + w
  BY <1>9, <1>10 DEF Channel
<1>16. /\ r = (IF q = <<>> THEN 0 ELSE Len(q) - 1)
       /\ \A i \in 1..r : i + 1 \in 1..Len(q) /\ c.messages[i] = q[i + 1]
  BY <1>2, <1>12 DEF r
<1>17. c.messages[r + 1] = Snapshot(nextMessage + 1)
  BY <1>13 DEF k
<1>18. \E u, v \in Nat :
          /\ u = (IF q = <<>> THEN 0 ELSE Len(q) - 1)
          /\ v =< n /\ u + 1 + v =< LiveCapacity /\ (c.open <=> v = n)
          /\ c \in Channel /\ Len(c.messages) = u + 1 + v
          /\ \A i \in 1..u : i + 1 \in 1..Len(q) /\ c.messages[i] = q[i + 1]
          /\ c.messages[u + 1] = Snapshot(nextMessage + 1)
          /\ \A i \in 1..v : c.messages[u + 1 + i] = Event(nextMessage + 1 + i)
  <2> USE <1>6, <1>11
  <2> WITNESS r \in Nat, w \in Nat
  <2> QED BY <1>6, <1>9, <1>14, <1>15, <1>16, <1>17
<1> QED BY <1>18 DEF c, k

\* A channel that was in order stays so, has the snapshot, and keeps what it had
\* but for the oldest; an event of the burst that was not sent is newer than all
\* that wait, and the channel is closed.
LEMMA SentInOrder ==
    ASSUME RingNumbered, NEW n \in Nat, nextMessage + 1 + n =< MaxMessages,
           NEW q \in Seq(Message), Len(q) =< LiveCapacity, NEW shown \in Id,
           InOrder(q, shown, sequence, nextMessage),
           NEW c, c = sendEvents(sendSnapshot(q, nextMessage + 1), Burst(n))
    PROVE  /\ c \in Channel /\ Len(c.messages) =< LiveCapacity
           /\ InOrder(c.messages, shown, nextMessage + 1, nextMessage + 1 + n)
           /\ Snapshot(nextMessage + 1) \in ToSet(c.messages)
           /\ \A m \in ToSet(q) : m = Head(q) \/ m \in ToSet(c.messages)
           /\ \A e \in ToSet(Burst(n)) :
                 \/ Event(e) \in ToSet(c.messages)
                 \/ ~c.open /\ \A m \in ToSet(c.messages) : e > m.id
<1> DEFINE k == nextMessage + 1
<1>1. PICK r, w \in Nat :
              /\ r = (IF q = <<>> THEN 0 ELSE Len(q) - 1)
              /\ w =< n /\ r + 1 + w =< LiveCapacity /\ (c.open <=> w = n)
              /\ c \in Channel /\ Len(c.messages) = r + 1 + w
              /\ \A i \in 1..r : i + 1 \in 1..Len(q) /\ c.messages[i] = q[i + 1]
              /\ c.messages[r + 1] = Snapshot(k)
              /\ \A i \in 1..w : c.messages[r + 1 + i] = Event(k + i)
  <2> DEFINE d == sendEvents(sendSnapshot(q, nextMessage + 1), Burst(n))
  <2>1. \E r, w \in Nat :
              /\ r = (IF q = <<>> THEN 0 ELSE Len(q) - 1)
              /\ w =< n /\ r + 1 + w =< LiveCapacity /\ (d.open <=> w = n)
              /\ d \in Channel /\ Len(d.messages) = r + 1 + w
              /\ \A i \in 1..r : i + 1 \in 1..Len(q) /\ d.messages[i] = q[i + 1]
              /\ d.messages[r + 1] = Snapshot(nextMessage + 1)
              /\ \A i \in 1..w : d.messages[r + 1 + i] = Event(nextMessage + 1 + i)
    BY SentPositions
  <2>2. d = c
    OBVIOUS
  <2> HIDE DEF d
  <2> QED BY <2>1, <2>2
<1>0. /\ r \in Nat /\ w \in Nat /\ n \in Nat /\ w =< n /\ r + 1 + w =< LiveCapacity
      /\ (c.open <=> w = n) /\ Len(c.messages) = r + 1 + w
  BY <1>1
<1>2. /\ nextMessage \in Nat /\ k \in Nat /\ k \in Id /\ sequence \in Nat /\ sequence =< nextMessage
      /\ MaxMessages \in Nat /\ shown \in Nat /\ Len(q) \in Nat
      /\ \A i \in 1..w : k + i \in Id /\ k + i \in Nat
  BY <1>0, EngineAssumption, LenProperties DEF RingNumbered, Id
<1>3. c.messages \in Seq(Message)
  BY <1>1 DEF Channel
<1>4. \A i \in 1..Len(q) : q[i].id \in Nat /\ q[i].id =< nextMessage
  BY MessageParts, Elements DEF InOrder
<1>5. ASSUME NEW i \in 1..w
      PROVE  c.messages[r + 1 + i].id = k + i /\ c.messages[r + 1 + i].kind = "event"
  <2>1. c.messages[r + 1 + i] = Event(k + i) /\ k + i \in Id
    BY <1>1, <1>2
  <2> QED BY <2>1, MessageParts
<1>6. c.messages[r + 1].id = k /\ c.messages[r + 1].kind = "snapshot"
  <2>1. c.messages[r + 1] = Snapshot(k)
    BY <1>1
  <2> QED BY <1>2, <2>1, MessageParts
<1> HIDE DEF k
\* The three parts of the positions.
<1>7. ASSUME NEW i \in 1..(r + 1 + w)
      PROVE  \/ i \in 1..r \/ i = r + 1 \/ \E l \in 1..w : i = r + 1 + l
  <2>1. i \in 1..r \/ i = r + 1 \/ i - (r + 1) \in 1..w
    BY <1>0
  <2>2. i = r + 1 + (i - (r + 1))
    BY <1>0
  <2> QED BY <2>1, <2>2
<1>8. \A i \in 1..(r + 1 + w) : c.messages[i].id \in Nat
  BY <1>3, <1>1, MessageParts, Elements
<1>9. ASSUME NEW i \in 1..r PROVE c.messages[i].id < k /\ c.messages[i].id =< nextMessage
  <2>1. i + 1 \in 1..Len(q) /\ c.messages[i] = q[i + 1]
    BY <1>1
  <2>2. q[i + 1].id \in Nat /\ q[i + 1].id =< nextMessage
    BY <1>4, <2>1
  <2> QED BY <1>2, <2>1, <2>2 DEF k
<1>10. ASSUME NEW i \in 1..(r + 1 + w) PROVE c.messages[i].id =< k + n
  <2>1. CASE i \in 1..r
    BY <1>2, <1>8, <1>9, <2>1
  <2>2. CASE i = r + 1
    BY <1>2, <1>6, <2>2
  <2>3. ASSUME NEW l \in 1..w, i = r + 1 + l PROVE c.messages[i].id =< k + n
    <3>1. c.messages[i].id = k + l
      BY <1>5, <2>3
    <3> QED BY <1>0, <1>2, <3>1
  <2> QED BY <1>7, <2>1, <2>2, <2>3
<1>11. ASSUME NEW i \in 1..(r + 1 + w), NEW j \in 1..(r + 1 + w), i < j
       PROVE  c.messages[i].id < c.messages[j].id
  <2>1. CASE i \in 1..r /\ j \in 1..r
    <3>1. i + 1 < j + 1 /\ i + 1 \in 1..Len(q) /\ j + 1 \in 1..Len(q)
      BY <1>1, <1>11, <2>1
    <3>2. q[i + 1].id < q[j + 1].id
      BY <3>1 DEF InOrder
    <3> QED BY <1>1, <2>1, <3>2
  <2>2. CASE i \in 1..r /\ j = r + 1
    BY <1>6, <1>9, <2>2
  <2>3. ASSUME i \in 1..r, NEW l \in 1..w, j = r + 1 + l
        PROVE  c.messages[i].id < c.messages[j].id
    <3>1. c.messages[j].id = k + l /\ c.messages[i].id < k /\ c.messages[i].id \in Nat
      BY <1>5, <1>8, <1>9, <2>3
    <3>2. k \in Nat /\ l \in Nat /\ 0 < l
      BY <1>2
    <3> QED BY <3>1, <3>2
  <2>4. ASSUME i = r + 1, NEW l \in 1..w, j = r + 1 + l
        PROVE  c.messages[i].id < c.messages[j].id
    <3>1. c.messages[j].id = k + l /\ c.messages[i].id = k
      BY <1>5, <1>6, <2>4
    <3>2. k \in Nat /\ l \in Nat /\ 0 < l
      BY <1>2
    <3> QED BY <3>1, <3>2
  <2>5. ASSUME NEW g \in 1..w, i = r + 1 + g, NEW l \in 1..w, j = r + 1 + l
        PROVE  c.messages[i].id < c.messages[j].id
    <3>1. g < l
      BY <1>0, <1>11, <2>5
    <3>2. c.messages[i].id = k + g /\ c.messages[j].id = k + l
      BY <1>5, <2>5
    <3> QED BY <1>0, <1>2, <3>1, <3>2
  <2>6. ~(i = r + 1 /\ j = r + 1) /\ ~(i = r + 1 /\ j \in 1..r)
    BY <1>1, <1>11
  <2>7. ~(j \in 1..r /\ \E l \in 1..w : i = r + 1 + l) /\ ~(j = r + 1 /\ \E l \in 1..w : i = r + 1 + l)
    BY <1>1, <1>11
  <2> QED BY <1>7, <2>1, <2>2, <2>3, <2>4, <2>5, <2>6, <2>7
<1>12. ASSUME NEW i \in 1..(r + 1 + w), c.messages[i].kind = "snapshot"
       PROVE  shown < c.messages[i].id /\ c.messages[i].id =< k
  <2>1. CASE i \in 1..r
    <3>1. i + 1 \in 1..Len(q) /\ c.messages[i] = q[i + 1]
      BY <1>1, <2>1
    <3>2. shown < q[i + 1].id
      BY <1>12, <3>1 DEF InOrder
    <3> QED BY <1>2, <1>4, <1>9, <2>1, <3>1, <3>2
  <2>2. CASE i = r + 1
    <3>1. shown =< sequence
      BY DEF InOrder
    <3> QED BY <1>2, <1>6, <2>2, <3>1 DEF k
  <2>3. ASSUME NEW l \in 1..w, i = r + 1 + l PROVE FALSE
    BY <1>5, <1>12, <2>3
  <2> QED BY <1>7, <2>1, <2>2, <2>3
<1>13. InOrder(c.messages, shown, k, k + n)
  <2>1. shown =< k
    BY <1>2 DEF InOrder, k
  <2> QED BY <1>1, <2>1, <1>10, <1>11, <1>12 DEF InOrder
<1>14. Snapshot(k) \in ToSet(c.messages)
  <2>1. r + 1 \in 1..Len(c.messages)
    BY <1>1
  <2> QED BY <1>1, <1>3, <2>1, Elements
<1>15. ASSUME NEW m \in ToSet(q), m # Head(q) PROVE m \in ToSet(c.messages)
  <2>1. PICK j \in 1..Len(q) : m = q[j]
    BY Elements
  <2>2. j # 1 /\ q # <<>>
    <3>1. q # <<>>
      BY <1>2, <2>1, EmptySeq
    <3> QED BY <1>15, <2>1, <3>1, TakenOff
  <2>3. j - 1 \in 1..r /\ (j - 1) + 1 = j
    BY <1>1, <1>2, <2>1, <2>2
  <2>4. c.messages[j - 1] = m /\ j - 1 \in 1..Len(c.messages)
    BY <1>1, <2>1, <2>3
  <2> QED BY <1>3, <2>4, Elements
<1>16. ASSUME NEW e \in ToSet(Burst(n))
       PROVE  \/ Event(e) \in ToSet(c.messages)
              \/ ~c.open /\ \A m \in ToSet(c.messages) : e > m.id
  <2>1. PICK i \in 1..n : e = k + i
    <3>1. Burst(n) \in Seq(Id) /\ Len(Burst(n)) = n /\ \A i \in 1..n : Burst(n)[i] = k + i
      BY BurstIds DEF k
    <3> QED BY <3>1, Elements
  <2>2. CASE i =< w
    <3>1. i \in 1..w /\ r + 1 + i \in 1..Len(c.messages)
      BY <1>1, <2>1, <2>2
    <3>2. c.messages[r + 1 + i] = Event(e)
      BY <1>1, <2>1, <3>1 DEF k
    <3> QED BY <1>3, <3>1, <3>2, Elements
  <2>3. CASE ~(i =< w)
    <3>1. ~c.open
      BY <1>0, <2>1, <2>3
    <3>2. ASSUME NEW m \in ToSet(c.messages) PROVE e > m.id
      <4>1. PICK j \in 1..Len(c.messages) : m = c.messages[j]
        BY <1>3, Elements
      <4>2. CASE j \in 1..r
        <5>1. m.id < k /\ j \in 1..(r + 1 + w)
          BY <1>0, <1>9, <4>1, <4>2
        <5>2. m.id \in Nat
          BY <1>8, <4>1, <5>1
        <5> QED BY <1>0, <1>2, <2>1, <5>1, <5>2
      <4>3. CASE j = r + 1
        BY <1>2, <1>6, <2>1, <4>1, <4>3
      <4>4. ASSUME NEW l \in 1..w, j = r + 1 + l PROVE e > m.id
        <5>1. m.id = k + l /\ l < i
          BY <1>0, <1>5, <2>1, <2>3, <4>1, <4>4
        <5> QED BY <1>0, <1>2, <2>1, <5>1
      <4> QED BY <1>1, <1>7, <4>1, <4>2, <4>3, <4>4
    <3> QED BY <3>1, <3>2
  <2> QED BY <2>2, <2>3
<1> QED BY <1>1, <1>13, <1>14, <1>15, <1>16 DEF k

-----------------------------------------------------------------------------
(* The stream of one reader. *)

\* What is taken from the head of a sequence and what stays.
LEMMA HeadOrTail ==
    ASSUME NEW S, NEW q \in Seq(S), q # <<>>
    PROVE  /\ Head(q) \in ToSet(q) /\ ToSet(Tail(q)) \subseteq ToSet(q)
           /\ \A x \in ToSet(q) : x = Head(q) \/ x \in ToSet(Tail(q))
<1>1. /\ Head(q) = q[1] /\ 1 \in 1..Len(q) /\ Tail(q) \in Seq(S) /\ Len(Tail(q)) = Len(q) - 1
      /\ Len(q) \in Nat
      /\ \A i \in 1..Len(Tail(q)) : i + 1 \in 1..Len(q) /\ Tail(q)[i] = q[i + 1]
  BY TakenOff
<1>2. Head(q) \in ToSet(q)
  BY <1>1, Elements
<1>3. ASSUME NEW x \in ToSet(Tail(q)) PROVE x \in ToSet(q)
  <2>1. PICK i \in 1..Len(Tail(q)) : x = Tail(q)[i]
    BY <1>1, Elements
  <2> QED BY <1>1, <2>1, Elements
<1>4. ASSUME NEW x \in ToSet(q), x # Head(q) PROVE x \in ToSet(Tail(q))
  <2>1. PICK i \in 1..Len(q) : x = q[i]
    BY Elements
  <2>2. i # 1
    BY <1>1, <1>4, <2>1
  <2>3. i - 1 \in 1..Len(Tail(q)) /\ (i - 1) + 1 = i
    BY <1>1, <2>2
  <2>4. Tail(q)[i - 1] = x
    BY <1>1, <2>1, <2>3
  <2> QED BY <1>1, <2>3, <2>4, Elements
<1> QED BY <1>2, <1>3, <1>4

\* The parts of a reader are numbers and sets of numbers.
LEMMA ReaderParts ==
    ASSUME NEW r \in Reader
    PROVE  /\ r.last \in Int /\ r.last >= -1 /\ r.shown \in Nat /\ r.since \in Nat
           /\ r.shown \in Id /\ r.since \in Id /\ r.last \in Id \cup {NoHeader}
           /\ r.seen \in SUBSET Id /\ r.displaced \in SUBSET Id
           /\ r.at \in {"away", "replay", "stream"}
  BY EngineAssumption DEF Reader, Id, NoHeader

\* The ids on a channel are numbers.
LEMMA ChannelParts ==
    ASSUME NEW c \in Channel
    PROVE  /\ c.messages \in Seq(Message) /\ c.open \in BOOLEAN
           /\ \A m \in ToSet(c.messages) : m \in Message /\ m.id \in Nat
           /\ \A i \in 1..Len(c.messages) : c.messages[i] \in Message /\ c.messages[i].id \in Nat
<1>1. c.messages \in Seq(Message) /\ c.open \in BOOLEAN
  BY DEF Channel
<1>2. \A m \in ToSet(c.messages) : m \in Message
  BY <1>1, Elements
<1>3. \A i \in 1..Len(c.messages) : c.messages[i] \in Message
  BY <1>1, Elements
<1> QED BY <1>1, <1>2, <1>3, MessageParts

\* Publishing serves a reader that is connected.
LEMMA ServedOpen ==
    ASSUME RingNumbered, NEW n \in Nat, Publish(n),
           NEW c, NEW r, Served(c, r, sequence, nextMessage, events), c.open,
           NEW d, d = sendEvents(sendSnapshot(c.messages, nextMessage + 1), Burst(n)),
           NEW x, x = IF c.messages # <<>> /\ Head(c.messages).kind = "event"
                      THEN [r EXCEPT !.displaced = @ \cup {Head(c.messages).id}] ELSE r
    PROVE  Served(d, x, sequence', nextMessage', events')
<1>1. /\ c \in Channel /\ r \in Reader /\ Len(c.messages) =< LiveCapacity
      /\ InOrder(c.messages, r.shown, sequence, nextMessage)
      /\ r.last =< nextMessage
      /\ r.at = "away" => c = Closed
      /\ \A e \in ToSet(events) : e > r.since => Tracked(e, c, r)
  BY DEF Served
<1>2. /\ sequence' = nextMessage + 1 /\ nextMessage' = nextMessage + 1 + n
      /\ nextMessage + 1 + n =< MaxMessages
  BY DEF Publish
<1>3. /\ nextMessage \in Nat /\ events \in Seq(Id)
      /\ \A e \in ToSet(events') : e \in ToSet(events) \/ e \in ToSet(Burst(n))
  BY PublishedRing DEF RingNumbered, Id
<1>4. c.messages \in Seq(Message)
  BY <1>1, ChannelParts
<1>5. /\ r.shown \in Id /\ r.last \in Int /\ r.since \in Nat
      /\ r.at \in {"away", "replay", "stream"}
  BY <1>1, ReaderParts
<1>6. /\ d \in Channel /\ Len(d.messages) =< LiveCapacity
      /\ InOrder(d.messages, r.shown, sequence', nextMessage')
      /\ Snapshot(sequence') \in ToSet(d.messages)
      /\ \A m \in ToSet(c.messages) : m = Head(c.messages) \/ m \in ToSet(d.messages)
      /\ \A e \in ToSet(Burst(n)) :
            \/ Event(e) \in ToSet(d.messages)
            \/ ~d.open /\ \A m \in ToSet(d.messages) : e > m.id
  BY <1>1, <1>2, <1>4, <1>5, SentInOrder
<1>7. r.at # "away"
  BY <1>1 DEF Closed
<1>8. /\ x \in Reader /\ x.at = r.at /\ x.last = r.last /\ x.shown = r.shown
      /\ x.since = r.since /\ x.seen = r.seen /\ r.displaced \subseteq x.displaced
      /\ c.messages # <<>> /\ Head(c.messages).kind = "event" =>
            Head(c.messages).id \in x.displaced
  <2>1. CASE c.messages # <<>> /\ Head(c.messages).kind = "event"
    <3>1. Head(c.messages) \in Message
      BY <1>4, <2>1, TakenOff
    <3>2. Head(c.messages).id \in Id
      BY <3>1, MessageParts
    <3>3. x = [r EXCEPT !.displaced = @ \cup {Head(c.messages).id}]
      BY <2>1
    <3> QED BY <1>1, <3>2, <3>3 DEF Reader
  <2>2. CASE ~(c.messages # <<>> /\ Head(c.messages).kind = "event")
    BY <1>1, <2>2
  <2> QED BY <2>1, <2>2
<1>9. Current(d, x.shown, sequence')
  BY <1>6 DEF Current
<1>10. x.last =< nextMessage'
  BY <1>1, <1>2, <1>3, <1>5, <1>8
<1>11. ASSUME NEW e \in ToSet(events'), e > x.since PROVE Tracked(e, d, x)
  <2>1. CASE e \in ToSet(events)
    <3>1. Tracked(e, c, r)
      BY <1>1, <1>8, <1>11, <2>1
    <3>2. CASE e \in r.seen \cup r.displaced
      BY <1>8, <3>2 DEF Tracked
    <3>3. CASE Event(e) \in ToSet(c.messages) /\ e > r.last
      <4>1. CASE Event(e) = Head(c.messages)
        <5>1. c.messages # <<>>
          BY <3>3 DEF ToSet
        <5>2. Head(c.messages).kind = "event" /\ Head(c.messages).id = e
          BY <4>1 DEF Event
        <5> QED BY <1>8, <5>1, <5>2 DEF Tracked
      <4>2. CASE Event(e) # Head(c.messages)
        BY <1>6, <1>7, <1>8, <3>3, <4>2 DEF Tracked
      <4> QED BY <4>1, <4>2
    <3>4. ~Asked(e, c, r)
      BY DEF Asked
    <3> QED BY <1>7, <1>8, <3>1, <3>2, <3>3, <3>4 DEF Tracked
  <2>2. CASE e \in ToSet(Burst(n))
    <3>1. e \in Nat /\ nextMessage + 1 < e
      BY <1>2, <2>2, BurstIds DEF Id
    <3>2. e > x.last
      BY <1>1, <1>3, <1>5, <1>8, <3>1
    <3> QED BY <1>6, <1>7, <1>8, <2>2, <3>2 DEF Tracked, Asked
  <2> QED BY <1>3, <2>1, <2>2
<1> QED BY <1>6, <1>7, <1>8, <1>9, <1>10, <1>11 DEF Served

\* Publishing leaves a channel that is closed, and what its reader comes back with,
\* older than the new events.
LEMMA ServedClosed ==
    ASSUME RingNumbered, NEW n \in Nat, Publish(n),
           NEW c, NEW r, Served(c, r, sequence, nextMessage, events), ~c.open
    PROVE  Served(c, r, sequence', nextMessage', events')
<1>1. /\ c \in Channel /\ r \in Reader /\ Len(c.messages) =< LiveCapacity
      /\ InOrder(c.messages, r.shown, sequence, nextMessage)
      /\ r.last =< nextMessage
      /\ r.at = "away" => c = Closed
      /\ \A e \in ToSet(events) : e > r.since => Tracked(e, c, r)
  BY DEF Served
<1>2. /\ nextMessage' = nextMessage + 1 + n /\ nextMessage + 1 + n =< MaxMessages
  BY DEF Publish
<1>3. /\ nextMessage \in Nat /\ nextMessage' \in Nat /\ sequence \in Nat /\ sequence' \in Nat
      /\ nextMessage < nextMessage' /\ sequence =< sequence'
      /\ \A e \in ToSet(events') : e \in ToSet(events) \/ e \in ToSet(Burst(n))
  BY PublishedRing DEF RingNumbered, Id
<1>4. /\ r.shown \in Nat /\ r.last \in Int /\ r.since \in Nat
      /\ r.at \in {"away", "replay", "stream"}
  BY <1>1, ReaderParts
<1>5. /\ \A m \in ToSet(c.messages) : m.id \in Nat
      /\ \A i \in 1..Len(c.messages) : c.messages[i].id \in Nat
      /\ c.messages \in Seq(Message)
  BY <1>1, ChannelParts
<1>6. InOrder(c.messages, r.shown, sequence', nextMessage')
  <2>1. r.shown =< sequence'
    BY <1>1, <1>3, <1>4 DEF InOrder
  <2>2. ASSUME NEW i \in 1..Len(c.messages)
        PROVE  /\ c.messages[i].id =< nextMessage'
               /\ \A j \in 1..Len(c.messages) : i < j => c.messages[i].id < c.messages[j].id
               /\ c.messages[i].kind = "snapshot" =>
                     r.shown < c.messages[i].id /\ c.messages[i].id =< sequence'
    <3>1. /\ c.messages[i].id =< nextMessage
          /\ \A j \in 1..Len(c.messages) : i < j => c.messages[i].id < c.messages[j].id
          /\ c.messages[i].kind = "snapshot" =>
                r.shown < c.messages[i].id /\ c.messages[i].id =< sequence
      BY <1>1 DEF InOrder
    <3>2. c.messages[i].id \in Nat
      BY <1>5
    <3> QED BY <1>3, <3>1, <3>2
  <2> QED BY <2>1, <2>2 DEF InOrder
<1>7. Current(c, r.shown, sequence')
  BY DEF Current
<1>8. r.last =< nextMessage'
  BY <1>1, <1>3, <1>4
<1>9. ASSUME NEW e \in ToSet(events'), e > r.since PROVE Tracked(e, c, r)
  <2>1. CASE e \in ToSet(events)
    BY <1>1, <1>9, <2>1
  <2>2. CASE e \in ToSet(Burst(n))
    <3>1. e \in Nat /\ nextMessage + 1 < e
      BY <1>2, <2>2, BurstIds DEF Id
    <3>2. e > r.last
      BY <1>1, <1>3, <1>4, <3>1
    <3>3. \A m \in ToSet(c.messages) : e > m.id
      <4> SUFFICES ASSUME NEW m \in ToSet(c.messages) PROVE e > m.id
        OBVIOUS
      <4>1. PICK i \in 1..Len(c.messages) : m = c.messages[i]
        BY <1>5, Elements
      <4>2. m.id =< nextMessage /\ m.id \in Nat
        BY <1>1, <1>5, <4>1 DEF InOrder
      <4> QED BY <1>3, <3>1, <4>2
    <3> QED BY <1>4, <3>2, <3>3 DEF Tracked, Asked
  <2> QED BY <1>3, <2>1, <2>2
<1> QED BY <1>1, <1>6, <1>7, <1>8, <1>9 DEF Served

\* Publishing serves every reader.
LEMMA PublishServes ==
    ASSUME ReadersServed, NEW n \in Nat, Publish(n)
    PROVE  ReadersServed'
<1>1. /\ RingNumbered /\ live \in [Subscriber -> Channel] /\ reader \in [Subscriber -> Reader]
      /\ \A s \in Subscriber : Served(live[s], reader[s], sequence, nextMessage, events)
  BY DEF ReadersServed
<1>2. RingNumbered' /\ Len(events') =< RingSize
  BY <1>1, PublishedRing DEF RingNumbered
<1>3. ASSUME NEW s \in Subscriber
      PROVE  Served(live'[s], reader'[s], sequence', nextMessage', events')
  <2>1. CASE live[s].open
    <3>1. /\ live'[s] = sendEvents(sendSnapshot(live[s].messages, nextMessage + 1), Burst(n))
          /\ reader'[s] = IF live[s].messages # <<>> /\ Head(live[s].messages).kind = "event"
                          THEN [reader[s] EXCEPT !.displaced = @ \cup {Head(live[s].messages).id}]
                          ELSE reader[s]
      BY <2>1 DEF Publish
    <3> QED BY <1>1, <2>1, <3>1, ServedOpen
  <2>2. CASE ~live[s].open
    <3>1. live'[s] = live[s] /\ reader'[s] = reader[s]
      BY <2>2 DEF Publish
    <3> QED BY <1>1, <2>2, <3>1, ServedClosed
  <2> QED BY <2>1, <2>2
<1>4. /\ DOMAIN live' = Subscriber /\ DOMAIN reader' = Subscriber
      /\ live' = [s \in Subscriber |-> live'[s]] /\ reader' = [s \in Subscriber |-> reader'[s]]
  BY DEF Publish
<1>5. \A s \in Subscriber : live'[s] \in Channel /\ reader'[s] \in Reader
  BY <1>3 DEF Served
<1>6. live' \in [Subscriber -> Channel] /\ reader' \in [Subscriber -> Reader]
  BY <1>4, <1>5
<1> QED BY <1>2, <1>3, <1>6 DEF ReadersServed

\* A step of one handler leaves the engine and the other readers as they are.
LEMMA OneServed ==
    ASSUME ReadersServed, NEW s \in Subscriber, NEW c, NEW r, UNCHANGED engine,
           live' = [live EXCEPT ![s] = live'[s]], reader' = [reader EXCEPT ![s] = reader'[s]],
           c = live'[s], r = reader'[s],
           Served(c, r, sequence, nextMessage, events)
    PROVE  ReadersServed'
<1>1. /\ RingNumbered /\ live \in [Subscriber -> Channel] /\ reader \in [Subscriber -> Reader]
      /\ Len(events) =< RingSize
      /\ \A t \in Subscriber : Served(live[t], reader[t], sequence, nextMessage, events)
  BY DEF ReadersServed
<1>2. sequence' = sequence /\ nextMessage' = nextMessage /\ events' = events
  BY DEF engine
<1>3. live'[s] \in Channel /\ reader'[s] \in Reader
  BY DEF Served
<1>4. live' \in [Subscriber -> Channel] /\ reader' \in [Subscriber -> Reader]
  BY <1>1, <1>3
<1>5. RingNumbered'
  BY <1>1, <1>2 DEF RingNumbered
<1>6. \A t \in Subscriber : Served(live'[t], reader'[t], sequence, nextMessage, events)
  BY <1>1
<1> QED BY <1>1, <1>2, <1>4, <1>5, <1>6 DEF ReadersServed

\* What Served says, with the types of the parts.
LEMMA ServedParts ==
    ASSUME RingNumbered, NEW c, NEW r, Served(c, r, sequence, nextMessage, events)
    PROVE  /\ c \in Channel /\ r \in Reader /\ Len(c.messages) =< LiveCapacity
           /\ InOrder(c.messages, r.shown, sequence, nextMessage)
           /\ Current(c, r.shown, sequence)
           /\ r.last =< nextMessage
           /\ r.at = "away" => c = Closed
           /\ \A e \in ToSet(events) : e > r.since => Tracked(e, c, r)
           /\ c.messages \in Seq(Message) /\ c.open \in BOOLEAN
           /\ r.last \in Int /\ r.shown \in Nat /\ r.since \in Nat
           /\ r.at \in {"away", "replay", "stream"}
           /\ sequence \in Nat /\ nextMessage \in Nat /\ sequence =< nextMessage
           /\ events \in Seq(Id) /\ \A e \in ToSet(events) : e \in Nat /\ e =< nextMessage
<1>1. c \in Channel /\ r \in Reader
  BY DEF Served
<1>2. /\ c.messages \in Seq(Message) /\ c.open \in BOOLEAN
      /\ r.last \in Int /\ r.shown \in Nat /\ r.since \in Nat
      /\ r.at \in {"away", "replay", "stream"}
  BY <1>1, ChannelParts, ReaderParts
<1>3. /\ sequence \in Nat /\ nextMessage \in Nat /\ sequence =< nextMessage
      /\ events \in Seq(Id) /\ \A e \in ToSet(events) : e =< nextMessage
  BY DEF RingNumbered, Id
<1>4. \A e \in ToSet(events) : e \in Nat
  BY <1>3, IdsNat
<1> QED BY <1>1, <1>2, <1>3, <1>4 DEF Served

\* The browser connects.
LEMMA SubscribeServes ==
    ASSUME ReadersServed, NEW s \in Subscriber, Subscribe(s)
    PROVE  ReadersServed'
<1> DEFINE r == reader[s]
           c == [open |-> TRUE,
                 messages |-> IF sequence > 0 THEN <<Snapshot(sequence)>> ELSE <<>>]
           x == reader'[s]
<1>1. RingNumbered /\ Served(live[s], r, sequence, nextMessage, events)
  BY DEF ReadersServed
<1>2. /\ r \in Reader /\ r.last =< nextMessage /\ r.since \in Nat /\ r.last \in Int
      /\ \A e \in ToSet(events) : e > r.since => Tracked(e, live[s], r)
      /\ sequence \in Nat /\ nextMessage \in Nat /\ sequence =< nextMessage
      /\ \A e \in ToSet(events) : e \in Nat /\ e =< nextMessage
  BY <1>1, ServedParts
<1>3. r.at = "away"
  BY DEF Subscribe
<1>4. nextMessage \in Id /\ sequence \in Id /\ 0 \in Id /\ LiveCapacity \in Nat \ {0}
  BY <1>1, EngineAssumption DEF RingNumbered, Id
<1> HIDE DEF r
<1>5. /\ x \in Reader /\ x.at = "replay" /\ x.shown = 0 /\ x.last = r.last
      /\ x.since = (IF r.last = NoHeader THEN nextMessage ELSE r.since)
      /\ x.seen = r.seen /\ x.displaced = r.displaced
  <2>1. x = [r EXCEPT !.at = "replay", !.shown = 0,
                      !.since = IF r.last = NoHeader THEN nextMessage ELSE r.since]
    BY DEF Subscribe, ReadersServed, r
  <2> HIDE DEF x
  <2> QED BY <1>2, <1>4, <2>1 DEF Reader
<1>10. /\ live' = [live EXCEPT ![s] = live'[s]] /\ reader' = [reader EXCEPT ![s] = reader'[s]]
       /\ c = live'[s] /\ x = reader'[s] /\ UNCHANGED engine
  BY DEF Subscribe, ReadersServed
<1> HIDE DEF x
<1>6. /\ c \in Channel /\ c.open /\ Len(c.messages) =< LiveCapacity
      /\ InOrder(c.messages, 0, sequence, nextMessage) /\ Current(c, 0, sequence)
  <2>1. CASE sequence > 0
    <3>1. Snapshot(sequence) \in Message /\ Snapshot(sequence).id = sequence
      BY <1>4, MessageParts
    <3>2. /\ c.messages = <<Snapshot(sequence)>> /\ c.messages \in Seq(Message)
          /\ Len(c.messages) = 1 /\ c.messages[1] = Snapshot(sequence) /\ c.open = TRUE
      BY <2>1, <3>1
    <3>3. c \in Channel
      BY <3>2 DEF Channel
    <3>4. Snapshot(sequence) \in ToSet(c.messages)
      <4>1. 1 \in 1..Len(c.messages)
        BY <3>2
      <4>2. c.messages[1] \in ToSet(c.messages)
        BY <3>2, <4>1, Elements
      <4> QED BY <3>2, <4>2
    <3>5. InOrder(c.messages, 0, sequence, nextMessage)
      BY <1>2, <2>1, <3>1, <3>2 DEF InOrder
    <3> QED BY <1>4, <3>2, <3>3, <3>4, <3>5 DEF Current
  <2>2. CASE ~(sequence > 0)
    <3>1. c.messages = <<>> /\ c.open = TRUE
      BY <2>2
    <3>2. c.messages \in Seq(Message) /\ Len(c.messages) = 0
      BY <3>1, EmptySeq
    <3>3. c \in Channel
      BY <3>1, <3>2 DEF Channel
    <3> QED BY <1>2, <1>4, <2>2, <3>1, <3>2, <3>3 DEF Current, InOrder
  <2> QED BY <2>1, <2>2
<1>7. ASSUME NEW e \in ToSet(events), e > x.since PROVE Tracked(e, c, x)
  <2>1. CASE r.last = NoHeader
    BY <1>2, <1>5, <1>7, <2>1
  <2>2. CASE r.last # NoHeader
    <3>1. Tracked(e, live[s], r)
      BY <1>2, <1>5, <1>7, <2>2
    <3> QED BY <1>3, <1>5, <2>2, <3>1 DEF Tracked
  <2> QED BY <2>1, <2>2
<1> HIDE DEF c
<1>8. Served(c, x, sequence, nextMessage, events)
  BY <1>2, <1>5, <1>6, <1>7 DEF Served
<1> QED BY <1>8, <1>10, OneServed

\* The events of the ring that the browser has not seen are sent.
LEMMA ReplayServes ==
    ASSUME ReadersServed, NEW s \in Subscriber, Replay(s)
    PROVE  ReadersServed'
<1> DEFINE r == reader[s]
           c == live[s]
           missed == IF r.last = NoHeader THEN {} ELSE EventsAfter(r.last)
           x == reader'[s]
<1>1. RingNumbered /\ Served(c, r, sequence, nextMessage, events)
  BY DEF ReadersServed
<1>2. /\ c \in Channel /\ r \in Reader /\ Len(c.messages) =< LiveCapacity
      /\ InOrder(c.messages, r.shown, sequence, nextMessage) /\ Current(c, r.shown, sequence)
      /\ r.last =< nextMessage /\ r.since \in Nat /\ r.last \in Int
      /\ \A e \in ToSet(events) : e > r.since => Tracked(e, c, r)
      /\ nextMessage \in Nat /\ events \in Seq(Id)
      /\ \A e \in ToSet(events) : e \in Nat /\ e =< nextMessage
  BY <1>1, ServedParts
<1>3. r.at = "replay"
  BY DEF Replay
<1>4. /\ live' = [live EXCEPT ![s] = live'[s]] /\ reader' = [reader EXCEPT ![s] = reader'[s]]
      /\ c = live'[s] /\ UNCHANGED engine
      /\ x = [r EXCEPT !.at = "stream", !.seen = r.seen \cup missed,
                       !.last = IF missed = {} THEN r.last ELSE Last(events)]
  BY DEF Replay, ReadersServed
<1> HIDE DEF r, c
<1>5. /\ missed \in SUBSET Id /\ \A e \in missed : e \in ToSet(events)
      /\ r.last # NoHeader => \A e \in ToSet(events) : e > r.last => e \in missed
      /\ r.last = NoHeader => missed = {}
  <2>1. ToSet(events) \subseteq Id
    BY <1>2, Elements
  <2> QED BY <2>1 DEF EventsAfter
<1> HIDE DEF missed
<1>6. (IF missed = {} THEN r.last ELSE Last(events)) \in Id \cup {NoHeader}
  <2>1. r.last \in Id \cup {NoHeader}
    BY <1>2, ReaderParts
  <2>2. ASSUME missed # {} PROVE Last(events) \in Id /\ Last(events) \in ToSet(events)
    <3>1. events # <<>>
      BY <1>5, <2>2 DEF ToSet
    <3> QED BY <1>2, <3>1, LastElement
  <2> QED BY <2>1, <2>2
<1>7. /\ x \in Reader /\ x.at = "stream" /\ x.shown = r.shown
      /\ x.last = (IF missed = {} THEN r.last ELSE Last(events))
      /\ x.since = r.since /\ x.seen = r.seen \cup missed /\ x.displaced = r.displaced
  <2> HIDE DEF x
  <2> QED BY <1>2, <1>4, <1>5, <1>6 DEF Reader
<1>11. x = reader'[s]
  OBVIOUS
<1> HIDE DEF x
<1>8. x.last =< nextMessage
  <2>1. CASE missed = {}
    BY <1>2, <1>7, <2>1
  <2>2. CASE missed # {}
    <3>1. events # <<>>
      BY <1>5, <2>2 DEF ToSet
    <3>2. Last(events) \in ToSet(events)
      BY <1>2, <3>1, LastElement
    <3> QED BY <1>2, <1>7, <2>2, <3>2
  <2> QED BY <2>1, <2>2
<1>9. ASSUME NEW e \in ToSet(events), e > x.since PROVE Tracked(e, c, x)
  <2>1. Tracked(e, c, r)
    BY <1>2, <1>7, <1>9
  <2>2. CASE r.last = NoHeader
    <3>1. missed = {} /\ x.last = r.last /\ x.seen = r.seen
      BY <1>5, <1>7, <2>2
    <3> QED BY <1>3, <1>7, <2>1, <2>2, <3>1 DEF Tracked, Asked
  <2>3. CASE r.last # NoHeader
    <3>1. e > r.last => e \in x.seen
      BY <1>5, <1>7, <2>3
    <3> QED BY <1>3, <1>7, <2>1, <2>3, <3>1 DEF Tracked, Asked
  <2> QED BY <2>2, <2>3
<1>10. Served(c, x, sequence, nextMessage, events)
  BY <1>2, <1>7, <1>8, <1>9 DEF Served
<1> QED BY <1>4, <1>10, <1>11, OneServed

\* A frame is written.
LEMMA StreamServes ==
    ASSUME ReadersServed, NEW s \in Subscriber, Stream(s)
    PROVE  ReadersServed'
<1> DEFINE r == reader[s]
           q == live[s].messages
           m == Head(q)
           c == [live[s] EXCEPT !.messages = Tail(q)]
           x == reader'[s]
<1>1. RingNumbered /\ Served(live[s], r, sequence, nextMessage, events)
  BY DEF ReadersServed
<1>2. /\ live[s] \in Channel /\ r \in Reader /\ Len(q) =< LiveCapacity
      /\ InOrder(q, r.shown, sequence, nextMessage) /\ Current(live[s], r.shown, sequence)
      /\ r.last =< nextMessage /\ r.since \in Nat /\ r.last \in Int /\ r.shown \in Nat
      /\ \A e \in ToSet(events) : e > r.since => Tracked(e, live[s], r)
      /\ nextMessage \in Nat /\ sequence \in Nat /\ events \in Seq(Id)
      /\ \A e \in ToSet(events) : e \in Nat /\ e =< nextMessage
      /\ q \in Seq(Message) /\ live[s].open \in BOOLEAN
  BY <1>1, ServedParts
<1>3. r.at = "stream" /\ q # <<>>
  BY DEF Stream
<1>4. /\ live' = [live EXCEPT ![s] = live'[s]] /\ reader' = [reader EXCEPT ![s] = reader'[s]]
      /\ c = live'[s] /\ x = reader'[s] /\ UNCHANGED engine
      /\ x = IF m.kind = "snapshot" THEN [r EXCEPT !.last = m.id, !.shown = m.id]
             ELSE [r EXCEPT !.last = 0, !.seen = r.seen \cup {m.id}]
  BY DEF Stream, ReadersServed
<1>5. /\ m = q[1] /\ 1 \in 1..Len(q) /\ m \in Message /\ Tail(q) \in Seq(Message)
      /\ Len(Tail(q)) = Len(q) - 1 /\ Len(q) \in Nat
      /\ \A i \in 1..Len(Tail(q)) : i + 1 \in 1..Len(q) /\ Tail(q)[i] = q[i + 1]
  BY <1>2, <1>3, TakenOff
<1>6. /\ ToSet(Tail(q)) \subseteq ToSet(q)
      /\ \A y \in ToSet(q) : y = m \/ y \in ToSet(Tail(q))
  BY <1>2, <1>3, HeadOrTail
<1>7. m.id \in Id /\ m.id \in Nat /\ m.kind \in {"snapshot", "event"}
  BY <1>5, MessageParts
<1> HIDE DEF r, q, m
<1>8. c \in Channel /\ c.messages = Tail(q) /\ c.open = live[s].open
  BY <1>2, <1>5 DEF Channel
<1> HIDE DEF c
<1>9. /\ x \in Reader /\ x.at = "stream" /\ x.since = r.since /\ x.displaced = r.displaced
      /\ m.kind = "snapshot" => x.last = m.id /\ x.shown = m.id /\ x.seen = r.seen
      /\ m.kind = "event" => x.last = 0 /\ x.shown = r.shown /\ x.seen = r.seen \cup {m.id}
  <2> HIDE DEF x
  <2>1. 0 \in Id
    BY EngineAssumption DEF Id
  <2>2. CASE m.kind = "snapshot"
    BY <1>2, <1>3, <1>4, <1>7, <2>2 DEF Reader
  <2>3. CASE m.kind = "event"
    <3>1. x = [r EXCEPT !.last = 0, !.seen = r.seen \cup {m.id}]
      BY <1>4, <2>3
    <3>2. r.seen \cup {m.id} \in SUBSET Id
      BY <1>2, <1>7, ReaderParts
    <3> HIDE DEF x
    <3> QED BY <1>2, <1>3, <2>1, <2>3, <3>1, <3>2 DEF Reader
  <2> QED BY <1>7, <2>2, <2>3
<1> HIDE DEF x
\* What stays on the channel is newer than the message.
<1>10. ASSUME NEW i \in 1..Len(Tail(q))
       PROVE  /\ m.id < Tail(q)[i].id /\ Tail(q)[i].id \in Nat /\ Tail(q)[i].id =< nextMessage
              /\ \A j \in 1..Len(Tail(q)) : i < j => Tail(q)[i].id < Tail(q)[j].id
              /\ Tail(q)[i].kind = "snapshot" =>
                    r.shown < Tail(q)[i].id /\ Tail(q)[i].id =< sequence
  <2>1. i + 1 \in 1..Len(q) /\ Tail(q)[i] = q[i + 1] /\ 1 < i + 1
    BY <1>5
  <2>2. /\ q[1].id < q[i + 1].id /\ q[i + 1].id =< nextMessage
        /\ q[i + 1].kind = "snapshot" => r.shown < q[i + 1].id /\ q[i + 1].id =< sequence
    BY <1>2, <1>5, <2>1 DEF InOrder
  <2>3. ASSUME NEW j \in 1..Len(Tail(q)), i < j PROVE Tail(q)[i].id < Tail(q)[j].id
    <3>1. j + 1 \in 1..Len(q) /\ Tail(q)[j] = q[j + 1] /\ i + 1 < j + 1
      BY <1>5, <2>3
    <3> QED BY <1>2, <2>1, <3>1 DEF InOrder
  <2>4. Tail(q)[i].id \in Nat
    BY <1>5, MessageParts, Elements
  <2> QED BY <1>5, <2>1, <2>2, <2>3, <2>4
<1>11. m.id =< nextMessage /\ (m.kind = "snapshot" => r.shown < m.id /\ m.id =< sequence)
  BY <1>2, <1>5 DEF InOrder
<1>12. x.last =< nextMessage
  BY <1>2, <1>7, <1>9, <1>11
<1>13. InOrder(c.messages, x.shown, sequence, nextMessage)
  <2>1. x.shown =< sequence
    BY <1>2, <1>7, <1>9, <1>11 DEF InOrder
  <2>2. \A i \in 1..Len(Tail(q)) : Tail(q)[i].kind = "snapshot" => x.shown < Tail(q)[i].id
    BY <1>7, <1>9, <1>10
  <2> QED BY <1>8, <1>10, <2>1, <2>2 DEF InOrder
<1>14. Current(c, x.shown, sequence)
  <2> SUFFICES ASSUME c.open, sequence > 0
               PROVE  Snapshot(sequence) \in ToSet(c.messages) \/ x.shown = sequence
    BY DEF Current
  <2>1. Snapshot(sequence) \in ToSet(q) \/ r.shown = sequence
    BY <1>2, <1>8 DEF Current, q
  <2>2. CASE Snapshot(sequence) \in ToSet(q)
    <3>1. CASE Snapshot(sequence) = m
      <4>1. m.kind = "snapshot" /\ m.id = sequence
        BY <3>1 DEF Snapshot
      <4> QED BY <1>9, <4>1
    <3> QED BY <1>6, <1>8, <2>2, <3>1
  <2>3. CASE r.shown = sequence
    BY <1>2, <1>7, <1>9, <1>11, <2>3
  <2> QED BY <2>1, <2>2, <2>3
<1>15. ASSUME NEW e \in ToSet(events), e > x.since PROVE Tracked(e, c, x)
  <2>1. Tracked(e, live[s], r) /\ e \in Nat /\ e > 0
    BY <1>2, <1>9, <1>15
  <2>2. CASE e \in r.seen \cup r.displaced
    BY <1>7, <1>9, <2>2 DEF Tracked
  <2>3. CASE Event(e) \in ToSet(q)
    <3>1. CASE Event(e) = m
      <4>1. m.kind = "event" /\ m.id = e
        BY <3>1 DEF Event
      <4> QED BY <1>9, <4>1 DEF Tracked
    <3>2. CASE Event(e) \in ToSet(Tail(q))
      <4>1. PICK i \in 1..Len(Tail(q)) : Event(e) = Tail(q)[i]
        BY <1>5, <3>2, Elements
      <4>2. m.id < e
        <5>1. Tail(q)[i].id = e
          BY <4>1 DEF Event
        <5> QED BY <1>10, <5>1
      <4>3. e > x.last
        BY <1>7, <1>9, <2>1, <4>2
      <4> QED BY <1>8, <1>9, <3>2, <4>3 DEF Tracked
    <3> QED BY <1>6, <2>3, <3>1, <3>2
  <2>4. CASE Asked(e, live[s], r)
    <3>1. ~live[s].open /\ \A y \in ToSet(q) : e > y.id
      BY <2>4 DEF Asked, q
    <3>2. m \in ToSet(q)
      BY <1>2, <1>5, Elements
    <3>3. e > x.last
      BY <1>7, <1>9, <2>1, <3>1, <3>2
    <3>4. Asked(e, c, x)
      BY <1>6, <1>8, <3>1, <3>3 DEF Asked
    <3> QED BY <1>9, <3>4 DEF Tracked
  <2> QED BY <1>3, <2>1, <2>2, <2>3, <2>4 DEF Tracked, q
<1>16. Len(c.messages) =< LiveCapacity
  BY <1>2, <1>5, <1>8, EngineAssumption
<1>17. Served(c, x, sequence, nextMessage, events)
  BY <1>8, <1>9, <1>12, <1>13, <1>14, <1>15, <1>16 DEF Served
<1> QED BY <1>4, <1>17, OneServed

\* The handler returns.
LEMMA LeaveServes ==
    ASSUME ReadersServed, NEW s \in Subscriber, Leave(s)
    PROVE  ReadersServed'
<1> DEFINE r == reader[s]
           x == [r EXCEPT !.at = "away"]
<1>1. RingNumbered /\ Served(live[s], r, sequence, nextMessage, events)
  BY DEF ReadersServed
<1>2. /\ live[s] \in Channel /\ r \in Reader
      /\ InOrder(live[s].messages, r.shown, sequence, nextMessage)
      /\ r.last =< nextMessage /\ r.last \in Int
      /\ \A e \in ToSet(events) : e > r.since => Tracked(e, live[s], r)
      /\ sequence \in Nat
  BY <1>1, ServedParts
<1>3. /\ live' = [live EXCEPT ![s] = live'[s]] /\ reader' = [reader EXCEPT ![s] = reader'[s]]
      /\ Closed = live'[s] /\ x = reader'[s] /\ UNCHANGED engine
  BY DEF Leave, ReadersServed
<1> HIDE DEF r
<1>4. /\ x \in Reader /\ x.at = "away" /\ x.since = r.since /\ x.displaced = r.displaced
      /\ x.last = r.last /\ x.shown = r.shown /\ x.seen = r.seen
  BY <1>2 DEF Reader
<1> HIDE DEF x
<1>5. /\ Closed \in Channel /\ Len(Closed.messages) = 0 /\ ~Closed.open
      /\ Closed.messages = <<>>
  <2>1. <<>> \in Seq(Message) /\ Len(<<>>) = 0
    BY EmptySeq
  <2> QED BY <2>1 DEF Closed, Channel
<1>6. InOrder(Closed.messages, x.shown, sequence, nextMessage) /\ Current(Closed, x.shown, sequence)
  BY <1>2, <1>4, <1>5 DEF InOrder, Current
<1>7. ASSUME NEW e \in ToSet(events), e > x.since PROVE Tracked(e, Closed, x)
  <2>1. Tracked(e, live[s], r)
    BY <1>2, <1>4, <1>7
  <2> QED BY <1>4, <2>1 DEF Tracked, Asked
<1>8. Len(Closed.messages) =< LiveCapacity
  BY <1>5, EngineAssumption
<1>9. Served(Closed, x, sequence, nextMessage, events)
  BY <1>2, <1>4, <1>5, <1>6, <1>7, <1>8 DEF Served
<1> QED BY <1>3, <1>9, OneServed

\* Before the first snapshot nobody is connected.
LEMMA ServedInit == EngineInit => ReadersServed
<1> SUFFICES ASSUME EngineInit PROVE ReadersServed
  OBVIOUS
<1>1. /\ sequence = 0 /\ nextMessage = 0 /\ events = <<>>
      /\ live = [s \in Subscriber |-> Closed] /\ reader = [s \in Subscriber |-> Browser]
  BY DEF EngineInit
<1>2. /\ 0 \in Id /\ <<>> \in Seq(Id) /\ Len(<<>>) = 0 /\ <<>> \in Seq(Message)
      /\ ToSet(<<>>) = {}
  <2>1. 0 \in Id
    BY EngineAssumption DEF Id
  <2>2. <<>> \in Seq(Id) /\ Len(<<>>) = 0 /\ <<>> \in Seq(Message)
    BY EmptySeq
  <2>3. ToSet(<<>>) = {}
    BY DEF ToSet
  <2> QED BY <2>1, <2>2, <2>3
<1>3. /\ Closed \in Channel /\ ~Closed.open /\ Closed.messages = <<>>
  BY <1>2 DEF Closed, Channel
<1>4. /\ Browser \in Reader /\ Browser.at = "away" /\ Browser.shown = 0 /\ Browser.last = NoHeader
  BY <1>2 DEF Browser, Reader
<1>5. InOrder(<<>>, 0, 0, 0) /\ Current(Closed, 0, 0) /\ NoHeader =< 0
  BY <1>2, <1>3 DEF InOrder, Current, NoHeader
<1>6. Served(Closed, Browser, 0, 0, <<>>)
  BY <1>2, <1>3, <1>4, <1>5, EngineAssumption DEF Served
<1>7. RingNumbered /\ Len(events) =< RingSize
  BY <1>1, <1>2, EngineAssumption DEF RingNumbered
<1> QED BY <1>1, <1>3, <1>4, <1>6, <1>7 DEF ReadersServed

\* A step of the sampler alone.
LEMMA ServedUnchanged ==
    ASSUME ReadersServed, UNCHANGED engineVars
    PROVE  ReadersServed'
  BY DEF ReadersServed, RingNumbered, engineVars, engine

-----------------------------------------------------------------------------
(* The events between two passes. *)

\* What a step does to the engine and to the list of events.
LEMMA EngineSteps ==
    ASSUME [SamplerNext]_allVars
    PROVE  \/ UNCHANGED engineVars
           \/ PublishPending
           \/ \E s \in Subscriber : Subscribe(s) \/ Replay(s) \/ Stream(s) \/ Leave(s)
<1>1. CASE UNCHANGED allVars
  BY <1>1 DEF allVars
<1>2. ASSUME NEW c \in Container, Lifecycle(c) PROVE UNCHANGED engineVars
  BY <1>2 DEF Lifecycle, Change
<1>3. CASE Disconnect
  BY <1>3 DEF Disconnect
<1>4. ASSUME NEW fails \in BOOLEAN, DockerEvent(fails) PROVE UNCHANGED engineVars
  BY <1>4 DEF DockerEvent
<1>5. ASSUME NEW h \in BOOLEAN, NEW d \in BOOLEAN, NEW failed \in SUBSET Resource,
             NEW a \in BOOLEAN, Collect(h, d, failed, a)
      PROVE  PublishPending
  BY <1>5 DEF Collect
<1>6. ASSUME NEW h \in BOOLEAN, NEW d \in BOOLEAN, NEW inspected \in SUBSET Listed,
             CollectWithoutDocker(h, d, inspected)
      PROVE  PublishPending
  BY <1>6 DEF CollectWithoutDocker
<1>7. CASE Tick
  BY <1>7 DEF Tick
<1>8. ASSUME NEW s \in Subscriber, Connect(s) PROVE Subscribe(s)
  BY <1>8 DEF Connect
<1>9. ASSUME NEW s \in Subscriber, Read(s) PROVE Replay(s) \/ Stream(s) \/ Leave(s)
  BY <1>9 DEF Read
<1> QED BY <1>1, <1>2, <1>3, <1>4, <1>5, <1>6, <1>7, <1>8, <1>9 DEF SamplerNext

\* A step keeps the list of events, publishes it, or adds an event.
LEMMA LogSteps ==
    ASSUME [SamplerNext]_allVars
    PROVE  \/ UNCHANGED eventLog
           \/ PublishPending /\ UNCHANGED <<received, accepted>>
           \/ \E fails \in BOOLEAN : DockerEvent(fails)
<1> USE DEF eventLog
<1>1. CASE UNCHANGED allVars
  BY <1>1 DEF allVars, samplerVars
<1>2. ASSUME NEW c \in Container, Lifecycle(c) PROVE UNCHANGED eventLog
  BY <1>2 DEF Lifecycle, Change
<1>3. CASE Disconnect
  BY <1>3 DEF Disconnect
<1>5. ASSUME NEW h \in BOOLEAN, NEW d \in BOOLEAN, NEW failed \in SUBSET Resource,
             NEW a \in BOOLEAN, Collect(h, d, failed, a)
      PROVE  PublishPending /\ UNCHANGED <<received, accepted>>
  BY <1>5 DEF Collect
<1>6. ASSUME NEW h \in BOOLEAN, NEW d \in BOOLEAN, NEW inspected \in SUBSET Listed,
             CollectWithoutDocker(h, d, inspected)
      PROVE  PublishPending /\ UNCHANGED <<received, accepted>>
  BY <1>6 DEF CollectWithoutDocker
<1>7. CASE Tick
  BY <1>7 DEF Tick
<1>8. ASSUME NEW s \in Subscriber, Connect(s) PROVE UNCHANGED eventLog
  BY <1>8 DEF Connect
<1>9. ASSUME NEW s \in Subscriber, Read(s) PROVE UNCHANGED eventLog
  BY <1>9 DEF Read, samplerVars
<1> QED BY <1>1, <1>2, <1>3, <1>5, <1>6, <1>7, <1>8, <1>9 DEF SamplerNext

\* A line of two parts.
LEMMA TwoParts ==
    ASSUME NEW p \in Seq(Nat), NEW q \in Seq(Nat)
    PROVE  /\ p \o q \in Seq(Nat) /\ Len(p \o q) = Len(p) + Len(q)
           /\ Len(p) \in Nat /\ Len(q) \in Nat
           /\ \A i \in 1..Len(p) : (p \o q)[i] = p[i]
           /\ \A i \in 1..Len(q) : (p \o q)[Len(p) + i] = q[i]
<1>1. /\ p \o q \in Seq(Nat) /\ Len(p \o q) = Len(p) + Len(q)
      /\ \A i \in 1..(Len(p) + Len(q)) :
            (p \o q)[i] = IF i =< Len(p) THEN p[i] ELSE q[i - Len(p)]
  BY ConcatProperties
<1>2. Len(p) \in Nat /\ Len(q) \in Nat
  BY LenProperties
<1>3. \A i \in 1..Len(p) : (p \o q)[i] = p[i]
  BY <1>1, <1>2
<1>4. ASSUME NEW i \in 1..Len(q) PROVE (p \o q)[Len(p) + i] = q[i]
  <2>1. /\ Len(p) + i \in 1..(Len(p) + Len(q)) /\ ~(Len(p) + i =< Len(p))
        /\ (Len(p) + i) - Len(p) = i
    BY <1>2
  <2> QED BY <1>1, <2>1
<1> QED BY <1>1, <1>2, <1>3, <1>4

\* A new event at the end of a list that has room.
LEMMA LineGrows ==
    ASSUME NEW line \in Seq(Nat), NEW n \in Nat, Ascending(line, n)
    PROVE  LET longer == Append(line, n + 1) IN
           /\ Ascending(longer, n + 1) /\ ToSet(line) \subseteq ToSet(longer)
           /\ n + 1 \in ToSet(longer)
           /\ \A a \in Nat : a =< n /\ Displaced(a, line) => Displaced(a, longer)
<1> DEFINE longer == Append(line, n + 1)
           l == Len(line)
<1>1. /\ longer \in Seq(Nat) /\ Len(longer) = l + 1 /\ l \in Nat
      /\ \A i \in 1..l : longer[i] = line[i] /\ line[i] \in Nat
      /\ longer[l + 1] = n + 1
  BY AppendProperties, LenProperties, Elements
<1> HIDE DEF longer, l
<1>2. l = Len(line)
  BY DEF l
<1>3. ASSUME NEW i \in 1..(l + 1)
      PROVE  longer[i] =< n + 1 /\ \A j \in 1..(l + 1) : i < j => longer[i] < longer[j]
  <2>1. CASE i \in 1..l
    <3>1. /\ longer[i] = line[i] /\ line[i] \in Nat /\ line[i] =< n
          /\ \A j \in 1..l : i < j => line[i] < line[j]
      BY <1>1, <1>2, <2>1 DEF Ascending
    <3>2. ASSUME NEW j \in 1..(l + 1), i < j PROVE longer[i] < longer[j]
      <4>1. CASE j \in 1..l
        BY <1>1, <3>1, <3>2, <4>1
      <4>2. CASE j = l + 1
        BY <1>1, <3>1, <4>2
      <4> QED BY <1>1, <4>1, <4>2
    <3> QED BY <3>1, <3>2
  <2>2. CASE i = l + 1
    <3>1. \A j \in 1..(l + 1) : ~(i < j)
      BY <1>1, <2>2
    <3> QED BY <1>1, <2>2, <3>1
  <2> QED BY <1>1, <2>1, <2>2
<1>4. Ascending(longer, n + 1)
  BY <1>1, <1>3 DEF Ascending
<1>5. ASSUME NEW a \in ToSet(line) PROVE a \in ToSet(longer)
  <2>1. PICK i \in 1..l : a = line[i]
    BY <1>2, Elements
  <2>2. i \in 1..Len(longer) /\ longer[i] = a
    BY <1>1, <2>1
  <2> QED BY <1>1, <2>2, Elements
<1>6. n + 1 \in ToSet(longer)
  <2>1. l + 1 \in 1..Len(longer)
    BY <1>1
  <2> QED BY <1>1, <2>1, Elements
<1>7. ASSUME NEW a \in Nat, a =< n, Displaced(a, line) PROVE Displaced(a, longer)
  <2>1. PendingCap \in Nat \ {0} /\ PendingCap =< l
        /\ \A i \in 1..l : l - PendingCap < i => a < line[i]
    BY <1>2, <1>7, SamplerAssumption DEF Displaced
  <2>2. ASSUME NEW i \in 1..(l + 1), (l + 1) - PendingCap < i PROVE a < longer[i]
    <3>1. CASE i \in 1..l
      <4>1. l - PendingCap < i
        BY <1>1, <2>1, <2>2
      <4> QED BY <1>1, <2>1, <3>1, <4>1
    <3>2. CASE i = l + 1
      BY <1>1, <1>7, <3>2
    <3> QED BY <1>1, <3>1, <3>2
  <2> QED BY <1>1, <2>1, <2>2 DEF Displaced
<1> QED BY <1>4, <1>5, <1>6, <1>7 DEF longer

\* A new event at the end of a full list makes the oldest one leave: all that
\* follow are newer than it.
LEMMA LineMoves ==
    ASSUME NEW front \in Seq(Nat), NEW q \in Seq(Nat), NEW n \in Nat, Len(q) = PendingCap,
           Ascending(front \o q, n)
    PROVE  LET line == front \o q
               moved == front \o Append(Tail(q), n + 1) IN
           /\ Ascending(moved, n + 1)
           /\ n + 1 \in ToSet(moved)
           /\ \A a \in ToSet(line) : a \in ToSet(moved) \/ Displaced(a, moved)
           /\ \A a \in Nat : a =< n /\ Displaced(a, line) => Displaced(a, moved)
<1> DEFINE line == front \o q
           r == Append(Tail(q), n + 1)
           moved == front \o r
           d == Len(front)
           cap == PendingCap
<1>1. cap \in Nat \ {0} /\ cap = Len(q) /\ q # <<>>
  BY SamplerAssumption, EmptySeq
<1>2. /\ Tail(q) \in Seq(Nat) /\ Len(Tail(q)) = cap - 1
      /\ \A i \in 1..(cap - 1) : Tail(q)[i] = q[i + 1]
  BY <1>1, TakenOff
<1>3. /\ r \in Seq(Nat) /\ Len(r) = cap
      /\ \A i \in 1..(cap - 1) : r[i] = q[i + 1]
      /\ r[cap] = n + 1
  <2>1. /\ r \in Seq(Nat) /\ Len(r) = Len(Tail(q)) + 1
        /\ \A i \in 1..Len(Tail(q)) : r[i] = Tail(q)[i]
        /\ r[Len(Tail(q)) + 1] = n + 1
    BY <1>2, AppendProperties
  <2>2. Len(Tail(q)) + 1 = cap
    BY <1>1, <1>2
  <2> HIDE DEF r
  <2> QED BY <1>2, <2>1, <2>2
<1> HIDE DEF r
<1>4. /\ line \in Seq(Nat) /\ Len(line) = d + cap /\ d \in Nat
      /\ \A i \in 1..d : line[i] = front[i]
      /\ \A i \in 1..cap : line[d + i] = q[i]
  <2>1. /\ front \o q \in Seq(Nat) /\ Len(front \o q) = Len(front) + Len(q) /\ Len(front) \in Nat
        /\ \A i \in 1..Len(front) : (front \o q)[i] = front[i]
        /\ \A i \in 1..Len(q) : (front \o q)[Len(front) + i] = q[i]
    BY TwoParts, Zenon
  <2> QED BY <2>1
<1>5. /\ moved \in Seq(Nat) /\ Len(moved) = d + cap
      /\ \A i \in 1..d : moved[i] = front[i]
      /\ \A i \in 1..cap : moved[d + i] = r[i]
  <2>1. /\ front \o r \in Seq(Nat) /\ Len(front \o r) = Len(front) + Len(r)
        /\ \A i \in 1..Len(front) : (front \o r)[i] = front[i]
        /\ \A i \in 1..Len(r) : (front \o r)[Len(front) + i] = r[i]
    BY <1>3, TwoParts, Zenon
  <2> QED BY <1>3, <2>1
<1>0. d \in Nat /\ cap \in Nat /\ cap # 0 /\ n \in Nat
  BY <1>1, <1>4
<1>6. Ascending(line, n)
  OBVIOUS
<1> HIDE DEF line, moved, d, cap
\* The places of the new line: one of the old one, or the new event.
<1>7. ASSUME NEW i \in 1..(d + cap)
      PROVE  \/ i \in 1..d /\ moved[i] = line[i]
             \/ /\ i \in (d + 1)..(d + cap - 1) /\ i + 1 \in 1..(d + cap)
                /\ moved[i] = line[i + 1]
             \/ i = d + cap /\ moved[i] = n + 1
  <2>1. CASE i \in 1..d
    BY <1>4, <1>5, <2>1
  <2>2. CASE i \in (d + 1)..(d + cap - 1)
    <3>1. /\ i - d \in 1..(cap - 1) /\ i - d \in 1..cap /\ d + (i - d) = i
          /\ (i - d) + 1 \in 1..cap /\ d + ((i - d) + 1) = i + 1
      BY <1>0, <2>2
    <3>2. moved[i] = q[(i - d) + 1]
      BY <1>3, <1>5, <3>1
    <3>3. line[i + 1] = q[(i - d) + 1]
      BY <1>4, <3>1
    <3> QED BY <1>0, <2>2, <3>2, <3>3
  <2>3. CASE i = d + cap
    <3>1. cap \in 1..cap
      BY <1>1
    <3> QED BY <1>3, <1>5, <2>3, <3>1
  <2> QED BY <1>0, <2>1, <2>2, <2>3
<1>8. \A i \in 1..(d + cap) :
         /\ line[i] \in Nat /\ line[i] =< n /\ moved[i] \in Nat
         /\ \A j \in 1..(d + cap) : i < j => line[i] < line[j]
  BY <1>4, <1>5, <1>6, Elements DEF Ascending
<1>9. ASSUME NEW i \in 1..(d + cap)
      PROVE  moved[i] =< n + 1 /\ \A j \in 1..(d + cap) : i < j => moved[i] < moved[j]
  <2>1. moved[i] =< n + 1
    BY <1>7, <1>8
  <2>2. ASSUME NEW j \in 1..(d + cap), i < j PROVE moved[i] < moved[j]
    <3>1. CASE j = d + cap /\ moved[j] = n + 1
      <4>1. i # d + cap
        BY <1>0, <2>2, <3>1
      <4>2. moved[i] =< n
        BY <1>7, <1>8, <4>1
      <4> QED BY <1>8, <3>1, <4>2
    <3>2. CASE j \in 1..d /\ moved[j] = line[j]
      <4>1. i \in 1..d
        BY <1>0, <2>2, <3>2
      <4>2. moved[i] = line[i]
        BY <1>4, <1>5, <4>1
      <4> QED BY <1>8, <2>2, <3>2, <4>2
    <3>3. CASE /\ j \in (d + 1)..(d + cap - 1) /\ j + 1 \in 1..(d + cap)
               /\ moved[j] = line[j + 1]
      <4>1. i < j + 1 /\ i + 1 < j + 1 /\ i # d + cap
        BY <1>0, <2>2, <3>3
      <4> QED BY <1>7, <1>8, <3>3, <4>1
    <3> QED BY <1>7, <3>1, <3>2, <3>3
  <2> QED BY <2>1, <2>2
<1>10. Ascending(moved, n + 1)
  BY <1>5, <1>9 DEF Ascending
<1>11. n + 1 \in ToSet(moved)
  <2>1. d + cap \in 1..(d + cap) /\ ~(d + cap \in 1..d) /\ ~(d + cap \in (d + 1)..(d + cap - 1))
    BY <1>1, <1>4
  <2>2. moved[d + cap] = n + 1
    BY <1>7, <2>1
  <2> QED BY <1>5, <2>1, <2>2, Elements
\* The last PendingCap places are newer than every place of the old line up to the
\* one that left, and than what was displaced before.
<1>12. ASSUME NEW a \in Nat, a =< n,
              \A i \in 1..(d + cap) : d + 1 < i => a < line[i]
       PROVE  Displaced(a, moved)
  <2>1. ASSUME NEW i \in 1..(d + cap), (d + cap) - cap < i PROVE a < moved[i]
    <3>1. ~(i \in 1..d)
      BY <1>0, <2>1
    <3>2. CASE /\ i \in (d + 1)..(d + cap - 1) /\ i + 1 \in 1..(d + cap)
               /\ moved[i] = line[i + 1]
      <4>1. d + 1 < i + 1
        BY <1>0, <3>2
      <4> QED BY <1>12, <3>2, <4>1
    <3>3. CASE i = d + cap /\ moved[i] = n + 1
      BY <1>12, <3>3
    <3> QED BY <1>7, <3>1, <3>2, <3>3
  <2>2. PendingCap =< d + cap /\ PendingCap = cap
    BY <1>1, <1>4 DEF cap
  <2> QED BY <1>5, <2>1, <2>2 DEF Displaced
<1>13. ASSUME NEW a \in ToSet(line) PROVE a \in ToSet(moved) \/ Displaced(a, moved)
  <2>1. PICK j \in 1..(d + cap) : a = line[j]
    BY <1>4, Elements
  <2>2. CASE j \in 1..d
    <3>1. moved[j] = a /\ j \in 1..Len(moved)
      BY <1>4, <1>5, <2>1, <2>2
    <3> QED BY <1>5, <3>1, Elements
  <2>3. CASE j = d + 1
    <3>1. a \in Nat /\ a =< n /\ \A i \in 1..(d + cap) : d + 1 < i => a < line[i]
      BY <1>8, <2>1, <2>3
    <3> QED BY <1>12, <3>1
  <2>4. CASE d + 1 < j
    <3>1. /\ j - 1 \in 1..(d + cap) /\ ~(j - 1 \in 1..d) /\ ~(j - 1 = d + cap) /\ (j - 1) + 1 = j
      BY <1>0, <2>4
    <3>2. moved[j - 1] = a
      BY <1>7, <2>1, <3>1
    <3>3. j - 1 \in 1..Len(moved)
      BY <1>5, <3>1
    <3> QED BY <1>5, <3>2, <3>3, Elements
  <2> QED BY <1>1, <1>4, <2>2, <2>3, <2>4
<1>14. ASSUME NEW a \in Nat, a =< n, Displaced(a, line) PROVE Displaced(a, moved)
  <2>1. \A i \in 1..(d + cap) : (d + cap) - cap < i => a < line[i]
    BY <1>4, <1>14 DEF Displaced, cap
  <2>2. \A i \in 1..(d + cap) : d + 1 < i => a < line[i]
    BY <1>0, <2>1
  <2> QED BY <1>12, <1>14, <2>2
<1> QED BY <1>10, <1>11, <1>13, <1>14 DEF line, moved, r

\* Every step keeps the line in order.
LEMMA LogStep ==
    ASSUME LogInOrder, [SamplerNext]_allVars
    PROVE  LogInOrder'
<1>1. /\ pending \in Seq(Nat) /\ published \in Seq(Nat) /\ Len(pending) =< PendingCap
      /\ received \in Nat /\ accepted \in SUBSET Nat
      /\ \A a \in accepted : a =< received
      /\ Ascending(Line, received)
      /\ \A a \in accepted : a \notin ToSet(Line) => Displaced(a, Line)
      /\ PendingCap \in Nat \ {0} /\ Len(pending) \in Nat
  BY SamplerAssumption, LenProperties DEF LogInOrder
<1>2. CASE UNCHANGED eventLog
  BY <1>2 DEF LogInOrder, eventLog, Line
<1>3. CASE PublishPending /\ UNCHANGED <<received, accepted>>
  <2>1. published' = published \o pending /\ pending' = <<>>
    BY <1>3 DEF PublishPending
  <2>2. published' \in Seq(Nat) /\ pending' \in Seq(Nat) /\ Len(pending') = 0
    BY <1>1, <2>1, TwoParts, EmptySeq
  <2>3. Line' = Line
    BY <1>1, <2>1, <2>2 DEF Line
  <2> QED BY <1>1, <1>3, <2>2, <2>3 DEF LogInOrder
<1>4. ASSUME NEW fails \in BOOLEAN, DockerEvent(fails) PROVE LogInOrder'
  <2>1. /\ received' = received + 1 /\ published' = published
        /\ \/ pending' = KeepPending(received + 1) /\ accepted' = accepted \cup {received + 1}
           \/ pending' = pending /\ accepted' = accepted
    BY <1>4 DEF DockerEvent
  <2>2. ASSUME NEW line \in Seq(Nat), Ascending(line, received) PROVE Ascending(line, received + 1)
    <3>1. \A i \in 1..Len(line) : line[i] \in Nat /\ line[i] =< received
      BY <2>2, Elements DEF Ascending
    <3>2. \A i \in 1..Len(line) : line[i] =< received + 1
      BY <1>1, <3>1
    <3> QED BY <2>2, <3>2 DEF Ascending
  <2>3. received + 1 \in Nat /\ \A a \in accepted : a \in Nat /\ a =< received /\ a =< received + 1
    BY <1>1
  <2>4. CASE pending' = pending /\ accepted' = accepted
    <3>1. Line \in Seq(Nat) /\ Line' = Line
      BY <1>1, <2>1, <2>4, TwoParts DEF Line
    <3> QED BY <1>1, <2>1, <2>2, <2>3, <2>4, <3>1 DEF LogInOrder
  <2>5. CASE /\ pending' = KeepPending(received + 1) /\ accepted' = accepted \cup {received + 1}
             /\ Len(pending) # PendingCap
    <3>1. pending' = Append(pending, received + 1)
      BY <2>5 DEF KeepPending
    <3>2. pending' \in Seq(Nat) /\ Len(pending') = Len(pending) + 1
      BY <1>1, <2>3, <3>1, AppendProperties
    <3>3. Line' = Append(Line, received + 1) /\ Line \in Seq(Nat)
      <4>1. Line \in Seq(Nat)
        BY <1>1, TwoParts DEF Line
      <4>2. published \o Append(pending, received + 1) = Append(published \o pending, received + 1)
        BY <1>1, <2>3
      <4> QED BY <2>1, <3>1, <4>1, <4>2 DEF Line
    <3>4. LET longer == Append(Line, received + 1) IN
          /\ Ascending(longer, received + 1) /\ ToSet(Line) \subseteq ToSet(longer)
          /\ received + 1 \in ToSet(longer)
          /\ \A a \in Nat : a =< received /\ Displaced(a, Line) => Displaced(a, longer)
      BY <1>1, <3>3, LineGrows
    <3>5. /\ Ascending(Line', received + 1) /\ ToSet(Line) \subseteq ToSet(Line')
          /\ received + 1 \in ToSet(Line')
          /\ \A a \in Nat : a =< received /\ Displaced(a, Line) => Displaced(a, Line')
      BY <3>3, <3>4
    <3>6. \A a \in accepted' : a =< received + 1 /\ (a \notin ToSet(Line') => Displaced(a, Line'))
      BY <1>1, <2>3, <2>5, <3>5
    <3>7. accepted' \in SUBSET Nat /\ Len(pending') =< PendingCap
      BY <1>1, <2>3, <2>5, <3>2
    <3> QED BY <1>1, <2>1, <2>3, <3>2, <3>5, <3>6, <3>7 DEF LogInOrder
  <2>6. CASE /\ pending' = KeepPending(received + 1) /\ accepted' = accepted \cup {received + 1}
             /\ Len(pending) = PendingCap
    <3>1. pending' = Append(Tail(pending), received + 1)
      BY <2>6 DEF KeepPending
    <3>2. pending' \in Seq(Nat) /\ Len(pending') = Len(pending)
      <4>1. pending # <<>>
        BY <1>1, <2>6, EmptySeq
      <4>2. Tail(pending) \in Seq(Nat) /\ Len(Tail(pending)) = Len(pending) - 1
        BY <1>1, <4>1, TakenOff
      <4> QED BY <1>1, <2>3, <3>1, <4>2, AppendProperties
    <3>3. LET line == published \o pending
              moved == published \o Append(Tail(pending), received + 1) IN
          /\ Ascending(moved, received + 1)
          /\ received + 1 \in ToSet(moved)
          /\ \A a \in ToSet(line) : a \in ToSet(moved) \/ Displaced(a, moved)
          /\ \A a \in Nat : a =< received /\ Displaced(a, line) => Displaced(a, moved)
      BY <1>1, <2>6, LineMoves DEF Line
    <3>4. /\ Ascending(Line', received + 1)
          /\ received + 1 \in ToSet(Line')
          /\ \A a \in ToSet(Line) : a \in ToSet(Line') \/ Displaced(a, Line')
          /\ \A a \in Nat : a =< received /\ Displaced(a, Line) => Displaced(a, Line')
      BY <2>1, <3>1, <3>3 DEF Line
    <3>5. \A a \in accepted' : a =< received + 1 /\ (a \notin ToSet(Line') => Displaced(a, Line'))
      BY <1>1, <2>3, <2>6, <3>4
    <3>6. accepted' \in SUBSET Nat
      BY <1>1, <2>3, <2>6
    <3> QED BY <1>1, <2>1, <2>3, <3>2, <3>4, <3>5, <3>6, <2>6 DEF LogInOrder
  <2> QED BY <2>1, <2>4, <2>5, <2>6
<1> QED BY <1>2, <1>3, <1>4, LogSteps

\* Before the first event the line is empty.
LEMMA LogInit == SamplerInit => LogInOrder
<1> SUFFICES ASSUME SamplerInit PROVE LogInOrder
  OBVIOUS
<1>1. pending = <<>> /\ published = <<>> /\ received = 0 /\ accepted = {}
  BY DEF SamplerInit
<1>2. <<>> \in Seq(Nat) /\ Len(<<>>) = 0 /\ <<>> \o <<>> = <<>>
  BY EmptySeq
<1>3. Line = <<>>
  BY <1>1, <1>2 DEF Line
<1>4. Ascending(Line, 0)
  BY <1>2, <1>3 DEF Ascending
<1> QED BY <1>1, <1>2, <1>4, SamplerAssumption DEF LogInOrder

\* PublishedOnce (sampler.go, pending events): what counts and is not published is
\* older than PendingCap of those that are.
LEMMA LogImplies == LogInOrder => PublishedOnce
<1> SUFFICES ASSUME LogInOrder PROVE PublishedOnce
  OBVIOUS
<1>1. /\ pending \in Seq(Nat) /\ published \in Seq(Nat)
      /\ Ascending(Line, received)
      /\ \A a \in accepted : a \notin ToSet(Line) => Displaced(a, Line)
      /\ PendingCap \in Nat \ {0}
  BY SamplerAssumption DEF LogInOrder
<1>2. Line \in Seq(Nat) /\ DOMAIN Line = 1..Len(Line) /\ Len(Line) \in Nat
  <2>1. Line \in Seq(Nat)
    BY <1>1, TwoParts DEF Line
  <2> QED BY <2>1, LenProperties
<1>3. \A i, j \in DOMAIN Line : i < j => Line[i] < Line[j]
  BY <1>1, <1>2 DEF Ascending
<1>4. ASSUME NEW a \in accepted, a \notin ToSet(Line)
      PROVE  Cardinality({i \in DOMAIN Line : Line[i] > a}) >= PendingCap
  <2> DEFINE newer == {i \in DOMAIN Line : Line[i] > a}
             l == Len(Line)
             end == (l - PendingCap + 1)..l
  <2>1. PendingCap =< l /\ \A i \in 1..l : l - PendingCap < i => a < Line[i]
    BY <1>1, <1>4 DEF Displaced
  <2>2. IsFiniteSet(1..l)
    BY <1>2, FS_Interval
  <2>3. newer \subseteq 1..l
    BY <1>2
  <2>4. IsFiniteSet(newer)
    BY <2>2, <2>3, FS_Subset
  <2>5. end \subseteq newer
    <3> SUFFICES ASSUME NEW i \in end PROVE i \in newer
      OBVIOUS
    <3>1. i \in 1..l /\ l - PendingCap < i
      BY <1>1, <1>2, <2>1
    <3>2. a \in Nat /\ Line[i] \in Nat /\ a < Line[i]
      BY <1>2, <2>1, <3>1, Elements DEF LogInOrder
    <3> QED BY <1>2, <3>1, <3>2
  <2>6. Cardinality(end) = PendingCap
    <3>1. l - PendingCap + 1 \in Int /\ l \in Int
      BY <1>1, <1>2
    <3>2. Cardinality(end) = IF l - PendingCap + 1 > l THEN 0 ELSE l - (l - PendingCap + 1) + 1
      BY <3>1, FS_Interval
    <3> HIDE DEF end, l
    <3> QED BY <1>1, <3>1, <3>2
  <2>7. Cardinality(end) =< Cardinality(newer)
    BY <2>4, <2>5, FS_Subset
  <2>8. Cardinality(newer) \in Nat
    BY <2>4, FS_CardinalityType
  <2> HIDE DEF newer, end
  <2>9. Cardinality(newer) >= PendingCap
    BY <1>1, <2>6, <2>7, <2>8
  <2> QED BY <2>9 DEF newer
<1> QED BY <1>3, <1>4 DEF PublishedOnce, Line

\* Events of Docker are published once and in order, and what is left out made way for
\* PendingCap later ones, for every capacity and however events and passes interleave
\* (sampler.go: the pending list is capped, copied into the snapshot and cleared).
THEOREM EventsPublishedOnce == SamplerSpec => []PublishedOnce
<1>1. LogInOrder /\ [SamplerNext]_allVars => LogInOrder'
  BY LogStep
<1> QED BY <1>1, LogInit, LogImplies, PTL DEF SamplerSpec

\* A reader that is served has the current snapshot before it, and misses only what
\* was displaced.
LEMMA ServedImplies == ReadersServed => ReaderInv /\ EngineTypeOK
<1> SUFFICES ASSUME ReadersServed PROVE ReaderInv /\ EngineTypeOK
  OBVIOUS
<1>1. ASSUME NEW s \in Subscriber
      PROVE  /\ RingNumbered /\ live[s] \in Channel /\ reader[s] \in Reader
             /\ Len(live[s].messages) =< LiveCapacity
             /\ InOrder(live[s].messages, reader[s].shown, sequence, nextMessage)
             /\ Current(live[s], reader[s].shown, sequence)
             /\ \A e \in ToSet(events) : e > reader[s].since => Tracked(e, live[s], reader[s])
             /\ live[s].messages \in Seq(Message) /\ live[s].open \in BOOLEAN
             /\ reader[s].since \in Nat
             /\ \A e \in ToSet(events) : e \in Nat
  <2>1. RingNumbered /\ Served(live[s], reader[s], sequence, nextMessage, events)
    BY DEF ReadersServed
  <2> QED BY <2>1, ServedParts
<1>2. LatestReachesReader
  <2> SUFFICES ASSUME NEW s \in Subscriber, live[s].open, sequence > 0
               PROVE  /\ Snapshot(sequence) \in Waiting(s) \/ reader[s].shown = sequence
                      /\ \A m \in Waiting(s) : m.kind = "snapshot" => m.id > reader[s].shown
    BY DEF LatestReachesReader
  <2>1. ASSUME NEW m \in Waiting(s), m.kind = "snapshot" PROVE m.id > reader[s].shown
    <3>1. PICK i \in 1..Len(live[s].messages) : m = live[s].messages[i]
      BY <1>1, Elements DEF Waiting
    <3>2. reader[s].shown < m.id
      BY <1>1, <2>1, <3>1 DEF InOrder
    <3> QED BY <3>2
  <2> QED BY <1>1, <2>1 DEF Current, Waiting
<1>3. MissedOnlyByDisplacement
  <2> SUFFICES ASSUME NEW s \in Subscriber, reader[s].at = "stream",
                      NEW e \in ToSet(events), e > reader[s].since
               PROVE  \/ e \in reader[s].seen \cup reader[s].displaced
                      \/ Event(e) \in Waiting(s)
                      \/ ~live[s].open /\ e > LastAfterDrain(s)
    BY DEF MissedOnlyByDisplacement
  <2>1. Tracked(e, live[s], reader[s]) /\ e \in Nat /\ reader[s].since \in Nat
    BY <1>1
  <2>2. CASE Asked(e, live[s], reader[s])
    <3>1. ~live[s].open /\ e > reader[s].last /\ \A m \in ToSet(live[s].messages) : e > m.id
      BY <2>2 DEF Asked
    <3>2. CASE live[s].messages = <<>>
      BY <3>1, <3>2 DEF LastAfterDrain
    <3>3. CASE live[s].messages # <<>>
      <4>1. Last(live[s].messages) \in ToSet(live[s].messages)
        BY <1>1, <3>3, LastElement
      <4>2. e > Last(live[s].messages).id /\ e > 0
        BY <2>1, <3>1, <4>1
      <4> QED BY <3>1, <3>3, <4>2 DEF LastAfterDrain
    <3> QED BY <3>2, <3>3
  <2> QED BY <2>1, <2>2 DEF Tracked, Waiting
<1>4. EngineTypeOK
  <2>1. /\ sequence \in Id /\ nextMessage \in Id /\ events \in Seq(Id) /\ Len(events) =< RingSize
    BY DEF ReadersServed, RingNumbered
  <2>2. \A s \in Subscriber :
          /\ live[s].open \in BOOLEAN
          /\ live[s].messages \in Seq(Message) /\ Len(live[s].messages) =< LiveCapacity
          /\ reader[s] \in [at : {"away", "replay", "stream"}, last : Id \cup {NoHeader},
                            shown : Id, since : Id, seen : SUBSET Id, displaced : SUBSET Id]
    BY <1>1 DEF Reader
  <2> QED BY <2>1, <2>2 DEF EngineTypeOK
<1> QED BY <1>2, <1>3, <1>4 DEF ReaderInv

\* Every step keeps every reader served.
LEMMA ServedStep ==
    ASSUME LogInOrder, ReadersServed, [SamplerNext]_allVars
    PROVE  ReadersServed'
<1>1. Len(pending) \in Nat
  BY LenProperties DEF LogInOrder
<1>2. CASE PublishPending
  BY <1>1, <1>2, PublishServes DEF PublishPending
<1> QED BY <1>2, EngineSteps, ServedUnchanged, SubscribeServes, ReplayServes, StreamServes, LeaveServes

\* Every open stream gets the latest snapshot however full its channel was, and a
\* reader misses no event of the ring but those a snapshot displaced: for every number
\* of readers, size of the ring and capacity of the channels, and every interleaving of
\* passes, reconnections and replays (engine.go: sendLive; live.go: Last-Event-ID).
THEOREM ReadersAreServed == SamplerSpec => []ReaderInv
<1>1. SamplerInit => LogInOrder /\ ReadersServed
  BY LogInit, ServedInit DEF SamplerInit
<1>2. LogInOrder /\ ReadersServed /\ [SamplerNext]_allVars => (LogInOrder /\ ReadersServed)'
  BY LogStep, ServedStep
<1>3. ReadersServed => ReaderInv
  BY ServedImplies
<1> QED BY <1>1, <1>2, <1>3, PTL DEF SamplerSpec

-----------------------------------------------------------------------------
(* The counters of the host. *)

\* A step keeps the samples, takes one, or lets the kernel count.
LEMMA HostSteps ==
    ASSUME [SamplerNext]_allVars
    PROVE  \/ UNCHANGED <<kernel, host>>
           \/ UNCHANGED host /\ kernel' \in {kernel, kernel + 1}
           \/ \E h, d \in BOOLEAN : collectHost(h, d) /\ UNCHANGED kernel
<1> USE DEF daemon
<1>1. CASE UNCHANGED allVars
  BY <1>1 DEF allVars, samplerVars
<1>2. ASSUME NEW c \in Container, Lifecycle(c) PROVE UNCHANGED <<kernel, host>>
  BY <1>2 DEF Lifecycle, Change
<1>3. CASE Disconnect
  BY <1>3 DEF Disconnect
<1>4. ASSUME NEW fails \in BOOLEAN, DockerEvent(fails) PROVE UNCHANGED <<kernel, host>>
  BY <1>4 DEF DockerEvent
<1>5. ASSUME NEW h \in BOOLEAN, NEW d \in BOOLEAN, NEW failed \in SUBSET Resource,
             NEW a \in BOOLEAN, Collect(h, d, failed, a)
      PROVE  collectHost(h, d) /\ UNCHANGED kernel
  BY <1>5 DEF Collect
<1>6. ASSUME NEW h \in BOOLEAN, NEW d \in BOOLEAN, NEW inspected \in SUBSET Listed,
             CollectWithoutDocker(h, d, inspected)
      PROVE  collectHost(h, d) /\ UNCHANGED kernel
  BY <1>6 DEF CollectWithoutDocker
<1>7. CASE Tick
  BY <1>7 DEF Tick
<1>8. ASSUME NEW s \in Subscriber, Connect(s) PROVE UNCHANGED <<kernel, host>>
  BY <1>8 DEF Connect
<1>9. ASSUME NEW s \in Subscriber, Read(s) PROVE UNCHANGED <<kernel, host>>
  BY <1>9 DEF Read, samplerVars
<1> QED BY <1>1, <1>2, <1>3, <1>4, <1>5, <1>6, <1>7, <1>8, <1>9 DEF SamplerNext

\* Every sample keeps the counters and the rate true.
LEMMA HostStep ==
    ASSUME HostCounted, DiskRateTrue, [SamplerNext]_allVars
    PROVE  HostCounted' /\ DiskRateTrue'
<1>1. /\ kernel \in Nat \ {0}
      /\ lastSample \in [network : Nat \cup {-1}, disk : Nat \cup {-1}]
      /\ lastSample.network # 0
      /\ lastSample.network \in Nat \cup {-1} /\ lastSample.disk \in Nat \cup {-1}
      /\ rates \in [network : Int, disk : Int]
      /\ unread \in [last : BOOLEAN, before : BOOLEAN]
      /\ lastSample.disk = lastSample.network \/ unread.last
  BY DEF HostCounted
<1>2. CASE UNCHANGED <<kernel, host>>
  BY <1>2 DEF HostCounted, DiskRateTrue, host
<1>3. CASE UNCHANGED host /\ kernel' \in {kernel, kernel + 1}
  <2>1. kernel' \in Nat \ {0}
    BY <1>1, <1>3
  <2> QED BY <1>3, <2>1 DEF HostCounted, DiskRateTrue, host
<1>4. ASSUME NEW h \in BOOLEAN, NEW d \in BOOLEAN, collectHost(h, d), UNCHANGED kernel
      PROVE  HostCounted' /\ DiskRateTrue'
  <2>1. CASE h
    <3>1. rates' = [network |-> -1, disk |-> -1] /\ UNCHANGED <<lastSample, unread>>
      BY <1>4, <2>1 DEF collectHost
    <3> QED BY <1>1, <1>4, <3>1 DEF HostCounted, DiskRateTrue
  <2>2. CASE ~h
    <3> DEFINE disk == IF d THEN 0 ELSE kernel
    <3>1. /\ rates' = [network |-> Rate(kernel, lastSample.network), disk |-> Rate(disk, lastSample.disk)]
          /\ lastSample' = [network |-> kernel, disk |-> disk]
          /\ unread' = [last |-> d, before |-> unread.last]
      BY <1>4, <2>2 DEF collectHost
    <3>2. disk \in Nat /\ (disk = kernel \/ d)
      BY <1>1
    <3>3. Rate(kernel, lastSample.network) \in Int /\ Rate(disk, lastSample.disk) \in Int
      BY <1>1, <3>2 DEF Rate
    <3>4. HostCounted'
      BY <1>1, <1>4, <3>1, <3>2, <3>3 DEF HostCounted
    <3>5. ASSUME Rate(disk, lastSample.disk) # -1, ~unread.last
          PROVE  Rate(disk, lastSample.disk) = Rate(kernel, lastSample.network)
      <4>1. lastSample.disk = lastSample.network
        BY <1>1, <3>5
      <4>2. CASE d
        <5>1. disk = 0
          BY <4>2
        <5>2. Rate(0, lastSample.disk) = -1
          BY <1>1, <4>1 DEF Rate
        <5> QED BY <3>5, <5>1, <5>2
      <4>3. CASE ~d
        BY <4>1, <4>3
      <4> QED BY <4>2, <4>3
    <3> HIDE DEF disk
    <3>6. rates'.disk = Rate(disk, lastSample.disk) /\ rates'.network = Rate(kernel, lastSample.network)
          /\ unread'.before = unread.last
      BY <3>1
    <3> QED BY <3>4, <3>5, <3>6 DEF DiskRateTrue
  <2> QED BY <2>1, <2>2
<1> QED BY <1>2, <1>3, <1>4, HostSteps

\* Before the first sample there is no rate.
LEMMA HostInit == SamplerInit => HostCounted /\ DiskRateTrue
  BY DEF SamplerInit, HostCounted, DiskRateTrue

\* The rate of the disk is the growth since the sample before whichever passes failed in
\* between, but right after a sample whose disk counters could not be read
\* (sampler.go: collectHost keeps a sample only after every required read).
THEOREM DiskRatesTrue == SamplerSpec => []DiskRateTrue
<1>1. HostCounted /\ DiskRateTrue /\ [SamplerNext]_allVars => (HostCounted /\ DiskRateTrue)'
  BY HostStep
<1> QED BY <1>1, HostInit, PTL DEF SamplerSpec

-----------------------------------------------------------------------------
(* The cache and the resources. *)

\* The worst of a set of states is one of them, and not better than any.
LEMMA WorstOf ==
    ASSUME NEW S \in SUBSET {"healthy", "paused", "unknown", "down"}, S # {}
    PROVE  /\ RollupStatus(S) \in S /\ RollupStatus(S) \in DOMAIN Rank
           /\ RollupStatus(S) = "healthy" => S = {"healthy"}
<1>1. /\ Rank["healthy"] = 0 /\ Rank["paused"] = 1 /\ Rank["unknown"] = 2 /\ Rank["down"] = 4
      /\ {"healthy", "paused", "unknown", "down"} \subseteq DOMAIN Rank
  BY DEF Rank
<1>2. \E s \in S : \A t \in S : Rank[t] =< Rank[s]
  <2>1. CASE "down" \in S
    BY <1>1, <2>1
  <2>2. CASE "down" \notin S /\ "unknown" \in S
    BY <1>1, <2>2
  <2>3. CASE "down" \notin S /\ "unknown" \notin S /\ "paused" \in S
    BY <1>1, <2>3
  <2>4. CASE "down" \notin S /\ "unknown" \notin S /\ "paused" \notin S
    <3>1. \A t \in S : t = "healthy"
      BY <2>4
    <3>2. "healthy" \in S
      BY <3>1
    <3> QED BY <1>1, <3>1, <3>2
  <2> QED BY <2>1, <2>2, <2>3, <2>4
<1>3. RollupStatus(S) \in S /\ \A t \in S : Rank[t] =< Rank[RollupStatus(S)]
  BY <1>2 DEF RollupStatus
<1>4. ASSUME RollupStatus(S) = "healthy", NEW t \in S PROVE t = "healthy"
  <2>1. Rank[t] =< 0
    BY <1>1, <1>3, <1>4
  <2> QED BY <1>1, <2>1
<1> QED BY <1>1, <1>3, <1>4

\* The status of a container.
LEMMA StatusOf ==
    ASSUME NEW m
    PROVE  /\ containerStatus(m) \in {"healthy", "paused", "unknown", "down"}
           /\ containerStatus(m) = "healthy" => m.state = "running"
  BY DEF containerStatus

\* What a pass says of a resource.
LEMMA PassSays ==
    ASSUME NEW r \in Resource
    PROVE  /\ collectDocker[r] \in DOMAIN Rank \cup {Absent}
           /\ collectDocker[r] # "archived"
           /\ \A c \in Listed : ResourceOf[c] = r =>
                 /\ collectDocker[r] # Absent
                 /\ collectDocker[r] = "healthy" => inspect(c).state = "running"
<1> DEFINE group == {c \in Listed : ResourceOf[c] = r}
           S == {containerStatus(inspect(c)) : c \in group}
<1>1. collectDocker[r] = IF group = {} THEN Absent ELSE RollupStatus(S)
  BY DEF collectDocker
<1>2. S \in SUBSET {"healthy", "paused", "unknown", "down"}
  BY StatusOf
<1>3. CASE group = {}
  BY <1>1, <1>3 DEF Rank, Absent
<1>4. CASE group # {}
  <2>1. S # {}
    BY <1>4
  <2>2. /\ RollupStatus(S) \in S /\ RollupStatus(S) \in DOMAIN Rank
        /\ RollupStatus(S) = "healthy" => S = {"healthy"}
    BY <1>2, <2>1, WorstOf
  <2>3. collectDocker[r] = RollupStatus(S)
    BY <1>1, <1>4
  <2>4. collectDocker[r] # Absent /\ collectDocker[r] # "archived"
    BY <1>2, <2>2, <2>3 DEF Absent
  <2>5. ASSUME NEW c \in Listed, ResourceOf[c] = r, collectDocker[r] = "healthy"
        PROVE  inspect(c).state = "running"
    <3>1. containerStatus(inspect(c)) \in S
      BY <2>5
    <3>2. containerStatus(inspect(c)) = "healthy"
      BY <2>2, <2>3, <2>5, <3>1
    <3> QED BY <3>2, StatusOf
  <2> QED BY <2>2, <2>3, <2>4, <2>5
<1> QED BY <1>3, <1>4

\* What a step does to the daemon, the cache and the table.
LEMMA DockerSteps ==
    ASSUME [SamplerNext]_allVars
    PROVE  \/ /\ UNCHANGED <<docker, stream, cache, failures, lastResources, rows, unrefreshed>>
              /\ now' = now \/ now' = now + 1
           \/ \E c \in Container : Lifecycle(c)
           \/ Disconnect
           \/ \E fails \in BOOLEAN : DockerEvent(fails)
           \/ \E h, d, a \in BOOLEAN : \E failed \in SUBSET Resource : Collect(h, d, failed, a)
           \/ \E h, d \in BOOLEAN : \E inspected \in SUBSET Listed : CollectWithoutDocker(h, d, inspected)
<1> USE DEF daemon
<1>1. CASE UNCHANGED allVars
  BY <1>1 DEF allVars, samplerVars
<1>2. CASE Tick
  BY <1>2 DEF Tick
<1>3. ASSUME NEW s \in Subscriber, Connect(s)
      PROVE  UNCHANGED <<docker, stream, cache, failures, lastResources, rows, unrefreshed, now>>
  BY <1>3 DEF Connect
<1>4. ASSUME NEW s \in Subscriber, Read(s)
      PROVE  UNCHANGED <<docker, stream, cache, failures, lastResources, rows, unrefreshed, now>>
  BY <1>4 DEF Read, samplerVars
<1> QED BY <1>1, <1>2, <1>3, <1>4 DEF SamplerNext

DockerMetadata == [state : ContainerState \cup {Absent, "destroyed"},
                   health : ContainerHealth \cup {"none"}]
CacheMetadata == [state : ContainerState \cup {Absent, "die", "stop", "pause"},
                  health : ContainerHealth \cup {"none"}]

\* What is inspected is a value of the cache.
LEMMA Inspected ==
    ASSUME DockerTyped, NEW c \in Listed
    PROVE  inspect(c) \in CacheMetadata /\ docker[c] \in CacheMetadata /\ c \in Container
<1>1. c \in Container /\ docker[c].state \notin {Absent, "destroyed"}
  BY DEF Listed
<1>2. docker[c] \in DockerMetadata /\ cache[c] \in CacheMetadata
  BY <1>1 DEF DockerTyped, DockerMetadata, CacheMetadata
<1>3. docker[c] \in CacheMetadata
  BY <1>1, <1>2 DEF DockerMetadata, CacheMetadata
<1> QED BY <1>1, <1>2, <1>3 DEF inspect

\* A change of a container, its event, and the state it leaves the container in.
LEMMA ChangeOf ==
    ASSUME DockerTyped, NEW c \in Container, Lifecycle(c)
    PROVE  \E value \in DockerMetadata : \E action \in Action :
              /\ Change(c, value, action)
              /\ action \in Telling => value.state = After[action]
              /\ action \notin Telling =>
                    \/ docker[c].state = Absent /\ value.state = "created"
                    \/ docker[c].state = "running" /\ value.state = "running"
<1> DEFINE state == docker[c].state
           to(s) == [docker[c] EXCEPT !.state = s]
<1>1. docker[c] \in DockerMetadata
  BY DEF DockerTyped, DockerMetadata
<1>2. \A s \in ContainerState \cup {"destroyed"} : to(s) \in DockerMetadata /\ to(s).state = s
  BY <1>1 DEF DockerMetadata
<1>3. [state |-> "running", health |-> "starting"] \in DockerMetadata
  BY DEF DockerMetadata, ContainerState, ContainerHealth
<1>4. \A h \in {"healthy", "unhealthy"} : /\ [docker[c] EXCEPT !.health = h] \in DockerMetadata
                                          /\ [docker[c] EXCEPT !.health = h].state = docker[c].state
  BY <1>1 DEF DockerMetadata, ContainerHealth
<1>5. {"created", "running", "exited", "paused", "destroyed"} \subseteq ContainerState \cup {"destroyed"}
  BY DEF ContainerState
<1> USE DEF Action, Telling, After
<1>6. \/ state = Absent /\ Change(c, to("created"), "create")
      \/ Change(c, [state |-> "running", health |-> "starting"], "start")
      \/ Change(c, to("destroyed"), "destroy")
      \/ Change(c, to("exited"), "die")
      \/ Change(c, to("paused"), "pause")
      \/ Change(c, to("running"), "unpause")
      \/ \E h \in DOMAIN HealthStatus :
            state = "running" /\ Change(c, [docker[c] EXCEPT !.health = h], HealthStatus[h])
  BY DEF Lifecycle
<1>7. CASE state = Absent /\ Change(c, to("created"), "create")
  BY <1>2, <1>5, <1>7
<1>8. CASE Change(c, [state |-> "running", health |-> "starting"], "start")
  BY <1>3, <1>8
<1>9. CASE Change(c, to("destroyed"), "destroy")
  BY <1>2, <1>5, <1>9
<1>10. CASE Change(c, to("exited"), "die")
  BY <1>2, <1>5, <1>10
<1>11. CASE Change(c, to("paused"), "pause")
  BY <1>2, <1>5, <1>11
<1>12. CASE Change(c, to("running"), "unpause")
  BY <1>2, <1>5, <1>12
<1>13. CASE \E h \in DOMAIN HealthStatus :
               state = "running" /\ Change(c, [docker[c] EXCEPT !.health = h], HealthStatus[h])
  <2>1. PICK h \in DOMAIN HealthStatus :
           state = "running" /\ Change(c, [docker[c] EXCEPT !.health = h], HealthStatus[h])
    BY <1>13
  <2>2. h \in {"healthy", "unhealthy"} /\ HealthStatus[h] \in Action \ Telling
    <3>1. /\ DOMAIN HealthStatus = {"healthy", "unhealthy"}
          /\ HealthStatus["healthy"] = "health_status: healthy"
          /\ HealthStatus["unhealthy"] = "health_status: unhealthy"
      BY DEF HealthStatus
    <3>2. h \in {"healthy", "unhealthy"}
      BY <2>1, <3>1
    <3>3. HealthStatus[h] \in {"health_status: healthy", "health_status: unhealthy"}
      BY <3>1, <3>2
    <3> QED BY <3>2, <3>3
  <2> DEFINE value == [docker[c] EXCEPT !.health = h]
  <2>3. value \in DockerMetadata /\ value.state = docker[c].state
    BY <1>4, <2>2
  <2>4. Change(c, value, HealthStatus[h]) /\ docker[c].state = "running"
    BY <2>1
  <2> HIDE DEF value, Action, Telling
  <2>5. value.state = "running" /\ HealthStatus[h] \in Action /\ HealthStatus[h] \notin Telling
    BY <2>2, <2>3, <2>4
  <2> QED BY <2>3, <2>4, <2>5
<1> QED BY <1>6, <1>7, <1>8, <1>9, <1>10, <1>11, <1>12, <1>13

\* The event the sampler takes, and the ones behind it.
LEMMA Taken ==
    ASSUME DockerTyped, NEW fails \in BOOLEAN, DockerEvent(fails)
    PROVE  LET q == stream.events
               e == Head(q) IN
           /\ q \in Seq(ContainerEvent) /\ q # <<>> /\ e = q[1] /\ 1 \in 1..Len(q)
           /\ e \in ContainerEvent /\ e.id \in Container /\ e.action \in Action
           /\ Tail(q) \in Seq(ContainerEvent) /\ Len(Tail(q)) = Len(q) - 1 /\ Len(q) \in Nat
           /\ \A i \in 1..Len(Tail(q)) : i + 1 \in 1..Len(q) /\ Tail(q)[i] = q[i + 1]
           /\ stream' = [stream EXCEPT !.events = Tail(q)]
           /\ stream'.connected = stream.connected /\ stream'.events = Tail(q)
           /\ cache' = handleDockerEvent(e.id, e.action, fails)
           /\ fails => e.action \in Refreshing
<1> DEFINE q == stream.events
           e == Head(q)
<1>1. stream \in [connected : BOOLEAN, events : Seq(ContainerEvent)]
  BY DEF DockerTyped
<1>2. q \in Seq(ContainerEvent)
  BY <1>1
<1>3. /\ q # <<>> /\ stream' = [stream EXCEPT !.events = Tail(q)]
      /\ cache' = handleDockerEvent(e.id, e.action, fails)
      /\ fails => e.action \in Refreshing
  BY DEF DockerEvent
<1>4. /\ e = q[1] /\ 1 \in 1..Len(q) /\ e \in ContainerEvent
      /\ Tail(q) \in Seq(ContainerEvent) /\ Len(Tail(q)) = Len(q) - 1 /\ Len(q) \in Nat
      /\ \A i \in 1..Len(Tail(q)) : i + 1 \in 1..Len(q) /\ Tail(q)[i] = q[i + 1]
  BY <1>2, <1>3, TakenOff
<1>5. e.id \in Container /\ e.action \in Action
  BY <1>4 DEF ContainerEvent
<1>6. stream'.connected = stream.connected /\ stream'.events = Tail(q)
  BY <1>1, <1>3
<1> QED BY <1>2, <1>3, <1>4, <1>5, <1>6

\* What the event does to the cache.
LEMMA Handled ==
    ASSUME DockerTyped, NEW c \in Container, NEW action \in Action, NEW fails \in BOOLEAN,
           fails => action \in Refreshing
    PROVE  LET new == handleDockerEvent(c, action, fails) IN
           /\ new \in [Container -> CacheMetadata]
           /\ \A x \in Container : x # c => new[x] = cache[x]
           /\ action \notin Telling => new = cache /\ ~fails
           /\ action = "destroy" => new[c] = NoMetadata /\ ~fails
           /\ action \in {"die", "pause"} =>
                 ~fails /\ (new[c] = NoMetadata \/ new[c].state = action)
           /\ action \in {"start", "unpause"} /\ ~fails /\ c \in Listed => new[c] = docker[c]
<1> DEFINE new == handleDockerEvent(c, action, fails)
<1>1. cache \in [Container -> CacheMetadata]
  BY DEF DockerTyped, CacheMetadata
<1>2. NoMetadata \in CacheMetadata
  BY DEF NoMetadata, CacheMetadata
<1>3. CASE action = "destroy"
  <2>1. new = [cache EXCEPT ![c] = NoMetadata]
    BY <1>3 DEF handleDockerEvent, Refreshing
  <2> QED BY <1>1, <1>2, <1>3, <2>1 DEF Telling, Refreshing
<1>4. CASE action \in {"die", "pause"}
  <2>1. new = IF cache[c] = NoMetadata THEN cache ELSE [cache EXCEPT ![c].state = action]
    BY <1>4 DEF handleDockerEvent, Refreshing
  <2>2. CASE cache[c] = NoMetadata
    BY <1>1, <1>4, <2>1, <2>2 DEF Telling, Refreshing
  <2>3. CASE cache[c] # NoMetadata
    <3>1. /\ [cache[c] EXCEPT !.state = action] \in CacheMetadata
          /\ [cache[c] EXCEPT !.state = action].state = action
      BY <1>1, <1>4 DEF CacheMetadata
    <3>2. new = [cache EXCEPT ![c] = [cache[c] EXCEPT !.state = action]]
      BY <2>1, <2>3
    <3> HIDE DEF new
    <3>3. /\ new \in [Container -> CacheMetadata]
          /\ \A x \in Container : x # c => new[x] = cache[x]
          /\ new[c] = [cache[c] EXCEPT !.state = action]
      BY <1>1, <3>1, <3>2
    <3>4. new[c].state = action
      BY <3>1, <3>3
    <3>5. ~fails /\ action \in Telling /\ action # "destroy" /\ action \notin {"start", "unpause"}
      BY <1>4 DEF Telling, Refreshing
    <3> QED BY <3>3, <3>4, <3>5 DEF new
  <2> QED BY <2>2, <2>3
<1>5. CASE action \in {"start", "unpause"}
  <2>1. CASE ~fails /\ c \in Listed
    <3>1. new = [cache EXCEPT ![c] = docker[c]]
      BY <1>5, <2>1 DEF handleDockerEvent, Refreshing
    <3>2. docker[c] \in CacheMetadata
      BY <2>1, Inspected
    <3> QED BY <1>1, <1>5, <3>1, <3>2 DEF Telling
  <2>2. CASE ~(~fails /\ c \in Listed)
    <3>1. new = cache
      BY <1>5, <2>2 DEF handleDockerEvent
    <3> QED BY <1>1, <1>5, <2>2, <3>1 DEF Telling
  <2> QED BY <2>1, <2>2
<1>6. CASE action \in {"create", "health_status: healthy", "health_status: unhealthy"}
  <2>1. new = cache
    BY <1>6 DEF handleDockerEvent, Refreshing
  <2> QED BY <1>1, <1>6, <2>1 DEF Telling, Refreshing
<1> QED BY <1>3, <1>4, <1>5, <1>6 DEF Action

\* What a pass writes into the table is typed.
LEMMA TableTyped ==
    ASSUME DockerTyped, NEW failed \in SUBSET Resource,
           \/ rows' = UpsertResource(collectDocker, failed)
           \/ rows' = ArchiveMissingResources(UpsertResource(collectDocker, failed), collectDocker)
    PROVE  rows' \in [Resource -> [status : DOMAIN Rank \cup {Absent, "archived"}, seen : Nat]]
<1> DEFINE Cell == [status : DOMAIN Rank \cup {Absent, "archived"}, seen : Nat]
           upserted == UpsertResource(collectDocker, failed)
<1>1. rows \in [Resource -> Cell] /\ now \in Nat
  BY DEF DockerTyped
<1>2. \A r \in Resource : collectDocker[r] \in DOMAIN Rank \cup {Absent}
  BY PassSays
<1>3. upserted \in [Resource -> Cell]
  <2>1. \A r \in Resource : [status |-> collectDocker[r], seen |-> now] \in Cell
    BY <1>1, <1>2
  <2> QED BY <1>1, <2>1 DEF UpsertResource
<1> HIDE DEF upserted
<1>4. \A r \in Resource : [upserted[r] EXCEPT !.status = "archived"] \in Cell
  BY <1>3
<1> HIDE DEF Cell
<1>5. \/ rows' = upserted
      \/ rows' = ArchiveMissingResources(upserted, collectDocker)
  BY DEF upserted
<1>6. ASSUME rows' = upserted PROVE rows' \in [Resource -> Cell]
  BY <1>3, <1>6
<1>7. ASSUME rows' = ArchiveMissingResources(upserted, collectDocker)
      PROVE  rows' \in [Resource -> Cell]
  BY <1>3, <1>4, <1>7 DEF ArchiveMissingResources
<1>8. rows' \in [Resource -> Cell]
  BY <1>5, <1>6, <1>7
<1> QED BY <1>8 DEF Cell

\* A pass fills the cache with what was inspected.
LEMMA Cached ==
    ASSUME DockerTyped, NEW inspected \in SUBSET Listed,
           cache' = [c \in Container |-> IF c \in inspected THEN inspect(c) ELSE cache[c]]
    PROVE  /\ cache' \in [Container -> CacheMetadata]
           /\ \A c \in Container : cache'[c] = cache[c] \/ (c \in Listed /\ cache'[c] = docker[c])
<1>1. cache \in [Container -> CacheMetadata]
  BY DEF DockerTyped, CacheMetadata
<1>2. \A c \in inspected : c \in Listed /\ inspect(c) \in CacheMetadata
  BY Inspected
<1>3. \A c \in Container : inspect(c) = cache[c] \/ inspect(c) = docker[c]
  BY DEF inspect
<1> QED BY <1>1, <1>2, <1>3

\* Every step preserves the types.
LEMMA DockerTypedStep ==
    ASSUME DockerTyped, [SamplerNext]_allVars
    PROVE  DockerTyped'
<1> USE DEF DockerMetadata, CacheMetadata
<1>1. /\ docker \in [Container -> DockerMetadata] /\ cache \in [Container -> CacheMetadata]
      /\ stream \in [connected : BOOLEAN, events : Seq(ContainerEvent)]
      /\ failures \in [host : Nat, docker : Nat]
      /\ lastResources \in [Resource -> DOMAIN Rank \cup {Absent}]
      /\ rows \in [Resource -> [status : DOMAIN Rank \cup {Absent, "archived"}, seen : Nat]]
      /\ now \in Nat
  BY DEF DockerTyped
<1> USE DEF daemon
<1>2. CASE /\ UNCHANGED <<docker, stream, cache, failures, lastResources, rows, unrefreshed>>
           /\ now' = now \/ now' = now + 1
  <2>1. now' \in Nat
    BY <1>1, <1>2
  <2> QED BY <1>1, <1>2, <2>1 DEF DockerTyped
<1>3. ASSUME NEW c \in Container, Lifecycle(c) PROVE DockerTyped'
  <2>1. PICK value \in DockerMetadata : \E action \in Action : Change(c, value, action)
    BY <1>3, ChangeOf
  <2>2. PICK action \in Action : Change(c, value, action)
    BY <2>1
  <2>3. docker' \in [Container -> DockerMetadata]
    BY <1>1, <2>2 DEF Change
  <2>4. stream' \in [connected : BOOLEAN, events : Seq(ContainerEvent)]
    <3>1. [id |-> c, action |-> action] \in ContainerEvent
      BY DEF ContainerEvent
    <3>2. Append(stream.events, [id |-> c, action |-> action]) \in Seq(ContainerEvent)
      BY <1>1, <3>1, AppendProperties
    <3>3. stream' = stream \/ stream' = [stream EXCEPT !.events = Append(stream.events, [id |-> c, action |-> action])]
      BY <2>2 DEF Change
    <3> QED BY <1>1, <3>2, <3>3
  <2> QED BY <1>1, <2>2, <2>3, <2>4 DEF DockerTyped, Change
<1>4. CASE Disconnect
  <2>1. stream' \in [connected : BOOLEAN, events : Seq(ContainerEvent)]
    BY <1>1, <1>4 DEF Disconnect
  <2> QED BY <1>1, <1>4, <2>1 DEF DockerTyped, Disconnect
<1>5. ASSUME NEW fails \in BOOLEAN, DockerEvent(fails) PROVE DockerTyped'
  <2> DEFINE e == Head(stream.events)
  <2>1. /\ e.id \in Container /\ e.action \in Action /\ Tail(stream.events) \in Seq(ContainerEvent)
        /\ stream' = [stream EXCEPT !.events = Tail(stream.events)]
        /\ cache' = handleDockerEvent(e.id, e.action, fails)
        /\ fails => e.action \in Refreshing
    BY <1>5, Taken
  <2>2. cache' \in [Container -> CacheMetadata]
    BY <2>1, Handled
  <2>3. stream' \in [connected : BOOLEAN, events : Seq(ContainerEvent)]
    BY <1>1, <2>1
  <2> QED BY <1>1, <1>5, <2>2, <2>3 DEF DockerTyped, DockerEvent
<1>6. ASSUME NEW h \in BOOLEAN, NEW d \in BOOLEAN, NEW failed \in SUBSET Resource,
             NEW a \in BOOLEAN, Collect(h, d, failed, a)
      PROVE  DockerTyped'
  <2>1. /\ lastResources' = collectDocker /\ UNCHANGED <<docker, stream, now>>
        /\ cache' = [c \in Container |-> IF c \in Listed THEN inspect(c) ELSE cache[c]]
        /\ \/ rows' = UpsertResource(collectDocker, failed)
           \/ rows' = ArchiveMissingResources(UpsertResource(collectDocker, failed), collectDocker)
        /\ failures' = [host |-> Count(failures.host, h), docker |-> 0]
    BY <1>6 DEF Collect
  <2>2. cache' \in [Container -> CacheMetadata]
    BY <2>1, Cached
  <2>3. rows' \in [Resource -> [status : DOMAIN Rank \cup {Absent, "archived"}, seen : Nat]]
    BY <2>1, TableTyped
  <2>4. lastResources' \in [Resource -> DOMAIN Rank \cup {Absent}]
    <3>1. \A r \in Resource : collectDocker[r] \in DOMAIN Rank \cup {Absent}
      BY PassSays
    <3>2. collectDocker = [r \in Resource |-> collectDocker[r]]
      BY DEF collectDocker
    <3> QED BY <2>1, <3>1, <3>2
  <2>5. failures' \in [host : Nat, docker : Nat]
    BY <1>1, <2>1 DEF Count
  <2> QED BY <1>1, <2>1, <2>2, <2>3, <2>4, <2>5 DEF DockerTyped
<1>7. ASSUME NEW h \in BOOLEAN, NEW d \in BOOLEAN, NEW inspected \in SUBSET Listed,
             CollectWithoutDocker(h, d, inspected)
      PROVE  DockerTyped'
  <2>1. /\ UNCHANGED <<docker, stream, now, lastResources, rows>>
        /\ cache' = [c \in Container |-> IF c \in inspected THEN inspect(c) ELSE cache[c]]
        /\ failures' = [host |-> Count(failures.host, h), docker |-> failures.docker + 1]
    BY <1>7 DEF CollectWithoutDocker
  <2>2. cache' \in [Container -> CacheMetadata]
    BY <2>1, Cached
  <2>3. failures' \in [host : Nat, docker : Nat]
    BY <1>1, <2>1 DEF Count
  <2> QED BY <1>1, <2>1, <2>2, <2>3 DEF DockerTyped
<1> QED BY <1>2, <1>3, <1>4, <1>5, <1>6, <1>7, DockerSteps

\* A container changes and its event waits: the last one still tells.
LEMMA ChangeTells ==
    ASSUME DockerTyped, StreamTells, NEW c \in Container, Lifecycle(c)
    PROVE  StreamTells'
<1> SUFFICES ASSUME stream'.connected PROVE LastTells(stream.events)' /\ CacheRight'
  BY DEF StreamTells
<1>1. PICK value \in DockerMetadata : \E action \in Action :
              /\ Change(c, value, action)
              /\ action \in Telling => value.state = After[action]
              /\ action \notin Telling =>
                    \/ docker[c].state = Absent /\ value.state = "created"
                    \/ docker[c].state = "running" /\ value.state = "running"
  BY ChangeOf
<1>2. PICK action \in Action :
              /\ Change(c, value, action)
              /\ action \in Telling => value.state = After[action]
              /\ action \notin Telling =>
                    \/ docker[c].state = Absent /\ value.state = "created"
                    \/ docker[c].state = "running" /\ value.state = "running"
  BY <1>1
<1> DEFINE q == stream.events
           e == [id |-> c, action |-> action]
           l == Len(q)
<1>3. /\ stream \in [connected : BOOLEAN, events : Seq(ContainerEvent)]
      /\ docker \in [Container -> DockerMetadata]
  BY DEF DockerTyped, DockerMetadata
<1>4. stream.connected /\ stream' = [stream EXCEPT !.events = Append(q, e)]
  BY <1>2, <1>3 DEF Change
<1>5. q \in Seq(ContainerEvent) /\ stream'.events = Append(q, e) /\ e.id = c /\ e.action = action
  BY <1>3, <1>4
<1>6. /\ docker'[c] = value /\ \A x \in Container : x # c => docker'[x] = docker[x]
      /\ cache' = cache /\ unrefreshed' = unrefreshed
  BY <1>2, <1>3 DEF Change
<1>7. e \in ContainerEvent
  BY DEF ContainerEvent
<1> HIDE DEF e
<1>8. /\ l \in Nat /\ Len(Append(q, e)) = l + 1 /\ Append(q, e)[l + 1] = e
      /\ \A i \in 1..l : Append(q, e)[i] = q[i] /\ q[i].id \in Container
  <2>1. \A i \in 1..l : q[i] \in ContainerEvent
    BY <1>5, Elements
  <2>2. \A i \in 1..l : q[i].id \in Container
    BY <2>1 DEF ContainerEvent
  <2> QED BY <1>5, <1>7, <2>2, AppendProperties, LenProperties
<1>9. LastTells(q) /\ CacheRight
  BY <1>4 DEF StreamTells
<1>10. q = stream.events
  OBVIOUS
<1> DEFINE longer == Append(q, e)
<1>11. longer = stream'.events
  BY <1>5
<1> HIDE DEF q, longer, l
\* An event that does not tell of the state leaves it as it is.
<1>12. ASSUME NEW i \in 1..l, q[i].id = c, q[i].action \in Telling,
              \A j \in 1..l : i < j /\ q[j].id = c => q[j].action \notin Telling,
              action \notin Telling
       PROVE  docker[c].state = After[q[i].action] /\ value.state = docker[c].state
  <2>1. docker[c].state = After[q[i].action]
    BY <1>9, <1>12 DEF LastTells, l
  <2>2. After[q[i].action] # Absent
    BY <1>12 DEF After, Telling, Absent
  <2> QED BY <1>2, <1>12, <2>1, <2>2
<1>13. ASSUME NEW i \in 1..(l + 1), longer[i].action \in Telling,
              \A j \in 1..(l + 1) :
                  i < j /\ longer[j].id = longer[i].id => longer[j].action \notin Telling
       PROVE  docker'[longer[i].id].state = After[longer[i].action]
  <2>1. CASE i = l + 1
    <3>1. longer[i] = e
      BY <1>8, <2>1 DEF longer
    <3> QED BY <1>2, <1>5, <1>6, <1>13, <3>1
  <2>2. CASE i \in 1..l
    <3>1. longer[i] = q[i] /\ q[i].id \in Container
      BY <1>8, <2>2 DEF longer
    <3>2. \A j \in 1..l : i < j /\ q[j].id = q[i].id => q[j].action \notin Telling
      BY <1>8, <1>13, <3>1 DEF longer
    <3>3. docker[q[i].id].state = After[q[i].action]
      BY <1>9, <1>13, <2>2, <3>1, <3>2 DEF LastTells, l
    <3>4. CASE q[i].id = c
      <4>1. action \notin Telling
        <5>1. l + 1 \in 1..(l + 1) /\ i < l + 1 /\ longer[l + 1] = e
          BY <1>8, <2>2 DEF longer
        <5> QED BY <1>5, <1>13, <3>1, <3>4, <5>1
      <4>2. value.state = docker[c].state
        BY <1>12, <1>13, <2>2, <3>1, <3>2, <3>4, <4>1
      <4> QED BY <1>6, <3>1, <3>3, <3>4, <4>2
    <3>5. CASE q[i].id # c
      BY <1>6, <3>1, <3>3, <3>5
    <3> QED BY <3>4, <3>5
  <2> QED BY <1>8, <2>1, <2>2
<1>14. LastTells(stream.events)'
  <2>1. Len(longer) = l + 1
    BY <1>8 DEF longer
  <2> QED BY <1>11, <1>13, <2>1 DEF LastTells
<1>15. ASSUME NEW x \in Container, x \notin unrefreshed, ~Told(x, longer), cache[x] # NoMetadata
       PROVE  /\ docker'[x].state \notin {Absent, "destroyed"}
              /\ cache[x].state = "running" <=> docker'[x].state = "running"
  <2>1. ~Told(x, q)
    <3>1. ASSUME NEW i \in 1..l, q[i].id = x, q[i].action \in Telling PROVE FALSE
      <4>1. i \in 1..Len(longer) /\ longer[i] = q[i]
        BY <1>8, <3>1 DEF longer
      <4> QED BY <1>15, <3>1, <4>1 DEF Told
    <3> QED BY <3>1 DEF Told, l
  <2>2. /\ x \in Listed
        /\ cache[x].state = "running" <=> docker[x].state = "running"
    BY <1>9, <1>10, <1>15, <2>1 DEF CacheRight
  <2>3. CASE x # c
    BY <1>6, <2>2, <2>3 DEF Listed
  <2>4. CASE x = c
    <3>1. action \notin Telling
      <4>1. l + 1 \in 1..Len(longer) /\ longer[l + 1] = e
        BY <1>8 DEF longer
      <4> QED BY <1>5, <1>15, <2>4, <4>1 DEF Told
    <3>2. docker[c].state = "running" /\ value.state = "running"
      BY <1>2, <2>2, <2>4, <3>1 DEF Listed
    <3> QED BY <1>6, <2>2, <2>4, <3>2 DEF Absent
  <2> QED BY <2>3, <2>4
<1>16. CacheRight'
  BY <1>6, <1>11, <1>15 DEF CacheRight, Listed
<1> QED BY <1>14, <1>16

\* The sampler takes an event: the cache follows it.
LEMMA EventTells ==
    ASSUME DockerTyped, StreamTells, NEW fails \in BOOLEAN, DockerEvent(fails)
    PROVE  StreamTells'
<1> DEFINE q == stream.events
           e == Head(q)
           c == e.id
           action == e.action
<1>1. /\ q \in Seq(ContainerEvent) /\ q # <<>> /\ e = q[1] /\ 1 \in 1..Len(q)
      /\ e \in ContainerEvent /\ c \in Container /\ action \in Action
      /\ Tail(q) \in Seq(ContainerEvent) /\ Len(Tail(q)) = Len(q) - 1 /\ Len(q) \in Nat
      /\ \A i \in 1..Len(Tail(q)) : i + 1 \in 1..Len(q) /\ Tail(q)[i] = q[i + 1]
      /\ stream'.connected = stream.connected /\ stream'.events = Tail(q)
      /\ cache' = handleDockerEvent(c, action, fails)
      /\ fails => action \in Refreshing
  BY Taken
<1>2. /\ \A x \in Container : x # c => cache'[x] = cache[x]
      /\ action \notin Telling => cache' = cache /\ ~fails
      /\ action = "destroy" => cache'[c] = NoMetadata /\ ~fails
      /\ action \in {"die", "pause"} =>
            ~fails /\ (cache'[c] = NoMetadata \/ cache'[c].state = action)
      /\ action \in {"start", "unpause"} /\ ~fails /\ c \in Listed => cache'[c] = docker[c]
  BY <1>1, Handled
<1>3. /\ docker' = docker
      /\ unrefreshed' = IF fails THEN unrefreshed \cup {c}
                        ELSE IF action \in Refreshing \cup {"die", "pause", "destroy"}
                        THEN unrefreshed \ {c} ELSE unrefreshed
  BY DEF DockerEvent
<1> SUFFICES ASSUME stream'.connected PROVE LastTells(stream.events)' /\ CacheRight'
  BY DEF StreamTells
<1>4. LastTells(q) /\ CacheRight
  BY <1>1 DEF StreamTells
<1> DEFINE rest == Tail(q)
<1>5. rest = stream'.events /\ q = stream.events
  BY <1>1
<1> HIDE DEF q, e, c, action, rest
\* What waits behind the event was behind it before.
<1>6. ASSUME NEW i \in 1..Len(rest)
      PROVE  i + 1 \in 1..Len(q) /\ rest[i] = q[i + 1] /\ i \in Nat
  BY <1>1 DEF rest
<1>7. Len(rest) = Len(q) - 1 /\ Len(q) \in Nat /\ 1 \in 1..Len(q)
  BY <1>1 DEF rest
<1>8. ASSUME NEW j \in 1..Len(q), j # 1 PROVE j - 1 \in 1..Len(rest) /\ rest[j - 1] = q[j]
  <2>1. j - 1 \in 1..Len(rest) /\ (j - 1) + 1 = j
    BY <1>7, <1>8
  <2> QED BY <1>6, <2>1
<1>9. ASSUME NEW i \in 1..Len(rest), rest[i].action \in Telling,
             \A j \in 1..Len(rest) :
                 i < j /\ rest[j].id = rest[i].id => rest[j].action \notin Telling
      PROVE  docker'[rest[i].id].state = After[rest[i].action]
  <2>1. ASSUME NEW j \in 1..Len(q), i + 1 < j, q[j].id = q[i + 1].id PROVE q[j].action \notin Telling
    <3>1. j # 1 /\ i < j - 1
      BY <1>6, <2>1
    <3>2. j - 1 \in 1..Len(rest) /\ rest[j - 1] = q[j]
      BY <1>8, <3>1
    <3> QED BY <1>6, <1>9, <2>1, <3>1, <3>2
  <2>2. docker[q[i + 1].id].state = After[q[i + 1].action]
    BY <1>4, <1>6, <1>9, <2>1 DEF LastTells
  <2> QED BY <1>3, <1>6, <2>2
<1>10. LastTells(stream.events)'
  BY <1>5, <1>9 DEF LastTells
\* Of a container that the taken event does not tell of, nothing changed.
<1>11. ASSUME NEW x \in Container, ~Told(x, rest), x # c \/ action \notin Telling
       PROVE  ~Told(x, q)
  <2> SUFFICES ASSUME NEW j \in 1..Len(q), q[j].id = x, q[j].action \in Telling PROVE FALSE
    BY DEF Told
  <2>1. CASE j = 1
    BY <1>1, <1>11, <2>1 DEF e, c, action
  <2>2. CASE j # 1
    <3>1. j - 1 \in 1..Len(rest) /\ rest[j - 1] = q[j]
      BY <1>8, <2>2
    <3> QED BY <1>11, <3>1 DEF Told
  <2> QED BY <2>1, <2>2
<1>12. ASSUME ~Told(c, rest), action \in Telling PROVE docker[c].state = After[action]
  <2>1. ASSUME NEW j \in 1..Len(q), 1 < j, q[j].id = c PROVE q[j].action \notin Telling
    <3>1. j - 1 \in 1..Len(rest) /\ rest[j - 1] = q[j]
      BY <1>7, <1>8, <2>1
    <3> QED BY <1>12, <2>1, <3>1 DEF Told
  <2>2. q[1].id = c /\ q[1].action = action
    BY <1>1 DEF c, action
  <2> QED BY <1>4, <1>7, <1>12, <2>1, <2>2 DEF LastTells
<1>13. ASSUME NEW x \in Container, x \notin unrefreshed', ~Told(x, rest), cache'[x] # NoMetadata
       PROVE  x \in Listed /\ (cache'[x].state = "running" <=> docker[x].state = "running")
  <2>1. CASE x # c \/ action \notin Telling
    <3>1. ~Told(x, q) /\ cache'[x] = cache[x]
      BY <1>2, <1>11, <1>13, <2>1
    <3>2. x \notin unrefreshed
      <4>1. CASE x # c
        BY <1>3, <1>13, <4>1
      <4>2. CASE action \notin Telling
        <5>1. ~fails /\ action \notin Refreshing \cup {"die", "pause", "destroy"}
          BY <1>1, <1>2, <4>2 DEF Telling, Refreshing, Action
        <5> QED BY <1>3, <1>13, <5>1
      <4> QED BY <2>1, <4>1, <4>2
    <3> QED BY <1>4, <1>5, <1>13, <3>1, <3>2 DEF CacheRight
  <2>2. CASE x = c /\ action \in Telling
    <3>1. docker[c].state = After[action]
      BY <1>12, <1>13, <2>2
    <3>2. action # "destroy"
      BY <1>2, <1>13, <2>2
    <3>3. CASE action \in {"die", "pause"}
      <4>1. cache'[c].state = action
        BY <1>2, <1>13, <2>2, <3>3
      <4>2. docker[c].state \in {"exited", "paused"}
        BY <3>1, <3>3 DEF After
      <4> QED BY <1>1, <2>2, <3>3, <4>1, <4>2 DEF Listed, Absent
    <3>4. CASE action \in {"start", "unpause"}
      <4>1. docker[c].state = "running"
        BY <3>1, <3>4 DEF After
      <4>2. c \in Listed
        BY <1>1, <4>1 DEF Listed, Absent
      <4>3. ~fails
        BY <1>3, <1>13, <2>2
      <4> QED BY <1>2, <2>2, <3>4, <4>1, <4>2, <4>3
    <3> QED BY <2>2, <3>2, <3>3, <3>4 DEF Telling
  <2> QED BY <2>1, <2>2
<1>14. CacheRight'
  BY <1>3, <1>5, <1>13 DEF CacheRight, Listed
<1> QED BY <1>10, <1>14

\* A pass adds to the cache what it inspects, which is right.
LEMMA PassTells ==
    ASSUME DockerTyped, StreamTells, NEW inspected \in SUBSET Listed,
           cache' = [c \in Container |-> IF c \in inspected THEN inspect(c) ELSE cache[c]],
           UNCHANGED <<docker, stream, unrefreshed>>
    PROVE  StreamTells'
<1> SUFFICES ASSUME stream.connected PROVE LastTells(stream.events)' /\ CacheRight'
  BY DEF StreamTells
<1>1. LastTells(stream.events) /\ CacheRight
  BY DEF StreamTells
<1>2. \A c \in Container : cache'[c] = cache[c] \/ (c \in Listed /\ cache'[c] = docker[c])
  BY Cached
<1>3. LastTells(stream.events)'
  BY <1>1 DEF LastTells
<1>4. CacheRight'
  BY <1>1, <1>2 DEF CacheRight, Listed
<1> QED BY <1>3, <1>4

\* Every step keeps the cache in step with Docker.
LEMMA CacheStep ==
    ASSUME CacheInductive, [SamplerNext]_allVars
    PROVE  CacheInductive'
<1>1. DockerTyped /\ StreamTells
  BY DEF CacheInductive
<1>2. DockerTyped'
  BY <1>1, DockerTypedStep
<1> USE DEF daemon
<1>3. CASE /\ UNCHANGED <<docker, stream, cache, failures, lastResources, rows, unrefreshed>>
           /\ now' = now \/ now' = now + 1
  BY <1>1, <1>2, <1>3 DEF CacheInductive, StreamTells, LastTells, CacheRight, Listed
<1>4. ASSUME NEW c \in Container, Lifecycle(c) PROVE StreamTells'
  BY <1>1, <1>4, ChangeTells
<1>5. CASE Disconnect
  <2>1. ~stream'.connected
    BY <1>1, <1>5 DEF Disconnect, DockerTyped
  <2> QED BY <1>2, <2>1 DEF CacheInductive, StreamTells
<1>6. ASSUME NEW fails \in BOOLEAN, DockerEvent(fails) PROVE StreamTells'
  BY <1>1, <1>6, EventTells
<1>7. ASSUME NEW h \in BOOLEAN, NEW d \in BOOLEAN, NEW failed \in SUBSET Resource,
             NEW a \in BOOLEAN, Collect(h, d, failed, a)
      PROVE  StreamTells'
  <2>1. /\ UNCHANGED <<docker, stream, unrefreshed>>
        /\ cache' = [c \in Container |-> IF c \in Listed THEN inspect(c) ELSE cache[c]]
    BY <1>7 DEF Collect
  <2> QED BY <1>1, <2>1, PassTells
<1>8. ASSUME NEW h \in BOOLEAN, NEW d \in BOOLEAN, NEW inspected \in SUBSET Listed,
             CollectWithoutDocker(h, d, inspected)
      PROVE  StreamTells'
  <2>1. /\ UNCHANGED <<docker, stream, unrefreshed>>
        /\ cache' = [c \in Container |-> IF c \in inspected THEN inspect(c) ELSE cache[c]]
    BY <1>8 DEF CollectWithoutDocker
  <2> QED BY <1>1, <2>1, PassTells
<1> QED BY <1>2, <1>3, <1>4, <1>5, <1>6, <1>7, <1>8, DockerSteps DEF CacheInductive

\* At first the cache is empty and no event waits.
LEMMA CacheInit == SamplerInit => CacheInductive
<1> SUFFICES ASSUME SamplerInit PROVE CacheInductive
  OBVIOUS
<1>1. /\ docker \in [Container -> {NoMetadata} \cup [state : {"running", "paused", "dead"}, health : {"healthy"}]]
      /\ stream = [connected |-> TRUE, events |-> <<>>] /\ now = 0
      /\ cache = [c \in Container |-> NoMetadata]
      /\ failures = [host |-> 0, docker |-> 0]
      /\ lastResources = [r \in Resource |-> Absent]
      /\ rows = [r \in Resource |-> NoRow]
  BY DEF SamplerInit
<1>2. <<>> \in Seq(ContainerEvent) /\ Len(<<>>) = 0
  BY EmptySeq
<1>3. NoMetadata \in DockerMetadata /\ NoMetadata \in CacheMetadata
  BY DEF NoMetadata, DockerMetadata, CacheMetadata
<1>4. [state : {"running", "paused", "dead"}, health : {"healthy"}] \subseteq DockerMetadata
  BY DEF DockerMetadata, ContainerState, ContainerHealth
<1>5. docker \in [Container -> DockerMetadata] /\ cache \in [Container -> CacheMetadata]
  BY <1>1, <1>3, <1>4
<1>6. stream \in [connected : BOOLEAN, events : Seq(ContainerEvent)] /\ stream.events = <<>>
  BY <1>1, <1>2
<1>7. NoRow \in [status : DOMAIN Rank \cup {Absent, "archived"}, seen : Nat]
  BY DEF NoRow
<1>8. DockerTyped
  BY <1>1, <1>5, <1>6, <1>7 DEF DockerTyped, DockerMetadata, CacheMetadata
<1>9. StreamTells
  BY <1>1, <1>2, <1>6 DEF StreamTells, LastTells, CacheRight
<1> QED BY <1>8, <1>9 DEF CacheInductive

\* Once the events that wait are handled, the cache is right.
LEMMA CacheImplies == CacheInductive => CacheFollowsDocker
<1> SUFFICES ASSUME CacheInductive, stream.connected, stream.events = <<>>,
                    NEW c \in Container \ unrefreshed, cache[c] # NoMetadata
             PROVE  /\ c \in Listed
                    /\ cache[c].state = "running" <=> docker[c].state = "running"
  BY DEF CacheFollowsDocker
<1>1. CacheRight
  BY DEF CacheInductive, StreamTells
<1>2. ~Told(c, stream.events)
  <2>1. Len(stream.events) = 0
    BY EmptySeq
  <2> QED BY <2>1 DEF Told
<1> QED BY <1>1, <1>2 DEF CacheRight

\* The types of the sampler, from those of its parts.
LEMMA SamplerTyped == ReadersServed /\ LogInOrder /\ CacheInductive => SamplerTypeOK
<1> SUFFICES ASSUME ReadersServed, LogInOrder, CacheInductive PROVE SamplerTypeOK
  OBVIOUS
<1>1. EngineTypeOK /\ Len(pending) =< PendingCap /\ DockerTyped
  BY ServedImplies DEF LogInOrder, CacheInductive
<1>2. \A c \in Container : cache[c] \in CacheMetadata
  BY <1>1 DEF DockerTyped, CacheMetadata
<1>3. \A c \in Container : /\ cache[c].state \in ContainerState \cup {Absent, "die", "stop", "pause"}
                           /\ cache[c].health \in ContainerHealth \cup {"none"}
  BY <1>2 DEF CacheMetadata
<1>4. \A r \in Resource : /\ lastResources[r] \in DOMAIN Rank \cup {Absent}
                          /\ rows[r].status \in DOMAIN Rank \cup {Absent, "archived"}
  <2>1. \A r \in Resource : rows[r] \in [status : DOMAIN Rank \cup {Absent, "archived"}, seen : Nat]
    BY <1>1 DEF DockerTyped
  <2>2. \A r \in Resource : lastResources[r] \in DOMAIN Rank \cup {Absent}
    BY <1>1 DEF DockerTyped
  <2> QED BY <2>1, <2>2
<1>5. {healthOf(failures.host), healthOf(failures.docker)} \subseteq {"healthy", "degraded", "down"}
  BY DEF healthOf
<1> QED BY <1>1, <1>3, <1>4, <1>5 DEF SamplerTypeOK

\* The inductive invariants of the sampler but for the host's counters.
SamplerInductive == ReadersServed /\ LogInOrder /\ CacheInductive

\* The conjunction is an invariant of the sampler.
LEMMA SamplerInvariant == SamplerSpec => []SamplerInductive
<1>1. SamplerInit => SamplerInductive
  BY ServedInit, LogInit, CacheInit DEF SamplerInit, SamplerInductive
<1>2. SamplerInductive /\ [SamplerNext]_allVars => SamplerInductive'
  BY ServedStep, LogStep, CacheStep DEF SamplerInductive
<1> QED BY <1>1, <1>2, PTL DEF SamplerSpec

\* The sampler is typed, and as long as the event stream lives its cache says "running" of
\* the containers that run and of no others once the events that wait are handled, for
\* every set of containers and every interleaving of their life, events, passes and failed
\* inspections (sampler.go: handleDockerEvent, inspect).
THEOREM CacheFollows == SamplerSpec => []CacheInv
<1>1. SamplerInductive => CacheInv
  BY SamplerTyped, CacheImplies DEF SamplerInductive, CacheInv
<1> QED BY <1>1, SamplerInvariant, PTL

\* A pass shows healthy only what runs.
LEMMA HealthyStep ==
    ASSUME SamplerInductive, [SamplerNext]_allVars,
           stream.connected, stream.events = <<>>, unrefreshed = {},
           sequence' # sequence, failures'.docker = 0,
           NEW c \in Listed, lastResources'[ResourceOf[c]] = "healthy"
    PROVE  docker[c].state = "running"
<1>1. CacheInductive /\ CacheFollowsDocker /\ DockerTyped
  BY CacheImplies DEF SamplerInductive, CacheInductive
<1>2. c \in Container /\ ResourceOf[c] \in Resource
  BY DEF Listed, Resource
<1>3. ASSUME lastResources' = collectDocker PROVE docker[c].state = "running"
  <2>1. inspect(c).state = "running"
    BY <1>2, <1>3, PassSays
  <2>2. CASE cache[c] = NoMetadata
    BY <2>1, <2>2 DEF inspect
  <2>3. CASE cache[c] # NoMetadata
    BY <1>1, <1>2, <2>1, <2>3 DEF inspect, CacheFollowsDocker
  <2> QED BY <2>2, <2>3
<1> USE DEF engineVars, engine, daemon
<1>4. ASSUME NEW h \in BOOLEAN, NEW d \in BOOLEAN, NEW failed \in SUBSET Resource,
             NEW a \in BOOLEAN, Collect(h, d, failed, a)
      PROVE  lastResources' = collectDocker
  BY <1>4 DEF Collect
<1>5. ASSUME NEW h \in BOOLEAN, NEW d \in BOOLEAN, NEW inspected \in SUBSET Listed,
             CollectWithoutDocker(h, d, inspected)
      PROVE  FALSE
  <2>1. failures' = [host |-> Count(failures.host, h), docker |-> failures.docker + 1]
    BY <1>5 DEF CollectWithoutDocker
  <2>2. failures.docker \in Nat
    BY <1>1 DEF DockerTyped
  <2> QED BY <2>1, <2>2
<1>6. CASE UNCHANGED allVars
  BY <1>6 DEF allVars
<1>7. ASSUME NEW x \in Container, Lifecycle(x) PROVE FALSE
  BY <1>7 DEF Lifecycle, Change
<1>8. CASE Disconnect
  BY <1>8 DEF Disconnect
<1>9. ASSUME NEW fails \in BOOLEAN, DockerEvent(fails) PROVE FALSE
  BY <1>9 DEF DockerEvent
<1>10. CASE Tick
  BY <1>10 DEF Tick
<1>11. ASSUME NEW s \in Subscriber, Connect(s) PROVE FALSE
  BY <1>11 DEF Connect, Subscribe
<1>12. ASSUME NEW s \in Subscriber, Read(s) PROVE FALSE
  BY <1>12 DEF Read, Replay, Stream, Leave
<1> QED BY <1>3, <1>4, <1>5, <1>6, <1>7, <1>8, <1>9, <1>10, <1>11, <1>12 DEF SamplerNext

\* A pass archives only what is not there.
LEMMA ArchiveStep ==
    ASSUME SamplerInductive, [SamplerNext]_allVars, NEW r \in Resource,
           rows[r].status # "archived", rows'[r].status = "archived"
    PROVE  lastResources'[r] = Absent /\ \A c \in Listed : ResourceOf[c] # r
<1> USE DEF daemon
<1>1. ASSUME NEW h \in BOOLEAN, NEW d \in BOOLEAN, NEW failed \in SUBSET Resource,
             NEW a \in BOOLEAN, Collect(h, d, failed, a)
      PROVE  lastResources'[r] = Absent /\ \A c \in Listed : ResourceOf[c] # r
  <2> DEFINE upserted == UpsertResource(collectDocker, failed)
  <2>1. /\ lastResources' = collectDocker
        /\ rows' = upserted \/ rows' = ArchiveMissingResources(upserted, collectDocker)
    BY <1>1 DEF Collect
  <2>2. /\ collectDocker[r] # "archived"
        /\ \A c \in Listed : ResourceOf[c] = r => collectDocker[r] # Absent
    BY PassSays
  <2>3. upserted[r].status # "archived"
    <3>1. \/ upserted[r] = [status |-> collectDocker[r], seen |-> now]
          \/ upserted[r] = rows[r]
      BY DEF UpsertResource
    <3> HIDE DEF upserted
    <3> QED BY <2>2, <3>1
  <2> HIDE DEF upserted
  <2>4. CASE r \in Present(collectDocker)
    <3>1. rows'[r] = upserted[r]
      BY <2>1, <2>4 DEF ArchiveMissingResources
    <3> QED BY <2>3, <3>1
  <2>5. CASE r \notin Present(collectDocker)
    BY <2>1, <2>2, <2>5 DEF Present
  <2> QED BY <2>4, <2>5
<1>2. ASSUME rows' = rows PROVE FALSE
  BY <1>2
<1>3. ASSUME NEW h \in BOOLEAN, NEW d \in BOOLEAN, NEW inspected \in SUBSET Listed,
             CollectWithoutDocker(h, d, inspected)
      PROVE  rows' = rows
  BY <1>3 DEF CollectWithoutDocker
<1>4. ASSUME NEW x \in Container, Lifecycle(x) PROVE rows' = rows
  BY <1>4 DEF Lifecycle, Change
<1>5. CASE Disconnect
  BY <1>2, <1>5 DEF Disconnect
<1>6. ASSUME NEW fails \in BOOLEAN, DockerEvent(fails) PROVE rows' = rows
  BY <1>6 DEF DockerEvent
<1> QED BY <1>1, <1>2, <1>3, <1>4, <1>5, <1>6, DockerSteps

\* With the events that were sent handled, a pass shows a resource as healthy only if all of
\* its containers run, and no pass archives a resource that is there, whatever outages of
\* Docker and failed statements came before (sampler.go: collectDocker;
\* storage/resources.go: ArchiveMissingResources).
THEOREM PassesAreTruthful == SamplerSpec => ResourcesTruthful
<1> DEFINE Healthy == (/\ stream.connected /\ stream.events = <<>> /\ unrefreshed = {}
                       /\ sequence' # sequence /\ failures'.docker = 0) =>
                         \A c \in Listed : lastResources'[ResourceOf[c]] = "healthy"
                                               => docker[c].state = "running"
           Archived == \A r \in Resource :
                         rows[r].status # "archived" /\ rows'[r].status = "archived" =>
                             lastResources'[r] = Absent /\ \A c \in Listed : ResourceOf[c] # r
<1>1. SamplerInductive /\ [SamplerNext]_allVars => [Healthy]_allVars
  BY HealthyStep
<1>2. SamplerInductive /\ [SamplerNext]_allVars => [Archived]_allVars
  BY ArchiveStep
<1>3. SamplerSpec => [][Healthy]_allVars
  BY <1>1, SamplerInvariant, PTL DEF SamplerSpec
<1>4. SamplerSpec => [][Archived]_allVars
  BY <1>2, SamplerInvariant, PTL DEF SamplerSpec
<1>5. SamplerSpec => HealthyIsRunning
  BY <1>3 DEF HealthyIsRunning
<1>6. SamplerSpec => ArchivedOnlyWhenGone
  BY <1>4 DEF ArchivedOnlyWhenGone
<1> QED BY <1>5, <1>6 DEF ResourcesTruthful
=============================================================================

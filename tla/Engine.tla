------------------------------- MODULE Engine -------------------------------
(***************************************************************************)
(* The metrics engine (internal/metrics/engine.go) and the live stream     *)
(* that serves it to browsers (internal/api/live.go).  The engine keeps    *)
(* the current snapshot and a ring of recent events, numbers both with one *)
(* counter, and sends them to the bounded Go channel of every subscriber:  *)
(* a snapshot displaces the oldest message, an event that finds no place   *)
(* closes the channel, and a reader that comes back asks for the events    *)
(* after the last id it saw.                                               *)
(*                                                                         *)
(* A snapshot is its sequence number and an event its id.  The events on   *)
(* the live channels are copies made before the ids are assigned: their    *)
(* frames carry id 0, the id in the model is what tells them apart.        *)
(***************************************************************************)
EXTENDS Integers, Sequences, SequencesExt

CONSTANTS
    Subscriber,    \* live readers
    RingSize,      \* maxEvents (128 in the code)
    LiveCapacity,  \* cap of a live channel (33 in the code)
    MaxBurst,      \* bound: events published at once
    MaxMessages    \* bound: the counter of messages

ASSUME EngineAssumption ==
    /\ RingSize \in Nat \ {0}
    /\ LiveCapacity \in Nat \ {0}
    /\ MaxBurst \in Nat
    /\ MaxMessages \in Nat

VARIABLES
    sequence,     \* sequence of the current snapshot, 0 before the first
    nextMessage,  \* the counter
    events,       \* the ring: ids of the recent events
    live,         \* [Subscriber -> the live channel: open, and its messages]
    reader        \* [Subscriber -> the stream handler and its browser]

engine == <<sequence, nextMessage, events>>
engineVars == <<engine, live, reader>>

Id == 0..MaxMessages
Message == [kind : {"snapshot", "event"}, id : Id]
NoHeader == -1     \* the request has no Last-Event-ID

Closed == [open |-> FALSE, messages |-> <<>>]
Browser == [at |-> "away", last |-> NoHeader, shown |-> 0,
            since |-> 0, seen |-> {}, displaced |-> {}]

Snapshot(n) == [kind |-> "snapshot", id |-> n]
Event(n) == [kind |-> "event", id |-> n]

-----------------------------------------------------------------------------
(* Publishing. *)

\* Mutant: a snapshot is dropped when the channel is full.
sendSnapshotIfRoom(messages, n) ==
    IF Len(messages) < LiveCapacity THEN Append(messages, Snapshot(n)) ELSE messages

\* sendLive for a snapshot: the oldest message makes room, needed or not.
sendSnapshot(messages, n) ==
    Append(IF messages = <<>> THEN <<>> ELSE Tail(messages), Snapshot(n))

\* Mutant: events that find no place are dropped and the stream goes on.
sendEventsWhileRoom(messages, ids) ==
    LET room == LiveCapacity - Len(messages)
        sent == SubSeq(ids, 1, IF Len(ids) =< room THEN Len(ids) ELSE room)
    IN [open |-> TRUE,
        messages |-> messages \o [i \in DOMAIN sent |-> Event(sent[i])]]

\* sendLive for the events, until one finds the channel full: it is closed.
sendEvents(messages, ids) ==
    LET room == LiveCapacity - Len(messages)
        sent == SubSeq(ids, 1, IF Len(ids) =< room THEN Len(ids) ELSE room)
    IN [open |-> Len(ids) =< room,
        messages |-> messages \o [i \in DOMAIN sent |-> Event(sent[i])]]

\* The ids of a burst of n events published with a snapshot.
Burst(n) == [i \in 1..n |-> nextMessage + 1 + i]

\* Publish a snapshot and n new events.
Publish(n) ==
    LET all == events \o Burst(n) IN
    /\ nextMessage + 1 + n =< MaxMessages
    /\ sequence' = nextMessage + 1
    /\ nextMessage' = nextMessage + 1 + n
    /\ events' = SubSeq(all, IF Len(all) > RingSize THEN Len(all) - RingSize + 1 ELSE 1, Len(all))
    /\ live' = [s \in Subscriber |->
            IF live[s].open
            THEN sendEvents(sendSnapshot(live[s].messages, sequence'), Burst(n))
            ELSE live[s]]
    /\ reader' = [s \in Subscriber |->
            IF live[s].open /\ live[s].messages # <<>> /\ Head(live[s].messages).kind = "event"
            THEN [reader[s] EXCEPT !.displaced = @ \cup {Head(live[s].messages).id}]
            ELSE reader[s]]

-----------------------------------------------------------------------------
(* The stream handler of one reader. *)

\* The browser connects, and the handler subscribes before it reads the ring.
Subscribe(s) ==
    /\ reader[s].at = "away"
    /\ live' = [live EXCEPT ![s] =
            [open |-> TRUE,
             messages |-> IF sequence > 0 THEN <<Snapshot(sequence)>> ELSE <<>>]]
    /\ reader' = [reader EXCEPT ![s] =
            [reader[s] EXCEPT !.at = "replay", !.shown = 0,
                              !.since = IF reader[s].last = NoHeader THEN nextMessage ELSE @]]
    /\ UNCHANGED engine

\* EventsAfter: the ring is in the order of the ids, so what comes after one of them
\* is the end of it.
EventsAfter(id) == {e \in ToSet(events) : e > id}

\* The events after Last-Event-ID are sent again, the last one of the ring last.
Replay(s) ==
    LET missed == IF reader[s].last = NoHeader THEN {} ELSE EventsAfter(reader[s].last) IN
    /\ reader[s].at = "replay"
    /\ reader' = [reader EXCEPT ![s] =
            [reader[s] EXCEPT !.at = "stream", !.seen = @ \cup missed,
                              !.last = IF missed = {} THEN @ ELSE Last(events)]]
    /\ UNCHANGED <<engine, live>>

\* A message is taken from the channel and written as a frame.
Stream(s) ==
    LET m == Head(live[s].messages) IN
    /\ reader[s].at = "stream"
    /\ live[s].messages # <<>>
    /\ live' = [live EXCEPT ![s].messages = Tail(@)]
    /\ reader' = [reader EXCEPT ![s] =
            IF m.kind = "snapshot" THEN [reader[s] EXCEPT !.last = m.id, !.shown = m.id]
            ELSE [reader[s] EXCEPT !.last = 0, !.seen = @ \cup {m.id}]]
    /\ UNCHANGED engine

\* The browser goes away, or the closed channel is drained: the handler returns
\* and gives the subscription up.
Leave(s) ==
    /\ reader[s].at # "away"
    /\ live' = [live EXCEPT ![s] = Closed]
    /\ reader' = [reader EXCEPT ![s].at = "away"]
    /\ UNCHANGED engine

-----------------------------------------------------------------------------
EngineInit ==
    /\ sequence = 0
    /\ nextMessage = 0
    /\ events = <<>>
    /\ live = [s \in Subscriber |-> Closed]
    /\ reader = [s \in Subscriber |-> Browser]

-----------------------------------------------------------------------------
(* Properties. *)

\* The engine, the channels and the streams hold values of their types.
EngineTypeOK ==
    /\ sequence \in Id /\ nextMessage \in Id
    /\ events \in Seq(Id) /\ Len(events) =< RingSize
    /\ \A s \in Subscriber :
          /\ live[s].open \in BOOLEAN
          /\ live[s].messages \in Seq(Message) /\ Len(live[s].messages) =< LiveCapacity
          /\ reader[s] \in [at : {"away", "replay", "stream"}, last : Id \cup {NoHeader},
                            shown : Id, since : Id, seen : SUBSET Id, displaced : SUBSET Id]

Waiting(s) == ToSet(live[s].messages)

\* A slow reader never stays behind: while its channel is open, the current
\* snapshot is what it was shown last or waits on the channel, behind no newer
\* one, however full the channel was.
LatestReachesReader ==
    \A s \in Subscriber : live[s].open /\ sequence > 0 =>
        /\ Snapshot(sequence) \in Waiting(s) \/ reader[s].shown = sequence
        /\ \A m \in Waiting(s) : m.kind = "snapshot" => m.id > reader[s].shown

\* The id the browser sends when it comes back after the frames that wait.
LastAfterDrain(s) ==
    IF live[s].messages = <<>> THEN reader[s].last
    ELSE LET m == Last(live[s].messages) IN IF m.kind = "snapshot" THEN m.id ELSE 0

\* An event published since a reader first came is never lost to it silently,
\* but for one that a snapshot displaced: it was shown, waits on the channel, or
\* the channel is closed and the id the reader comes back with makes the server
\* send it again (as long as the ring has it).
MissedOnlyByDisplacement ==
    \A s \in Subscriber : reader[s].at = "stream" =>
        \A e \in ToSet(events) : e > reader[s].since =>
            \/ e \in reader[s].seen \cup reader[s].displaced
            \/ Event(e) \in Waiting(s)
            \/ ~live[s].open /\ e > LastAfterDrain(s)
=============================================================================

-------------------------- MODULE DeliveryWorker --------------------------
(***************************************************************************)
(* The notification worker (internal/notifications/worker.go): a           *)
(* dispatcher goroutine that selects due rows once a second and hands      *)
(* their ids to a bounded Go channel, and a pool of goroutines that each   *)
(* take an id, claim the row, load it, send it and record the outcome.     *)
(* The tables are those of module Notifications, whose transactions        *)
(* interleave with every step of the worker; its specification is the      *)
(* abstract one that this module implements (PROPERTY Spec).               *)
(*                                                                         *)
(* The process may stop at any point: what is in memory is lost and rows   *)
(* it had claimed stay in progress until the next start.  At most          *)
(* MaxFaults statements fail with a storage error.                         *)
(***************************************************************************)
EXTENDS Notifications

CONSTANTS
    Worker,         \* the MaxConcurrency delivery goroutines
    QueueCapacity,  \* Config.QueueCapacity
    MaxFaults,      \* bound: storage errors
    MaxRestarts     \* bound: process restarts

ASSUME WorkerAssumption ==
    /\ QueueCapacity \in Nat
    /\ MaxFaults \in Nat
    /\ MaxRestarts \in Nat

DeliveryId == Channel \X Nat
NoId == <<NoGroup, 0>>

VARIABLES
    running,   \* the worker's goroutines exist
    batch,     \* ids the dispatcher selected and has not handed over yet
    queue,     \* the Go channel of ids
    queued,    \* the dispatcher's set of ids queued or being delivered
    worker,    \* [Worker -> where deliver is, and its id and outcome]
    faults,    \* storage errors so far
    restarts   \* starts so far

memory == <<running, batch, queue, queued, worker>>
vars == <<tables, memory, faults, restarts>>

Idle == [at |-> "idle", id |-> NoId, outcome |-> "success"]
At(p, id) == [Idle EXCEPT !.at = p, !.id = id]

Due == {id \in UNION {{c} \X DOMAIN deliveries[c] : c \in Channel} :
            Claimable(id[1], id[2])}

-----------------------------------------------------------------------------
\* Start recovers the rows of the last process and starts the goroutines.
Start ==
    /\ ~running
    /\ restarts < MaxRestarts
    /\ Recover
    /\ running' = TRUE
    /\ restarts' = restarts + 1
    /\ UNCHANGED <<batch, queue, queued, worker, faults>>

\* Stop, or a crash.  Stop cancels the context, so an attempt under way cannot
\* record its outcome any more.  The bound leaves a restart for every stop.
Halt ==
    /\ running
    /\ restarts < MaxRestarts
    /\ running' = FALSE
    /\ batch' = {}
    /\ queue' = <<>>
    /\ queued' = {}
    /\ worker' = [w \in Worker |-> Idle]
    /\ UNCHANGED <<tables, faults, restarts>>

-----------------------------------------------------------------------------
(* The dispatcher. *)

\* The second ticker: up to QueueCapacity + 1 due rows.
Select ==
    /\ running
    /\ batch = {}
    /\ Due # {}
    /\ \E D \in SUBSET Due :
          /\ IF Cardinality(Due) > QueueCapacity + 1
             THEN Cardinality(D) = QueueCapacity + 1
             ELSE D = Due
          /\ batch' = D
    /\ UNCHANGED <<tables, running, queue, queued, worker, faults, restarts>>

\* enqueueDue for one id: skipped when it is queued already, dropped when the
\* Go channel is full.
EnqueueDue(id) ==
    /\ id \in batch
    /\ batch' = batch \ {id}
    /\ IF id \notin queued /\ Len(queue) < QueueCapacity
       THEN queue' = Append(queue, id) /\ queued' = queued \cup {id}
       ELSE UNCHANGED <<queue, queued>>
    /\ UNCHANGED <<tables, running, worker, faults, restarts>>

\* The minute ticker, taken by the same goroutine between two batches.
Maintain ==
    /\ running
    /\ batch = {}
    /\ \/ \E g \in Group : ScheduleReminders(g)
       \/ \E c \in Channel : \E n \in DOMAIN deliveries[c] : CleanupDelivery(c, n)
       \/ \E g \in Group : \E n \in DOMAIN incidents[g] : CleanupIncident(g, n)
    /\ UNCHANGED <<memory, faults, restarts>>

-----------------------------------------------------------------------------
(* The delivery goroutines. *)

Take(w) ==
    /\ worker[w].at = "idle"
    /\ queue # <<>>
    /\ worker' = [worker EXCEPT ![w] = At("claim", Head(queue))]
    /\ queue' = Tail(queue)
    /\ UNCHANGED <<tables, running, batch, queued, faults, restarts>>

\* Mutant: the id is never removed from the set of queued ids.
ReturnKeepsQueued(w) ==
    /\ worker' = [worker EXCEPT ![w] = Idle]
    /\ UNCHANGED <<running, batch, queue, queued, restarts>>

\* deliver returns and run forgets the id.
Return(w) ==
    /\ worker' = [worker EXCEPT ![w] = Idle]
    /\ queued' = queued \ {worker[w].id}
    /\ UNCHANGED <<running, batch, queue, restarts>>

Fault == faults < MaxFaults /\ faults' = faults + 1

\* Mutant: the UPDATE that claims the row has no condition on the row.
ClaimUnguarded(w) ==
    LET c == worker[w].id[1] n == worker[w].id[2] IN
    /\ worker[w].at = "claim"
    /\ deliveries' = [deliveries EXCEPT ![c][n].status = "in_progress"]
    /\ worker' = [worker EXCEPT ![w].at = "load"]
    /\ UNCHANGED <<alerts, incidents, channels, running, batch, queue, queued, faults, restarts>>

\* The guarded UPDATE that claims the row: it succeeds, matches no row, or
\* fails, in which case finish is called for a row that was not claimed (and may
\* fail as well).
Claim(w) ==
    LET c == worker[w].id[1] n == worker[w].id[2] IN
    /\ worker[w].at = "claim"
    /\ \/ /\ ClaimRow(c, n)
          /\ worker' = [worker EXCEPT ![w].at = "load"]
          /\ UNCHANGED <<running, batch, queue, queued, faults, restarts>>
       \/ /\ ~Claimable(c, n)
          /\ Return(w)
          /\ UNCHANGED <<tables, faults>>
       \/ /\ Fault
          /\ ClaimError(c, n) \/ UNCHANGED tables
          /\ Return(w)

\* The row and its channel are read: a channel that is gone or disabled fails
\* the delivery for good; a storage error abandons the claimed row.
Load(w) ==
    LET c == worker[w].id[1] n == worker[w].id[2] IN
    /\ worker[w].at = "load"
    /\ \/ /\ Enabled(c)
          /\ worker' = [worker EXCEPT ![w].at = "send"]
          /\ UNCHANGED <<tables, running, batch, queue, queued, faults, restarts>>
       \/ /\ ~Enabled(c)
          /\ Settle(c, n, "permanent")
          /\ Return(w)
          /\ UNCHANGED faults
       \/ /\ Fault
          /\ Return(w)
          /\ UNCHANGED tables

\* The webhook or SMTP exchange, secrets and configuration included.  A
\* retryable failure may have reached the receiver all the same.
Send(w, o) ==
    /\ worker[w].at = "send"
    /\ worker' = [worker EXCEPT ![w].at = "finish", ![w].outcome = o]
    /\ UNCHANGED <<tables, running, batch, queue, queued, faults, restarts>>

\* finish records the outcome; its write errors are ignored.
Finish(w) ==
    LET c == worker[w].id[1] n == worker[w].id[2] IN
    /\ worker[w].at = "finish"
    /\ \/ /\ Settle(c, n, worker[w].outcome)
          /\ UNCHANGED faults
       \/ /\ Fault
          /\ UNCHANGED tables
    /\ Return(w)

-----------------------------------------------------------------------------
WorkerInit ==
    /\ Init
    /\ running = FALSE
    /\ batch = {}
    /\ queue = <<>>
    /\ queued = {}
    /\ worker = [w \in Worker |-> Idle]
    /\ faults = 0
    /\ restarts = 0

Environment ==
    /\ \/ AlertStep
       \/ AdminStep
       \/ \E a \in DOMAIN alerts : CleanupAlert(a)
       \/ \E c \in Channel : \E n \in DOMAIN deliveries[c] : BecomeDue(c, n)
    /\ UNCHANGED <<memory, faults, restarts>>

Dispatch == Select \/ \E id \in batch : EnqueueDue(id)

Deliver(w) == Take(w) \/ Claim(w) \/ Load(w) \/ (\E o \in Outcome : Send(w, o)) \/ Finish(w)

WorkerNext ==
    \/ Environment
    \/ Start
    \/ Halt
    \/ Dispatch
    \/ Maintain
    \/ \E w \in Worker : Deliver(w)

WorkerSpec == WorkerInit /\ [][WorkerNext]_vars

\* Time passes; the process is restarted after it stops and its goroutines are
\* scheduled, so none of their steps is put off for ever.
FairWorkerSpec ==
    /\ WorkerSpec
    /\ WF_vars(Start)
    /\ WF_vars(Dispatch)
    /\ \A w \in Worker : WF_vars(Deliver(w))
    /\ \A c \in Channel, n \in 1..MaxDeliveries :
          WF_vars(n \in DOMAIN deliveries[c] /\ BecomeDue(c, n)
                    /\ UNCHANGED <<memory, faults, restarts>>)

-----------------------------------------------------------------------------
(* Properties. *)

WorkerState == [at : {"idle", "claim", "load", "send", "finish"},
                id : DeliveryId \cup {NoId}, outcome : Outcome]

\* The tables and the worker's memory hold values of their types.
WorkerTypeOK ==
    /\ TypeOK
    /\ running \in BOOLEAN
    /\ batch \subseteq DeliveryId
    /\ queue \in Seq(DeliveryId)
    /\ queued \subseteq DeliveryId
    /\ worker \in [Worker -> WorkerState]
    /\ faults \in Nat
    /\ restarts \in Nat

Holding(w) == worker[w].at \in {"load", "send", "finish"}
Row(id) == deliveries[id[1]][id[2]]

\* Two attempts that are between claim and finish at the same time are never
\* for the same delivery, nor for the same incident on the same channel: the
\* receiver sees one message about an incident at a time, although nothing but
\* the claim's WHERE clause and the in-memory set of ids keeps goroutines,
\* a stale batch and finish's unconditional write apart.
SerialSends ==
    \A v, w \in Worker :
        Holding(v) /\ Holding(w) /\ v # w =>
            /\ worker[v].id # worker[w].id
            /\ (/\ worker[v].id[1] = worker[w].id[1]
                /\ Row(worker[v].id).incident = Row(worker[w].id).incident)
                  => Row(worker[v].id).incident = NoIncident

Orphans == {id \in UNION {{c} \X DOMAIN deliveries[c] : c \in Channel} :
               /\ Row(id).status = "in_progress"
               /\ \A w \in Worker : Holding(w) => worker[w].id # id}

\* While the worker runs, a row that is in progress is being worked on, except
\* for at most one row per storage error: nothing else strands a delivery (a
\* stranded row blocks its incident's channel until the next start).
StrandedOnlyByFaults == running => Cardinality(Orphans) =< faults

\* A cancelled delivery is not brought back: only a storage error in the claim,
\* whose finish overwrites any status, ever revives one.
CancelledStaysCancelled ==
    [][\A c \in Channel : \A n \in DOMAIN deliveries[c] :
          deliveries[c][n].status = "cancelled"
              => \/ deliveries'[c][n].status \in {"cancelled", "deleted"}
                 \/ faults' = faults + 1]_vars

\* Without storage errors every delivery that is pending is eventually
\* completed, whatever new alerts, the channel's settings, a full queue and
\* restarts do meanwhile, provided the administrator does not go on retrying
\* failed deliveries for ever (a retried row competes for the queue).
ManualRetry == \E c \in Channel : \E n \in DOMAIN deliveries[c] : Retry(c, n)
EventuallyCompleted ==
    <>[][~ManualRetry]_vars =>
        \A c \in Channel, n \in 1..MaxDeliveries :
            (n \in DOMAIN deliveries[c] /\ deliveries[c][n].status = "pending") ~>
            (/\ n \in DOMAIN deliveries[c]
             /\ deliveries[c][n].status \in Completed \cup {"deleted"})

\* What the comment in enqueueResolutionTx says: a resolution supersedes the
\* retries of older lifecycle events, so none is attempted once the channel has
\* received the resolution.
ResolutionIsLast ==
    \A w \in Worker : worker[w].at = "send" =>
        LET d == Row(worker[w].id) rows == deliveries[worker[w].id[1]] IN
        d.event \in Lifecycle /\ d.attempts > 0 =>
            \A n \in DOMAIN rows :
                ~ /\ rows[n].event = "resolved"
                  /\ rows[n].status = "succeeded"
                  /\ rows[n].incident = d.incident

\* What the goroutines, the queue and the rows keep to at every moment: typed, one
\* send about an incident on a channel at a time, and no row left in progress but
\* by a storage error.
WorkerInv == WorkerTypeOK /\ SerialSends /\ StrandedOnlyByFaults
=============================================================================

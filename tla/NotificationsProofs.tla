------------------------ MODULE NotificationsProofs ------------------------
(***************************************************************************)
(* Machine-checked proofs about module Notifications, for every set of     *)
(* conditions, channels and settings and every value of the bounds.        *)
(***************************************************************************)
EXTENDS Notifications, TLAPS

-----------------------------------------------------------------------------
(* Sequences. *)

\* A function on 1..n is a sequence.
LEMMA FunctionIsSeq ==
    ASSUME NEW S, NEW n \in Nat, NEW f \in [1..n -> S]
    PROVE  f \in Seq(S)
OBVIOUS

\* Rewriting the rows of a table keeps it a table of rows.
LEMMA RewriteSeq ==
    ASSUME NEW S, NEW s \in Seq(S), NEW f,
           f \in [DOMAIN s -> S]
    PROVE  f \in Seq(S) /\ DOMAIN f = DOMAIN s /\ Len(f) = Len(s)
BY FunctionIsSeq

\* Replacing one row, if it is there, keeps the others.
LEMMA ReplaceSeq ==
    ASSUME NEW S, NEW s \in Seq(S), NEW x, NEW e, x \in DOMAIN s => e \in S
    PROVE  /\ [s EXCEPT ![x] = e] \in Seq(S)
           /\ DOMAIN [s EXCEPT ![x] = e] = DOMAIN s
           /\ Len([s EXCEPT ![x] = e]) = Len(s)
           /\ \A n \in DOMAIN s : [s EXCEPT ![x] = e][n] = IF n = x THEN e ELSE s[n]
<1>1. s \in [DOMAIN s -> S]
  OBVIOUS
<1>2. [s EXCEPT ![x] = e] \in [DOMAIN s -> S]
  BY <1>1
<1> QED BY <1>2, RewriteSeq

\* Appending a row keeps every other row.
LEMMA AppendSeq ==
    ASSUME NEW S, NEW s \in Seq(S), NEW e \in S
    PROVE  /\ Append(s, e) \in Seq(S)
           /\ Len(Append(s, e)) = Len(s) + 1
           /\ DOMAIN Append(s, e) = DOMAIN s \cup {Len(s) + 1}
           /\ \A i \in DOMAIN s : Append(s, e)[i] = s[i]
           /\ Append(s, e)[Len(s) + 1] = e
           /\ Len(s) + 1 \notin DOMAIN s
OBVIOUS

-----------------------------------------------------------------------------
(* What the outbox operators do to the rows of one channel. *)

Reference == IncidentId \cup {NoIncident}
Event == {"opened", "updated", "reminder", "resolved", "test"}

\* Row `now' is row `old', withdrawn while it waits or with another payload and
\* due time.
SameRow(old, now) ==
    /\ now.incident = old.incident
    /\ now.event = old.event
    /\ now.attempts = old.attempts
    /\ now.status = old.status \/ (old.status = "pending" /\ now.status = "cancelled")

\* Table `now' is table `old' with some rows withdrawn or rewritten in place
\* and at most one new row.
Grown(old, now, i, event) ==
    /\ now \in Seq(DeliveryRow)
    /\ DOMAIN old \subseteq DOMAIN now
    /\ \A n \in DOMAIN old : SameRow(old[n], now[n])
    /\ \A n \in DOMAIN now \ DOMAIN old :
          n = Len(old) + 1 /\ now[n] = NewRow(i, event)

\* A new row has the type of a row.
LEMMA NewRowType ==
    ASSUME NEW i \in Reference, NEW event \in Event
    PROVE  NewRow(i, event) \in DeliveryRow
BY DEF NewRow, DeliveryRow, Reference, Event, Lifecycle, Completed

\* An unchanged table is a grown one.
LEMMA GrownSame ==
    ASSUME NEW old \in Seq(DeliveryRow), NEW i, NEW event
    PROVE  Grown(old, old, i, event)
BY DEF Grown, SameRow

\* Folding rewrites the payload.
LEMMA FoldedRow ==
    ASSUME NEW row \in DeliveryRow
    PROVE  Folded(row) \in DeliveryRow /\ SameRow(row, Folded(row))
BY DEF Folded, DeliveryRow, SameRow

\* upsertDeliveryTx folds into a waiting row or appends one.
LEMMA UpsertGrows ==
    ASSUME NEW old \in Seq(DeliveryRow), NEW i \in Reference, NEW event \in Event
    PROVE  Grown(old, upsertDeliveryTx(old, i, event), i, event)
<1> DEFINE w == PendingLifecycle(old, i)
           o == Oldest(w)
           now == [old EXCEPT ![o] = Folded(old[o])]
<1>1. CASE event \in Lifecycle /\ w # {}
  <2>1. upsertDeliveryTx(old, i, event) = now
    BY <1>1 DEF upsertDeliveryTx
  <2> HIDE DEF o
  <2>2. ASSUME o \in DOMAIN old
        PROVE  Folded(old[o]) \in DeliveryRow /\ SameRow(old[o], Folded(old[o]))
    BY <2>2, FoldedRow
  <2>3. /\ now \in Seq(DeliveryRow) /\ DOMAIN now = DOMAIN old
        /\ \A n \in DOMAIN old : now[n] = IF n = o THEN Folded(old[o]) ELSE old[n]
    BY <2>2, ReplaceSeq
  <2> HIDE DEF now
  <2>4. \A n \in DOMAIN old : SameRow(old[n], now[n])
    BY <2>2, <2>3 DEF SameRow
  <2>5. Grown(old, now, i, event)
    BY <2>3, <2>4 DEF Grown
  <2> QED BY <2>1, <2>5
<1>2. CASE ~(event \in Lifecycle /\ w # {})
  <2>1. upsertDeliveryTx(old, i, event) = Append(old, NewRow(i, event))
    BY <1>2 DEF upsertDeliveryTx
  <2>2. NewRow(i, event) \in DeliveryRow
    BY NewRowType
  <2> HIDE DEF w
  <2>3. Grown(old, Append(old, NewRow(i, event)), i, event)
    BY <2>2, AppendSeq DEF Grown, SameRow
  <2> QED BY <2>1, <2>3
<1> QED BY <1>1, <1>2

\* CancelRows only withdraws rows that wait.
LEMMA CancelGrows ==
    ASSUME NEW old \in Seq(DeliveryRow), NEW N, NEW i, NEW event,
           \A n \in N : old[n].status = "pending"
    PROVE  /\ Grown(old, CancelRows(old, N), i, event)
           /\ DOMAIN CancelRows(old, N) = DOMAIN old
           /\ Len(CancelRows(old, N)) = Len(old)
<1> DEFINE now == CancelRows(old, N)
<1>1. \A n \in DOMAIN old : now[n] \in DeliveryRow /\ SameRow(old[n], now[n])
  <2> SUFFICES ASSUME NEW n \in DOMAIN old
               PROVE  now[n] \in DeliveryRow /\ SameRow(old[n], now[n])
    OBVIOUS
  <2>1. old[n] \in DeliveryRow
    OBVIOUS
  <2>2. CASE n \in N
    <3>1. now[n] = [old[n] EXCEPT !.status = "cancelled", !.due = FALSE]
      BY <2>2 DEF CancelRows
    <3>2. old[n].status = "pending"
      BY <2>2
    <3> QED BY <2>1, <3>1, <3>2 DEF DeliveryRow, Completed, SameRow
  <2>3. CASE n \notin N
    <3>1. now[n] = old[n]
      BY <2>3 DEF CancelRows
    <3> QED BY <2>1, <3>1 DEF SameRow
  <2> QED BY <2>2, <2>3
<1>2. now \in [DOMAIN old -> DeliveryRow]
  <2>1. now = [n \in DOMAIN old |-> now[n]]
    BY DEF CancelRows
  <2> HIDE DEF now
  <2> QED BY <1>1, <2>1
<1> HIDE DEF now
<1>3. now \in Seq(DeliveryRow) /\ DOMAIN now = DOMAIN old /\ Len(now) = Len(old)
  BY <1>2, RewriteSeq
<1>4. Grown(old, now, i, event)
  BY <1>1, <1>3 DEF Grown
<1> QED BY <1>3, <1>4 DEF now

\* Growing twice, first by withdrawing only.
LEMMA GrownTwice ==
    ASSUME NEW old, NEW mid, NEW now, NEW i, NEW event,
           Grown(old, mid, i, event), DOMAIN mid = DOMAIN old, Len(mid) = Len(old),
           Grown(mid, now, i, event)
    PROVE  Grown(old, now, i, event)
BY DEF Grown, SameRow

\* enqueueIncidentTx grows the table of every channel.
LEMMA EnqueueIncidentGrows ==
    ASSUME TypeOK, NEW i \in Reference, NEW event \in Event, NEW severity
    PROVE  /\ DOMAIN enqueueIncidentTx(i, event, severity) = Channel
           /\ \A c \in Channel :
                 Grown(deliveries[c], enqueueIncidentTx(i, event, severity)[c], i, event)
<1>1. \A c \in Channel : deliveries[c] \in Seq(DeliveryRow)
  BY DEF TypeOK
<1> QED BY <1>1, UpsertGrows, GrownSame DEF enqueueIncidentTx

\* enqueueResolutionTx grows the table of every channel.
LEMMA EnqueueResolutionGrows ==
    ASSUME TypeOK, NEW i \in Reference
    PROVE  /\ DOMAIN enqueueResolutionTx(i) = Channel
           /\ \A c \in Channel :
                 Grown(deliveries[c], enqueueResolutionTx(i)[c], i, "resolved")
<1> SUFFICES ASSUME NEW c \in Channel
             PROVE  Grown(deliveries[c], enqueueResolutionTx(i)[c], i, "resolved")
  BY DEF enqueueResolutionTx
<1> DEFINE rows == deliveries[c]
           mid == CancelRows(rows, PendingLifecycle(rows, i))
<1>1. rows \in Seq(DeliveryRow)
  BY DEF TypeOK
<1>2. /\ Grown(rows, mid, i, "resolved")
      /\ DOMAIN mid = DOMAIN rows /\ Len(mid) = Len(rows)
      /\ mid \in Seq(DeliveryRow)
  <2>1. \A n \in PendingLifecycle(rows, i) : rows[n].status = "pending"
    BY DEF PendingLifecycle
  <2> HIDE DEF rows
  <2> QED BY <1>1, <2>1, CancelGrows DEF Grown
<1>3. "resolved" \in Event
  BY DEF Event
<1>4. Grown(mid, upsertDeliveryTx(mid, i, "resolved"), i, "resolved")
  <2> HIDE DEF mid
  <2> QED BY <1>2, <1>3, UpsertGrows
<1>5. Grown(rows, upsertDeliveryTx(mid, i, "resolved"), i, "resolved")
  <2> HIDE DEF mid, rows
  <2> QED BY <1>2, <1>4, GrownTwice
<1>6. \/ enqueueResolutionTx(i)[c] = rows
      \/ enqueueResolutionTx(i)[c] = mid
      \/ enqueueResolutionTx(i)[c] = upsertDeliveryTx(mid, i, "resolved")
  BY DEF enqueueResolutionTx
<1> HIDE DEF mid
<1> QED BY <1>1, <1>2, <1>5, <1>6, GrownSame

-----------------------------------------------------------------------------
(* What a step does to the delivery tables: it rewrites one row, rewrites   *)
(* rows of several channels, or grows the tables.                           *)

\* One row is rewritten: it is claimed, finished, retried or cleaned up.
PointStep(c, n) ==
    LET d == deliveries[c][n] e == deliveries'[c][n] IN
    /\ deliveries' \in [Channel -> Seq(DeliveryRow)]
    /\ \A b \in Channel : DOMAIN deliveries'[b] = DOMAIN deliveries[b]
    /\ \A b \in Channel : \A m \in DOMAIN deliveries[b] :
          b # c \/ m # n => deliveries'[b][m] = deliveries[b][m]
    /\ e.incident \in {d.incident, NoIncident}
    /\ e.incident # NoIncident => e.event = d.event
    /\ e.status = "in_progress" =>
          /\ e.incident = d.incident /\ e.attempts = d.attempts
          /\ d.status = "in_progress" \/ Claimable(c, n)
    /\ e.status = "pending" =>
          \/ e.attempts = d.attempts /\ d.status = "pending"
          \/ e.attempts =< RetryLimit

\* Rows are returned to pending or lose their incident.
BulkStep ==
    /\ deliveries' \in [Channel -> Seq(DeliveryRow)]
    /\ \A b \in Channel : DOMAIN deliveries'[b] = DOMAIN deliveries[b]
    /\ \A b \in Channel : \A m \in DOMAIN deliveries[b] :
          LET d == deliveries[b][m] e == deliveries'[b][m] IN
          /\ e.incident \in {d.incident, NoIncident}
          /\ e.event = d.event
          /\ e.attempts = d.attempts
          /\ \/ e.status = d.status
             \/ e.status = "pending" /\ d.status = "in_progress"

\* The tables grow by rows for one incident and event.
GrowStep(i, event) ==
    /\ deliveries' \in [Channel -> Seq(DeliveryRow)]
    /\ \A b \in Channel : Grown(deliveries[b], deliveries'[b], i, event)

\* Replacing one row of one channel.
LEMMA PointUpdate ==
    ASSUME TypeOK, NEW c \in Channel, NEW n \in DOMAIN deliveries[c],
           NEW row \in DeliveryRow,
           deliveries' = [deliveries EXCEPT ![c][n] = row]
    PROVE  /\ deliveries' \in [Channel -> Seq(DeliveryRow)]
           /\ \A b \in Channel : DOMAIN deliveries'[b] = DOMAIN deliveries[b]
           /\ deliveries'[c][n] = row
           /\ \A b \in Channel : \A m \in DOMAIN deliveries[b] :
                 b # c \/ m # n => deliveries'[b][m] = deliveries[b][m]
<1> DEFINE now == [deliveries[c] EXCEPT ![n] = row]
<1>1. deliveries \in [Channel -> Seq(DeliveryRow)] /\ deliveries[c] \in Seq(DeliveryRow)
  BY DEF TypeOK
<1>2. /\ now \in Seq(DeliveryRow)
      /\ DOMAIN now = DOMAIN deliveries[c]
      /\ \A m \in DOMAIN deliveries[c] : now[m] = IF m = n THEN row ELSE deliveries[c][m]
  BY <1>1, ReplaceSeq
<1>3. deliveries' = [deliveries EXCEPT ![c] = now]
  OBVIOUS
<1> HIDE DEF now
<1> QED BY <1>1, <1>2, <1>3

\* A replaced row that keeps to the conditions of PointStep.
LEMMA PointStepFrom ==
    ASSUME TypeOK, NEW c \in Channel, NEW n \in DOMAIN deliveries[c],
           NEW row \in DeliveryRow,
           deliveries' = [deliveries EXCEPT ![c][n] = row],
           row.incident \in {deliveries[c][n].incident, NoIncident},
           row.incident # NoIncident => row.event = deliveries[c][n].event,
           row.status = "in_progress" =>
              /\ row.incident = deliveries[c][n].incident
              /\ row.attempts = deliveries[c][n].attempts
              /\ deliveries[c][n].status = "in_progress" \/ Claimable(c, n),
           row.status = "pending" =>
              \/ row.attempts = deliveries[c][n].attempts
                 /\ deliveries[c][n].status = "pending"
              \/ row.attempts =< RetryLimit
    PROVE  PointStep(c, n)
<1>1. /\ deliveries' \in [Channel -> Seq(DeliveryRow)]
      /\ \A b \in Channel : DOMAIN deliveries'[b] = DOMAIN deliveries[b]
      /\ deliveries'[c][n] = row
      /\ \A b \in Channel : \A m \in DOMAIN deliveries[b] :
            b # c \/ m # n => deliveries'[b][m] = deliveries[b][m]
  BY PointUpdate
<1> QED BY <1>1 DEF PointStep

\* The actions of the worker, of manual retry and of retention on one row.
RowAction(c, n) ==
    \/ BecomeDue(c, n)
    \/ ClaimRow(c, n)
    \/ \E o \in Outcome : Settle(c, n, o)
    \/ ClaimError(c, n)
    \/ Retry(c, n)
    \/ CleanupDelivery(c, n)

\* finish leaves a row pending only within the budget.
LEMMA FinishedRowFacts ==
    ASSUME NEW row \in DeliveryRow, NEW o \in Outcome
    PROVE  /\ FinishedRow(row, o) \in DeliveryRow
           /\ FinishedRow(row, o).incident = row.incident
           /\ FinishedRow(row, o).event = row.event
           /\ FinishedRow(row, o).status # "in_progress"
           /\ FinishedRow(row, o).status = "pending" =>
                 FinishedRow(row, o).attempts =< RetryLimit
<1>1. row.attempts + 1 \in Nat
  BY DEF DeliveryRow
<1> DEFINE st == IF o = "success" THEN "succeeded"
                 ELSE IF retryDelay(row.attempts + 1, o) THEN "pending"
                 ELSE "permanent_failure"
<1>2. FinishedRow(row, o) = [row EXCEPT !.attempts = row.attempts + 1, !.due = FALSE,
                                        !.status = st]
  BY DEF FinishedRow
<1>3. /\ st \in {"pending", "succeeded", "permanent_failure"}
      /\ st = "pending" => row.attempts + 1 =< RetryLimit
  BY DEF retryDelay
<1> HIDE DEF st
<1>4. FinishedRow(row, o) \in DeliveryRow
  BY <1>1, <1>2, <1>3 DEF DeliveryRow, Completed
<1> QED BY <1>1, <1>2, <1>3, <1>4 DEF DeliveryRow

\* Each of those actions rewrites its row and nothing else.
LEMMA RowActionEffect ==
    ASSUME TypeOK, NEW c \in Channel, NEW n \in DOMAIN deliveries[c], RowAction(c, n)
    PROVE  PointStep(c, n) /\ UNCHANGED <<alerts, incidents, channels>>
<1> DEFINE d == deliveries[c][n]
<1>1. d \in DeliveryRow
  BY DEF TypeOK
<1>2. CASE BecomeDue(c, n)
  <2> DEFINE row == [d EXCEPT !.due = TRUE]
  <2>1. row \in DeliveryRow /\ row.incident = d.incident /\ row.event = d.event
        /\ row.status = d.status /\ row.attempts = d.attempts
    BY <1>1 DEF DeliveryRow
  <2>2. deliveries' = [deliveries EXCEPT ![c][n] = row]
    BY <1>2 DEF BecomeDue
  <2>3. d.status = "pending"
    BY <1>2 DEF BecomeDue
  <2> HIDE DEF row
  <2>9. PointStep(c, n)
    BY <2>1, <2>2, <2>3, PointStepFrom
  <2> QED BY <1>2, <2>9 DEF BecomeDue
<1>3. CASE ClaimRow(c, n)
  <2> DEFINE row == [d EXCEPT !.status = "in_progress"]
  <2>1. row \in DeliveryRow /\ row.incident = d.incident /\ row.event = d.event
        /\ row.status = "in_progress" /\ row.attempts = d.attempts
    BY <1>1 DEF DeliveryRow
  <2>2. deliveries' = [deliveries EXCEPT ![c][n] = row]
    BY <1>3 DEF ClaimRow
  <2>3. Claimable(c, n)
    BY <1>3 DEF ClaimRow
  <2> HIDE DEF row
  <2>9. PointStep(c, n)
    BY <2>1, <2>2, <2>3, PointStepFrom
  <2> QED BY <1>3, <2>9 DEF ClaimRow
<1>4. ASSUME NEW o \in Outcome, FinishRow(c, n, o)
      PROVE  PointStep(c, n) /\ UNCHANGED <<alerts, incidents, channels>>
  <2> DEFINE row == FinishedRow(d, o)
  <2>1. deliveries' = [deliveries EXCEPT ![c][n] = row]
    BY <1>4 DEF FinishRow
  <2> HIDE DEF d
  <2>2. /\ row \in DeliveryRow /\ row.incident = d.incident /\ row.event = d.event
        /\ row.status # "in_progress"
        /\ row.status = "pending" => row.attempts =< RetryLimit
    BY <1>1, FinishedRowFacts
  <2> HIDE DEF row
  <2>3. row.incident = deliveries[c][n].incident /\ row.event = deliveries[c][n].event
    BY <2>2 DEF d
  <2>9. PointStep(c, n)
    BY <2>1, <2>2, <2>3, PointStepFrom
  <2> QED BY <1>4, <2>9 DEF FinishRow
<1>5. CASE \E o \in Outcome : Settle(c, n, o)
  BY <1>4, <1>5 DEF Settle
<1>6. CASE ClaimError(c, n)
  BY <1>4, <1>6 DEF ClaimError, Outcome
<1>7. CASE Retry(c, n)
  <2> DEFINE row == [d EXCEPT !.status = "pending", !.attempts = 0, !.due = TRUE]
  <2>1. row \in DeliveryRow /\ row.incident = d.incident /\ row.event = d.event
        /\ row.status = "pending" /\ row.attempts = 0
    BY <1>1 DEF DeliveryRow
  <2>2. deliveries' = [deliveries EXCEPT ![c][n] = row]
    BY <1>7 DEF Retry
  <2> HIDE DEF row
  <2>3. row.attempts =< RetryLimit
    BY <2>1, BoundsAssumption
  <2>9. PointStep(c, n)
    BY <2>1, <2>2, <2>3, PointStepFrom
  <2> QED BY <1>7, <2>9 DEF Retry
<1>8. CASE CleanupDelivery(c, n)
  <2> DEFINE row == [NewRow(NoIncident, "test") EXCEPT !.status = "deleted"]
  <2>1. row \in DeliveryRow /\ row.incident = NoIncident /\ row.status = "deleted"
    BY DEF NewRow, DeliveryRow, Lifecycle
  <2>2. deliveries' = [deliveries EXCEPT ![c][n] = row]
    BY <1>8 DEF CleanupDelivery
  <2> HIDE DEF row
  <2>9. PointStep(c, n)
    BY <2>1, <2>2, PointStepFrom
  <2> QED BY <1>8, <2>9 DEF CleanupDelivery
<1> QED BY <1>2, <1>3, <1>5, <1>6, <1>7, <1>8 DEF RowAction

\* Pending rows of one channel are withdrawn.
LEMMA CancelPendingEffect ==
    ASSUME TypeOK, NEW c \in Channel, deliveries' = CancelPending(c),
           NEW i, NEW event
    PROVE  GrowStep(i, event)
<1> DEFINE N == {n \in DOMAIN deliveries[c] : deliveries[c][n].status = "pending"}
<1>1. deliveries \in [Channel -> Seq(DeliveryRow)]
  BY DEF TypeOK
<1>2. deliveries' = [deliveries EXCEPT ![c] = CancelRows(deliveries[c], N)]
  BY DEF CancelPending
<1>6. \A n \in N : deliveries[c][n].status = "pending"
  OBVIOUS
<1> HIDE DEF N
<1>3. Grown(deliveries[c], CancelRows(deliveries[c], N), i, event)
  BY <1>1, <1>6, CancelGrows
<1>4. \A b \in Channel : Grown(deliveries[b], deliveries'[b], i, event)
  BY <1>1, <1>2, <1>3, GrownSame
<1>5. CancelRows(deliveries[c], N) \in Seq(DeliveryRow)
  BY <1>3 DEF Grown
<1> QED BY <1>1, <1>2, <1>4, <1>5 DEF GrowStep

\* A test row is appended to one channel.
LEMMA TestEffect ==
    ASSUME TypeOK, NEW c \in Channel, Test(c)
    PROVE  GrowStep(NoIncident, "test")
<1> DEFINE row == NewRow(NoIncident, "test")
<1>1. deliveries \in [Channel -> Seq(DeliveryRow)]
  BY DEF TypeOK
<1>2. row \in DeliveryRow
  BY NewRowType DEF Reference, Event
<1>3. deliveries' = [deliveries EXCEPT ![c] = Append(deliveries[c], row)]
  BY DEF Test
<1> HIDE DEF row
<1>4. Append(deliveries[c], row) \in Seq(DeliveryRow)
  BY <1>1, <1>2, AppendSeq
<1>5. Grown(deliveries[c], Append(deliveries[c], row), NoIncident, "test")
  BY <1>1, <1>2, AppendSeq DEF Grown, SameRow, row
<1>6. \A b \in Channel : Grown(deliveries[b], deliveries'[b], NoIncident, "test")
  BY <1>1, <1>3, <1>5, GrownSame
<1> QED BY <1>1, <1>3, <1>4, <1>6 DEF GrowStep

\* Recover rewrites rows in place, and leaves none in progress.
LEMMA RecoverEffect ==
    ASSUME TypeOK, Recover
    PROVE  /\ BulkStep
           /\ \A c \in Channel : \A n \in DOMAIN deliveries[c] :
                 deliveries'[c][n].status = IF deliveries[c][n].status = "in_progress" THEN "pending"
                                            ELSE deliveries[c][n].status
<1> DEFINE now(c) == [n \in DOMAIN deliveries[c] |->
                        IF deliveries[c][n].status = "in_progress"
                        THEN [deliveries[c][n] EXCEPT !.status = "pending", !.due = TRUE]
                        ELSE deliveries[c][n]]
<1>1. deliveries' = [c \in Channel |-> now(c)]
  BY DEF Recover
<1>2. ASSUME NEW c \in Channel
      PROVE  /\ now(c) \in Seq(DeliveryRow)
             /\ DOMAIN now(c) = DOMAIN deliveries[c]
             /\ \A n \in DOMAIN deliveries[c] :
                   LET d == deliveries[c][n] e == now(c)[n] IN
                   /\ e.incident = d.incident /\ e.event = d.event
                   /\ e.attempts = d.attempts
                   /\ e.status = IF d.status = "in_progress" THEN "pending" ELSE d.status
  <2>1. deliveries[c] \in Seq(DeliveryRow)
    BY <1>2 DEF TypeOK
  <2>2. ASSUME NEW n \in DOMAIN deliveries[c]
        PROVE  LET d == deliveries[c][n] e == now(c)[n] IN
               /\ e \in DeliveryRow
               /\ e.incident = d.incident /\ e.event = d.event
               /\ e.attempts = d.attempts
               /\ e.status = IF d.status = "in_progress" THEN "pending" ELSE d.status
    <3>1. deliveries[c][n] \in DeliveryRow
      BY <2>1, <2>2
    <3>2. \/ deliveries[c][n].status # "in_progress" /\ now(c)[n] = deliveries[c][n]
          \/ /\ deliveries[c][n].status = "in_progress"
             /\ now(c)[n] = [deliveries[c][n] EXCEPT !.status = "pending", !.due = TRUE]
      OBVIOUS
    <3> HIDE DEF now
    <3> QED BY <3>1, <3>2 DEF DeliveryRow
  <2>3. now(c) \in [DOMAIN deliveries[c] -> DeliveryRow]
    BY <2>2
  <2> HIDE DEF now
  <2> QED BY <2>1, <2>2, <2>3, RewriteSeq
<1> HIDE DEF now
<1> QED BY <1>1, <1>2 DEF BulkStep

\* So does the removal of an incident.
LEMMA CleanupIncidentEffect ==
    ASSUME TypeOK, NEW g \in Group, NEW k, CleanupIncident(g, k)
    PROVE  /\ BulkStep
           /\ \A c \in Channel : \A n \in DOMAIN deliveries[c] :
                 /\ deliveries'[c][n].status = deliveries[c][n].status
                 /\ deliveries'[c][n].incident =
                       IF deliveries[c][n].incident = <<g, k>> THEN NoIncident
                       ELSE deliveries[c][n].incident
<1> DEFINE now(c) == [n \in DOMAIN deliveries[c] |->
                        IF deliveries[c][n].incident = <<g, k>>
                        THEN [deliveries[c][n] EXCEPT !.incident = NoIncident]
                        ELSE deliveries[c][n]]
<1>1. deliveries' = [c \in Channel |-> now(c)]
  BY DEF CleanupIncident
<1>2. ASSUME NEW c \in Channel
      PROVE  /\ now(c) \in Seq(DeliveryRow)
             /\ DOMAIN now(c) = DOMAIN deliveries[c]
             /\ \A n \in DOMAIN deliveries[c] :
                   LET d == deliveries[c][n] e == now(c)[n] IN
                   /\ e.incident = IF d.incident = <<g, k>> THEN NoIncident ELSE d.incident
                   /\ e.event = d.event /\ e.attempts = d.attempts /\ e.status = d.status
  <2>1. deliveries[c] \in Seq(DeliveryRow)
    BY <1>2 DEF TypeOK
  <2>2. ASSUME NEW n \in DOMAIN deliveries[c]
        PROVE  LET d == deliveries[c][n] e == now(c)[n] IN
               /\ e \in DeliveryRow
               /\ e.incident = IF d.incident = <<g, k>> THEN NoIncident ELSE d.incident
               /\ e.event = d.event /\ e.attempts = d.attempts /\ e.status = d.status
    <3>1. deliveries[c][n] \in DeliveryRow
      BY <2>1, <2>2
    <3>2. now(c)[n] = IF deliveries[c][n].incident = <<g, k>>
                      THEN [deliveries[c][n] EXCEPT !.incident = NoIncident]
                      ELSE deliveries[c][n]
      OBVIOUS
    <3> HIDE DEF now
    <3> QED BY <3>1, <3>2 DEF DeliveryRow
  <2>3. now(c) \in [DOMAIN deliveries[c] -> DeliveryRow]
    BY <2>2
  <2> HIDE DEF now
  <2> QED BY <2>1, <2>2, <2>3, RewriteSeq
<1> HIDE DEF now
<1> QED BY <1>1, <1>2 DEF BulkStep

-----------------------------------------------------------------------------
(* What a step does to alerts and incidents. *)

\* The types behind TypeOK.
LEMMA AlertTypes ==
    ASSUME TypeOK, NEW a \in DOMAIN alerts
    PROVE  /\ alerts[a] \in AlertRow
           /\ alerts[a].key \in Key /\ alerts[a].incident \in Nat
           /\ groupFor(alerts[a].key) \in Group
<1>1. alerts[a] \in AlertRow
  BY DEF TypeOK
<1>2. alerts[a].key \in Key /\ alerts[a].incident \in Nat
  BY <1>1 DEF AlertRow
<1> QED BY <1>1, <1>2 DEF Group

\* The open incident a query returns is one of the open incidents.
LEMMA OpenIncidentFacts ==
    ASSUME TypeOK, NEW g \in Group, OpenIn(g) # {}
    PROVE  /\ OpenIncident(g) \in OpenIn(g)
           /\ OpenIncident(g) \in DOMAIN incidents[g]
           /\ OpenIncident(g) \in Nat /\ OpenIncident(g) # 0
           /\ incidents[g][OpenIncident(g)] \in IncidentRow
           /\ incidents[g][OpenIncident(g)].status = "open"
<1>1. OpenIncident(g) \in OpenIn(g)
  BY DEF OpenIncident
<1>2. incidents[g] \in Seq(IncidentRow)
  BY DEF TypeOK
<1> QED BY <1>1, <1>2 DEF OpenIn

\* Joining updates the open incident or appends a new one.
LEMMA JoinFacts ==
    ASSUME TypeOK, NEW g \in Group, NEW s \in Severity
    PROVE  LET now == JoinIncident(g, s) n == JoinedIncident(g) IN
           /\ now \in Seq(IncidentRow)
           /\ n \in Nat /\ n # 0
           /\ DOMAIN now = DOMAIN incidents[g] \cup {n}
           /\ now[n].status = "open"
           /\ \A m \in DOMAIN incidents[g] : m # n => now[m] = incidents[g][m]
           /\ OpenIn(g) = {} => n \notin DOMAIN incidents[g] /\ now[n].severity = s
           /\ OpenIn(g) # {} =>
                 /\ n \in OpenIn(g) /\ n \in DOMAIN incidents[g]
                 /\ now[n].severity = IF s = "critical" THEN s ELSE incidents[g][n].severity
<1> DEFINE rows == incidents[g]
           n == JoinedIncident(g)
<1>1. rows \in Seq(IncidentRow)
  BY DEF TypeOK
<1>2. CASE OpenIn(g) = {}
  <2> DEFINE row == [status |-> "open", severity |-> s]
  <2>1. JoinIncident(g, s) = Append(rows, row) /\ n = Len(rows) + 1
    BY <1>2 DEF JoinIncident, JoinedIncident
  <2>2. row \in IncidentRow /\ row.status = "open" /\ row.severity = s
    BY DEF IncidentRow
  <2>3. Len(rows) \in Nat
    BY <1>1
  <2> HIDE DEF row, rows, n
  <2>4. /\ Append(rows, row) \in Seq(IncidentRow)
        /\ DOMAIN Append(rows, row) = DOMAIN rows \cup {Len(rows) + 1}
        /\ \A m \in DOMAIN rows : Append(rows, row)[m] = rows[m]
        /\ Append(rows, row)[Len(rows) + 1] = row
        /\ Len(rows) + 1 \notin DOMAIN rows
    BY <1>1, <2>2, AppendSeq
  <2>5. n \in Nat /\ n # 0
    BY <2>1, <2>3
  <2> QED BY <1>2, <2>1, <2>2, <2>4, <2>5 DEF rows, n
<1>3. CASE OpenIn(g) # {}
  <2> DEFINE row == [rows[n] EXCEPT !.severity = IF s = "critical" THEN s ELSE rows[n].severity]
  <2>1. n = OpenIncident(g)
    BY <1>3 DEF JoinedIncident
  <2>2. JoinIncident(g, s) = [rows EXCEPT ![n] = row]
    BY <1>3, <2>1 DEF JoinIncident
  <2>3. /\ n \in OpenIn(g) /\ n \in DOMAIN rows /\ n \in Nat /\ n # 0
        /\ rows[n] \in IncidentRow /\ rows[n].status = "open"
    BY <1>3, <2>1, OpenIncidentFacts
  <2>4. /\ row \in IncidentRow /\ row.status = "open"
        /\ row.severity = IF s = "critical" THEN s ELSE rows[n].severity
    BY <2>3 DEF IncidentRow
  <2> HIDE DEF row, rows, n
  <2>5. /\ [rows EXCEPT ![n] = row] \in Seq(IncidentRow)
        /\ DOMAIN [rows EXCEPT ![n] = row] = DOMAIN rows
        /\ \A m \in DOMAIN rows : [rows EXCEPT ![n] = row][m] = IF m = n THEN row ELSE rows[m]
    BY <1>1, <2>4, ReplaceSeq
  <2> QED BY <1>3, <2>2, <2>3, <2>4, <2>5 DEF rows, n
<1> QED BY <1>2, <1>3

\* An alert fires: one alert row, one joined incident, rows in the outbox.
LEMMA FiredEffect ==
    ASSUME TypeOK, NEW k \in Key, NEW s \in Severity, AlertFiredTx(k, s)
    PROVE  LET g == groupFor(k) n == JoinedIncident(g) a == Len(alerts) + 1 IN
           /\ g \in Group
           /\ alerts' \in Seq(AlertRow)
           /\ a \notin DOMAIN alerts /\ DOMAIN alerts' = DOMAIN alerts \cup {a}
           /\ \A b \in DOMAIN alerts : alerts'[b] = alerts[b]
           /\ alerts'[a].key = k /\ alerts'[a].severity = s
           /\ alerts'[a].status = "firing" /\ alerts'[a].incident = n
           /\ incidents' \in [Group -> Seq(IncidentRow)]
           /\ incidents'[g] = JoinIncident(g, s)
           /\ \A h \in Group : h # g => incidents'[h] = incidents[h]
           /\ UNCHANGED channels
           /\ GrowStep(<<g, n>>, "opened") \/ GrowStep(<<g, n>>, "updated")
<1> DEFINE g == groupFor(k)
           n == JoinedIncident(g)
           a == Len(alerts) + 1
           row == [key |-> k, severity |-> s, status |-> "firing", incident |-> n]
           joined == JoinIncident(g, s)
           event == IF OpenIn(g) = {} THEN "opened" ELSE "updated"
<1>1. g \in Group
  BY DEF Group
<1>2. /\ alerts' = Append(alerts, row)
      /\ incidents' = [incidents EXCEPT ![g] = joined]
      /\ deliveries' = enqueueIncidentTx(<<g, n>>, event, joined[n].severity)
      /\ UNCHANGED channels
  BY DEF AlertFiredTx
<1>3. n \in Nat /\ n # 0 /\ joined \in Seq(IncidentRow)
  <2> HIDE DEF g
  <2> QED BY <1>1, JoinFacts
<1>4. alerts \in Seq(AlertRow) /\ incidents \in [Group -> Seq(IncidentRow)]
  BY DEF TypeOK
<1>5. row \in AlertRow /\ row.key = k /\ row.severity = s /\ row.status = "firing" /\ row.incident = n
  <2> HIDE DEF n
  <2> QED BY <1>3 DEF AlertRow
<1>6. event \in Event /\ event \in {"opened", "updated"} /\ <<g, n>> \in Reference
  <2> HIDE DEF g, n
  <2> QED BY <1>1, <1>3 DEF Event, Reference, IncidentId
<1> HIDE DEF g, n, row, joined, event
<1>7. /\ alerts' \in Seq(AlertRow)
      /\ a \notin DOMAIN alerts /\ DOMAIN alerts' = DOMAIN alerts \cup {a}
      /\ \A b \in DOMAIN alerts : alerts'[b] = alerts[b]
      /\ alerts'[a] = row
  BY <1>2, <1>4, <1>5, AppendSeq
<1>8. GrowStep(<<g, n>>, event)
  <2>1. /\ DOMAIN deliveries' = Channel
        /\ \A c \in Channel : Grown(deliveries[c], deliveries'[c], <<g, n>>, event)
    BY <1>2, <1>6, EnqueueIncidentGrows
  <2>2. deliveries' = [c \in Channel |-> deliveries'[c]]
    BY <1>2 DEF enqueueIncidentTx
  <2> QED BY <2>1, <2>2 DEF GrowStep, Grown
<1>9. /\ incidents' \in [Group -> Seq(IncidentRow)]
      /\ incidents'[g] = joined
      /\ \A h \in Group : h # g => incidents'[h] = incidents[h]
  BY <1>1, <1>2, <1>3, <1>4
<1> HIDE DEF a
<1>10. GrowStep(<<g, n>>, "opened") \/ GrowStep(<<g, n>>, "updated")
  BY <1>6, <1>8
<1> QED BY <1>1, <1>2, <1>5, <1>7, <1>9, <1>10 DEF g, n, a, joined

\* An alert resolves: its row, its incident's row, and, when it was the last,
\* the outbox.
LEMMA ResolvedEffect ==
    ASSUME TypeOK, NEW a \in DOMAIN alerts, AlertResolvedTx(a)
    PROVE  LET g == groupFor(alerts[a].key)
               n == alerts[a].incident
               left == FiringIn(g, n) \ {a}
           IN
           /\ alerts' \in Seq(AlertRow)
           /\ DOMAIN alerts' = DOMAIN alerts
           /\ alerts'[a] = [alerts[a] EXCEPT !.status = "resolved"]
           /\ \A b \in DOMAIN alerts : b # a => alerts'[b] = alerts[b]
           /\ incidents' \in [Group -> Seq(IncidentRow)]
           /\ \A h \in Group : DOMAIN incidents'[h] = DOMAIN incidents[h]
           /\ \A h \in Group : \A m \in DOMAIN incidents[h] :
                 incidents'[h][m] =
                    IF h # g \/ m # n THEN incidents[h][m]
                    ELSE IF left # {}
                         THEN [incidents[h][m] EXCEPT !.severity = SeverityOf(left)]
                         ELSE [incidents[h][m] EXCEPT !.status = "resolved"]
           /\ UNCHANGED channels
           /\ \/ UNCHANGED deliveries
              \/ n # 0 /\ left = {} /\ GrowStep(<<g, n>>, "resolved")
<1> DEFINE g == groupFor(alerts[a].key)
           n == alerts[a].incident
           left == FiringIn(g, n) \ {a}
           arow == [alerts[a] EXCEPT !.status = "resolved"]
           irow == IF left # {} THEN [incidents[g][n] EXCEPT !.severity = SeverityOf(left)]
                   ELSE [incidents[g][n] EXCEPT !.status = "resolved"]
<1>1. /\ alerts[a] \in AlertRow /\ n \in Nat /\ g \in Group
      /\ alerts \in Seq(AlertRow) /\ incidents \in [Group -> Seq(IncidentRow)]
      /\ incidents[g] \in Seq(IncidentRow)
  BY AlertTypes DEF TypeOK
<1>2. alerts' = [alerts EXCEPT ![a] = arow] /\ UNCHANGED channels
  BY DEF AlertResolvedTx
<1>3. arow \in AlertRow
  BY <1>1 DEF AlertRow
<1>4. \/ n = 0 /\ UNCHANGED <<incidents, deliveries>>
      \/ n # 0 /\ left # {} /\ UNCHANGED deliveries
         /\ incidents' = [incidents EXCEPT ![g] = [incidents[g] EXCEPT ![n] = irow]]
      \/ n # 0 /\ left = {} /\ deliveries' = enqueueResolutionTx(<<g, n>>)
         /\ incidents' = [incidents EXCEPT ![g] = [incidents[g] EXCEPT ![n] = irow]]
  BY DEF AlertResolvedTx
<1>5. ASSUME n \in DOMAIN incidents[g]
      PROVE  irow \in IncidentRow
  <2>1. incidents[g][n] \in IncidentRow
    BY <1>1, <1>5
  <2>2. SeverityOf(left) \in Severity
    BY DEF SeverityOf, Severity
  <2> HIDE DEF g, n, left
  <2> QED BY <2>1, <2>2 DEF IncidentRow
<1>6. irow = IF left # {} THEN [incidents[g][n] EXCEPT !.severity = SeverityOf(left)]
             ELSE [incidents[g][n] EXCEPT !.status = "resolved"]
  OBVIOUS
<1> HIDE DEF g, n, left, arow, irow
<1>7. /\ alerts' \in Seq(AlertRow)
      /\ DOMAIN alerts' = DOMAIN alerts
      /\ alerts'[a] = arow
      /\ \A b \in DOMAIN alerts : b # a => alerts'[b] = alerts[b]
  BY <1>1, <1>2, <1>3, ReplaceSeq
<1>8. CASE n = 0 /\ UNCHANGED <<incidents, deliveries>>
  <2>1. n \notin DOMAIN incidents[g]
    BY <1>1, <1>8
  <2>2. \A h \in Group : \A m \in DOMAIN incidents[h] : h # g \/ m # n
    BY <2>1
  <2> QED BY <1>1, <1>2, <1>7, <1>8, <2>2 DEF g, n, left, arow
<1>9. CASE n # 0 /\ incidents' = [incidents EXCEPT ![g] = [incidents[g] EXCEPT ![n] = irow]]
  <2> DEFINE now == [incidents[g] EXCEPT ![n] = irow]
  <2>1. /\ now \in Seq(IncidentRow) /\ DOMAIN now = DOMAIN incidents[g]
        /\ \A m \in DOMAIN incidents[g] : now[m] = IF m = n THEN irow ELSE incidents[g][m]
    BY <1>1, <1>5, ReplaceSeq
  <2>2. incidents' = [incidents EXCEPT ![g] = now]
    BY <1>9
  <2> HIDE DEF now
  <2>3. /\ incidents' \in [Group -> Seq(IncidentRow)]
        /\ incidents'[g] = now
        /\ \A h \in Group : h # g => incidents'[h] = incidents[h]
    BY <1>1, <2>1, <2>2
  <2>4. \A h \in Group : DOMAIN incidents'[h] = DOMAIN incidents[h]
    BY <2>1, <2>3
  <2>5. \A h \in Group : \A m \in DOMAIN incidents[h] :
           incidents'[h][m] = IF h # g \/ m # n THEN incidents[h][m] ELSE irow
    BY <2>1, <2>3
  <2>6. \/ UNCHANGED deliveries
        \/ n # 0 /\ left = {} /\ GrowStep(<<g, n>>, "resolved")
    <3>1. CASE n # 0 /\ left = {} /\ deliveries' = enqueueResolutionTx(<<g, n>>)
      <4>1. <<g, n>> \in Reference
        BY <1>1 DEF Reference, IncidentId
      <4>2. \A c \in Channel : Grown(deliveries[c], deliveries'[c], <<g, n>>, "resolved")
        BY <3>1, <4>1, EnqueueResolutionGrows
      <4>3. deliveries' = [c \in Channel |-> deliveries'[c]]
        BY <3>1 DEF enqueueResolutionTx
      <4> QED BY <3>1, <4>2, <4>3 DEF GrowStep, Grown
    <3> QED BY <1>4, <3>1
  <2>7. \A h \in Group : \A m \in DOMAIN incidents[h] :
           incidents'[h][m] =
              IF h # g \/ m # n THEN incidents[h][m]
              ELSE IF left # {} THEN [incidents[h][m] EXCEPT !.severity = SeverityOf(left)]
                   ELSE [incidents[h][m] EXCEPT !.status = "resolved"]
    BY <2>5, <1>6
  <2> QED BY <1>2, <1>7, <2>3, <2>4, <2>6, <2>7 DEF g, n, left, arow
<1> QED BY <1>4, <1>8, <1>9

\* Reconcile assigns the unassigned firing alerts of every group.
LEMMA ReconcileEffect ==
    ASSUME TypeOK, Reconcile
    PROVE  /\ alerts' \in Seq(AlertRow)
           /\ DOMAIN alerts' = DOMAIN alerts
           /\ \A a \in DOMAIN alerts :
                 LET g == groupFor(alerts[a].key) IN
                 /\ alerts'[a].key = alerts[a].key
                 /\ alerts'[a].severity = alerts[a].severity
                 /\ alerts'[a].status = alerts[a].status
                 /\ alerts'[a].incident = IF a \in Unassigned(g) THEN JoinedIncident(g)
                                          ELSE alerts[a].incident
           /\ incidents' \in [Group -> Seq(IncidentRow)]
           /\ \A g \in Group : incidents'[g] =
                 IF Unassigned(g) = {} THEN incidents[g]
                 ELSE JoinIncident(g, SeverityOf(Unassigned(g)))
<1>1. alerts \in Seq(AlertRow) /\ incidents \in [Group -> Seq(IncidentRow)]
  BY DEF TypeOK
<1>2. ASSUME NEW g \in Group
      PROVE  /\ JoinIncident(g, SeverityOf(Unassigned(g))) \in Seq(IncidentRow)
             /\ JoinedIncident(g) \in Nat
  <2>1. SeverityOf(Unassigned(g)) \in Severity
    BY DEF SeverityOf, Severity
  <2> QED BY <1>2, <2>1, JoinFacts
<1>3. incidents' = [g \in Group |-> IF Unassigned(g) = {} THEN incidents[g]
                                    ELSE JoinIncident(g, SeverityOf(Unassigned(g)))]
  BY DEF Reconcile
<1>4. /\ incidents' \in [Group -> Seq(IncidentRow)]
      /\ \A g \in Group : incidents'[g] =
            IF Unassigned(g) = {} THEN incidents[g]
            ELSE JoinIncident(g, SeverityOf(Unassigned(g)))
  BY <1>1, <1>2, <1>3
<1> DEFINE row(a) == LET g == groupFor(alerts[a].key) IN
                     IF a \in Unassigned(g)
                     THEN [alerts[a] EXCEPT !.incident = JoinedIncident(g)]
                     ELSE alerts[a]
<1>5. alerts' = [a \in DOMAIN alerts |-> row(a)]
  BY DEF Reconcile
<1>6. ASSUME NEW a \in DOMAIN alerts
      PROVE  LET g == groupFor(alerts[a].key) IN
             /\ row(a) \in AlertRow
             /\ row(a).key = alerts[a].key /\ row(a).severity = alerts[a].severity
             /\ row(a).status = alerts[a].status
             /\ row(a).incident = IF a \in Unassigned(g) THEN JoinedIncident(g)
                                  ELSE alerts[a].incident
  <2> DEFINE g == groupFor(alerts[a].key)
  <2>1. alerts[a] \in AlertRow /\ g \in Group
    BY <1>6, AlertTypes
  <2>2. JoinedIncident(g) \in Nat
    BY <1>2, <2>1
  <2> HIDE DEF g
  <2>3. row(a) = IF a \in Unassigned(g) THEN [alerts[a] EXCEPT !.incident = JoinedIncident(g)]
                 ELSE alerts[a]
    BY DEF g
  <2> HIDE DEF row
  <2>4. /\ row(a) \in AlertRow
        /\ row(a).key = alerts[a].key /\ row(a).severity = alerts[a].severity
        /\ row(a).status = alerts[a].status
        /\ row(a).incident = IF a \in Unassigned(g) THEN JoinedIncident(g)
                             ELSE alerts[a].incident
    BY <2>1, <2>2, <2>3 DEF AlertRow
  <2> QED BY <2>4 DEF g
<1> HIDE DEF row
<1>7. alerts' \in [DOMAIN alerts -> AlertRow]
  BY <1>5, <1>6
<1>8. alerts' \in Seq(AlertRow) /\ DOMAIN alerts' = DOMAIN alerts
  BY <1>1, <1>7, RewriteSeq
<1>9. \A a \in DOMAIN alerts : alerts'[a] = row(a)
  BY <1>5
<1> QED BY <1>4, <1>6, <1>8, <1>9

\* Cleanup of a resolved incident detaches its alerts.
LEMMA CleanupIncidentTables ==
    ASSUME TypeOK, NEW g \in Group, NEW k \in DOMAIN incidents[g], CleanupIncident(g, k)
    PROVE  /\ alerts' \in Seq(AlertRow)
           /\ DOMAIN alerts' = DOMAIN alerts
           /\ \A a \in DOMAIN alerts :
                 /\ alerts'[a].key = alerts[a].key
                 /\ alerts'[a].severity = alerts[a].severity
                 /\ alerts'[a].status = alerts[a].status
                 /\ alerts'[a].incident =
                       IF groupFor(alerts[a].key) = g /\ alerts[a].incident = k
                       THEN 0 ELSE alerts[a].incident
           /\ incidents' \in [Group -> Seq(IncidentRow)]
           /\ \A h \in Group : DOMAIN incidents'[h] = DOMAIN incidents[h]
           /\ \A h \in Group : \A m \in DOMAIN incidents[h] :
                 incidents'[h][m] = IF h = g /\ m = k
                                    THEN [incidents[h][m] EXCEPT !.status = "deleted"]
                                    ELSE incidents[h][m]
<1> DEFINE row(a) == IF groupFor(alerts[a].key) = g /\ alerts[a].incident = k
                     THEN [alerts[a] EXCEPT !.incident = 0] ELSE alerts[a]
           irow == [incidents[g][k] EXCEPT !.status = "deleted"]
           now == [incidents[g] EXCEPT ![k] = irow]
<1>1. /\ alerts \in Seq(AlertRow) /\ incidents \in [Group -> Seq(IncidentRow)]
      /\ incidents[g] \in Seq(IncidentRow) /\ incidents[g][k] \in IncidentRow
  BY DEF TypeOK
<1>2. alerts' = [a \in DOMAIN alerts |-> row(a)] /\ incidents' = [incidents EXCEPT ![g] = now]
  BY DEF CleanupIncident
<1>3. irow \in IncidentRow
  BY <1>1 DEF IncidentRow
<1>4. /\ now \in Seq(IncidentRow) /\ DOMAIN now = DOMAIN incidents[g]
      /\ \A m \in DOMAIN incidents[g] : now[m] = IF m = k THEN irow ELSE incidents[g][m]
  BY <1>1, <1>3, ReplaceSeq
<1>5. ASSUME NEW a \in DOMAIN alerts
      PROVE  /\ row(a) \in AlertRow
             /\ row(a).key = alerts[a].key /\ row(a).severity = alerts[a].severity
             /\ row(a).status = alerts[a].status
             /\ row(a).incident = IF groupFor(alerts[a].key) = g /\ alerts[a].incident = k
                                  THEN 0 ELSE alerts[a].incident
  <2>1. alerts[a] \in AlertRow
    BY <1>5, AlertTypes
  <2> QED BY <2>1 DEF AlertRow
<1> HIDE DEF row, now
<1>6. alerts' \in [DOMAIN alerts -> AlertRow] /\ \A a \in DOMAIN alerts : alerts'[a] = row(a)
  BY <1>2, <1>5
<1>7. alerts' \in Seq(AlertRow) /\ DOMAIN alerts' = DOMAIN alerts
  BY <1>1, <1>6, RewriteSeq
<1>8. /\ incidents' \in [Group -> Seq(IncidentRow)]
      /\ incidents'[g] = now /\ \A h \in Group : h # g => incidents'[h] = incidents[h]
  BY <1>1, <1>2, <1>4
<1> QED BY <1>4, <1>5, <1>6, <1>7, <1>8

\* Cleanup of a resolved alert.
LEMMA CleanupAlertEffect ==
    ASSUME TypeOK, NEW a \in DOMAIN alerts, CleanupAlert(a)
    PROVE  /\ alerts' \in Seq(AlertRow)
           /\ DOMAIN alerts' = DOMAIN alerts
           /\ alerts[a].status = "resolved"
           /\ alerts'[a].status = "deleted" /\ alerts'[a].key = alerts[a].key
           /\ \A b \in DOMAIN alerts : b # a => alerts'[b] = alerts[b]
           /\ UNCHANGED <<incidents, channels, deliveries>>
<1> DEFINE row == [alerts[a] EXCEPT !.status = "deleted", !.incident = 0]
<1>1. alerts \in Seq(AlertRow) /\ alerts[a] \in AlertRow
  BY DEF TypeOK
<1>2. alerts' = [alerts EXCEPT ![a] = row]
  BY <1>1 DEF CleanupAlert, AlertRow
<1>3. row \in AlertRow /\ row.status = "deleted" /\ row.key = alerts[a].key
  BY <1>1 DEF AlertRow
<1> HIDE DEF row
<1>4. /\ alerts' \in Seq(AlertRow) /\ DOMAIN alerts' = DOMAIN alerts
      /\ \A b \in DOMAIN alerts : alerts'[b] = IF b = a THEN row ELSE alerts[b]
  BY <1>1, <1>2, <1>3, ReplaceSeq
<1> QED BY <1>3, <1>4 DEF CleanupAlert

-----------------------------------------------------------------------------
(* Type correctness. *)

\* Channel settings.
LEMMA ConfiguredType ==
    ASSUME NEW f \in ChannelConfig
    PROVE  Configured(f) \in ChannelRow
<1>1. f \in [enabled : BOOLEAN, minimum : Severity, notifyResolved : BOOLEAN]
  BY ChannelConfigAssumption
<1> QED BY <1>1 DEF Configured, ChannelRow

\* The steps of Next, sorted by what they do to the delivery tables.
LEMMA NextCases ==
    ASSUME Next
    PROVE  \/ \E k \in Key, s \in Severity : Fire(k, s)
           \/ \E a \in DOMAIN alerts : Resolve(a)
           \/ \E g \in Group : ScheduleReminders(g)
           \/ \E c \in Channel : \E n \in DOMAIN deliveries[c] : RowAction(c, n)
           \/ \E g \in Group : \E n \in DOMAIN incidents[g] : CleanupIncident(g, n)
           \/ \E a \in DOMAIN alerts : CleanupAlert(a)
           \/ \E c \in Channel, f \in ChannelConfig : CreateChannel(c, f) \/ PatchChannel(c, f)
           \/ \E c \in Channel : DeleteChannel(c) \/ Test(c)
           \/ Recover
BY Zenon DEF Next, AlertStep, MaintenanceStep, AdminStep, DeliveryStep, RowAction

\* Every reminder is a delivery about an open incident.
LEMMA RemindersEffect ==
    ASSUME TypeOK, NEW g \in Group, ScheduleReminders(g)
    PROVE  /\ GrowStep(<<g, OpenIncident(g)>>, "reminder")
           /\ OpenIncident(g) \in OpenIn(g)
           /\ UNCHANGED <<alerts, incidents, channels>>
<1> DEFINE n == OpenIncident(g)
<1>1. n \in OpenIn(g) /\ n \in Nat
  BY OpenIncidentFacts DEF ScheduleReminders
<1>2. deliveries' = enqueueIncidentTx(<<g, n>>, "reminder", incidents[g][n].severity)
  BY DEF ScheduleReminders
<1> HIDE DEF n
<1>3. <<g, n>> \in Reference /\ "reminder" \in Event
  BY <1>1 DEF Reference, IncidentId, Event
<1>4. \A c \in Channel : Grown(deliveries[c], deliveries'[c], <<g, n>>, "reminder")
  BY <1>2, <1>3, EnqueueIncidentGrows
<1>5. deliveries' = [c \in Channel |-> deliveries'[c]]
  BY <1>2 DEF enqueueIncidentTx
<1>6. GrowStep(<<g, n>>, "reminder")
  BY <1>4, <1>5 DEF GrowStep, Grown
<1> QED BY <1>1, <1>6 DEF n, ScheduleReminders

\* TypeOK is preserved by every step.
LEMMA TypeStep ==
    ASSUME TypeOK, Next
    PROVE  TypeOK'
<1>1. ASSUME NEW k \in Key, NEW s \in Severity, Fire(k, s) PROVE TypeOK'
  <2>1. AlertFiredTx(k, s)
    BY <1>1 DEF Fire
  <2> QED BY <2>1, FiredEffect DEF TypeOK, GrowStep
<1>2. ASSUME NEW a \in DOMAIN alerts, Resolve(a) PROVE TypeOK'
  <2>1. AlertResolvedTx(a)
    BY <1>2 DEF Resolve
  <2> QED BY <2>1, ResolvedEffect DEF TypeOK, GrowStep
<1>3. ASSUME NEW g \in Group, ScheduleReminders(g) PROVE TypeOK'
  BY <1>3, RemindersEffect DEF TypeOK, GrowStep
<1>4. ASSUME NEW c \in Channel, NEW n \in DOMAIN deliveries[c], RowAction(c, n) PROVE TypeOK'
  BY <1>4, RowActionEffect DEF TypeOK, PointStep
<1>5. ASSUME NEW g \in Group, NEW n \in DOMAIN incidents[g], CleanupIncident(g, n) PROVE TypeOK'
  <2>1. BulkStep
    BY <1>5, CleanupIncidentEffect
  <2>2. UNCHANGED channels
    BY <1>5 DEF CleanupIncident
  <2> QED BY <1>5, <2>1, <2>2, CleanupIncidentTables DEF TypeOK, BulkStep
<1>6. ASSUME NEW a \in DOMAIN alerts, CleanupAlert(a) PROVE TypeOK'
  BY <1>6, CleanupAlertEffect DEF TypeOK
<1>7. ASSUME NEW c \in Channel, NEW f \in ChannelConfig, CreateChannel(c, f) PROVE TypeOK'
  BY <1>7, ConfiguredType DEF TypeOK, CreateChannel
<1>8. ASSUME NEW c \in Channel, NEW f \in ChannelConfig, PatchChannel(c, f) PROVE TypeOK'
  <2>1. channels' \in [Channel -> ChannelRow]
    BY <1>8, ConfiguredType DEF TypeOK, PatchChannel
  <2>2. deliveries' = deliveries \/ deliveries' = CancelPending(c)
    BY <1>8 DEF PatchChannel
  <2>3. deliveries' \in [Channel -> Seq(DeliveryRow)]
    BY <2>2, CancelPendingEffect DEF TypeOK, GrowStep
  <2> QED BY <1>8, <2>1, <2>3 DEF TypeOK, PatchChannel
<1>9. ASSUME NEW c \in Channel, DeleteChannel(c) PROVE TypeOK'
  <2>1. channels' \in [Channel -> ChannelRow]
    <3>1. channels \in [Channel -> ChannelRow] /\ channels[c] \in ChannelRow
      BY DEF TypeOK
    <3>2. channels' = [channels EXCEPT ![c] = [channels[c] EXCEPT !.state = "deleted", !.enabled = FALSE]]
      BY <1>9, <3>1 DEF DeleteChannel, ChannelRow
    <3>3. [channels[c] EXCEPT !.state = "deleted", !.enabled = FALSE] \in ChannelRow
      BY <3>1 DEF ChannelRow
    <3> QED BY <3>1, <3>2, <3>3
  <2>2. deliveries' \in [Channel -> Seq(DeliveryRow)]
    BY <1>9, CancelPendingEffect DEF DeleteChannel, GrowStep
  <2> QED BY <1>9, <2>1, <2>2 DEF TypeOK, DeleteChannel
<1>10. ASSUME NEW c \in Channel, Test(c) PROVE TypeOK'
  BY <1>10, TestEffect DEF TypeOK, Test, GrowStep
<1>11. ASSUME Recover PROVE TypeOK'
  <2>1. Reconcile /\ UNCHANGED channels
    BY <1>11 DEF Recover
  <2> QED BY <1>11, <2>1, RecoverEffect, ReconcileEffect DEF TypeOK, BulkStep
<1> QED BY <1>1, <1>2, <1>3, <1>4, <1>5, <1>6, <1>7, <1>8, <1>9, <1>10, <1>11, NextCases

\* The alerts a database may start with.
LEMMA InitAlerts ==
    ASSUME Init
    PROVE  \/ alerts = <<>>
           \/ \E k \in Key, s \in Severity :
                 alerts = <<[key |-> k, severity |-> s, status |-> "firing", incident |-> 0]>>
BY DEF Init

\* The initial tables are well typed.
LEMMA TypeInit == Init => TypeOK
<1> SUFFICES ASSUME Init PROVE TypeOK
  OBVIOUS
<1>1. alerts \in Seq(AlertRow)
  <2>1. ASSUME NEW k \in Key, NEW s \in Severity
        PROVE  <<[key |-> k, severity |-> s, status |-> "firing", incident |-> 0]>> \in Seq(AlertRow)
    BY <2>1 DEF AlertRow
  <2>2. <<>> \in Seq(AlertRow)
    OBVIOUS
  <2> QED BY <2>1, <2>2, InitAlerts
<1>2. incidents \in [Group -> Seq(IncidentRow)] /\ deliveries \in [Channel -> Seq(DeliveryRow)]
  BY DEF Init
<1>3. channels \in [Channel -> ChannelRow]
  BY DEF Init, ChannelRow, Severity
<1> QED BY <1>1, <1>2, <1>3 DEF TypeOK

\* The tables always hold rows of their types: whatever transactions run, in
\* whatever order, with any number of channels and conditions.
THEOREM TypeCorrect == Spec => []TypeOK
<1>1. TypeOK /\ UNCHANGED tables => TypeOK'
  BY DEF TypeOK, tables
<1>2. TypeOK /\ [Next]_tables => TypeOK'
  BY <1>1, TypeStep
<1> QED BY <1>2, TypeInit, PTL DEF Spec

-----------------------------------------------------------------------------
(* The delivery tables: retry budget and serial claims. *)

\* Every step is of one of the three kinds, or leaves the deliveries alone.
LEMMA DeliveryKinds ==
    ASSUME TypeOK, Next
    PROVE  \/ UNCHANGED deliveries
           \/ BulkStep
           \/ \E c \in Channel : \E n \in DOMAIN deliveries[c] : PointStep(c, n)
           \/ \E i, event : GrowStep(i, event)
<1>1. ASSUME NEW k \in Key, NEW s \in Severity, Fire(k, s)
      PROVE  \E i, event : GrowStep(i, event)
  BY <1>1, FiredEffect DEF Fire
<1>2. ASSUME NEW a \in DOMAIN alerts, Resolve(a)
      PROVE  UNCHANGED deliveries \/ \E i, event : GrowStep(i, event)
  BY <1>2, ResolvedEffect DEF Resolve
<1>3. ASSUME NEW c \in Channel, NEW f \in ChannelConfig,
             CreateChannel(c, f) \/ PatchChannel(c, f)
      PROVE  UNCHANGED deliveries \/ \E i, event : GrowStep(i, event)
  <2>1. UNCHANGED deliveries \/ deliveries' = CancelPending(c)
    BY <1>3 DEF CreateChannel, PatchChannel
  <2> QED BY <2>1, CancelPendingEffect
<1>4. ASSUME NEW c \in Channel, DeleteChannel(c)
      PROVE  \E i, event : GrowStep(i, event)
  BY <1>4, CancelPendingEffect DEF DeleteChannel
<1>5. ASSUME NEW a \in DOMAIN alerts, CleanupAlert(a) PROVE UNCHANGED deliveries
  BY <1>5 DEF CleanupAlert
<1>6. ASSUME NEW g \in Group, ScheduleReminders(g) PROVE \E i, event : GrowStep(i, event)
  BY <1>6, RemindersEffect
<1>7. ASSUME NEW c \in Channel, NEW n \in DOMAIN deliveries[c], RowAction(c, n)
      PROVE  PointStep(c, n)
  BY <1>7, RowActionEffect
<1>8. ASSUME NEW g \in Group, NEW n \in DOMAIN incidents[g], CleanupIncident(g, n)
      PROVE  BulkStep
  BY <1>8, CleanupIncidentEffect
<1>9. ASSUME NEW c \in Channel, Test(c) PROVE \E i, event : GrowStep(i, event)
  BY <1>9, TestEffect
<1>10. Recover => BulkStep
  BY RecoverEffect
<1> QED BY <1>1, <1>2, <1>3, <1>4, <1>5, <1>6, <1>7, <1>8, <1>9, <1>10, NextCases

\* A new row is pending, with its whole budget.
LEMMA NewRowStatus ==
    \A i, event : NewRow(i, event).status = "pending" /\ NewRow(i, event).attempts = 0
BY DEF NewRow

\* The budget is never exceeded by a row that will still be sent.
LEMMA RetryBudgetStep ==
    ASSUME TypeOK, Next, RetryBudget
    PROVE  RetryBudget'
<1>1. CASE UNCHANGED deliveries
  BY <1>1 DEF RetryBudget
<1>2. CASE BulkStep
  BY <1>2 DEF RetryBudget, BulkStep
<1>3. ASSUME NEW c \in Channel, NEW n \in DOMAIN deliveries[c], PointStep(c, n)
      PROVE  RetryBudget'
  <2> SUFFICES ASSUME NEW b \in Channel, NEW m \in DOMAIN deliveries[b],
                      deliveries'[b][m].status \in {"pending", "in_progress"}
               PROVE  deliveries'[b][m].attempts =< RetryLimit
    BY <1>3 DEF RetryBudget, PointStep
  <2>1. CASE b = c /\ m = n
    BY <1>3, <2>1 DEF PointStep, RetryBudget, Claimable
  <2>2. CASE b # c \/ m # n
    BY <1>3, <2>2 DEF PointStep, RetryBudget
  <2> QED BY <2>1, <2>2
<1>4. ASSUME NEW i, NEW event, GrowStep(i, event)
      PROVE  RetryBudget'
  <2> SUFFICES ASSUME NEW b \in Channel, NEW m \in DOMAIN deliveries'[b],
                      deliveries'[b][m].status \in {"pending", "in_progress"}
               PROVE  deliveries'[b][m].attempts =< RetryLimit
    BY DEF RetryBudget
  <2>1. Grown(deliveries[b], deliveries'[b], i, event)
    BY <1>4 DEF GrowStep
  <2>2. CASE m \in DOMAIN deliveries[b]
    BY <2>1, <2>2 DEF Grown, SameRow, RetryBudget
  <2>3. CASE m \notin DOMAIN deliveries[b]
    <3>1. deliveries'[b][m].attempts = 0
      BY <2>1, <2>3, NewRowStatus DEF Grown
    <3> QED BY <3>1, BoundsAssumption
  <2> QED BY <2>2, <2>3
<1> QED BY <1>1, <1>2, <1>3, <1>4, DeliveryKinds

\* Two rows of an incident are never in progress at once on a channel.
LEMMA SerialClaimsStep ==
    ASSUME TypeOK, Next, SerialClaims
    PROVE  SerialClaims'
<1> DEFINE Both(c, m, n) ==
        /\ deliveries[c][m].status = "in_progress" /\ deliveries[c][n].status = "in_progress"
        /\ deliveries[c][m].incident = deliveries[c][n].incident
        /\ deliveries[c][m].incident # NoIncident
<1>0. \A c \in Channel : \A m, n \in DOMAIN deliveries[c] : Both(c, m, n) => m = n
  BY DEF SerialClaims
<1> SUFFICES ASSUME NEW b \in Channel, NEW x \in DOMAIN deliveries'[b],
                    NEW y \in DOMAIN deliveries'[b], Both(b, x, y)'
             PROVE  x = y
  BY DEF SerialClaims
<1>1. CASE UNCHANGED deliveries
  BY <1>0, <1>1
<1>2. CASE BulkStep
  <2>1. x \in DOMAIN deliveries[b] /\ y \in DOMAIN deliveries[b]
    BY <1>2 DEF BulkStep
  <2>2. Both(b, x, y)
    BY <1>2, <2>1 DEF BulkStep
  <2> QED BY <1>0, <2>1, <2>2
<1>3. ASSUME NEW c \in Channel, NEW n \in DOMAIN deliveries[c], PointStep(c, n)
      PROVE  x = y
  <2>1. x \in DOMAIN deliveries[b] /\ y \in DOMAIN deliveries[b]
    BY <1>3 DEF PointStep
  <2>2. CASE b # c \/ (x # n /\ y # n)
    <3>1. Both(b, x, y)
      BY <1>3, <2>1, <2>2 DEF PointStep
    <3> QED BY <1>0, <2>1, <3>1
  <2>3. ASSUME NEW z \in DOMAIN deliveries[c], z # n, b = c,
               Both(c, z, n)' \/ Both(c, n, z)'
        PROVE  FALSE
    <3>1. /\ deliveries'[c][z] = deliveries[c][z]
          /\ deliveries'[c][n].incident = deliveries[c][n].incident
          /\ deliveries[c][z].status = "in_progress"
          /\ deliveries[c][z].incident = deliveries[c][n].incident
          /\ deliveries[c][n].incident # NoIncident
          /\ deliveries[c][n].status = "in_progress" \/ Claimable(c, n)
      BY <1>3, <2>3 DEF PointStep
    <3>2. ~Claimable(c, n)
      BY <2>3, <3>1 DEF Claimable, NoActiveSibling
    <3>3. Both(c, z, n)
      BY <3>1, <3>2
    <3> QED BY <1>0, <2>3, <3>3
  <2> QED BY <2>1, <2>2, <2>3
<1>4. ASSUME NEW i, NEW event, GrowStep(i, event)
      PROVE  x = y
  <2>1. Grown(deliveries[b], deliveries'[b], i, event)
    BY <1>4 DEF GrowStep
  <2>2. x \in DOMAIN deliveries[b] /\ y \in DOMAIN deliveries[b]
    BY <2>1, NewRowStatus DEF Grown
  <2>3. Both(b, x, y)
    BY <2>1, <2>2 DEF Grown, SameRow
  <2> QED BY <1>0, <2>2, <2>3
<1> QED BY <1>1, <1>2, <1>3, <1>4, DeliveryKinds

\* At most one delivery of an incident is in progress on a channel, for any
\* number of workers, channels, alerts and restarts.
THEOREM SerialClaimsHold == Spec => []SerialClaims
<1>1. Init => SerialClaims
  BY DEF Init, SerialClaims
<1>2. TypeOK /\ SerialClaims /\ [Next]_tables => SerialClaims'
  <2>1. SerialClaims /\ UNCHANGED tables => SerialClaims'
    BY DEF SerialClaims, tables
  <2> QED BY <2>1, SerialClaimsStep
<1> QED BY <1>1, <1>2, TypeCorrect, PTL DEF Spec

\* A row that is still to be sent has an attempt_count of at most RetryLimit
\* (worker.go: finish, retryDelay), storage errors and manual retries included.
THEOREM RetryBudgetHolds == Spec => []RetryBudget
<1>1. Init => RetryBudget
  BY DEF Init, RetryBudget
<1>2. TypeOK /\ RetryBudget /\ [Next]_tables => RetryBudget'
  <2>1. RetryBudget /\ UNCHANGED tables => RetryBudget'
    BY DEF RetryBudget, tables
  <2> QED BY <2>1, RetryBudgetStep
<1> QED BY <1>1, <1>2, TypeCorrect, PTL DEF Spec

-----------------------------------------------------------------------------
(* Incidents follow their alerts. *)

IncidentInv == OpenIffFiring /\ SeverityExact

\* The severity of a set of alerts, without the IF.
LEMMA SeverityOfFacts ==
    ASSUME NEW S
    PROVE  /\ SeverityOf(S) \in {"warning", "critical"}
           /\ SeverityOf(S) = "critical" <=> \E a \in S : alerts[a].severity = "critical"
BY DEF SeverityOf

\* Steps that leave who is firing, and the open incidents, alone.
LEMMA IncidentFrame ==
    ASSUME IncidentInv,
           \A h \in Group : /\ DOMAIN incidents'[h] = DOMAIN incidents[h]
                            /\ OpenIn(h)' = OpenIn(h)
                            /\ \A m \in OpenIn(h) : incidents'[h][m] = incidents[h][m],
           DOMAIN alerts' = DOMAIN alerts,
           \A a \in DOMAIN alerts :
              /\ alerts'[a].status = "firing" <=> alerts[a].status = "firing"
              /\ alerts[a].status = "firing" => alerts'[a] = alerts[a]
    PROVE  IncidentInv'
<1>1. \A h \in Group : \A m : FiringIn(h, m)' = FiringIn(h, m)
  BY DEF FiringIn
<1>2. OpenIffFiring'
  BY <1>1 DEF IncidentInv, OpenIffFiring
<1>3. SeverityExact'
  <2> SUFFICES ASSUME NEW h \in Group, NEW m \in OpenIn(h)
               PROVE  incidents'[h][m].severity = SeverityOf(FiringIn(h, m))'
    BY DEF SeverityExact
  <2>1. incidents[h][m].severity = SeverityOf(FiringIn(h, m))
    BY DEF IncidentInv, SeverityExact
  <2>2. SeverityOf(FiringIn(h, m))' = SeverityOf(FiringIn(h, m))
    BY <1>1 DEF SeverityOf, FiringIn
  <2> QED BY <2>1, <2>2
<1> QED BY <1>2, <1>3 DEF IncidentInv

\* An alert fires.
LEMMA FireKeepsIncidents ==
    ASSUME TypeOK, IncidentInv, NEW k \in Key, NEW s \in Severity, AlertFiredTx(k, s)
    PROVE  IncidentInv'
<1> DEFINE g == groupFor(k)
           n == JoinedIncident(g)
           a == Len(alerts) + 1
<1>1. /\ g \in Group
      /\ a \notin DOMAIN alerts /\ DOMAIN alerts' = DOMAIN alerts \cup {a}
      /\ \A b \in DOMAIN alerts : alerts'[b] = alerts[b]
      /\ groupFor(alerts'[a].key) = g /\ alerts'[a].severity = s
      /\ alerts'[a].status = "firing" /\ alerts'[a].incident = n
      /\ incidents'[g] = JoinIncident(g, s)
      /\ \A h \in Group : h # g => incidents'[h] = incidents[h]
  BY FiredEffect
<1> HIDE DEF g, a
<1>2. /\ n \in Nat /\ n # 0
      /\ DOMAIN incidents'[g] = DOMAIN incidents[g] \cup {n}
      /\ incidents'[g][n].status = "open"
      /\ \A m \in DOMAIN incidents[g] : m # n => incidents'[g][m] = incidents[g][m]
      /\ OpenIn(g) = {} => n \notin DOMAIN incidents[g] /\ incidents'[g][n].severity = s
      /\ OpenIn(g) # {} =>
            /\ n \in OpenIn(g) /\ n \in DOMAIN incidents[g]
            /\ incidents'[g][n].severity = IF s = "critical" THEN s ELSE incidents[g][n].severity
  <2> DEFINE now == JoinIncident(g, s)
  <2>1. /\ n \in Nat /\ n # 0
        /\ DOMAIN now = DOMAIN incidents[g] \cup {n}
        /\ now[n].status = "open"
        /\ \A m \in DOMAIN incidents[g] : m # n => now[m] = incidents[g][m]
        /\ OpenIn(g) = {} => n \notin DOMAIN incidents[g] /\ now[n].severity = s
        /\ OpenIn(g) # {} =>
              /\ n \in OpenIn(g) /\ n \in DOMAIN incidents[g]
              /\ now[n].severity = IF s = "critical" THEN s ELSE incidents[g][n].severity
    BY <1>1, JoinFacts
  <2>2. incidents'[g] = now
    BY <1>1
  <2> HIDE DEF now, n
  <2> QED BY <2>1, <2>2
<1> HIDE DEF n
<1>3. \A h \in Group : \A m : FiringIn(h, m)' =
         IF h = g /\ m = n THEN FiringIn(h, m) \cup {a} ELSE FiringIn(h, m)
  BY <1>1 DEF FiringIn
<1>4. \A h \in Group : OpenIn(h)' = IF h = g THEN OpenIn(h) \cup {n} ELSE OpenIn(h)
  BY <1>1, <1>2 DEF OpenIn
<1>5. OpenIn(g) \subseteq {n}
  BY <1>1, <1>2 DEF IncidentInv, OpenIffFiring
<1>6. OpenIffFiring'
  <2> SUFFICES ASSUME NEW h \in Group
               PROVE  /\ \A x, y \in OpenIn(h)' : x = y
                      /\ \A m \in DOMAIN incidents'[h] : m \in OpenIn(h)' <=> FiringIn(h, m)' # {}
                      /\ \A b \in DOMAIN alerts' :
                            alerts'[b].status = "firing" /\ groupFor(alerts'[b].key) = h
                               => alerts'[b].incident \in {0} \cup OpenIn(h)'
    BY DEF OpenIffFiring
  <2>1. /\ \A x, y \in OpenIn(h) : x = y
        /\ \A m \in DOMAIN incidents[h] : m \in OpenIn(h) <=> FiringIn(h, m) # {}
        /\ \A b \in DOMAIN alerts :
              alerts[b].status = "firing" /\ groupFor(alerts[b].key) = h
                 => alerts[b].incident \in {0} \cup OpenIn(h)
    BY DEF IncidentInv, OpenIffFiring
  <2>2. \A x, y \in OpenIn(h)' : x = y
    BY <2>1, <1>4, <1>5
  <2>3. \A m \in DOMAIN incidents'[h] : m \in OpenIn(h)' <=> FiringIn(h, m)' # {}
    <3>1. CASE h # g
      BY <1>1, <1>3, <1>4, <2>1, <3>1
    <3>2. CASE h = g
      BY <1>2, <1>3, <1>4, <2>1, <3>2
    <3> QED BY <3>1, <3>2
  <2>4. \A b \in DOMAIN alerts' :
           alerts'[b].status = "firing" /\ groupFor(alerts'[b].key) = h
              => alerts'[b].incident \in {0} \cup OpenIn(h)'
    BY <1>1, <1>4, <2>1
  <2> QED BY <2>2, <2>3, <2>4
<1>7. SeverityExact'
  <2> SUFFICES ASSUME NEW h \in Group, NEW m \in OpenIn(h)'
               PROVE  incidents'[h][m].severity = SeverityOf(FiringIn(h, m))'
    BY DEF SeverityExact
  <2>1. \A x \in OpenIn(h) : incidents[h][x].severity = SeverityOf(FiringIn(h, x))
    BY DEF IncidentInv, SeverityExact
  <2>2. \A b \in FiringIn(h, m) : alerts'[b].severity = alerts[b].severity
    BY <1>1 DEF FiringIn
  <2>3. CASE h # g
    <3>1. FiringIn(h, m)' = FiringIn(h, m) /\ m \in OpenIn(h) /\ incidents'[h][m] = incidents[h][m]
      BY <1>1, <1>3, <1>4, <2>3
    <3>2. SeverityOf(FiringIn(h, m))' = SeverityOf(FiringIn(h, m))
      BY <2>2, <3>1 DEF SeverityOf
    <3> QED BY <2>1, <3>1, <3>2
  <2>4. CASE h = g
    <3>1. m = n
      BY <1>4, <1>5, <2>4
    <3>2. FiringIn(h, m)' = FiringIn(h, m) \cup {a}
      BY <1>3, <2>4, <3>1
    <3>3. SeverityOf(FiringIn(h, m))' =
             IF s = "critical" THEN "critical" ELSE SeverityOf(FiringIn(h, m))
      BY <1>1, <2>2, <3>2 DEF SeverityOf
    <3>4. CASE OpenIn(g) = {}
      <4>1. FiringIn(g, n) = {}
        BY <1>1, <1>2, <3>4 DEF IncidentInv, OpenIffFiring, FiringIn
      <4>2. SeverityOf(FiringIn(h, m)) = "warning"
        BY <4>1, <2>4, <3>1 DEF SeverityOf
      <4> QED BY <1>2, <2>4, <3>1, <3>3, <3>4, <4>2 DEF Severity
    <3>5. CASE OpenIn(g) # {}
      BY <1>2, <2>1, <2>4, <3>1, <3>3, <3>5
    <3> QED BY <3>4, <3>5
  <2> QED BY <2>3, <2>4
<1> QED BY <1>6, <1>7 DEF IncidentInv

\* An alert resolves.
LEMMA ResolveKeepsIncidents ==
    ASSUME TypeOK, IncidentInv, NEW a \in DOMAIN alerts, alerts[a].status = "firing",
           AlertResolvedTx(a)
    PROVE  IncidentInv'
<1> PICK g, n, left : /\ g = groupFor(alerts[a].key)
                      /\ n = alerts[a].incident
                      /\ left = FiringIn(g, n) \ {a}
  OBVIOUS
<1>1. /\ g \in Group /\ n \in Nat /\ alerts[a] \in AlertRow
      /\ incidents \in [Group -> Seq(IncidentRow)]
  BY AlertTypes DEF TypeOK
<1>2. /\ DOMAIN alerts' = DOMAIN alerts
      /\ alerts'[a] = [alerts[a] EXCEPT !.status = "resolved"]
      /\ \A b \in DOMAIN alerts : b # a => alerts'[b] = alerts[b]
      /\ \A h \in Group : DOMAIN incidents'[h] = DOMAIN incidents[h]
      /\ \A h \in Group : \A m \in DOMAIN incidents[h] :
            incidents'[h][m] =
               IF h # g \/ m # n THEN incidents[h][m]
               ELSE IF left # {} THEN [incidents[h][m] EXCEPT !.severity = SeverityOf(left)]
                    ELSE [incidents[h][m] EXCEPT !.status = "resolved"]
  <2>1. /\ DOMAIN alerts' = DOMAIN alerts
        /\ alerts'[a] = [alerts[a] EXCEPT !.status = "resolved"]
        /\ \A b \in DOMAIN alerts : b # a => alerts'[b] = alerts[b]
        /\ \A h \in Group : DOMAIN incidents'[h] = DOMAIN incidents[h]
    BY ResolvedEffect, Zenon
  <2>2. \A h \in Group : \A m \in DOMAIN incidents[h] :
           incidents'[h][m] =
              IF h # groupFor(alerts[a].key) \/ m # alerts[a].incident THEN incidents[h][m]
              ELSE IF FiringIn(groupFor(alerts[a].key), alerts[a].incident) \ {a} # {}
                   THEN [incidents[h][m] EXCEPT !.severity =
                           SeverityOf(FiringIn(groupFor(alerts[a].key), alerts[a].incident) \ {a})]
                   ELSE [incidents[h][m] EXCEPT !.status = "resolved"]
    BY ResolvedEffect, Zenon
  <2> QED BY <2>1, <2>2
<1>3. alerts'[a].status = "resolved"
  BY <1>1, <1>2 DEF AlertRow
<1>4. n \in {0} \cup OpenIn(g)
  BY <1>1 DEF IncidentInv, OpenIffFiring
<1>5. a \in FiringIn(g, n)
  BY DEF FiringIn
<1>6. \A h \in Group : \A m : FiringIn(h, m)' = FiringIn(h, m) \ {a}
  <2> SUFFICES ASSUME NEW h \in Group, NEW m, NEW b
               PROVE  b \in FiringIn(h, m)' <=> b \in FiringIn(h, m) /\ b # a
    BY Zenon
  <2>1. b \in FiringIn(h, m) <=> /\ b \in DOMAIN alerts
                                 /\ alerts[b].status = "firing"
                                 /\ groupFor(alerts[b].key) = h /\ alerts[b].incident = m
    BY DEF FiringIn
  <2>2. b \in FiringIn(h, m)' <=> /\ b \in DOMAIN alerts'
                                  /\ alerts'[b].status = "firing"
                                  /\ groupFor(alerts'[b].key) = h /\ alerts'[b].incident = m
    BY DEF FiringIn
  <2> QED BY <1>2, <1>3, <2>1, <2>2
<1>7. \A h \in Group : \A m : (h # g \/ m # n) => a \notin FiringIn(h, m)
  BY DEF FiringIn
<1>8. \A h \in Group : \A m \in DOMAIN incidents[h] :
         /\ incidents[h][m] \in IncidentRow
         /\ h # g \/ m # n => incidents'[h][m] = incidents[h][m]
         /\ h = g /\ m = n /\ left # {} =>
               /\ incidents'[h][m].status = incidents[h][m].status
               /\ incidents'[h][m].severity = SeverityOf(left)
         /\ h = g /\ m = n /\ left = {} => incidents'[h][m].status = "resolved"
  <2> SUFFICES ASSUME NEW h \in Group, NEW m \in DOMAIN incidents[h]
               PROVE  /\ incidents[h][m] \in IncidentRow
                      /\ h # g \/ m # n => incidents'[h][m] = incidents[h][m]
                      /\ h = g /\ m = n /\ left # {} =>
                            /\ incidents'[h][m].status = incidents[h][m].status
                            /\ incidents'[h][m].severity = SeverityOf(left)
                      /\ h = g /\ m = n /\ left = {} => incidents'[h][m].status = "resolved"
    OBVIOUS
  <2>1. incidents[h][m] \in IncidentRow
    BY <1>1
  <2>2. CASE h # g \/ m # n
    BY <1>2, <2>1, <2>2
  <2>3. CASE h = g /\ m = n /\ left # {}
    <3>1. incidents'[h][m] = [incidents[h][m] EXCEPT !.severity = SeverityOf(left)]
      BY <1>2, <2>3
    <3> QED BY <2>1, <2>3, <3>1 DEF IncidentRow
  <2>4. CASE h = g /\ m = n /\ left = {}
    <3>1. incidents'[h][m] = [incidents[h][m] EXCEPT !.status = "resolved"]
      BY <1>2, <2>4
    <3> QED BY <2>1, <2>4, <3>1 DEF IncidentRow
  <2> QED BY <2>2, <2>3, <2>4
<1>9. \A h \in Group : OpenIn(h)' = IF h = g /\ left = {} THEN OpenIn(h) \ {n} ELSE OpenIn(h)
  BY <1>2, <1>8 DEF OpenIn
<1>10. left = FiringIn(g, n)'
  BY <1>1, <1>6
<1>11. OpenIffFiring'
  <2> SUFFICES ASSUME NEW h \in Group
               PROVE  /\ \A x, y \in OpenIn(h)' : x = y
                      /\ \A m \in DOMAIN incidents'[h] : m \in OpenIn(h)' <=> FiringIn(h, m)' # {}
                      /\ \A b \in DOMAIN alerts' :
                            alerts'[b].status = "firing" /\ groupFor(alerts'[b].key) = h
                               => alerts'[b].incident \in {0} \cup OpenIn(h)'
    BY DEF OpenIffFiring
  <2>1. /\ \A x, y \in OpenIn(h) : x = y
        /\ \A m \in DOMAIN incidents[h] : m \in OpenIn(h) <=> FiringIn(h, m) # {}
        /\ \A b \in DOMAIN alerts :
              alerts[b].status = "firing" /\ groupFor(alerts[b].key) = h
                 => alerts[b].incident \in {0} \cup OpenIn(h)
    BY DEF IncidentInv, OpenIffFiring
  <2>2. \A b \in DOMAIN alerts : b # a /\ alerts[b].status = "firing"
            /\ groupFor(alerts[b].key) = g /\ alerts[b].incident = n => left # {}
    BY DEF FiringIn
  <2>3. \A x, y \in OpenIn(h)' : x = y
    BY <1>9, <2>1
  <2>4. \A m \in DOMAIN incidents'[h] : m \in OpenIn(h)' <=> FiringIn(h, m)' # {}
    <3> SUFFICES ASSUME NEW m \in DOMAIN incidents[h]
                 PROVE  m \in OpenIn(h)' <=> FiringIn(h, m)' # {}
      BY <1>2
    <3>1. CASE h # g \/ m # n
      <4>1. FiringIn(h, m)' = FiringIn(h, m)
        BY <1>6, <1>7, <3>1
      <4> QED BY <1>9, <2>1, <3>1, <4>1
    <3>2. CASE h = g /\ m = n
      BY <1>4, <1>5, <1>9, <1>10, <2>1, <3>2
    <3> QED BY <3>1, <3>2
  <2>5. \A b \in DOMAIN alerts' :
           alerts'[b].status = "firing" /\ groupFor(alerts'[b].key) = h
              => alerts'[b].incident \in {0} \cup OpenIn(h)'
    <3> SUFFICES ASSUME NEW b \in DOMAIN alerts, alerts'[b].status = "firing",
                        groupFor(alerts'[b].key) = h
                 PROVE  alerts'[b].incident \in {0} \cup OpenIn(h)'
      BY <1>2
    <3>1. b # a /\ alerts'[b] = alerts[b]
      BY <1>2, <1>3
    <3>2. alerts[b].incident \in {0} \cup OpenIn(h)
      BY <2>1, <3>1
    <3>3. h = g /\ left = {} => alerts[b].incident # n
      BY <2>2, <3>1
    <3> QED BY <1>9, <3>1, <3>2, <3>3
  <2> QED BY <2>3, <2>4, <2>5
<1>12. SeverityExact'
  <2> SUFFICES ASSUME NEW h \in Group, NEW m \in OpenIn(h)'
               PROVE  incidents'[h][m].severity = SeverityOf(FiringIn(h, m))'
    BY DEF SeverityExact
  <2>1. \A x \in OpenIn(h) : incidents[h][x].severity = SeverityOf(FiringIn(h, x))
    BY DEF IncidentInv, SeverityExact
  <2>2. m \in OpenIn(h) /\ m \in DOMAIN incidents[h]
    BY <1>2, <1>9 DEF OpenIn
  <2>3. \A b \in FiringIn(h, m)' : alerts'[b] = alerts[b]
    BY <1>2, <1>6 DEF FiringIn
  <2>4. CASE h # g \/ m # n
    <3>1. FiringIn(h, m)' = FiringIn(h, m)
      BY <1>6, <1>7, <2>4
    <3>2. SeverityOf(FiringIn(h, m))' = SeverityOf(FiringIn(h, m))
      BY <2>3, <3>1 DEF SeverityOf
    <3> QED BY <1>8, <2>1, <2>2, <2>4, <3>2
  <2>5. CASE h = g /\ m = n
    <3>1. left # {}
      BY <1>9, <2>5
    <3>2. SeverityOf(FiringIn(h, m))' = SeverityOf(left)
      BY <1>10, <2>3, <2>5 DEF SeverityOf
    <3> QED BY <1>8, <2>2, <2>5, <3>1, <3>2
  <2> QED BY <2>4, <2>5
<1> QED BY <1>11, <1>12 DEF IncidentInv

\* Reconcile groups what is left over.
LEMMA ReconcileKeepsIncidents ==
    ASSUME TypeOK, IncidentInv, Reconcile
    PROVE  IncidentInv'
<1>1. /\ DOMAIN alerts' = DOMAIN alerts
      /\ \A a \in DOMAIN alerts :
            /\ alerts'[a].key = alerts[a].key
            /\ alerts'[a].severity = alerts[a].severity
            /\ alerts'[a].status = alerts[a].status
      /\ \A a \in DOMAIN alerts : \A g \in Group : groupFor(alerts[a].key) = g =>
            alerts'[a].incident = IF a \in Unassigned(g) THEN JoinedIncident(g)
                                  ELSE alerts[a].incident
      /\ \A g \in Group : incidents'[g] =
            IF Unassigned(g) = {} THEN incidents[g]
            ELSE JoinIncident(g, SeverityOf(Unassigned(g)))
  BY ReconcileEffect
<1> SUFFICES ASSUME NEW g \in Group
             PROVE  /\ \A x, y \in OpenIn(g)' : x = y
                    /\ \A m \in DOMAIN incidents'[g] : m \in OpenIn(g)' <=> FiringIn(g, m)' # {}
                    /\ \A b \in DOMAIN alerts' :
                          alerts'[b].status = "firing" /\ groupFor(alerts'[b].key) = g
                             => alerts'[b].incident \in {0} \cup OpenIn(g)'
                    /\ \A m \in OpenIn(g)' :
                          incidents'[g][m].severity = SeverityOf(FiringIn(g, m))'
  BY DEF IncidentInv, OpenIffFiring, SeverityExact
<1>2. /\ \A x, y \in OpenIn(g) : x = y
      /\ \A m \in DOMAIN incidents[g] : m \in OpenIn(g) <=> FiringIn(g, m) # {}
      /\ \A b \in DOMAIN alerts :
            alerts[b].status = "firing" /\ groupFor(alerts[b].key) = g
               => alerts[b].incident \in {0} \cup OpenIn(g)
      /\ \A m \in OpenIn(g) : incidents[g][m].severity = SeverityOf(FiringIn(g, m))
  BY DEF IncidentInv, OpenIffFiring, SeverityExact
<1>3. PICK new, n : new = Unassigned(g) /\ n = JoinedIncident(g)
  OBVIOUS
<1>4. \A a : a \in new <=> a \in FiringIn(g, 0)
  BY <1>3 DEF Unassigned
<1>5. ASSUME NEW m
      PROVE  FiringIn(g, m)' = IF m = n THEN FiringIn(g, m) \cup new
                               ELSE FiringIn(g, m) \ new
  <2> SUFFICES ASSUME NEW b
               PROVE  b \in FiringIn(g, m)' <=>
                         IF m = n THEN b \in FiringIn(g, m) \/ b \in new
                         ELSE b \in FiringIn(g, m) /\ b \notin new
    OBVIOUS
  <2>1. b \in FiringIn(g, m) <=> /\ b \in DOMAIN alerts
                                 /\ alerts[b].status = "firing"
                                 /\ groupFor(alerts[b].key) = g /\ alerts[b].incident = m
    BY DEF FiringIn
  <2>2. b \in FiringIn(g, m)' <=> /\ b \in DOMAIN alerts'
                                  /\ alerts'[b].status = "firing"
                                  /\ groupFor(alerts'[b].key) = g /\ alerts'[b].incident = m
    BY DEF FiringIn
  <2>3. b \in new <=> /\ b \in DOMAIN alerts
                      /\ alerts[b].status = "firing"
                      /\ groupFor(alerts[b].key) = g /\ alerts[b].incident = 0
    BY <1>4 DEF FiringIn
  <2>4. b \in DOMAIN alerts /\ groupFor(alerts[b].key) = g =>
           alerts'[b].incident = IF b \in new THEN n ELSE alerts[b].incident
    BY <1>1, <1>3
  <2> QED BY <1>1, <2>1, <2>2, <2>3, <2>4
<1>6. CASE new = {}
  <2>1. incidents'[g] = incidents[g]
    BY <1>1, <1>3, <1>6
  <2>2. OpenIn(g)' = OpenIn(g)
    BY <2>1 DEF OpenIn
  <2>3. \A m : FiringIn(g, m)' = FiringIn(g, m)
    BY <1>5, <1>6
  <2>4. \A b \in DOMAIN alerts' :
           alerts'[b].status = "firing" /\ groupFor(alerts'[b].key) = g
              => alerts'[b].incident \in {0} \cup OpenIn(g)'
    <3> SUFFICES ASSUME NEW b \in DOMAIN alerts, alerts[b].status = "firing",
                        groupFor(alerts[b].key) = g
                 PROVE  alerts'[b].incident \in {0} \cup OpenIn(g)
      BY <1>1, <2>2
    <3>1. alerts'[b].incident = alerts[b].incident
      BY <1>1, <1>3, <1>6
    <3> QED BY <1>2, <3>1
  <2>5. ASSUME NEW m \in OpenIn(g)
        PROVE  SeverityOf(FiringIn(g, m))' = SeverityOf(FiringIn(g, m))
    <3>1. \A b \in FiringIn(g, m) : alerts'[b].severity = alerts[b].severity
      BY <1>1 DEF FiringIn
    <3> QED BY <2>3, <3>1 DEF SeverityOf
  <2> QED BY <1>2, <2>1, <2>2, <2>3, <2>4, <2>5
<1>7. CASE new # {}
  <2>1. PICK s : s = SeverityOf(new)
    OBVIOUS
  <2>2. /\ s \in Severity
        /\ s = "critical" <=> \E a \in new : alerts[a].severity = "critical"
    BY <2>1, SeverityOfFacts DEF Severity
  <2>3. incidents'[g] = JoinIncident(g, s)
    BY <1>1, <1>3, <1>7, <2>1
  <2>4. LET now == JoinIncident(g, s) IN
        /\ n \in Nat /\ n # 0
        /\ DOMAIN now = DOMAIN incidents[g] \cup {n}
        /\ now[n].status = "open"
        /\ \A m \in DOMAIN incidents[g] : m # n => now[m] = incidents[g][m]
        /\ OpenIn(g) = {} => n \notin DOMAIN incidents[g] /\ now[n].severity = s
        /\ OpenIn(g) # {} =>
              /\ n \in OpenIn(g) /\ n \in DOMAIN incidents[g]
              /\ now[n].severity = IF s = "critical" THEN s ELSE incidents[g][n].severity
    BY <1>3, <2>2, JoinFacts
  <2>5. /\ n \in Nat /\ n # 0
        /\ DOMAIN incidents'[g] = DOMAIN incidents[g] \cup {n}
        /\ incidents'[g][n].status = "open"
        /\ \A m \in DOMAIN incidents[g] : m # n => incidents'[g][m] = incidents[g][m]
        /\ OpenIn(g) = {} => n \notin DOMAIN incidents[g] /\ incidents'[g][n].severity = s
        /\ OpenIn(g) # {} =>
              /\ n \in OpenIn(g) /\ n \in DOMAIN incidents[g]
              /\ incidents'[g][n].severity = IF s = "critical" THEN s ELSE incidents[g][n].severity
    BY <2>3, <2>4
  <2>6. OpenIn(g) \subseteq {n}
    BY <1>2, <2>5
  <2>7. OpenIn(g)' = {n}
    BY <2>5, <2>6 DEF OpenIn
  <2>8. \A m \in DOMAIN incidents'[g] : m \in OpenIn(g)' <=> FiringIn(g, m)' # {}
    <3> SUFFICES ASSUME NEW m \in DOMAIN incidents'[g]
                 PROVE  m = n <=> FiringIn(g, m)' # {}
      BY <2>7
    <3>1. CASE m = n
      BY <1>5, <1>7, <3>1
    <3>2. CASE m # n
      <4>1. m \in DOMAIN incidents[g] /\ m \notin OpenIn(g)
        BY <2>5, <2>6, <3>2
      <4>2. FiringIn(g, m) = {}
        BY <1>2, <4>1
      <4> QED BY <1>5, <3>2, <4>2
    <3> QED BY <3>1, <3>2
  <2>9. \A b \in DOMAIN alerts' :
           alerts'[b].status = "firing" /\ groupFor(alerts'[b].key) = g
              => alerts'[b].incident \in {0} \cup OpenIn(g)'
    BY <1>1, <1>2, <1>3, <2>6, <2>7
  <2>10. incidents'[g][n].severity = SeverityOf(FiringIn(g, n))'
    <3>1. FiringIn(g, n)' = FiringIn(g, n) \cup new
      BY <1>5
    <3>2. \A b \in FiringIn(g, n) \cup new : alerts'[b].severity = alerts[b].severity
      BY <1>1, <1>4 DEF FiringIn
    <3>3. SeverityOf(FiringIn(g, n))' =
             IF s = "critical" THEN "critical" ELSE SeverityOf(FiringIn(g, n))
      BY <2>2, <3>1, <3>2 DEF SeverityOf
    <3>4. CASE OpenIn(g) = {}
      <4>1. FiringIn(g, n) = {}
        BY <1>2, <2>5, <3>4 DEF FiringIn
      <4>2. SeverityOf(FiringIn(g, n)) = "warning"
        BY <4>1 DEF SeverityOf
      <4> QED BY <2>2, <2>5, <3>3, <3>4, <4>2 DEF Severity
    <3>5. CASE OpenIn(g) # {}
      BY <1>2, <2>5, <3>3, <3>5
    <3> QED BY <3>4, <3>5
  <2> QED BY <2>7, <2>8, <2>9, <2>10
<1> QED BY <1>6, <1>7

\* Retention removes only what is over.
LEMMA CleanupKeepsIncidents ==
    ASSUME TypeOK, IncidentInv,
           \/ \E g \in Group : \E k \in DOMAIN incidents[g] : CleanupIncident(g, k)
           \/ \E a \in DOMAIN alerts : CleanupAlert(a)
    PROVE  IncidentInv'
<1>1. ASSUME NEW g \in Group, NEW k \in DOMAIN incidents[g], CleanupIncident(g, k)
      PROVE  IncidentInv'
  <2>a. /\ DOMAIN alerts' = DOMAIN alerts
        /\ \A a \in DOMAIN alerts :
              /\ alerts'[a].key = alerts[a].key
              /\ alerts'[a].severity = alerts[a].severity
              /\ alerts'[a].status = alerts[a].status
              /\ alerts'[a].incident =
                    IF groupFor(alerts[a].key) = g /\ alerts[a].incident = k
                    THEN 0 ELSE alerts[a].incident
    BY <1>1, CleanupIncidentTables
  <2>b. \A h \in Group : DOMAIN incidents'[h] = DOMAIN incidents[h]
    BY <1>1, CleanupIncidentTables
  <2>c. \A h \in Group : \A m \in DOMAIN incidents[h] :
           incidents'[h][m] = IF h = g /\ m = k
                              THEN [incidents[h][m] EXCEPT !.status = "deleted"]
                              ELSE incidents[h][m]
    BY <1>1, CleanupIncidentTables
  <2>2. incidents[g][k].status = "resolved" /\ incidents[g][k] \in IncidentRow
    BY <1>1 DEF CleanupIncident, TypeOK
  <2>3. incidents'[g][k].status = "deleted"
    BY <1>1, <2>a, <2>b, <2>c, <2>2 DEF IncidentRow
  <2>4. k \notin OpenIn(g)
    BY <2>2 DEF OpenIn
  <2>5. \A h \in Group : OpenIn(h)' = OpenIn(h)
    <3> SUFFICES ASSUME NEW h \in Group, NEW m
                 PROVE  m \in OpenIn(h)' <=> m \in OpenIn(h)
      OBVIOUS
    <3>1. CASE h = g /\ m = k
      BY <2>a, <2>b, <2>c, <2>2, <2>3, <3>1 DEF OpenIn
    <3>2. CASE h # g \/ m # k
      BY <2>a, <2>b, <2>c, <3>2 DEF OpenIn
    <3> QED BY <3>1, <3>2
  <2>6. \A h \in Group : \A m \in OpenIn(h) : incidents'[h][m] = incidents[h][m]
    BY <2>a, <2>b, <2>c, <2>4 DEF OpenIn
  <2>7. FiringIn(g, k) = {}
    BY <1>1, <2>4 DEF IncidentInv, OpenIffFiring
  <2>8. ASSUME NEW h \in Group, NEW m PROVE FiringIn(h, m)' = FiringIn(h, m)
    <3> SUFFICES ASSUME NEW b
                 PROVE  b \in FiringIn(h, m)' <=> b \in FiringIn(h, m)
      OBVIOUS
    <3>1. b \in FiringIn(h, m) <=> /\ b \in DOMAIN alerts
                                   /\ alerts[b].status = "firing"
                                   /\ groupFor(alerts[b].key) = h /\ alerts[b].incident = m
      BY DEF FiringIn
    <3>2. b \in FiringIn(h, m)' <=> /\ b \in DOMAIN alerts'
                                    /\ alerts'[b].status = "firing"
                                    /\ groupFor(alerts'[b].key) = h /\ alerts'[b].incident = m
      BY DEF FiringIn
    <3>3. b \in DOMAIN alerts /\ alerts[b].status = "firing" /\ groupFor(alerts[b].key) = g
             => alerts[b].incident # k
      BY <2>7 DEF FiringIn
    <3> QED BY <2>a, <2>b, <2>c, <3>1, <3>2, <3>3
  <2>9. OpenIffFiring'
    <3> SUFFICES ASSUME NEW h \in Group
                 PROVE  /\ \A x, y \in OpenIn(h) : x = y
                        /\ \A m \in DOMAIN incidents[h] : m \in OpenIn(h) <=> FiringIn(h, m) # {}
                        /\ \A b \in DOMAIN alerts :
                              alerts'[b].status = "firing" /\ groupFor(alerts'[b].key) = h
                                 => alerts'[b].incident \in {0} \cup OpenIn(h)
      BY <2>a, <2>b, <2>c, <2>5, <2>8 DEF OpenIffFiring
    <3> QED BY <2>a, <2>b, <2>c DEF IncidentInv, OpenIffFiring
  <2>10. SeverityExact'
    <3> SUFFICES ASSUME NEW h \in Group, NEW m \in OpenIn(h)
                 PROVE  incidents'[h][m].severity = SeverityOf(FiringIn(h, m))'
      BY <2>5 DEF SeverityExact
    <3>1. incidents[h][m].severity = SeverityOf(FiringIn(h, m))
      BY DEF IncidentInv, SeverityExact
    <3>2. \A b \in FiringIn(h, m) : alerts'[b].severity = alerts[b].severity
      BY <2>a, <2>b, <2>c DEF FiringIn
    <3>3. SeverityOf(FiringIn(h, m))' = SeverityOf(FiringIn(h, m))
      BY <2>8, <3>2 DEF SeverityOf
    <3> QED BY <2>6, <3>1, <3>3
  <2> QED BY <2>9, <2>10 DEF IncidentInv
<1>2. ASSUME NEW a \in DOMAIN alerts, CleanupAlert(a) PROVE IncidentInv'
  <2>1. /\ DOMAIN alerts' = DOMAIN alerts
        /\ alerts[a].status = "resolved" /\ alerts'[a].status = "deleted"
        /\ \A b \in DOMAIN alerts : b # a => alerts'[b] = alerts[b]
        /\ UNCHANGED incidents
    BY <1>2, CleanupAlertEffect
  <2>2. \A h \in Group : OpenIn(h)' = OpenIn(h)
    BY <2>1 DEF OpenIn
  <2> QED BY <2>1, <2>2, IncidentFrame
<1> QED BY <1>1, <1>2

\* Every step keeps incidents and alerts together.
LEMMA IncidentStep ==
    ASSUME TypeOK, IncidentInv, Next
    PROVE  IncidentInv'
<1>1. ASSUME UNCHANGED <<alerts, incidents>> PROVE IncidentInv'
  BY <1>1, IncidentFrame DEF OpenIn
<1>2. ASSUME NEW k \in Key, NEW s \in Severity, Fire(k, s) PROVE IncidentInv'
  BY <1>2, FireKeepsIncidents DEF Fire
<1>3. ASSUME NEW a \in DOMAIN alerts, Resolve(a) PROVE IncidentInv'
  BY <1>3, ResolveKeepsIncidents DEF Resolve
<1>4. ASSUME NEW g \in Group, ScheduleReminders(g) PROVE IncidentInv'
  BY <1>1, <1>4 DEF ScheduleReminders
<1>5. ASSUME NEW c \in Channel, NEW n \in DOMAIN deliveries[c], RowAction(c, n) PROVE IncidentInv'
  BY <1>1, <1>5, RowActionEffect
<1>6. ASSUME NEW c \in Channel, NEW f \in ChannelConfig,
             CreateChannel(c, f) \/ PatchChannel(c, f)
      PROVE  IncidentInv'
  BY <1>1, <1>6 DEF CreateChannel, PatchChannel
<1>7. ASSUME NEW c \in Channel, DeleteChannel(c) \/ Test(c) PROVE IncidentInv'
  BY <1>1, <1>7 DEF DeleteChannel, Test
<1>8. ASSUME Recover PROVE IncidentInv'
  BY <1>8, ReconcileKeepsIncidents DEF Recover
<1> QED BY <1>2, <1>3, <1>4, <1>5, <1>6, <1>7, <1>8, CleanupKeepsIncidents, NextCases

\* Before the first step no incident is open.
LEMMA IncidentInit == Init => IncidentInv
<1> SUFFICES ASSUME Init PROVE IncidentInv
  OBVIOUS
<1>1. \A g \in Group : incidents[g] = <<>> /\ OpenIn(g) = {}
  BY DEF Init, OpenIn
<1>2. \A a \in DOMAIN alerts : alerts[a].incident = 0
  BY InitAlerts
<1> QED BY <1>1, <1>2 DEF IncidentInv, OpenIffFiring, SeverityExact

\* Incidents follow the alerts through every step.
LEMMA IncidentsKept == Spec => []IncidentInv
<1>1. TypeOK /\ IncidentInv /\ [Next]_tables => IncidentInv'
  <2>1. IncidentInv /\ UNCHANGED tables => IncidentInv'
    BY DEF IncidentInv, OpenIffFiring, SeverityExact, OpenIn, FiringIn, SeverityOf, tables
  <2> QED BY <2>1, IncidentStep
<1> QED BY <1>1, IncidentInit, TypeCorrect, PTL DEF Spec

\* An incident is open exactly while one of its alerts fires, and every firing
\* alert of a group shares the one open incident (AlertFiredTx, AlertResolvedTx,
\* Reconcile of repository.go): for any number of conditions, through restarts and
\* retention.
THEOREM IncidentsFollowAlerts == Spec => []OpenIffFiring
  BY IncidentsKept, PTL DEF IncidentInv

\* The severity of an open incident is the worst of its firing alerts
\* (AlertFiredTx escalates, AlertResolvedTx recomputes it).
THEOREM SeverityFollowsAlerts == Spec => []SeverityExact
  BY IncidentsKept, PTL DEF IncidentInv

-----------------------------------------------------------------------------
(* A channel is told of a resolution at most once. *)

\* Incident i of a delivery is in the incidents table.
Known(i) == i = NoIncident \/ i[2] \in DOMAIN incidents[i[1]]
Open(i) == i[2] \in DOMAIN incidents[i[1]] /\ incidents[i[1]][i[2]].status = "open"

\* The same after the step.
KnownNext(i) == i = NoIncident \/ i[2] \in DOMAIN incidents'[i[1]]
OpenNext(i) == i[2] \in DOMAIN incidents'[i[1]] /\ incidents'[i[1]][i[2]].status = "open"

\* The strengthening OneResolution needs: deliveries refer to incidents that
\* exist, so a new incident has no deliveries yet.
References ==
    \A c \in Channel : \A n \in DOMAIN deliveries[c] : Known(deliveries[c][n].incident)

\* A resolved incident is never opened again and no incident row goes away.
LEMMA NoReopen ==
    ASSUME TypeOK, IncidentInv, Next
    PROVE  \A h \in Group : /\ DOMAIN incidents[h] \subseteq DOMAIN incidents'[h]
                            /\ \A m \in DOMAIN incidents[h] : m \in OpenIn(h)' => m \in OpenIn(h)
<1> DEFINE Goal == \A h \in Group :
                      /\ DOMAIN incidents[h] \subseteq DOMAIN incidents'[h]
                      /\ \A m \in DOMAIN incidents[h] : m \in OpenIn(h)' => m \in OpenIn(h)
<1>1. ASSUME UNCHANGED incidents PROVE Goal
  BY <1>1 DEF OpenIn
<1>2. ASSUME NEW h \in Group, NEW s \in Severity, incidents'[h] = JoinIncident(h, s)
      PROVE  /\ DOMAIN incidents[h] \subseteq DOMAIN incidents'[h]
             /\ \A m \in DOMAIN incidents[h] : m \in OpenIn(h)' => m \in OpenIn(h)
  <2> DEFINE now == JoinIncident(h, s)
  <2>1. PICK n : n = JoinedIncident(h)
    OBVIOUS
  <2>2. /\ DOMAIN now = DOMAIN incidents[h] \cup {n}
        /\ \A m \in DOMAIN incidents[h] : m # n => now[m] = incidents[h][m]
        /\ OpenIn(h) = {} => n \notin DOMAIN incidents[h]
        /\ OpenIn(h) # {} => n \in OpenIn(h)
    BY <1>2, <2>1, JoinFacts
  <2>3. incidents'[h] = now
    BY <1>2
  <2> HIDE DEF now
  <2>4. ASSUME NEW m \in DOMAIN incidents[h], m \in OpenIn(h)' PROVE m \in OpenIn(h)
    <3>1. CASE m = n
      BY <2>2, <2>4, <3>1
    <3>2. CASE m # n
      BY <2>2, <2>3, <2>4, <3>2 DEF OpenIn
    <3> QED BY <3>1, <3>2
  <2> QED BY <2>2, <2>3, <2>4
<1>3. ASSUME NEW k \in Key, NEW s \in Severity, Fire(k, s) PROVE Goal
  <2>1. PICK g : g = groupFor(k)
    OBVIOUS
  <2>2. /\ g \in Group /\ incidents'[g] = JoinIncident(g, s)
        /\ \A h \in Group : h # g => incidents'[h] = incidents[h]
    BY <1>3, <2>1, FiredEffect DEF Fire
  <2> QED BY <1>2, <2>2 DEF OpenIn
<1>4. ASSUME NEW a \in DOMAIN alerts, Resolve(a) PROVE Goal
  <2>1. AlertResolvedTx(a)
    BY <1>4 DEF Resolve
  <2>2. \A h \in Group : DOMAIN incidents'[h] = DOMAIN incidents[h]
    BY <2>1, ResolvedEffect
  <2>3. ASSUME NEW h \in Group, NEW m \in DOMAIN incidents[h], m \in OpenIn(h)'
        PROVE  m \in OpenIn(h)
    <3>1. incidents[h][m] \in IncidentRow
      BY <2>3 DEF TypeOK
    <3>2. \/ incidents'[h][m] = incidents[h][m]
          \/ \E x : incidents'[h][m] = [incidents[h][m] EXCEPT !.severity = x]
          \/ incidents'[h][m] = [incidents[h][m] EXCEPT !.status = "resolved"]
      <4>1. \A x \in Group : \A y \in DOMAIN incidents[x] :
               incidents'[x][y] =
                  IF x # groupFor(alerts[a].key) \/ y # alerts[a].incident THEN incidents[x][y]
                  ELSE IF FiringIn(groupFor(alerts[a].key), alerts[a].incident) \ {a} # {}
                       THEN [incidents[x][y] EXCEPT !.severity =
                              SeverityOf(FiringIn(groupFor(alerts[a].key), alerts[a].incident) \ {a})]
                       ELSE [incidents[x][y] EXCEPT !.status = "resolved"]
        BY <2>1, ResolvedEffect, Zenon
      <4> QED BY <2>3, <4>1
    <3>3. incidents'[h][m].status \in {incidents[h][m].status, "resolved"}
      BY <3>1, <3>2 DEF IncidentRow
    <3> QED BY <2>3, <3>3 DEF OpenIn
  <2> QED BY <2>2, <2>3
<1>5. ASSUME NEW g \in Group, NEW k \in DOMAIN incidents[g], CleanupIncident(g, k) PROVE Goal
  <2>1. \A h \in Group : DOMAIN incidents'[h] = DOMAIN incidents[h]
    BY <1>5, CleanupIncidentTables
  <2>2. ASSUME NEW h \in Group, NEW m \in DOMAIN incidents[h], m \in OpenIn(h)'
        PROVE  m \in OpenIn(h)
    <3>1. incidents[h][m] \in IncidentRow
      BY <2>2 DEF TypeOK
    <3>2. \/ incidents'[h][m] = incidents[h][m]
          \/ incidents'[h][m] = [incidents[h][m] EXCEPT !.status = "deleted"]
      <4>1. \A x \in Group : \A y \in DOMAIN incidents[x] :
               incidents'[x][y] = IF x = g /\ y = k
                                  THEN [incidents[x][y] EXCEPT !.status = "deleted"]
                                  ELSE incidents[x][y]
        BY <1>5, CleanupIncidentTables
      <4> QED BY <2>2, <4>1
    <3>3. incidents'[h][m].status \in {incidents[h][m].status, "deleted"}
      BY <3>1, <3>2 DEF IncidentRow
    <3> QED BY <2>2, <3>3 DEF OpenIn
  <2> QED BY <2>1, <2>2
<1>6. ASSUME Recover PROVE Goal
  <2>1. \A g \in Group : incidents'[g] =
           IF Unassigned(g) = {} THEN incidents[g] ELSE JoinIncident(g, SeverityOf(Unassigned(g)))
    BY <1>6, ReconcileEffect DEF Recover
  <2>2. ASSUME NEW h \in Group
        PROVE  /\ DOMAIN incidents[h] \subseteq DOMAIN incidents'[h]
               /\ \A m \in DOMAIN incidents[h] : m \in OpenIn(h)' => m \in OpenIn(h)
    <3>1. SeverityOf(Unassigned(h)) \in Severity
      BY SeverityOfFacts DEF Severity
    <3>2. CASE Unassigned(h) = {}
      BY <2>1, <3>2 DEF OpenIn
    <3>3. CASE Unassigned(h) # {}
      BY <1>2, <2>1, <3>1, <3>3
    <3> QED BY <3>2, <3>3
  <2> QED BY <2>2
<1>7. ASSUME NEW c \in Channel, NEW n \in DOMAIN deliveries[c], RowAction(c, n) PROVE Goal
  BY <1>1, <1>7, RowActionEffect
<1>8. ASSUME NEW c \in Channel, NEW f \in ChannelConfig,
             CreateChannel(c, f) \/ PatchChannel(c, f)
      PROVE  Goal
  BY <1>1, <1>8 DEF CreateChannel, PatchChannel
<1>9. ASSUME NEW c \in Channel, DeleteChannel(c) \/ Test(c) PROVE Goal
  BY <1>1, <1>9 DEF DeleteChannel, Test
<1>10. ASSUME NEW g \in Group, ScheduleReminders(g) PROVE Goal
  BY <1>1, <1>10 DEF ScheduleReminders
<1>11. ASSUME NEW a \in DOMAIN alerts, CleanupAlert(a) PROVE Goal
  BY <1>1, <1>11 DEF CleanupAlert
<1> HIDE DEF Goal
<1>12. Goal
  BY <1>3, <1>4, <1>5, <1>6, <1>7, <1>8, <1>9, <1>10, <1>11, NextCases
<1> QED BY <1>12 DEF Goal

\* What a step does to the rows, seen from their incidents: nothing, or it adds
\* rows other than resolutions about known incidents, or it adds resolutions of
\* an incident that it closes.
Announces ==
    \/ \A c \in Channel :
          /\ DOMAIN deliveries'[c] = DOMAIN deliveries[c]
          /\ \A n \in DOMAIN deliveries[c] :
                LET d == deliveries[c][n] e == deliveries'[c][n] IN
                e.incident = NoIncident \/ (e.incident = d.incident /\ e.event = d.event)
    \/ \E i \in Reference, event \in Event \ {"resolved"} :
          GrowStep(i, event) /\ KnownNext(i)
    \/ \E i \in Reference :
          GrowStep(i, "resolved") /\ KnownNext(i) /\ Open(i) /\ ~OpenNext(i)

\* Every step is of that form.
LEMMA StepAnnounces ==
    ASSUME TypeOK, IncidentInv, Next
    PROVE  Announces
<1>1. ASSUME UNCHANGED deliveries PROVE Announces
  BY <1>1 DEF Announces
<1>2. ASSUME BulkStep PROVE Announces
  BY <1>2 DEF Announces, BulkStep
<1>3. ASSUME NEW c \in Channel, NEW n \in DOMAIN deliveries[c], PointStep(c, n) PROVE Announces
  <2>1. ASSUME NEW b \in Channel, NEW m \in DOMAIN deliveries[b]
        PROVE  \/ deliveries'[b][m].incident = NoIncident
               \/ /\ deliveries'[b][m].incident = deliveries[b][m].incident
                  /\ deliveries'[b][m].event = deliveries[b][m].event
    <3>1. CASE b = c /\ m = n
      BY <1>3, <3>1 DEF PointStep
    <3>2. CASE b # c \/ m # n
      BY <1>3, <2>1, <3>2 DEF PointStep
    <3> QED BY <3>1, <3>2
  <2>2. \A b \in Channel : DOMAIN deliveries'[b] = DOMAIN deliveries[b]
    BY <1>3 DEF PointStep
  <2> QED BY <2>1, <2>2 DEF Announces
<1>4. ASSUME NEW k \in Key, NEW s \in Severity, Fire(k, s) PROVE Announces
  <2>1. PICK g, n : g = groupFor(k) /\ n = JoinedIncident(g)
    OBVIOUS
  <2>2. /\ g \in Group /\ incidents'[g] = JoinIncident(g, s)
        /\ GrowStep(<<g, n>>, "opened") \/ GrowStep(<<g, n>>, "updated")
    BY <1>4, <2>1, FiredEffect DEF Fire
  <2>3. n \in Nat /\ DOMAIN JoinIncident(g, s) = DOMAIN incidents[g] \cup {n}
    BY <2>1, <2>2, JoinFacts
  <2>4. KnownNext(<<g, n>>)
    BY <2>2, <2>3 DEF KnownNext
  <2>5. <<g, n>> \in Reference
    BY <2>2, <2>3 DEF Reference, IncidentId
  <2> QED BY <2>2, <2>4, <2>5 DEF Announces, Event
<1>5. ASSUME NEW a \in DOMAIN alerts, Resolve(a) PROVE Announces
  <2>1. PICK g, n, left : /\ g = groupFor(alerts[a].key) /\ n = alerts[a].incident
                          /\ left = FiringIn(g, n) \ {a}
    OBVIOUS
  <2>2. g \in Group /\ n \in Nat /\ alerts[a].status = "firing" /\ AlertResolvedTx(a)
    BY <1>5, <2>1, AlertTypes DEF Resolve
  <2>3. \/ UNCHANGED deliveries
        \/ n # 0 /\ left = {} /\ GrowStep(<<g, n>>, "resolved")
    BY <2>1, <2>2, ResolvedEffect
  <2>4. CASE n # 0 /\ left = {} /\ GrowStep(<<g, n>>, "resolved")
    <3>1. n \in OpenIn(g) /\ n \in DOMAIN incidents[g]
      BY <2>1, <2>2, <2>4 DEF IncidentInv, OpenIffFiring, OpenIn
    <3>2. incidents'[g][n] = [incidents[g][n] EXCEPT !.status = "resolved"]
      <4>1. \A h \in Group : \A m \in DOMAIN incidents[h] :
               incidents'[h][m] =
                  IF h # groupFor(alerts[a].key) \/ m # alerts[a].incident THEN incidents[h][m]
                  ELSE IF FiringIn(groupFor(alerts[a].key), alerts[a].incident) \ {a} # {}
                       THEN [incidents[h][m] EXCEPT !.severity =
                              SeverityOf(FiringIn(groupFor(alerts[a].key), alerts[a].incident) \ {a})]
                       ELSE [incidents[h][m] EXCEPT !.status = "resolved"]
        BY <2>2, ResolvedEffect, Zenon
      <4> QED BY <2>1, <2>2, <2>4, <3>1, <4>1
    <3>3. incidents[g][n] \in IncidentRow
      BY <2>2, <3>1 DEF TypeOK
    <3>4. n \notin OpenIn(g)'
      BY <3>2, <3>3 DEF OpenIn, IncidentRow
    <3>5. DOMAIN incidents'[g] = DOMAIN incidents[g]
      BY <2>2, ResolvedEffect
    <3>6. /\ <<g, n>> \in Reference /\ KnownNext(<<g, n>>)
          /\ Open(<<g, n>>) /\ ~OpenNext(<<g, n>>)
      BY <2>2, <3>1, <3>4, <3>5 DEF Reference, IncidentId, KnownNext, Open, OpenNext, OpenIn
    <3> QED BY <2>4, <3>6 DEF Announces
  <2> QED BY <1>1, <2>3, <2>4
<1>6. ASSUME NEW g \in Group, ScheduleReminders(g) PROVE Announces
  <2>1. PICK n : n = OpenIncident(g)
    OBVIOUS
  <2>2. GrowStep(<<g, n>>, "reminder") /\ n \in OpenIn(g) /\ UNCHANGED incidents
    BY <1>6, <2>1, RemindersEffect
  <2>3. n \in DOMAIN incidents[g] /\ n \in Nat
    BY <2>2 DEF OpenIn, TypeOK
  <2>4. <<g, n>> \in Reference /\ KnownNext(<<g, n>>) /\ "reminder" \in Event \ {"resolved"}
    BY <2>2, <2>3 DEF Reference, IncidentId, KnownNext, Event
  <2> QED BY <2>2, <2>4 DEF Announces
<1>7. ASSUME GrowStep(NoIncident, "test") PROVE Announces
  <2>1. KnownNext(NoIncident) /\ NoIncident \in Reference /\ "test" \in Event \ {"resolved"}
    BY DEF KnownNext, Reference, Event, NoIncident
  <2> QED BY <1>7, <2>1 DEF Announces
<1>8. ASSUME NEW c \in Channel, NEW f \in ChannelConfig,
             CreateChannel(c, f) \/ PatchChannel(c, f)
      PROVE  Announces
  <2>1. UNCHANGED deliveries \/ deliveries' = CancelPending(c)
    BY <1>8 DEF CreateChannel, PatchChannel
  <2> QED BY <1>1, <1>7, <2>1, CancelPendingEffect
<1>9. ASSUME NEW c \in Channel, DeleteChannel(c) PROVE Announces
  BY <1>7, <1>9, CancelPendingEffect DEF DeleteChannel
<1>10. ASSUME NEW c \in Channel, Test(c) PROVE Announces
  BY <1>7, <1>10, TestEffect
<1>11. ASSUME NEW c \in Channel, NEW n \in DOMAIN deliveries[c], RowAction(c, n) PROVE Announces
  BY <1>3, <1>11, RowActionEffect
<1>12. ASSUME NEW g \in Group, NEW k \in DOMAIN incidents[g], CleanupIncident(g, k) PROVE Announces
  BY <1>2, <1>12, CleanupIncidentEffect
<1>13. ASSUME NEW a \in DOMAIN alerts, CleanupAlert(a) PROVE Announces
  BY <1>1, <1>13 DEF CleanupAlert
<1>14. ASSUME Recover PROVE Announces
  BY <1>2, <1>14, RecoverEffect
<1> QED BY <1>4, <1>5, <1>6, <1>8, <1>9, <1>10, <1>11, <1>12, <1>13, <1>14, NextCases

\* References and OneResolution together are inductive.
LEMMA ResolutionStep ==
    ASSUME TypeOK, IncidentInv, References, OneResolution, Next
    PROVE  References' /\ OneResolution'
<1>1. \A h \in Group : /\ DOMAIN incidents[h] \subseteq DOMAIN incidents'[h]
                       /\ \A m \in DOMAIN incidents[h] : m \in OpenIn(h)' => m \in OpenIn(h)
  BY NoReopen
<1>2. ASSUME NEW c \in Channel, NEW n \in DOMAIN deliveries[c],
             deliveries[c][n].incident # NoIncident
      PROVE  LET i == deliveries[c][n].incident IN
             /\ KnownNext(i)
             /\ deliveries[c][n].event = "resolved" => ~Open(i) /\ ~OpenNext(i)
  <2>1. PICK i : i = deliveries[c][n].incident
    OBVIOUS
  <2>2. deliveries[c][n] \in DeliveryRow
    BY <1>2 DEF TypeOK
  <2>3. i \in IncidentId
    BY <1>2, <2>1, <2>2 DEF DeliveryRow
  <2>4. i[1] \in Group /\ i[2] \in DOMAIN incidents[i[1]]
    BY <1>2, <2>1, <2>3 DEF IncidentId, References, Known
  <2>5. KnownNext(i)
    BY <1>1, <2>4 DEF KnownNext
  <2>6. deliveries[c][n].event = "resolved" => ~Open(i)
    BY <1>2, <2>1 DEF OneResolution, Open, OpenIn
  <2>7. ~Open(i) => ~OpenNext(i)
    BY <1>1, <2>4 DEF Open, OpenNext, OpenIn
  <2> QED BY <2>1, <2>5, <2>6, <2>7
<1>3. ASSUME NEW c \in Channel, NEW m \in DOMAIN deliveries[c], NEW n \in DOMAIN deliveries[c],
             deliveries[c][m].event = "resolved", deliveries[c][n].event = "resolved",
             deliveries[c][m].incident = deliveries[c][n].incident,
             deliveries[c][m].incident # NoIncident
      PROVE  m = n
  BY <1>3 DEF OneResolution
<1> SUFFICES ASSUME NEW c \in Channel, NEW m \in DOMAIN deliveries'[c],
                    NEW n \in DOMAIN deliveries'[c],
                    deliveries'[c][m].incident # NoIncident
             PROVE  LET d == deliveries'[c][m] e == deliveries'[c][n] IN
                    /\ KnownNext(d.incident)
                    /\ d.event = "resolved" => ~OpenNext(d.incident)
                    /\ d.event = "resolved" /\ e.event = "resolved"
                          /\ d.incident = e.incident => m = n
  BY DEF References, OneResolution, OpenNext, OpenIn, Known, KnownNext
<1>4. CASE \A b \in Channel :
              /\ DOMAIN deliveries'[b] = DOMAIN deliveries[b]
              /\ \A x \in DOMAIN deliveries[b] :
                    \/ deliveries'[b][x].incident = NoIncident
                    \/ /\ deliveries'[b][x].incident = deliveries[b][x].incident
                       /\ deliveries'[b][x].event = deliveries[b][x].event
  <2>1. m \in DOMAIN deliveries[c] /\ n \in DOMAIN deliveries[c]
    BY <1>4
  <2>2. /\ deliveries'[c][m].incident = deliveries[c][m].incident
        /\ deliveries'[c][m].event = deliveries[c][m].event
    BY <1>4, <2>1
  <2>3. deliveries'[c][m].incident = deliveries'[c][n].incident =>
           /\ deliveries'[c][n].incident = deliveries[c][n].incident
           /\ deliveries'[c][n].event = deliveries[c][n].event
    BY <1>4, <2>1
  <2> QED BY <1>2, <1>3, <2>1, <2>2, <2>3
<1>5. ASSUME NEW i \in Reference, NEW event \in Event, GrowStep(i, event), KnownNext(i),
             event = "resolved" => Open(i) /\ ~OpenNext(i)
      PROVE  LET d == deliveries'[c][m] e == deliveries'[c][n] IN
             /\ KnownNext(d.incident)
             /\ d.event = "resolved" => ~OpenNext(d.incident)
             /\ d.event = "resolved" /\ e.event = "resolved"
                   /\ d.incident = e.incident => m = n
  <2>1. /\ \A x \in DOMAIN deliveries[c] :
              /\ deliveries'[c][x].incident = deliveries[c][x].incident
              /\ deliveries'[c][x].event = deliveries[c][x].event
        /\ \A x \in DOMAIN deliveries'[c] \ DOMAIN deliveries[c] :
              /\ x = Len(deliveries[c]) + 1
              /\ deliveries'[c][x].incident = i /\ deliveries'[c][x].event = event
    BY <1>5 DEF GrowStep, Grown, SameRow, NewRow
  <2>2. ASSUME NEW x \in DOMAIN deliveries[c], deliveries[c][x].event = "resolved",
               deliveries[c][x].incident = i, i # NoIncident, event = "resolved"
        PROVE  FALSE
    BY <1>2, <1>5, <2>2
  <2>3. KnownNext(deliveries'[c][m].incident)
    <3>1. CASE m \in DOMAIN deliveries[c]
      BY <1>2, <2>1, <3>1
    <3>2. CASE m \notin DOMAIN deliveries[c]
      BY <1>5, <2>1, <3>2
    <3> QED BY <3>1, <3>2
  <2>4. deliveries'[c][m].event = "resolved" => ~OpenNext(deliveries'[c][m].incident)
    <3>1. CASE m \in DOMAIN deliveries[c]
      BY <1>2, <2>1, <3>1
    <3>2. CASE m \notin DOMAIN deliveries[c]
      BY <1>5, <2>1, <3>2
    <3> QED BY <3>1, <3>2
  <2>5. ASSUME deliveries'[c][m].event = "resolved", deliveries'[c][n].event = "resolved",
               deliveries'[c][m].incident = deliveries'[c][n].incident
        PROVE  m = n
    <3>1. CASE m \in DOMAIN deliveries[c] /\ n \in DOMAIN deliveries[c]
      BY <1>3, <2>1, <2>5, <3>1
    <3>2. CASE m \notin DOMAIN deliveries[c] /\ n \notin DOMAIN deliveries[c]
      BY <2>1, <3>2
    <3>3. CASE m \in DOMAIN deliveries[c] /\ n \notin DOMAIN deliveries[c]
      BY <2>1, <2>2, <2>5, <3>3
    <3>4. CASE m \notin DOMAIN deliveries[c] /\ n \in DOMAIN deliveries[c]
      BY <2>1, <2>2, <2>5, <3>4
    <3> QED BY <3>1, <3>2, <3>3, <3>4
  <2> QED BY <2>3, <2>4, <2>5
<1>6. "resolved" \in Event
  BY DEF Event
<1>7. Announces
  BY StepAnnounces
<1> QED BY <1>4, <1>5, <1>6, <1>7 DEF Announces

\* A channel is told at most once that an incident resolved, and never while
\* it is open: for any number of channels and incidents, in any order of
\* alerts, restarts, channel changes and retention.
THEOREM OneResolutionHolds == Spec => []OneResolution
<1> DEFINE Inv == IncidentInv /\ References /\ OneResolution
<1>1. Init => Inv
  BY IncidentInit DEF Init, References, OneResolution
<1>2. TypeOK /\ Inv /\ [Next]_tables => Inv'
  <2>1. IncidentInv /\ UNCHANGED tables => IncidentInv'
    BY DEF IncidentInv, OpenIffFiring, SeverityExact, OpenIn, FiringIn, SeverityOf, tables
  <2>2. References /\ OneResolution /\ UNCHANGED tables => References' /\ OneResolution'
    BY DEF References, Known, OneResolution, OpenIn, tables
  <2> QED BY <2>1, <2>2, IncidentStep, ResolutionStep
<1> QED BY <1>1, <1>2, TypeCorrect, PTL DEF Spec
=============================================================================

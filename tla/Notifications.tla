--------------------------- MODULE Notifications ---------------------------
(***************************************************************************)
(* The tables behind incidents and notifications, and the transactions     *)
(* that change them (internal/notifications/repository.go), together with  *)
(* the row updates the delivery worker makes (claim and finish of          *)
(* internal/notifications/worker.go).  One action is one SQLite            *)
(* transaction: the database has one connection, so transactions never     *)
(* overlap.  Module DeliveryWorker puts the worker's goroutines and        *)
(* channels on top of this one; module Alerting puts the alert evaluator   *)
(* under it.                                                               *)
(*                                                                         *)
(* Tables are sequences: a row's identity is its position, which is also   *)
(* the order of creation, and a row that retention removes keeps its       *)
(* position with status "deleted".  Incidents are kept per group key and   *)
(* deliveries per channel.  Wall-clock time is abstracted: `due' stands    *)
(* for next_attempt_at <= now, and retention may take any completed row.   *)
(***************************************************************************)
EXTENDS Integers, Sequences, FiniteSets

CONSTANTS
    Key,            \* alert conditions [family, targetType, target]: dedup keys
    Channel,        \* notification channel ids
    ChannelConfig,  \* the settings an administrator may give a channel
    NoGroup,        \* the group of no incident (SQL NULL)
    RetryLimit,     \* len(retryDelays) in worker.go
    MaxChannels,    \* the channel limit (32 in the code)
    MaxAlerts,      \* bound: rows of the alerts table
    MaxDeliveries,  \* bound: delivery rows per channel
    MaxAttempts     \* bound: attempt_count reached through storage faults

Severity == {"warning", "critical"}
Lifecycle == {"opened", "updated"}
Completed == {"succeeded", "permanent_failure", "cancelled"}
Outcome == {"success", "retryable", "permanent"}

(***************************************************************************)
(* The group key of an alert: what the alert affects.                      *)
(***************************************************************************)
groupFor(k) ==
    CASE k.family \in {"docker_collector_down", "persistence_failure"}
                                                  -> <<"subsystem", k.target>>
      [] k.family \in {"host_cpu_warning", "host_memory_warning"}
                                                  -> <<"host", "server">>
      [] k.targetType \in {"resource", "check"}   -> <<"resource", k.target>>
      [] k.targetType = "filesystem"              -> <<"filesystem", k.target>>
      [] k.targetType = "host"                    -> <<"host", "server">>
      [] OTHER                                    -> <<"resource", k.target>>

Group == {groupFor(k) : k \in Key}

NoIncident == <<NoGroup, 0>>
IncidentId == Group \X Nat

ASSUME BoundsAssumption ==
    /\ RetryLimit \in Nat
    /\ MaxChannels \in Nat
    /\ MaxAlerts \in Nat
    /\ MaxDeliveries \in Nat
    /\ MaxAttempts \in Nat
ASSUME NoGroupAssumption == NoGroup \notin Group
ASSUME ChannelConfigAssumption ==
    ChannelConfig \subseteq
        [enabled : BOOLEAN, minimum : Severity, notifyResolved : BOOLEAN]

VARIABLES
    alerts,      \* alerts joined with incident_alerts
    incidents,   \* [Group -> Seq(incident rows)]
    channels,    \* notification_channels
    deliveries   \* [Channel -> Seq(notification_deliveries rows)]

tables == <<alerts, incidents, channels, deliveries>>

AlertRow == [key : Key, severity : Severity,
             status : {"firing", "resolved", "deleted"},
             incident : Nat]          \* 0: no incident_alerts row
IncidentRow == [status : {"open", "resolved", "deleted"},
                severity : Severity]
ChannelRow == [state : {"absent", "active", "deleted"},
               enabled : BOOLEAN, minimum : Severity, notifyResolved : BOOLEAN]
DeliveryRow == [incident : IncidentId \cup {NoIncident},
                event : {"opened", "updated", "reminder", "resolved", "test"},
                status : {"pending", "in_progress", "deleted"} \cup Completed,
                attempts : Nat, due : BOOLEAN]

-----------------------------------------------------------------------------
(* Views of the tables. *)

FiringIn(g, n) == {a \in DOMAIN alerts : /\ alerts[a].status = "firing"
                                         /\ groupFor(alerts[a].key) = g
                                         /\ alerts[a].incident = n}
FiringKey(k) == {a \in DOMAIN alerts : /\ alerts[a].status = "firing"
                                       /\ alerts[a].key = k}
Unassigned(g) == FiringIn(g, 0)
OpenIn(g) == {n \in DOMAIN incidents[g] : incidents[g][n].status = "open"}
\* The row a query for the open incident of a group returns.
OpenIncident(g) == CHOOSE n \in OpenIn(g) : TRUE
SeverityOf(S) == IF \E a \in S : alerts[a].severity = "critical"
                 THEN "critical" ELSE "warning"
Enabled(c) == channels[c].state = "active" /\ channels[c].enabled
HasRoom == \A c \in Channel : Len(deliveries[c]) < MaxDeliveries

-----------------------------------------------------------------------------
(* The outbox: what the transactions below write to notification_deliveries. *)

PendingLifecycle(rows, i) ==
    {n \in DOMAIN rows : /\ rows[n].incident = i
                         /\ rows[n].status = "pending"
                         /\ rows[n].event \in Lifecycle}
Oldest(N) == CHOOSE n \in N : \A m \in N : n =< m

NewRow(i, event) ==
    [incident |-> i, event |-> event, status |-> "pending", attempts |-> 0,
     due |-> event \notin Lifecycle]

Folded(row) == [row EXCEPT !.due = FALSE]

\* Lifecycle events wait 15 seconds and fold into a row that is still pending,
\* under that row's id, event type, idempotency key and attempt count.
upsertDeliveryTx(rows, i, event) ==
    LET waiting == PendingLifecycle(rows, i) IN
    IF event \in Lifecycle /\ waiting # {}
    THEN [rows EXCEPT ![Oldest(waiting)] = Folded(@)]
    ELSE Append(rows, NewRow(i, event))

enqueueIncidentTx(i, event, severity) ==
    [c \in Channel |->
        IF Enabled(c) /\ (channels[c].minimum = "critical" => severity = "critical")
        THEN upsertDeliveryTx(deliveries[c], i, event)
        ELSE deliveries[c]]

Attempted(row) ==
    /\ row.status \notin {"cancelled", "deleted"}
    /\ row.attempts > 0 \/ row.status \in {"in_progress", "succeeded", "permanent_failure"}

CancelRows(rows, N) ==
    [n \in DOMAIN rows |->
        IF n \in N THEN [rows[n] EXCEPT !.status = "cancelled", !.due = FALSE]
                   ELSE rows[n]]

\* Only a channel that was already told something hears of the resolution; in
\* any case what is still waiting to be sent about the incident is withdrawn.
enqueueResolutionTx(i) ==
    [c \in Channel |->
        LET rows == deliveries[c]
            withdrawn == CancelRows(rows, PendingLifecycle(rows, i))
        IN IF ~(Enabled(c) /\ channels[c].notifyResolved) THEN rows
           ELSE IF \E n \in DOMAIN rows : rows[n].incident = i /\ Attempted(rows[n])
                THEN upsertDeliveryTx(withdrawn, i, "resolved")
                ELSE withdrawn]

-----------------------------------------------------------------------------
(* Alert transitions and the incidents that group them. *)

\* Mutant: an escalation does not reach the open incident.
JoinWithoutEscalation(g, s) ==
    IF OpenIn(g) = {}
    THEN Append(incidents[g], [status |-> "open", severity |-> s])
    ELSE incidents[g]

\* The incident rows of g once alerts of severity s have joined: the open
\* incident is updated, or a new one opened.
JoinIncident(g, s) ==
    IF OpenIn(g) = {}
    THEN Append(incidents[g], [status |-> "open", severity |-> s])
    ELSE [incidents[g] EXCEPT ![OpenIncident(g)].severity =
            IF s = "critical" THEN s ELSE @]

JoinedIncident(g) == IF OpenIn(g) = {} THEN Len(incidents[g]) + 1 ELSE OpenIncident(g)

\* An alert for condition k starts firing (AlertFiredTx, in the evaluator's
\* transaction): it joins the group's incident and the channels are told.
AlertFiredTx(k, s) ==
    LET g == groupFor(k)
        n == JoinedIncident(g)
        joined == JoinIncident(g, s)
        event == IF OpenIn(g) = {} THEN "opened" ELSE "updated"
    IN /\ Len(alerts) < MaxAlerts
       /\ HasRoom
       /\ alerts' = Append(alerts, [key |-> k, severity |-> s,
                                    status |-> "firing", incident |-> n])
       /\ incidents' = [incidents EXCEPT ![g] = joined]
       /\ deliveries' = enqueueIncidentTx(<<g, n>>, event, joined[n].severity)
       /\ UNCHANGED channels

\* Mutant: the incident resolves with its first alert.
ResolveWithFirst(a) ==
    LET g == groupFor(alerts[a].key) n == alerts[a].incident IN
    /\ alerts' = [alerts EXCEPT ![a].status = "resolved"]
    /\ HasRoom
    /\ incidents' = IF n = 0 THEN incidents
                    ELSE [incidents EXCEPT ![g][n].status = "resolved"]
    /\ deliveries' = enqueueResolutionTx(<<g, n>>)
    /\ UNCHANGED channels

\* Mutant: every resolved alert announces a resolution of its incident.
ResolveAnnouncesEach(a) ==
    LET g == groupFor(alerts[a].key)
        n == alerts[a].incident
        left == FiringIn(g, n) \ {a}
    IN /\ alerts' = [alerts EXCEPT ![a].status = "resolved"]
       /\ HasRoom
       /\ incidents' = IF n = 0 THEN incidents
                       ELSE IF left = {} THEN [incidents EXCEPT ![g][n].status = "resolved"]
                       ELSE [incidents EXCEPT ![g][n].severity = SeverityOf(left)]
       /\ deliveries' = enqueueResolutionTx(<<g, n>>)
       /\ UNCHANGED channels

\* Alert a resolves (AlertResolvedTx): with firing members left the incident's
\* severity is recomputed, otherwise it resolves and the outbox is settled.
AlertResolvedTx(a) ==
    LET g == groupFor(alerts[a].key)
        n == alerts[a].incident
        left == FiringIn(g, n) \ {a}
    IN /\ alerts' = [alerts EXCEPT ![a].status = "resolved"]
       /\ \/ /\ n = 0
             /\ UNCHANGED <<incidents, deliveries>>
          \/ /\ n # 0
             /\ left # {}
             /\ incidents' = [incidents EXCEPT ![g][n].severity = SeverityOf(left)]
             /\ UNCHANGED deliveries
          \/ /\ n # 0
             /\ left = {}
             /\ HasRoom
             /\ incidents' = [incidents EXCEPT ![g][n].status = "resolved"]
             /\ deliveries' = enqueueResolutionTx(<<g, n>>)
       /\ UNCHANGED channels

\* The evaluator as this component sees it: a condition has at most one firing
\* alert (module Alerting shows that the evaluator keeps to this).
Fire(k, s) == FiringKey(k) = {} /\ AlertFiredTx(k, s)
Resolve(a) == alerts[a].status = "firing" /\ AlertResolvedTx(a)

\* Firing alerts without an incident (a database from before incidents existed)
\* are grouped when the worker starts, and nobody is notified of them.
Reconcile ==
    /\ alerts' = [a \in DOMAIN alerts |->
                    LET g == groupFor(alerts[a].key) IN
                    IF a \in Unassigned(g)
                    THEN [alerts[a] EXCEPT !.incident = JoinedIncident(g)]
                    ELSE alerts[a]]
    /\ incidents' = [g \in Group |->
                        IF Unassigned(g) = {} THEN incidents[g]
                        ELSE JoinIncident(g, SeverityOf(Unassigned(g)))]

\* Mutant: a start leaves the attempts of the last process as they are.
RecoverWithoutReset == Reconcile /\ UNCHANGED <<channels, deliveries>>

\* Worker.Start: attempts the last process left unfinished become due again,
\* then Reconcile.
Recover ==
    /\ deliveries' = [c \in Channel |-> [n \in DOMAIN deliveries[c] |->
                        IF deliveries[c][n].status = "in_progress"
                        THEN [deliveries[c][n] EXCEPT !.status = "pending", !.due = TRUE]
                        ELSE deliveries[c][n]]]
    /\ Reconcile
    /\ UNCHANGED channels

-----------------------------------------------------------------------------
(* Maintenance, on the worker's minute ticker and the evaluator's pass. *)

\* A reminder for one open incident whose next_reminder_at has passed.  The
\* transaction takes the due incidents one after the other.
ScheduleReminders(g) ==
    LET n == OpenIncident(g) IN
    /\ OpenIn(g) # {}
    /\ HasRoom
    /\ deliveries' = enqueueIncidentTx(<<g, n>>, "reminder", incidents[g][n].severity)
    /\ UNCHANGED <<alerts, incidents, channels>>

\* Completed deliveries go after 90 days,
CleanupDelivery(c, n) ==
    /\ deliveries[c][n].status \in Completed
    /\ deliveries' = [deliveries EXCEPT ![c][n] =
            [NewRow(NoIncident, "test") EXCEPT !.status = "deleted"]]
    /\ UNCHANGED <<alerts, incidents, channels>>

\* resolved incidents after a year (memberships cascade, deliveries keep the
\* row with a NULL incident),
CleanupIncident(g, n) ==
    /\ incidents[g][n].status = "resolved"
    /\ incidents' = [incidents EXCEPT ![g][n].status = "deleted"]
    /\ alerts' = [a \in DOMAIN alerts |->
                    IF groupFor(alerts[a].key) = g /\ alerts[a].incident = n
                    THEN [alerts[a] EXCEPT !.incident = 0] ELSE alerts[a]]
    /\ deliveries' = [c \in Channel |-> [m \in DOMAIN deliveries[c] |->
                        IF deliveries[c][m].incident = <<g, n>>
                        THEN [deliveries[c][m] EXCEPT !.incident = NoIncident]
                        ELSE deliveries[c][m]]]
    /\ UNCHANGED channels

\* and resolved alerts after a year (the evaluator's Cleanup).
CleanupAlert(a) ==
    /\ alerts[a].status = "resolved"
    /\ alerts' = [alerts EXCEPT ![a].status = "deleted", ![a].incident = 0]
    /\ UNCHANGED <<incidents, channels, deliveries>>

-----------------------------------------------------------------------------
(* What an administrator does. *)

ActiveChannels == {c \in Channel : channels[c].state = "active"}

Configured(f) == [state |-> "active", enabled |-> f.enabled,
                  minimum |-> f.minimum, notifyResolved |-> f.notifyResolved]

CreateChannel(c, f) ==
    /\ channels[c].state = "absent"
    /\ Cardinality(ActiveChannels) < MaxChannels
    /\ channels' = [channels EXCEPT ![c] = Configured(f)]
    /\ UNCHANGED <<alerts, incidents, deliveries>>

CancelPending(c) ==
    [deliveries EXCEPT ![c] =
        CancelRows(@, {n \in DOMAIN @ : @[n].status = "pending"})]

PatchChannel(c, f) ==
    /\ channels[c].state = "active"
    /\ channels' = [channels EXCEPT ![c] = Configured(f)]
    /\ deliveries' = IF f.enabled THEN deliveries ELSE CancelPending(c)
    /\ UNCHANGED <<alerts, incidents>>

DeleteChannel(c) ==
    /\ channels[c].state = "active"
    /\ channels' = [channels EXCEPT ![c].state = "deleted", ![c].enabled = FALSE]
    /\ deliveries' = CancelPending(c)
    /\ UNCHANGED <<alerts, incidents>>

\* Mutant: a delivery of any status may be retried.
RetryAnyStatus(c, n) ==
    /\ deliveries' = [deliveries EXCEPT ![c][n] =
            [@ EXCEPT !.status = "pending", !.attempts = 0, !.due = TRUE]]
    /\ UNCHANGED <<alerts, incidents, channels>>

\* Manual retry of a failed delivery, under the same row and key.
Retry(c, n) ==
    /\ deliveries[c][n].status = "permanent_failure"
    /\ deliveries' = [deliveries EXCEPT ![c][n] =
            [@ EXCEPT !.status = "pending", !.attempts = 0, !.due = TRUE]]
    /\ UNCHANGED <<alerts, incidents, channels>>

\* A test message, accepted for disabled channels too.
Test(c) ==
    /\ channels[c].state = "active"
    /\ Len(deliveries[c]) < MaxDeliveries
    /\ deliveries' = [deliveries EXCEPT ![c] = Append(@, NewRow(NoIncident, "test"))]
    /\ UNCHANGED <<alerts, incidents, channels>>

-----------------------------------------------------------------------------
(* What the worker does to a row. *)

\* next_attempt_at passes.
BecomeDue(c, n) ==
    /\ deliveries[c][n].status = "pending"
    /\ ~deliveries[c][n].due
    /\ deliveries' = [deliveries EXCEPT ![c][n].due = TRUE]
    /\ UNCHANGED <<alerts, incidents, channels>>

\* No delivery of the same channel and incident is being attempted.  NULL
\* incidents compare equal to nothing.
NoActiveSibling(c, n) ==
    \A m \in DOMAIN deliveries[c] \ {n} :
        ~ /\ deliveries[c][m].status = "in_progress"
          /\ deliveries[c][m].incident = deliveries[c][n].incident
          /\ deliveries[c][n].incident # NoIncident

\* Mutant: the claim does not look at the other deliveries of the incident.
ClaimableAlone(c, n) ==
    /\ deliveries[c][n].status = "pending"
    /\ deliveries[c][n].due

Claimable(c, n) ==
    /\ deliveries[c][n].status = "pending"
    /\ deliveries[c][n].due
    /\ NoActiveSibling(c, n)

ClaimRow(c, n) ==
    /\ Claimable(c, n)
    /\ deliveries' = [deliveries EXCEPT ![c][n].status = "in_progress"]
    /\ UNCHANGED <<alerts, incidents, channels>>

\* Mutant: one delay too many.
retryDelayOffByOne(attempt, outcome) == outcome = "retryable" /\ attempt =< RetryLimit + 1

retryDelay(attempt, outcome) == outcome = "retryable" /\ attempt =< RetryLimit

\* Mutant: the outcome class is stored as the status.
FinishedWithClass(row, outcome) ==
    [row EXCEPT !.attempts = row.attempts + 1, !.due = FALSE,
                !.status = IF outcome = "success" THEN "succeeded" ELSE outcome]

\* finish writes the row whatever its status is by then.
FinishedRow(row, outcome) ==
    LET attempt == row.attempts + 1 IN
    [row EXCEPT !.attempts = attempt, !.due = FALSE,
                !.status = IF outcome = "success" THEN "succeeded"
                           ELSE IF retryDelay(attempt, outcome) THEN "pending"
                           ELSE "permanent_failure"]

FinishRow(c, n, outcome) ==
    /\ deliveries' = [deliveries EXCEPT ![c][n] = FinishedRow(@, outcome)]
    /\ UNCHANGED <<alerts, incidents, channels>>

\* The attempt of a claimed row ends.
Settle(c, n, outcome) ==
    /\ deliveries[c][n].status = "in_progress"
    /\ FinishRow(c, n, outcome)

\* The claim's UPDATE fails with a storage error, and deliver answers with
\* finish on a row it does not hold.
ClaimError(c, n) ==
    /\ deliveries[c][n].status # "deleted"
    /\ deliveries[c][n].attempts < MaxAttempts
    /\ FinishRow(c, n, "retryable")

-----------------------------------------------------------------------------
\* The database is new, or was upgraded with alerts firing for some conditions.
Init ==
    /\ \/ alerts = <<>>
       \/ \E k \in Key, s \in Severity :
             alerts = <<[key |-> k, severity |-> s, status |-> "firing", incident |-> 0]>>
    /\ incidents = [g \in Group |-> <<>>]
    /\ channels = [c \in Channel |-> [state |-> "absent", enabled |-> FALSE,
                                      minimum |-> "warning", notifyResolved |-> FALSE]]
    /\ deliveries = [c \in Channel |-> <<>>]

AlertStep ==
    \/ \E k \in Key, s \in Severity : Fire(k, s)
    \/ \E a \in DOMAIN alerts : Resolve(a)

MaintenanceStep ==
    \/ \E g \in Group : ScheduleReminders(g)
    \/ \E c \in Channel : \E n \in DOMAIN deliveries[c] : CleanupDelivery(c, n)
    \/ \E g \in Group : \E n \in DOMAIN incidents[g] : CleanupIncident(g, n)
    \/ \E a \in DOMAIN alerts : CleanupAlert(a)

AdminStep ==
    \E c \in Channel :
        \/ \E f \in ChannelConfig : CreateChannel(c, f) \/ PatchChannel(c, f)
        \/ DeleteChannel(c)
        \/ Test(c)
        \/ \E n \in DOMAIN deliveries[c] : Retry(c, n)

DeliveryStep ==
    \E c \in Channel : \E n \in DOMAIN deliveries[c] :
        \/ BecomeDue(c, n)
        \/ ClaimRow(c, n)
        \/ \E o \in Outcome : Settle(c, n, o)
        \/ ClaimError(c, n)

Next == AlertStep \/ MaintenanceStep \/ AdminStep \/ DeliveryStep \/ Recover

Spec == Init /\ [][Next]_tables

-----------------------------------------------------------------------------
(* Properties. *)

\* The tables hold rows of their types.
TypeOK ==
    /\ alerts \in Seq(AlertRow)
    /\ incidents \in [Group -> Seq(IncidentRow)]
    /\ channels \in [Channel -> ChannelRow]
    /\ deliveries \in [Channel -> Seq(DeliveryRow)]

\* An incident is open exactly as long as one of its alerts is firing, a group
\* has at most one open incident, and a firing alert belongs to the open
\* incident of its own group (or, before Reconcile, to none): alertFiredTx and
\* AlertResolvedTx agree about who is still firing.
OpenIffFiring ==
    \A g \in Group :
        /\ \A m, n \in OpenIn(g) : m = n
        /\ \A n \in DOMAIN incidents[g] : n \in OpenIn(g) <=> FiringIn(g, n) # {}
        /\ \A a \in DOMAIN alerts :
               alerts[a].status = "firing" /\ groupFor(alerts[a].key) = g
                   => alerts[a].incident \in {0} \cup OpenIn(g)

\* The severity of an open incident is the worst severity among its firing
\* alerts: it follows escalation on join and is recomputed on every resolve.
SeverityExact ==
    \A g \in Group : \A n \in OpenIn(g) :
        incidents[g][n].severity = SeverityOf(FiringIn(g, n))

\* A channel is told at most once that an incident resolved, and never while
\* the incident is open (enqueueResolutionTx).
OneResolution ==
    \A c \in Channel : \A m, n \in DOMAIN deliveries[c] :
        LET d == deliveries[c][m] e == deliveries[c][n] IN
        d.event = "resolved" /\ d.incident # NoIncident =>
            /\ d.incident[2] \notin OpenIn(d.incident[1])
            /\ e.event = "resolved" /\ e.incident = d.incident => m = n

\* At most one delivery of an incident is in progress on a channel, through
\* claims, coalescing, resolutions, storage faults and restarts.
SerialClaims ==
    \A c \in Channel : \A m, n \in DOMAIN deliveries[c] :
        LET d == deliveries[c][m] e == deliveries[c][n] IN
        (/\ d.status = "in_progress" /\ e.status = "in_progress"
         /\ d.incident = e.incident /\ d.incident # NoIncident) => m = n

\* A row still to be sent has part of its retry budget left: no path, manual
\* retry and storage faults included, leaves a row to be sent whose attempt_count
\* is above RetryLimit.  (It bounds the attempts that are counted.  One that a
\* crash cuts off is not: Recover makes the row due again, and it is sent at
\* least once more.)
RetryBudget ==
    \A c \in Channel : \A n \in DOMAIN deliveries[c] :
        deliveries[c][n].status \in {"pending", "in_progress"}
            => deliveries[c][n].attempts =< RetryLimit
=============================================================================

----------------------------- MODULE Alerting -----------------------------
(***************************************************************************)
(* The alert evaluator (internal/alerts/evaluator.go) on top of the        *)
(* incident tables.  Every ten seconds a pass evaluates the conditions one *)
(* after the other; each evaluation is one transaction over the            *)
(* condition's lifecycle state, the alerts table, the incident tables      *)
(* (through the sink) and the events table; an error ends the pass.        *)
(*                                                                         *)
(* A pass is a sequence of slots.  A slot is one call of evaluate: a rule  *)
(* applied to a target, or one health check.  Two slots may have the same  *)
(* key (two checks of one resource).                                       *)
(***************************************************************************)
EXTENDS Notifications, AlertState

CONSTANTS
    Slot,         \* sequence: the key evaluated by each call, in order
    Rule,         \* [Key -> [trigger, recovery, cooldown, repeat, severity]]
    Observation,  \* what a slot may see: [failing, recovered, settled]
    SilenceTime,  \* the times a silence or deployment grace period may last
    MaxAborts     \* bound: passes ended by a storage error or a restart

ASSUME SlotAssumption == Slot \in Seq(Key)
ASSUME RuleAssumption ==
    Rule \in [Key -> [trigger : 0..Horizon, recovery : 0..Horizon,
                      cooldown : 0..Horizon, repeat : 0..Horizon,
                      severity : Severity]]
ASSUME ObservationAssumption ==
    Observation \subseteq [failing : BOOLEAN, recovered : BOOLEAN, settled : BOOLEAN]
ASSUME SilenceAssumption == SilenceTime \subseteq 0..Horizon
ASSUME FaultAssumption == MaxAborts \in Nat

VARIABLES
    state,      \* alert_evaluation_state: [Key -> State]
    events,     \* the alerts that own an events row "alert-<id>"
    enabled,    \* [Key -> BOOLEAN]: an enabled rule covers the condition
    silence,    \* [Key -> 0..Horizon]: time left of a silence or deploy grace
    observed,   \* what each slot currently sees
    next,       \* the slot the pass is at, 0 between passes
    quiet,      \* history: time since the condition's last alert resolved
    faultsUsed

evaluator == <<state, events, enabled, silence, observed, next, quiet, faultsUsed>>
allVars == <<tables, evaluator>>

Key0 == Slot[next]

-----------------------------------------------------------------------------
\* Ten seconds pass between two passes, or while nothing is evaluated.
Tick ==
    /\ next = 0
    /\ state' = [k \in Key |-> Aged(state[k])]
    /\ silence' = [k \in Key |-> IF silence[k] = 0 THEN 0 ELSE silence[k] - 1]
    /\ quiet' = [k \in Key |-> Older(quiet[k])]
    /\ next' = IF Len(Slot) = 0 THEN 0 ELSE 1
    /\ UNCHANGED <<tables, events, enabled, observed, faultsUsed>>

Advanced == next' = IF next = Len(Slot) THEN 0 ELSE next + 1

\* A check that has succeeded twice skips the recovery delay.
SlotRule == IF observed[next].settled
            THEN [Rule[Key0] EXCEPT !.recovery = 0] ELSE Rule[Key0]

Transition == Advance(state[Key0], observed[next].failing,
                      observed[next].recovered, silence[Key0] > 0, SlotRule)

Store == state' = [state EXCEPT ![Key0] = Transition.state]

Evaluating == next # 0 /\ enabled[Key0]

Skip ==
    /\ next # 0
    /\ ~enabled[Key0]
    /\ Advanced
    /\ UNCHANGED <<tables, state, events, enabled, silence, observed, quiet, faultsUsed>>

EvaluateQuietly ==
    /\ Evaluating
    /\ Transition.what \in {"none", "repeated"}
    /\ Store
    /\ Advanced
    /\ UNCHANGED <<tables, events, enabled, silence, observed, quiet, faultsUsed>>

\* Mutant: the sink is not told of the alert.
TriggersWithoutSink ==
    /\ Evaluating
    /\ Transition.what = "triggered"
    /\ Len(alerts) < MaxAlerts
    /\ alerts' = Append(alerts, [key |-> Key0, severity |-> Rule[Key0].severity,
                                 status |-> "firing", incident |-> 0])
    /\ events' = events \cup {Len(alerts) + 1}
    /\ Store
    /\ Advanced
    /\ UNCHANGED <<incidents, channels, deliveries, enabled, silence, observed, quiet, faultsUsed>>

\* The alert is inserted, joins its incident and gets its event row.
EvaluateTriggers ==
    /\ Evaluating
    /\ Transition.what = "triggered"
    /\ AlertFiredTx(Key0, Rule[Key0].severity)
    /\ events' = events \cup {Len(alerts) + 1}
    /\ Store
    /\ Advanced
    /\ UNCHANGED <<enabled, silence, observed, quiet, faultsUsed>>

\* The newest firing alert of the key.
Newest(S) == CHOOSE a \in S : \A b \in S : b =< a

\* The newest firing alert, if there is one, resolves.  Its event row has the
\* primary key the triggering event used.
EvaluateResolves ==
    LET firing == FiringKey(Key0) IN
    /\ Evaluating
    /\ Transition.what = "resolved"
    /\ IF firing = {} THEN UNCHANGED <<tables, events>>
       ELSE /\ Newest(firing) \notin events
            /\ AlertResolvedTx(Newest(firing))
            /\ events' = events \cup {Newest(firing)}
    /\ Store
    /\ Advanced
    /\ quiet' = [quiet EXCEPT ![Key0] = 0]
    /\ UNCHANGED <<enabled, silence, observed, faultsUsed>>

\* Mutant: the lifecycle state is stored outside the transaction.
ConflictStoresState ==
    /\ Evaluating
    /\ Transition.what = "resolved"
    /\ FiringKey(Key0) # {}
    /\ Newest(FiringKey(Key0)) \in events
    /\ Store
    /\ next' = 0
    /\ UNCHANGED <<tables, events, enabled, silence, observed, quiet, faultsUsed>>

\* The insert of the event row violates the primary key: the transaction rolls
\* back and the pass ends.
EvaluateConflicts ==
    /\ Evaluating
    /\ Transition.what = "resolved"
    /\ FiringKey(Key0) # {}
    /\ Newest(FiringKey(Key0)) \in events
    /\ next' = 0
    /\ UNCHANGED <<tables, state, events, enabled, silence, observed, quiet, faultsUsed>>

\* Any other storage error does the same.
EvaluateFails ==
    /\ Evaluating
    /\ faultsUsed < MaxAborts
    /\ faultsUsed' = faultsUsed + 1
    /\ next' = 0
    /\ UNCHANGED <<tables, state, events, enabled, silence, observed, quiet>>

Evaluate == \/ Skip \/ EvaluateQuietly \/ EvaluateTriggers \/ EvaluateResolves
            \/ EvaluateConflicts \/ EvaluateFails

-----------------------------------------------------------------------------
\* What a slot sees changes.
Observe(i, o) ==
    /\ observed' = [observed EXCEPT ![i] = o]
    /\ UNCHANGED <<tables, state, events, enabled, silence, next, quiet, faultsUsed>>

\* A silence or a deployment grace period starts, or a silence is removed.
Silence(k, time) ==
    /\ silence' = [silence EXCEPT ![k] = time]
    /\ UNCHANGED <<tables, state, events, enabled, observed, next, quiet, faultsUsed>>

UpdateRule(k, on) ==
    /\ enabled' = [enabled EXCEPT ![k] = on]
    /\ UNCHANGED <<tables, state, events, silence, observed, next, quiet, faultsUsed>>

\* Mutant: retention spares the event rows of alerts.
PurgeSparesAlerts(a) == UNCHANGED allVars

\* Retention deletes old event rows, whoever owns them.
PurgeEvent(a) ==
    /\ events' = events \ {a}
    /\ UNCHANGED <<tables, state, enabled, silence, observed, next, quiet, faultsUsed>>

\* The evaluator's Cleanup at the start of a pass.
EvaluatorCleanup(a) ==
    /\ CleanupAlert(a)
    /\ UNCHANGED evaluator

\* The process restarts: the pass is lost, everything else is in the database.
Restart ==
    /\ faultsUsed < MaxAborts
    /\ faultsUsed' = faultsUsed + 1
    /\ Recover
    /\ next' = 0
    /\ UNCHANGED <<state, events, enabled, silence, observed, quiet>>

-----------------------------------------------------------------------------
Fired == [phase |-> "firing", age |-> 0, notified |-> 0, cooldown |-> 0]

AlertingInit ==
    /\ Init
    /\ state = [k \in Key |-> IF FiringKey(k) = {} THEN Healthy ELSE Fired]
    /\ events = DOMAIN alerts
    /\ enabled = [k \in Key |-> TRUE]
    /\ silence = [k \in Key |-> 0]
    /\ observed \in [DOMAIN Slot -> Observation]
    /\ next = 0
    /\ quiet = [k \in Key |-> Horizon]
    /\ faultsUsed = 0

\* The administrator's requests.  A rule is read, changed and written back as a
\* whole, so that a stale request may set any value.
Administer ==
    \E k \in Key : \/ \E t \in SilenceTime : Silence(k, t)
                  \/ \E on \in BOOLEAN : UpdateRule(k, on)

Operate ==
    \/ \E i \in DOMAIN Slot, o \in Observation : Observe(i, o)
    \/ Administer
    \/ \E a \in DOMAIN alerts : EvaluatorCleanup(a)

Purge == \E a \in events : PurgeEvent(a)

AlertingNext == Tick \/ Evaluate \/ Operate \/ Purge \/ Restart

AlertingSpec == AlertingInit /\ [][AlertingNext]_allVars

\* The ticker and the evaluator's goroutine run; storage retention, on a timer
\* of its own, removes event rows once they are old.
FairAlertingSpec ==
    /\ AlertingSpec
    /\ WF_allVars(Tick)
    /\ WF_allVars(Evaluate)
    /\ WF_allVars(Purge)

-----------------------------------------------------------------------------
(* Properties. *)

\* The tables and the evaluator's state hold values of their types.
AlertingTypeOK ==
    /\ TypeOK
    /\ state \in [Key -> State]
    /\ events \subseteq DOMAIN alerts
    /\ enabled \in [Key -> BOOLEAN]
    /\ silence \in [Key -> 0..Horizon]
    /\ observed \in [DOMAIN Slot -> Observation]
    /\ next \in 0..Len(Slot)
    /\ quiet \in [Key -> 0..Horizon]
    /\ faultsUsed \in Nat

\* The lifecycle state and the alerts table agree: a condition has exactly one
\* firing alert while its phase is firing or recovering and none otherwise,
\* across aborted passes, restarts, silences and several slots per condition.
PhaseMatchesAlerts ==
    \A k \in Key :
        /\ state[k].phase \in {"firing", "recovering"} <=> FiringKey(k) # {}
        /\ \A a, b \in FiringKey(k) : a = b

\* After an alert resolves, the condition raises no other alert until the
\* rule's cooldown is over, however often it flips between pending and healthy
\* meanwhile.
CooldownHolds ==
    [][\A k \in Key :
          FiringKey(k) = {} /\ FiringKey(k)' # {} => quiet[k] >= Rule[k].cooldown]_allVars

Unsuppressed(k) == enabled[k] /\ silence[k] = 0
SlotsOf(k) == {i \in DOMAIN Slot : Slot[i] = k}

\* A condition that every slot reports as failing, and that is neither silenced
\* nor disabled, ends up with a firing alert (unless the bound on alert rows
\* has been reached).
PersistentFailureFires ==
    \A k \in Key :
        <>[](/\ Unsuppressed(k)
             /\ SlotsOf(k) # {}
             /\ \A i \in SlotsOf(k) : observed[i].failing /\ ~observed[i].recovered)
            => <>[](FiringKey(k) # {} \/ Len(alerts) = MaxAlerts)

\* A condition that every slot reports as recovered ends up without a firing
\* alert.  It takes retention to remove the triggering event first.
RecoveryResolves ==
    \A k \in Key :
        <>[](/\ enabled[k]
             /\ SlotsOf(k) # {}
             /\ \A i \in SlotsOf(k) : observed[i].recovered /\ ~observed[i].failing)
            => <>[](FiringKey(k) = {})

\* Incidents resolve when their alerts do: an evaluation that finds the
\* recovery complete resolves the alert.
RecoveryCommits ==
    [][\A k \in Key :
          (/\ Evaluating /\ Key0 = k /\ Transition.what = "resolved"
           /\ next' # next /\ faultsUsed' = faultsUsed)
              => FiringKey(k)' = {}]_allVars

\* The operations guide: a persistent failure fires when suppression ends.  A
\* failing slot is enough.
FailingCheckFires ==
    \A i \in DOMAIN Slot :
        <>[](Unsuppressed(Slot[i]) /\ observed[i].failing /\ ~observed[i].recovered)
            => <>[](FiringKey(Slot[i]) # {} \/ Len(alerts) = MaxAlerts)

\* Between any two transactions of any pass, aborted ones included, the state of
\* every condition is typed and agrees with the alerts table.
AlertingInv == AlertingTypeOK /\ PhaseMatchesAlerts
===========================================================================

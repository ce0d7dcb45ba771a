--------------------------- MODULE PipelineProofs ---------------------------
(***************************************************************************)
(* Machine-checked proofs about the two modules that use the incident      *)
(* tables of module Notifications.  Of Alerting: the evaluator uses them   *)
(* as Notifications specifies, its lifecycle state agrees with the alerts  *)
(* table, and cooldowns hold, for every set of conditions, rules,          *)
(* observations and channels and any number of passes, aborted passes and  *)
(* restarts.  Of DeliveryWorker: the dispatcher and the delivery           *)
(* goroutines use the outbox as Notifications specifies, two attempts      *)
(* never overlap on a delivery or an incident, and only storage errors     *)
(* strand a row or revive a cancelled one, for every number of goroutines  *)
(* and channels, every queue capacity and any number of alerts, storage    *)
(* errors and restarts.                                                    *)
(***************************************************************************)
EXTENDS Alerting, DeliveryWorker, NotificationsProofs, FiniteSetTheorems

-----------------------------------------------------------------------------
(* The lifecycle of one condition. *)

\* The phases in which a condition has a firing alert.
Raised == {"firing", "recovering"}

\* What Advance compares and returns.
RuleRow == [trigger : 0..Horizon, recovery : 0..Horizon, cooldown : 0..Horizon,
            repeat : 0..Horizon, severity : Severity]

\* An alert is triggered only from a pending phase whose cooldown is over, resolved
\* only from a raised one, and no other step changes whether the condition is raised
\* or shortens its cooldown.
LEMMA AdvanceFacts ==
    ASSUME NEW s \in State, NEW failing \in BOOLEAN, NEW recovered \in BOOLEAN,
           NEW suppressed \in BOOLEAN, NEW rule \in RuleRow
    PROVE  LET t == Advance(s, failing, recovered, suppressed, rule) IN
           /\ t.state \in State
           /\ t.what \in {"none", "repeated", "triggered", "resolved"}
           /\ t.what = "triggered" =>
                 s.phase \notin Raised /\ s.cooldown = 0 /\ t.state.phase \in Raised
           /\ t.what = "resolved" =>
                 /\ s.phase \in Raised /\ t.state.phase \notin Raised
                 /\ t.state.cooldown = rule.cooldown
           /\ t.what \in {"none", "repeated"} =>
                 /\ t.state.phase \in Raised <=> s.phase \in Raised
                 /\ t.state.cooldown = s.cooldown
<1> DEFINE t == Advance(s, failing, recovered, suppressed, rule)
           Good(u) ==
             /\ u.state \in State
             /\ u.what \in {"none", "repeated", "triggered", "resolved"}
             /\ u.what = "triggered" =>
                   s.phase \notin Raised /\ s.cooldown = 0 /\ u.state.phase \in Raised
             /\ u.what = "resolved" =>
                   /\ s.phase \in Raised /\ u.state.phase \notin Raised
                   /\ u.state.cooldown = rule.cooldown
             /\ u.what \in {"none", "repeated"} =>
                   /\ u.state.phase \in Raised <=> s.phase \in Raised
                   /\ u.state.cooldown = s.cooldown
<1>1. /\ s.phase \in Phase /\ s.age \in 0..Horizon /\ s.cooldown \in 0..Horizon
      /\ s.notified \in {Never} \cup 0..Horizon /\ rule.cooldown \in 0..Horizon
      /\ 0 \in 0..Horizon
  BY HorizonAssumption DEF State, RuleRow
<1>3. ASSUME NEW c \in 0..Horizon, NEW q, q = [Healthy EXCEPT !.cooldown = c]
      PROVE  q \in State /\ q.phase = "healthy" /\ q.cooldown = c
  BY <1>1, <1>3 DEF Healthy, State, Phase
<1>4. ASSUME NEW p \in Phase, NEW q, q = [s EXCEPT !.phase = p, !.age = 0]
      PROVE  q \in State /\ q.phase = p /\ q.cooldown = s.cooldown
  BY <1>1, <1>4 DEF State
<1>5. ASSUME NEW q, q = [s EXCEPT !.phase = "firing", !.age = 0, !.notified = 0]
      PROVE  q \in State /\ q.phase = "firing" /\ q.cooldown = s.cooldown
  BY <1>1, <1>5 DEF State, Phase
<1>6. ASSUME NEW q, q = [s EXCEPT !.notified = 0]
      PROVE  q \in State /\ q.phase = s.phase /\ q.cooldown = s.cooldown
  BY <1>1, <1>6 DEF State
<1>7. ASSUME NEW q, NEW w, t = To(q, w) PROVE t.state = q /\ t.what = w
  <2>1. To(q, w).state = q /\ To(q, w).what = w
    BY DEF To
  <2> HIDE DEF t
  <2> QED BY <1>7, <2>1
<1>8. /\ "healthy" \in Phase \ Raised /\ "pending" \in Phase \ Raised
      /\ "firing" \in Phase \cap Raised /\ "recovering" \in Phase \cap Raised
  BY DEF Phase, Raised
<1> HIDE DEF t
<1>9. ASSUME NEW q \in State, NEW w \in {"none", "repeated"}, t = To(q, w),
             q.phase \in Raised <=> s.phase \in Raised, q.cooldown = s.cooldown
      PROVE  Good(t)
  <2>1. t.state = q /\ t.what = w
    BY <1>7, <1>9
  <2> QED BY <1>9, <2>1
<1>10. CASE s.phase = "healthy" /\ failing
  <2> DEFINE q == [Healthy EXCEPT !.phase = "pending", !.cooldown = s.cooldown]
  <2>1. t = To(q, "none")
    BY <1>10 DEF Advance, t
  <2>2. q \in State /\ q.phase = "pending" /\ q.cooldown = s.cooldown
    BY <1>1 DEF Healthy, State, Phase
  <2> HIDE DEF q
  <2>3. Good(t)
    BY <1>8, <1>9, <1>10, <2>1, <2>2
  <2> QED BY <2>3 DEF t
<1>11. CASE s.phase = "pending" /\ ~failing
  <2> DEFINE q == [Healthy EXCEPT !.cooldown = s.cooldown]
  <2>1. t = To(q, "none")
    BY <1>11 DEF Advance, t
  <2>2. q \in State /\ q.phase = "healthy" /\ q.cooldown = s.cooldown
    BY <1>1, <1>3
  <2> HIDE DEF q
  <2>3. Good(t)
    BY <1>8, <1>9, <1>11, <2>1, <2>2
  <2> QED BY <2>3 DEF t
<1>12. CASE /\ s.phase = "pending" /\ failing
            /\ s.age >= rule.trigger /\ ~suppressed /\ CooledDown(s)
  <2> DEFINE q == [s EXCEPT !.phase = "firing", !.age = 0, !.notified = 0]
  <2>1. t = To(q, "triggered")
    BY <1>12 DEF Advance, t
  <2>2. q \in State /\ q.phase = "firing"
    BY <1>5
  <2> HIDE DEF q
  <2>3. t.state = q /\ t.what = "triggered" /\ s.cooldown = 0
    BY <1>7, <1>12, <2>1 DEF CooledDown
  <2>4. Good(t)
    BY <1>8, <1>12, <2>2, <2>3
  <2> QED BY <2>4 DEF t
<1>13. CASE s.phase = "firing" /\ recovered
  <2> DEFINE q == [s EXCEPT !.phase = "recovering", !.age = 0]
  <2>1. t = To(q, "none")
    BY <1>13 DEF Advance, t
  <2>2. q \in State /\ q.phase = "recovering" /\ q.cooldown = s.cooldown
    BY <1>4, <1>8
  <2> HIDE DEF q
  <2>3. Good(t)
    BY <1>8, <1>9, <1>13, <2>1, <2>2
  <2> QED BY <2>3 DEF t
<1>14. CASE /\ s.phase = "firing" /\ ~recovered /\ ~suppressed
            /\ s.notified # Never /\ rule.repeat > 0 /\ s.notified >= rule.repeat
  <2> DEFINE q == [s EXCEPT !.notified = 0]
  <2>1. t = To(q, "repeated")
    BY <1>14 DEF Advance, t
  <2>2. q \in State /\ q.phase = s.phase /\ q.cooldown = s.cooldown
    BY <1>6
  <2> HIDE DEF q
  <2>3. Good(t)
    BY <1>9, <2>1, <2>2
  <2> QED BY <2>3 DEF t
<1>15. CASE s.phase = "recovering" /\ failing
  <2> DEFINE q == [s EXCEPT !.phase = "firing", !.age = 0]
  <2>1. t = To(q, "none")
    BY <1>15 DEF Advance, t
  <2>2. q \in State /\ q.phase = "firing" /\ q.cooldown = s.cooldown
    BY <1>4, <1>8
  <2> HIDE DEF q
  <2>3. Good(t)
    BY <1>8, <1>9, <1>15, <2>1, <2>2
  <2> QED BY <2>3 DEF t
<1>16. CASE /\ s.phase = "recovering" /\ ~failing /\ recovered
            /\ s.age >= rule.recovery
  <2> DEFINE q == [Healthy EXCEPT !.cooldown = rule.cooldown]
  <2>1. t = To(q, "resolved")
    BY <1>16 DEF Advance, t
  <2>2. q \in State /\ q.phase = "healthy" /\ q.cooldown = rule.cooldown
    BY <1>1, <1>3
  <2> HIDE DEF q
  <2>3. t.state = q /\ t.what = "resolved"
    BY <1>7, <2>1
  <2>4. Good(t)
    BY <1>8, <1>16, <2>2, <2>3
  <2> QED BY <2>4 DEF t
<1>17. CASE /\ ~(s.phase = "healthy" /\ failing)
            /\ ~(s.phase = "pending" /\ ~failing)
            /\ ~(/\ s.phase = "pending" /\ failing
                 /\ s.age >= rule.trigger /\ ~suppressed /\ CooledDown(s))
            /\ ~(s.phase = "firing" /\ recovered)
            /\ ~(/\ s.phase = "firing" /\ ~recovered /\ ~suppressed
                 /\ s.notified # Never /\ rule.repeat > 0 /\ s.notified >= rule.repeat)
            /\ ~(s.phase = "recovering" /\ failing)
            /\ ~(/\ s.phase = "recovering" /\ ~failing /\ recovered
                 /\ s.age >= rule.recovery)
  <2>1. t = To(s, "none")
    BY <1>17 DEF Advance, t
  <2>2. Good(t)
    BY <1>9, <2>1
  <2> QED BY <2>2 DEF t
<1> QED BY <1>10, <1>11, <1>12, <1>13, <1>14, <1>15, <1>16, <1>17

\* A clock that saturates at Horizon.
LEMMA OlderFacts ==
    ASSUME NEW n \in 0..Horizon
    PROVE  Older(n) \in 0..Horizon /\ (Older(n) = Horizon \/ Older(n) = n + 1)
  BY HorizonAssumption DEF Older, Never

\* Time passes: the phase stays and the cooldown runs down.
LEMMA AgedFacts ==
    ASSUME NEW s \in State
    PROVE  /\ Aged(s) \in State /\ Aged(s).phase = s.phase
           /\ Aged(s).cooldown = IF s.cooldown = 0 THEN 0 ELSE s.cooldown - 1
<1> DEFINE age == Older(s.age)
           notified == Older(s.notified)
           cooldown == IF s.cooldown = 0 THEN 0 ELSE s.cooldown - 1
<1>1. Aged(s) = [s EXCEPT !.age = age, !.notified = notified, !.cooldown = cooldown]
  BY DEF Aged
<1>2. age \in 0..Horizon
  BY OlderFacts DEF State
<1>3. notified \in {Never} \cup 0..Horizon
  <2>1. s.notified \in 0..Horizon => notified \in 0..Horizon
    BY OlderFacts
  <2>2. s.notified = Never => notified = Never
    BY DEF Older
  <2>3. s.notified \in {Never} \cup 0..Horizon
    BY DEF State
  <2> HIDE DEF notified
  <2> QED BY <2>1, <2>2, <2>3
<1>4. cooldown \in 0..Horizon
  BY HorizonAssumption DEF State
<1> HIDE DEF age, notified, cooldown
<1>5. /\ Aged(s) \in State /\ Aged(s).phase = s.phase /\ Aged(s).cooldown = cooldown
  BY <1>1, <1>2, <1>3, <1>4 DEF State
<1> QED BY <1>5 DEF cooldown

-----------------------------------------------------------------------------
(* One evaluation. *)

\* The evaluated slot, its rule, and what Advance makes of them.
LEMMA EvaluationFacts ==
    ASSUME AlertingTypeOK, Evaluating
    PROVE  /\ next \in DOMAIN Slot /\ Key0 \in Key /\ state[Key0] \in State
           /\ Transition.state \in State
           /\ Transition.what \in {"none", "repeated", "triggered", "resolved"}
           /\ Transition.what = "triggered" =>
                 /\ state[Key0].phase \notin Raised /\ state[Key0].cooldown = 0
                 /\ Transition.state.phase \in Raised
           /\ Transition.what = "resolved" =>
                 /\ state[Key0].phase \in Raised /\ Transition.state.phase \notin Raised
                 /\ Transition.state.cooldown = Rule[Key0].cooldown
           /\ Transition.what \in {"none", "repeated"} =>
                 /\ Transition.state.phase \in Raised <=> state[Key0].phase \in Raised
                 /\ Transition.state.cooldown = state[Key0].cooldown
<1>1. next \in DOMAIN Slot /\ Key0 \in Key
  <2>1. next \in 0..Len(Slot) /\ next # 0
    BY DEF AlertingTypeOK, Evaluating
  <2> QED BY <2>1, SlotAssumption DEF Key0
<1>2. state[Key0] \in State
  BY <1>1 DEF AlertingTypeOK
<1>3. observed[next].failing \in BOOLEAN /\ observed[next].recovered \in BOOLEAN
  <2>1. observed[next] \in Observation
    BY <1>1 DEF AlertingTypeOK
  <2>2. observed[next] \in [failing : BOOLEAN, recovered : BOOLEAN, settled : BOOLEAN]
    BY <2>1, ObservationAssumption
  <2> QED BY <2>2
<1>4. SlotRule \in RuleRow /\ SlotRule.cooldown = Rule[Key0].cooldown
  <2>1. Rule[Key0] \in RuleRow
    BY <1>1, RuleAssumption DEF RuleRow
  <2>2. /\ [Rule[Key0] EXCEPT !.recovery = 0] \in RuleRow
        /\ [Rule[Key0] EXCEPT !.recovery = 0].cooldown = Rule[Key0].cooldown
    BY <2>1, HorizonAssumption DEF RuleRow
  <2> QED BY <2>1, <2>2 DEF SlotRule
<1> DEFINE suppressed == silence[Key0] > 0
<1>5. suppressed \in BOOLEAN
  OBVIOUS
<1>6. Transition = Advance(state[Key0], observed[next].failing, observed[next].recovered,
                           suppressed, SlotRule)
  BY DEF Transition
<1> HIDE DEF suppressed
<1> QED BY <1>1, <1>2, <1>3, <1>4, <1>5, <1>6, AdvanceFacts

\* The lifecycle state after the evaluation.
LEMMA Stores ==
    ASSUME AlertingTypeOK, Evaluating, Store
    PROVE  /\ state' \in [Key -> State] /\ state'[Key0] = Transition.state
           /\ \A k \in Key : k # Key0 => state'[k] = state[k]
  BY EvaluationFacts DEF Store, AlertingTypeOK

\* The pass goes on to the next slot, or ends.
LEMMA Advances ==
    ASSUME AlertingTypeOK, next # 0, Advanced
    PROVE  next' \in 0..Len(Slot)
<1>1. Len(Slot) \in Nat /\ next \in 0..Len(Slot)
  BY SlotAssumption DEF AlertingTypeOK
<1> QED BY <1>1 DEF Advanced

-----------------------------------------------------------------------------
(* The alerts of a condition. *)

\* An alert is raised: it is the only new one.
LEMMA FiringAdded ==
    ASSUME TypeOK, NEW k \in Key, NEW s \in Severity, AlertFiredTx(k, s)
    PROVE  /\ FiringKey(k)' = FiringKey(k) \cup {Len(alerts) + 1}
           /\ \A h \in Key : h # k => FiringKey(h)' = FiringKey(h)
           /\ DOMAIN alerts \cup {Len(alerts) + 1} = DOMAIN alerts'
<1> DEFINE a == Len(alerts) + 1
<1>1. /\ a \notin DOMAIN alerts /\ DOMAIN alerts' = DOMAIN alerts \cup {a}
      /\ \A b \in DOMAIN alerts : alerts'[b] = alerts[b]
      /\ alerts'[a].key = k /\ alerts'[a].status = "firing"
  BY FiredEffect
<1> HIDE DEF a
<1>2. FiringKey(k)' = FiringKey(k) \cup {a}
  BY <1>1 DEF FiringKey
<1>3. \A h \in Key : h # k => FiringKey(h)' = FiringKey(h)
  BY <1>1 DEF FiringKey
<1> QED BY <1>1, <1>2, <1>3 DEF a

\* An alert resolves: its condition has one firing alert less.
LEMMA FiringRemoved ==
    ASSUME TypeOK, NEW a \in DOMAIN alerts, AlertResolvedTx(a)
    PROVE  /\ \A k \in Key : FiringKey(k)' = FiringKey(k) \ {a}
           /\ DOMAIN alerts' = DOMAIN alerts
<1>1. /\ DOMAIN alerts' = DOMAIN alerts /\ alerts'[a] = [alerts[a] EXCEPT !.status = "resolved"]
      /\ \A b \in DOMAIN alerts : b # a => alerts'[b] = alerts[b]
  BY ResolvedEffect
<1>2. alerts'[a].status = "resolved"
  BY <1>1, AlertTypes DEF AlertRow
<1> QED BY <1>1, <1>2 DEF FiringKey

\* Steps that keep who fires.
LEMMA FiringKept ==
    ASSUME DOMAIN alerts' = DOMAIN alerts,
           \A a \in DOMAIN alerts : /\ alerts'[a].key = alerts[a].key
                                    /\ alerts'[a].status = "firing" <=> alerts[a].status = "firing"
    PROVE  \A k \in Key : FiringKey(k)' = FiringKey(k)
  BY DEF FiringKey

\* The evaluator's clean-up and a restart keep who fires.
LEMMA FiringUndisturbed ==
    ASSUME TypeOK, Recover \/ \E a \in DOMAIN alerts : CleanupAlert(a)
    PROVE  /\ \A k \in Key : FiringKey(k)' = FiringKey(k)
           /\ DOMAIN alerts' = DOMAIN alerts
<1>1. CASE Recover
  <2>1. Reconcile
    BY <1>1 DEF Recover
  <2>2. /\ DOMAIN alerts' = DOMAIN alerts
        /\ \A a \in DOMAIN alerts : alerts'[a].key = alerts[a].key /\ alerts'[a].status = alerts[a].status
    BY <2>1, ReconcileEffect
  <2> QED BY <2>2, FiringKept
<1>2. ASSUME NEW a \in DOMAIN alerts, CleanupAlert(a)
      PROVE  /\ \A k \in Key : FiringKey(k)' = FiringKey(k)
             /\ DOMAIN alerts' = DOMAIN alerts
  <2>1. /\ DOMAIN alerts' = DOMAIN alerts /\ alerts[a].status = "resolved"
        /\ alerts'[a].status = "deleted" /\ alerts'[a].key = alerts[a].key
        /\ \A b \in DOMAIN alerts : b # a => alerts'[b] = alerts[b]
    BY <1>2, CleanupAlertEffect
  <2>2. \A b \in DOMAIN alerts : /\ alerts'[b].key = alerts[b].key
                                 /\ alerts'[b].status = "firing" <=> alerts[b].status = "firing"
    BY <2>1
  <2> QED BY <2>1, <2>2, FiringKept
<1> QED BY <1>1, <1>2

-----------------------------------------------------------------------------
(* The evaluator and the tables. *)

\* A condition that is raised has one firing alert, the one that EvaluateResolves
\* picks.
LEMMA NewestFires ==
    ASSUME TypeOK, PhaseMatchesAlerts, NEW k \in Key, FiringKey(k) # {}
    PROVE  /\ Newest(FiringKey(k)) \in DOMAIN alerts
           /\ alerts[Newest(FiringKey(k))].status = "firing"
           /\ FiringKey(k) = {Newest(FiringKey(k))}
<1>1. PICK a : a \in FiringKey(k)
  OBVIOUS
<1>2. \A b \in FiringKey(k) : b = a
  BY <1>1 DEF PhaseMatchesAlerts
<1>3. a \in DOMAIN alerts /\ DOMAIN alerts \subseteq Nat
  BY <1>1 DEF FiringKey, TypeOK
<1>4. \A b \in FiringKey(k) : b =< a
  BY <1>2, <1>3
<1>5. Newest(FiringKey(k)) \in FiringKey(k)
  BY <1>1, <1>4 DEF Newest
<1>6. FiringKey(k) = {Newest(FiringKey(k))}
  BY <1>2, <1>5
<1> QED BY <1>5, <1>6 DEF FiringKey

\* An evaluation that triggers finds no alert of its condition firing.
LEMMA TriggersFire ==
    ASSUME AlertingTypeOK, PhaseMatchesAlerts, EvaluateTriggers
    PROVE  /\ Key0 \in Key /\ Rule[Key0].severity \in Severity
           /\ FiringKey(Key0) = {} /\ AlertFiredTx(Key0, Rule[Key0].severity)
<1>1. Evaluating /\ Transition.what = "triggered" /\ AlertFiredTx(Key0, Rule[Key0].severity)
  BY DEF EvaluateTriggers
<1>2. Key0 \in Key /\ state[Key0].phase \notin Raised
  BY <1>1, EvaluationFacts
<1>3. FiringKey(Key0) = {}
  BY <1>2 DEF PhaseMatchesAlerts, Raised
<1> QED BY <1>1, <1>2, <1>3, RuleAssumption

\* Every step of the evaluator is a transaction of the incident tables, as module
\* Notifications has them, or leaves the tables alone.
LEMMA TableStep ==
    ASSUME AlertingTypeOK, PhaseMatchesAlerts, [AlertingNext]_allVars
    PROVE  [Next]_tables
<1>1. CASE EvaluateTriggers
  <2>1. PICK k \in Key, sev \in Severity : k = Key0 /\ sev = Rule[Key0].severity
    BY <1>1, TriggersFire
  <2>2. FiringKey(k) = {} /\ AlertFiredTx(k, sev)
    BY <1>1, <2>1, TriggersFire
  <2> QED BY <2>2 DEF Next, AlertStep, Fire
<1>2. CASE EvaluateResolves
  <2>1. Evaluating /\ (UNCHANGED tables \/ (/\ FiringKey(Key0) # {}
                                            /\ AlertResolvedTx(Newest(FiringKey(Key0)))))
    BY <1>2 DEF EvaluateResolves
  <2>2. Key0 \in Key /\ TypeOK
    BY <2>1, EvaluationFacts DEF AlertingTypeOK
  <2>3. ASSUME FiringKey(Key0) # {}, AlertResolvedTx(Newest(FiringKey(Key0)))
        PROVE  Next
    <3>1. /\ Newest(FiringKey(Key0)) \in DOMAIN alerts
          /\ alerts[Newest(FiringKey(Key0))].status = "firing"
      BY <2>2, <2>3, NewestFires
    <3>2. PICK a \in DOMAIN alerts : a = Newest(FiringKey(Key0))
      BY <3>1
    <3>3. Resolve(a)
      BY <2>3, <3>1, <3>2 DEF Resolve
    <3> QED BY <3>3 DEF Next, AlertStep
  <2> QED BY <2>1, <2>3
<1>3. CASE Tick \/ Skip \/ EvaluateQuietly \/ EvaluateConflicts \/ EvaluateFails
  BY <1>3 DEF Tick, Skip, EvaluateQuietly, EvaluateConflicts, EvaluateFails
<1>4. CASE Operate
  BY <1>4 DEF Operate, Observe, Administer, Silence, UpdateRule, EvaluatorCleanup, Next,
              MaintenanceStep
<1>5. CASE Purge
  BY <1>5 DEF Purge, PurgeEvent
<1>6. CASE Restart
  BY <1>6 DEF Restart, Next
<1>7. CASE UNCHANGED allVars
  BY <1>7 DEF allVars
<1> QED BY <1>1, <1>2, <1>3, <1>4, <1>5, <1>6, <1>7 DEF AlertingNext, Evaluate

\* What a step does to the alerts of the conditions.
LEMMA FiringStep ==
    ASSUME AlertingTypeOK, PhaseMatchesAlerts, [AlertingNext]_allVars
    PROVE  \/ /\ EvaluateTriggers
              /\ \A k \in Key : /\ k = Key0 => FiringKey(k) = {} /\ FiringKey(k)' = {Len(alerts) + 1}
                                /\ k # Key0 => FiringKey(k)' = FiringKey(k)
           \/ /\ EvaluateResolves
              /\ \A k \in Key : /\ k = Key0 => FiringKey(k)' = {}
                                /\ k # Key0 => FiringKey(k)' = FiringKey(k)
           \/ /\ ~EvaluateTriggers /\ ~EvaluateResolves
              /\ \A k \in Key : FiringKey(k)' = FiringKey(k)
<1>1. TypeOK
  BY DEF AlertingTypeOK
<1>2. CASE EvaluateTriggers
  <2>1. PICK k \in Key, sev \in Severity : k = Key0 /\ sev = Rule[Key0].severity
    BY <1>2, TriggersFire
  <2>2. FiringKey(k) = {} /\ AlertFiredTx(k, sev)
    BY <1>2, <2>1, TriggersFire
  <2>3. /\ FiringKey(k)' = FiringKey(k) \cup {Len(alerts) + 1}
        /\ \A h \in Key : h # k => FiringKey(h)' = FiringKey(h)
    BY <1>1, <2>2, FiringAdded
  <2> QED BY <1>2, <2>1, <2>2, <2>3
<1>3. CASE EvaluateResolves
  <2>1. Evaluating
    BY <1>3 DEF EvaluateResolves
  <2>2. PICK k \in Key : k = Key0
    BY <2>1, EvaluationFacts
  <2>3. CASE FiringKey(k) = {}
    <3>1. UNCHANGED alerts
      BY <1>3, <2>2, <2>3 DEF EvaluateResolves, tables
    <3>2. \A h \in Key : FiringKey(h)' = FiringKey(h)
      BY <3>1 DEF FiringKey
    <3> QED BY <1>3, <2>2, <2>3, <3>2
  <2>4. CASE FiringKey(k) # {}
    <3>1. PICK a \in DOMAIN alerts : /\ a = Newest(FiringKey(k)) /\ FiringKey(k) = {a}
                                     /\ alerts[a].status = "firing"
      BY <1>1, <2>4, NewestFires
    <3>2. AlertResolvedTx(a)
      BY <1>3, <2>2, <2>4, <3>1 DEF EvaluateResolves
    <3>3. \A h \in Key : FiringKey(h)' = FiringKey(h) \ {a}
      BY <1>1, <3>2, FiringRemoved
    <3>4. \A h \in Key : h # k => a \notin FiringKey(h)
      BY <3>1 DEF FiringKey
    <3>5. \A h \in Key : (h = k => FiringKey(h)' = {}) /\ (h # k => FiringKey(h)' = FiringKey(h))
      <4> SUFFICES ASSUME NEW h \in Key
                   PROVE  (h = k => FiringKey(h)' = {}) /\ (h # k => FiringKey(h)' = FiringKey(h))
        OBVIOUS
      <4>1. FiringKey(h)' = FiringKey(h) \ {a}
        BY <3>3
      <4>2. h = k => FiringKey(h) = {a}
        BY <3>1
      <4>3. h # k => FiringKey(h) \ {a} = FiringKey(h)
        BY <3>4
      <4> QED BY <4>1, <4>2, <4>3
    <3> QED BY <1>3, <2>2, <3>5
  <2> QED BY <2>3, <2>4
<1>4. ASSUME UNCHANGED alerts PROVE \A k \in Key : FiringKey(k)' = FiringKey(k)
  BY <1>4 DEF FiringKey
<1>5. CASE Tick \/ Skip \/ EvaluateQuietly \/ EvaluateConflicts \/ EvaluateFails \/ Purge
            \/ UNCHANGED allVars
  <2>1. UNCHANGED alerts
    BY <1>5 DEF Tick, Skip, EvaluateQuietly, EvaluateConflicts, EvaluateFails, Purge, PurgeEvent,
                allVars, tables
  <2> QED BY <1>2, <1>3, <1>4, <2>1
<1>6. CASE Operate \/ Restart
  <2>1. UNCHANGED alerts \/ Recover \/ \E a \in DOMAIN alerts : CleanupAlert(a)
    BY <1>6 DEF Operate, Observe, Administer, Silence, UpdateRule, EvaluatorCleanup, Restart, tables
  <2>2. \A k \in Key : FiringKey(k)' = FiringKey(k)
    BY <1>1, <1>4, <2>1, FiringUndisturbed
  <2> QED BY <1>2, <1>3, <2>2
<1> QED BY <1>2, <1>3, <1>5, <1>6 DEF AlertingNext, Evaluate

\* What a step does to the lifecycle states.
LEMMA StateStep ==
    ASSUME AlertingTypeOK, [AlertingNext]_allVars
    PROVE  \/ Tick
           \/ Evaluating /\ Store /\ (EvaluateTriggers \/ EvaluateResolves \/ EvaluateQuietly)
           \/ ~Tick /\ ~EvaluateTriggers /\ ~EvaluateResolves /\ UNCHANGED <<state, quiet>>
<1>1. CASE EvaluateTriggers \/ EvaluateResolves \/ EvaluateQuietly
  BY <1>1 DEF EvaluateTriggers, EvaluateResolves, EvaluateQuietly
<1>2. CASE Skip \/ EvaluateConflicts \/ EvaluateFails \/ Purge \/ Operate \/ Restart \/ UNCHANGED allVars
  <2>1. UNCHANGED <<state, quiet>>
    BY <1>2 DEF Skip, EvaluateConflicts, EvaluateFails, Purge, PurgeEvent, Operate, Observe, Administer,
                Silence, UpdateRule, EvaluatorCleanup, Restart, allVars, evaluator
  <2> QED BY <1>1, <2>1
<1> QED BY <1>1, <1>2 DEF AlertingNext, Evaluate

\* The evaluator keeps its types.
LEMMA AlertingTypeStep ==
    ASSUME AlertingTypeOK, PhaseMatchesAlerts, [AlertingNext]_allVars
    PROVE  AlertingTypeOK'
<1>1. TypeOK /\ TypeOK'
  <2>1. TypeOK
    BY DEF AlertingTypeOK
  <2>2. UNCHANGED tables => TypeOK'
    BY <2>1 DEF TypeOK, tables
  <2> QED BY <2>1, <2>2, TableStep, TypeStep
<1>2. state' \in [Key -> State]
  <2>1. CASE Tick
    <3>1. state' = [k \in Key |-> Aged(state[k])]
      BY <2>1 DEF Tick
    <3>2. \A k \in Key : Aged(state[k]) \in State
      BY AgedFacts DEF AlertingTypeOK
    <3> QED BY <3>1, <3>2
  <2> QED BY <2>1, StateStep, Stores DEF AlertingTypeOK
<1>3. quiet' \in [Key -> 0..Horizon]
  <2>1. CASE Tick
    <3>1. quiet' = [k \in Key |-> Older(quiet[k])]
      BY <2>1 DEF Tick
    <3>2. \A k \in Key : Older(quiet[k]) \in 0..Horizon
      BY OlderFacts DEF AlertingTypeOK
    <3> QED BY <3>1, <3>2
  <2>2. CASE EvaluateResolves
    <3>1. quiet' = [quiet EXCEPT ![Key0] = 0]
      BY <2>2 DEF EvaluateResolves
    <3>2. quiet \in [Key -> 0..Horizon] /\ 0 \in 0..Horizon
      BY HorizonAssumption DEF AlertingTypeOK
    <3> HIDE DEF Key0
    <3> QED BY <3>1, <3>2
  <2>3. CASE UNCHANGED quiet
    BY <2>3 DEF AlertingTypeOK
  <2>4. EvaluateTriggers \/ EvaluateQuietly => UNCHANGED quiet
    BY DEF EvaluateTriggers, EvaluateQuietly
  <2> QED BY <2>1, <2>2, <2>3, <2>4, StateStep
<1>4. events' \subseteq DOMAIN alerts'
  <2>1. events \subseteq DOMAIN alerts
    BY DEF AlertingTypeOK
  <2>2. CASE EvaluateTriggers
    <3>1. PICK k \in Key, sev \in Severity : k = Key0 /\ sev = Rule[Key0].severity
      BY <2>2, TriggersFire
    <3>2. AlertFiredTx(k, sev)
      BY <2>2, <3>1, TriggersFire
    <3>3. DOMAIN alerts \cup {Len(alerts) + 1} = DOMAIN alerts'
      BY <1>1, <3>2, FiringAdded
    <3> QED BY <2>1, <2>2, <3>3 DEF EvaluateTriggers
  <2>3. CASE EvaluateResolves
    <3>1. PICK k \in Key : k = Key0
      BY <2>3, EvaluationFacts DEF EvaluateResolves
    <3>2. CASE FiringKey(k) = {}
      BY <2>1, <2>3, <3>1, <3>2 DEF EvaluateResolves, tables
    <3>3. CASE FiringKey(k) # {}
      <4>1. PICK a \in DOMAIN alerts : a = Newest(FiringKey(k))
        BY <1>1, <3>3, NewestFires
      <4>2. AlertResolvedTx(a) /\ events' = events \cup {a}
        BY <2>3, <3>1, <3>3, <4>1 DEF EvaluateResolves
      <4>3. DOMAIN alerts' = DOMAIN alerts
        BY <1>1, <4>2, FiringRemoved
      <4> QED BY <2>1, <4>2, <4>3
    <3> QED BY <3>2, <3>3
  <2>4. CASE Tick \/ Skip \/ EvaluateQuietly \/ EvaluateConflicts \/ EvaluateFails \/ Purge
              \/ UNCHANGED allVars
    BY <2>1, <2>4 DEF Tick, Skip, EvaluateQuietly, EvaluateConflicts, EvaluateFails, Purge, PurgeEvent,
                      allVars, tables, evaluator
  <2>5. CASE Operate \/ Restart
    <3>1. /\ UNCHANGED alerts \/ Recover \/ \E a \in DOMAIN alerts : CleanupAlert(a)
          /\ UNCHANGED events
      BY <2>5 DEF Operate, Observe, Administer, Silence, UpdateRule, EvaluatorCleanup, Restart, tables,
                  evaluator
    <3>2. DOMAIN alerts' = DOMAIN alerts
      BY <1>1, <3>1, FiringUndisturbed
    <3> QED BY <2>1, <3>1, <3>2
  <2> QED BY <2>2, <2>3, <2>4, <2>5 DEF AlertingNext, Evaluate
<1>5. /\ enabled' \in [Key -> BOOLEAN] /\ silence' \in [Key -> 0..Horizon]
      /\ observed' \in [DOMAIN Slot -> Observation]
  <2>1. /\ enabled \in [Key -> BOOLEAN] /\ silence \in [Key -> 0..Horizon]
        /\ observed \in [DOMAIN Slot -> Observation]
    BY DEF AlertingTypeOK
  <2>2. CASE Tick
    <3>1. /\ UNCHANGED <<enabled, observed>>
          /\ silence' = [k \in Key |-> IF silence[k] = 0 THEN 0 ELSE silence[k] - 1]
      BY <2>2 DEF Tick
    <3>2. \A k \in Key : (IF silence[k] = 0 THEN 0 ELSE silence[k] - 1) \in 0..Horizon
      BY <2>1, HorizonAssumption
    <3> QED BY <2>1, <3>1, <3>2
  <2>3. CASE Operate
    <3>1. \/ UNCHANGED <<enabled, silence, observed>>
          \/ /\ UNCHANGED <<enabled, silence>>
             /\ \E j \in DOMAIN Slot, o \in Observation : observed' = [observed EXCEPT ![j] = o]
          \/ /\ UNCHANGED <<enabled, observed>>
             /\ \E k \in Key, t \in SilenceTime : silence' = [silence EXCEPT ![k] = t]
          \/ /\ UNCHANGED <<silence, observed>>
             /\ \E k \in Key, on \in BOOLEAN : enabled' = [enabled EXCEPT ![k] = on]
      BY <2>3 DEF Operate, Observe, Administer, Silence, UpdateRule, EvaluatorCleanup, evaluator
    <3> QED BY <2>1, <3>1, SilenceAssumption
  <2>4. CASE Evaluate \/ Purge \/ Restart \/ UNCHANGED allVars
    <3>1. UNCHANGED <<enabled, silence, observed>>
      BY <2>4 DEF Evaluate, Skip, EvaluateQuietly, EvaluateTriggers, EvaluateResolves,
                  EvaluateConflicts, EvaluateFails, Purge, PurgeEvent, Restart, allVars, evaluator
    <3> QED BY <2>1, <3>1
  <2> QED BY <2>2, <2>3, <2>4 DEF AlertingNext
<1>6. next' \in 0..Len(Slot)
  <2>1. Len(Slot) \in Nat /\ next \in 0..Len(Slot)
    BY SlotAssumption DEF AlertingTypeOK
  <2>2. \/ next' = next \/ next' = 0
        \/ next # 0 /\ Advanced
        \/ next' = IF Len(Slot) = 0 THEN 0 ELSE 1
    BY DEF AlertingNext, Tick, Evaluate, Skip, EvaluateQuietly, EvaluateTriggers, EvaluateResolves,
           EvaluateConflicts, EvaluateFails, Evaluating, Purge, PurgeEvent, Restart, Operate, Observe,
           Administer, Silence, UpdateRule, EvaluatorCleanup, allVars, evaluator
  <2> QED BY <2>1, <2>2, Advances
<1>7. faultsUsed' \in Nat
  <2>1. faultsUsed' = faultsUsed \/ faultsUsed' = faultsUsed + 1
    BY DEF AlertingNext, Tick, Evaluate, Skip, EvaluateQuietly, EvaluateTriggers, EvaluateResolves,
           EvaluateConflicts, EvaluateFails, Purge, PurgeEvent, Restart, Operate, Observe,
           Administer, Silence, UpdateRule, EvaluatorCleanup, allVars, evaluator
  <2>2. faultsUsed \in Nat
    BY DEF AlertingTypeOK
  <2> QED BY <2>1, <2>2
<1> QED BY <1>1, <1>2, <1>3, <1>4, <1>5, <1>6, <1>7 DEF AlertingTypeOK

-----------------------------------------------------------------------------
(* The lifecycle state, the alerts and the cooldown. *)

\* The lifecycle state and the alerts table agree after a step too.
LEMMA PhaseStep ==
    ASSUME AlertingTypeOK, PhaseMatchesAlerts, [AlertingNext]_allVars
    PROVE  PhaseMatchesAlerts'
<1>1. \A k \in Key : /\ state[k].phase \in Raised <=> FiringKey(k) # {}
                     /\ \A a, b \in FiringKey(k) : a = b
  BY DEF PhaseMatchesAlerts, Raised
<1>2. ASSUME \A k \in Key : /\ state'[k].phase \in Raised <=> FiringKey(k)' # {}
                            /\ \A a, b \in FiringKey(k)' : a = b
      PROVE  PhaseMatchesAlerts'
  BY <1>2 DEF PhaseMatchesAlerts, Raised
<1>3. CASE EvaluateTriggers
  <2>1. Evaluating /\ Store /\ Transition.what = "triggered"
    BY <1>3 DEF EvaluateTriggers
  <2>2. /\ state'[Key0].phase \in Raised
        /\ \A k \in Key : k # Key0 => state'[k] = state[k]
    BY <2>1, EvaluationFacts, Stores
  <2>3. \A k \in Key : /\ k = Key0 => FiringKey(k)' = {Len(alerts) + 1}
                       /\ k # Key0 => FiringKey(k)' = FiringKey(k)
    BY <1>3, FiringStep DEF EvaluateTriggers, EvaluateResolves
  <2> QED BY <1>1, <1>2, <2>2, <2>3
<1>4. CASE EvaluateResolves
  <2>1. Evaluating /\ Store /\ Transition.what = "resolved"
    BY <1>4 DEF EvaluateResolves
  <2>2. /\ state'[Key0].phase \notin Raised
        /\ \A k \in Key : k # Key0 => state'[k] = state[k]
    BY <2>1, EvaluationFacts, Stores
  <2>3. \A k \in Key : /\ k = Key0 => FiringKey(k)' = {}
                       /\ k # Key0 => FiringKey(k)' = FiringKey(k)
    BY <1>4, FiringStep DEF EvaluateTriggers, EvaluateResolves
  <2> QED BY <1>1, <1>2, <2>2, <2>3
<1>5. CASE ~EvaluateTriggers /\ ~EvaluateResolves
  <2>1. \A k \in Key : FiringKey(k)' = FiringKey(k)
    BY <1>5, FiringStep
  <2>2. \A k \in Key : state'[k].phase \in Raised <=> state[k].phase \in Raised
    <3>1. CASE Tick
      BY <3>1, AgedFacts DEF Tick, AlertingTypeOK
    <3>2. CASE Evaluating /\ Store /\ EvaluateQuietly
      <4>1. Transition.what \in {"none", "repeated"}
        BY <3>2 DEF EvaluateQuietly
      <4>2. /\ state'[Key0].phase \in Raised <=> state[Key0].phase \in Raised
            /\ \A k \in Key : k # Key0 => state'[k] = state[k]
        BY <3>2, <4>1, EvaluationFacts, Stores
      <4> QED BY <4>2
    <3> QED BY <1>5, <3>1, <3>2, StateStep
  <2> QED BY <1>1, <1>2, <2>1, <2>2
<1> QED BY <1>3, <1>4, <1>5

\* What is left of the cooldown of a condition that is not raised, and the time
\* since its last alert resolved, make up the whole cooldown.
CooldownInd ==
    \A k \in Key : state[k].phase \notin Raised
        => quiet[k] + state[k].cooldown >= Rule[k].cooldown

\* Cooldowns run for their whole time.
LEMMA CooldownStep ==
    ASSUME AlertingTypeOK, CooldownInd, [AlertingNext]_allVars
    PROVE  CooldownInd'
<1>1. ASSUME NEW k \in Key
      PROVE  /\ state[k] \in State /\ state[k].cooldown \in 0..Horizon
             /\ quiet[k] \in 0..Horizon /\ Rule[k].cooldown \in 0..Horizon
             /\ state[k].phase \notin Raised => quiet[k] + state[k].cooldown >= Rule[k].cooldown
  <2>1. state[k] \in State /\ quiet[k] \in 0..Horizon
    BY DEF AlertingTypeOK
  <2>2. Rule[k] \in [trigger : 0..Horizon, recovery : 0..Horizon, cooldown : 0..Horizon,
                     repeat : 0..Horizon, severity : Severity]
    BY RuleAssumption
  <2> QED BY <2>1, <2>2 DEF State, CooldownInd
<1>2. CASE Tick
  <2> SUFFICES ASSUME NEW k \in Key, state'[k].phase \notin Raised
               PROVE  quiet'[k] + state'[k].cooldown >= Rule[k].cooldown
    BY DEF CooldownInd
  <2>1. state'[k] = Aged(state[k]) /\ quiet'[k] = Older(quiet[k])
    BY <1>2 DEF Tick
  <2>2. /\ state'[k].phase = state[k].phase
        /\ state'[k].cooldown = IF state[k].cooldown = 0 THEN 0 ELSE state[k].cooldown - 1
    BY <1>1, <2>1, AgedFacts
  <2>3. quiet'[k] = Horizon \/ quiet'[k] = quiet[k] + 1
    BY <1>1, <2>1, OlderFacts
  <2>4. quiet[k] + state[k].cooldown >= Rule[k].cooldown
    BY <1>1, <2>2
  <2> QED BY <1>1, <2>2, <2>3, <2>4, HorizonAssumption
<1>3. CASE EvaluateResolves
  <2>1. /\ Evaluating /\ Store /\ Transition.what = "resolved"
        /\ quiet' = [quiet EXCEPT ![Key0] = 0]
    BY <1>3 DEF EvaluateResolves
  <2>2. /\ Key0 \in Key /\ state'[Key0].cooldown = Rule[Key0].cooldown
        /\ \A k \in Key : k # Key0 => state'[k] = state[k]
    BY <2>1, EvaluationFacts, Stores
  <2>3. quiet'[Key0] = 0 /\ \A k \in Key : k # Key0 => quiet'[k] = quiet[k]
    <3> HIDE DEF Key0
    <3> QED BY <2>1, <2>2 DEF AlertingTypeOK
  <2>4. PICK h \in Key : h = Key0
    BY <2>2
  <2> HIDE DEF Key0
  <2>5. quiet'[h] + state'[h].cooldown >= Rule[h].cooldown
    BY <1>1, <2>2, <2>3, <2>4, HorizonAssumption
  <2>6. ASSUME NEW k \in Key, k # h, state'[k].phase \notin Raised
        PROVE  quiet'[k] + state'[k].cooldown >= Rule[k].cooldown
    BY <1>1, <2>2, <2>3, <2>4, <2>6
  <2> QED BY <2>5, <2>6 DEF CooldownInd
<1>4. CASE Evaluating /\ Store /\ (EvaluateTriggers \/ EvaluateQuietly)
  <2>1. UNCHANGED quiet /\ Transition.what \in {"none", "repeated", "triggered"}
    BY <1>4 DEF EvaluateTriggers, EvaluateQuietly
  <2>2. /\ state'[Key0].phase \notin Raised =>
              state[Key0].phase \notin Raised /\ state'[Key0].cooldown = state[Key0].cooldown
        /\ \A k \in Key : k # Key0 => state'[k] = state[k]
    BY <1>4, <2>1, EvaluationFacts, Stores
  <2> SUFFICES ASSUME NEW k \in Key, state'[k].phase \notin Raised
               PROVE  quiet'[k] + state'[k].cooldown >= Rule[k].cooldown
    BY DEF CooldownInd
  <2>3. state[k].phase \notin Raised /\ state'[k].cooldown = state[k].cooldown
    BY <2>2
  <2> QED BY <1>1, <2>1, <2>3
<1>5. CASE UNCHANGED <<state, quiet>>
  BY <1>5 DEF CooldownInd
<1> QED BY <1>2, <1>3, <1>4, <1>5, StateStep

\* The database as the evaluator finds it.
LEMMA AlertingStart ==
    ASSUME AlertingInit
    PROVE  Init /\ AlertingTypeOK /\ PhaseMatchesAlerts /\ CooldownInd
<1>1. Init /\ TypeOK
  BY TypeInit DEF AlertingInit
<1>2. /\ Healthy \in State /\ Fired \in State /\ Healthy.phase \notin Raised /\ Fired.phase \in Raised
      /\ Healthy.cooldown = 0
  BY HorizonAssumption DEF Healthy, Fired, State, Phase, Raised
<1>3. \A k \in Key : state[k] = IF FiringKey(k) = {} THEN Healthy ELSE Fired
  BY DEF AlertingInit
<1>4. state \in [Key -> State]
  BY <1>2 DEF AlertingInit
<1>5. AlertingTypeOK
  <2>1. /\ events \subseteq DOMAIN alerts /\ enabled \in [Key -> BOOLEAN]
        /\ observed \in [DOMAIN Slot -> Observation]
    BY DEF AlertingInit
  <2>2. /\ silence \in [Key -> 0..Horizon] /\ quiet \in [Key -> 0..Horizon]
    BY HorizonAssumption DEF AlertingInit
  <2>3. next \in 0..Len(Slot) /\ faultsUsed \in Nat
    BY SlotAssumption DEF AlertingInit
  <2> QED BY <1>1, <1>4, <2>1, <2>2, <2>3 DEF AlertingTypeOK
<1>6. PhaseMatchesAlerts
  <2>1. \A k \in Key : \A a, b \in FiringKey(k) : a = b
    BY <1>1, InitAlerts DEF FiringKey
  <2>2. \A k \in Key : state[k].phase \in {"firing", "recovering"} <=> FiringKey(k) # {}
    BY <1>2, <1>3 DEF Raised
  <2> QED BY <2>1, <2>2 DEF PhaseMatchesAlerts
<1>7. CooldownInd
  <2> SUFFICES ASSUME NEW k \in Key, state[k].phase \notin Raised
               PROVE  quiet[k] + state[k].cooldown >= Rule[k].cooldown
    BY DEF CooldownInd
  <2>1. state[k].cooldown = 0 /\ quiet[k] = Horizon
    BY <1>2, <1>3 DEF AlertingInit
  <2>2. Rule[k].cooldown \in 0..Horizon
    BY RuleAssumption
  <2> QED BY <2>1, <2>2, HorizonAssumption
<1> QED BY <1>1, <1>5, <1>6, <1>7

-----------------------------------------------------------------------------
\* The lifecycle state of every condition agrees with the alerts table between any
\* two transactions (alerts/evaluator.go: evaluate, Tick): a condition has exactly
\* one firing alert while its phase is firing or recovering, through conflicts on
\* the event's key, failed passes, restarts, silences and retention.
THEOREM AlertingHolds == AlertingSpec => []AlertingInv
<1>1. AlertingInit => AlertingTypeOK /\ PhaseMatchesAlerts
  BY AlertingStart
<1>2. /\ AlertingTypeOK /\ PhaseMatchesAlerts
      /\ [AlertingNext]_allVars
      => (AlertingTypeOK /\ PhaseMatchesAlerts)'
  BY AlertingTypeStep, PhaseStep
<1> QED BY <1>1, <1>2, PTL DEF AlertingSpec, AlertingInv

\* The evaluator implements the specification of the incident tables: it never
\* raises an alert for a condition that has one, and resolves only alerts that fire,
\* so that all that module Notifications proves of incidents and deliveries holds
\* when the evaluator drives them.
THEOREM EvaluatorImplements == AlertingSpec => Spec
<1>1. AlertingInit => Init
  BY AlertingStart
<1>2. AlertingInv /\ [AlertingNext]_allVars => [Next]_tables
  BY TableStep DEF AlertingInv
<1> QED BY <1>1, <1>2, AlertingHolds, PTL DEF AlertingSpec, Spec

\* No alert is raised before its rule's cooldown is over (alerts/state.go: Advance
\* keeps cooldown_until through pending and healthy phases), however often the
\* condition flips meanwhile.
THEOREM CooldownsHold == AlertingSpec => CooldownHolds
<1> DEFINE Inv == AlertingTypeOK /\ PhaseMatchesAlerts /\ CooldownInd
           Held == \A k \in Key : FiringKey(k) = {} /\ FiringKey(k)' # {}
                                       => quiet[k] >= Rule[k].cooldown
<1>1. AlertingInit => Inv
  BY AlertingStart
<1>2. Inv /\ [AlertingNext]_allVars => Inv'
  BY AlertingTypeStep, PhaseStep, CooldownStep
<1>3. Inv /\ [AlertingNext]_allVars => [Held]_allVars
  <2> SUFFICES ASSUME Inv, [AlertingNext]_allVars,
                      NEW k \in Key, FiringKey(k) = {}, FiringKey(k)' # {}
               PROVE  quiet[k] >= Rule[k].cooldown
    OBVIOUS
  <2>1. EvaluateTriggers /\ k = Key0
    BY FiringStep
  <2>2. Evaluating /\ Transition.what = "triggered"
    BY <2>1 DEF EvaluateTriggers
  <2>3. state[k].phase \notin Raised /\ state[k].cooldown = 0
    BY <2>1, <2>2, EvaluationFacts
  <2>4. quiet[k] \in 0..Horizon /\ Rule[k].cooldown \in 0..Horizon
    BY RuleAssumption DEF AlertingTypeOK
  <2>5. quiet[k] + state[k].cooldown >= Rule[k].cooldown
    BY <2>3 DEF CooldownInd
  <2> QED BY <2>3, <2>4, <2>5
<1> QED BY <1>1, <1>2, <1>3, PTL DEF AlertingSpec, CooldownHolds

-----------------------------------------------------------------------------
(* The inductive invariant. *)

Busy(w) == worker[w].at # "idle"
Exists(id) == id \in DeliveryId /\ id[1] \in Channel /\ id[2] \in DOMAIN deliveries[id[1]]

\* The ids in memory are ids of rows.
RowsExist ==
    /\ \A id \in batch \cup queued : Exists(id)
    /\ \A w \in Worker : Busy(w) => Exists(worker[w].id)

\* The dispatcher's set holds every id that is in the queue or with a goroutine,
\* and no id is in two of those places.
Tracked ==
    /\ \A i \in DOMAIN queue : queue[i] \in queued
    /\ \A i, j \in DOMAIN queue : queue[i] = queue[j] => i = j
    /\ \A w \in Worker : Busy(w) =>
          /\ worker[w].id \in queued
          /\ \A i \in DOMAIN queue : queue[i] # worker[w].id
    /\ \A v, w \in Worker : Busy(v) /\ Busy(w) /\ worker[v].id = worker[w].id => v = w

\* A row that a goroutine has claimed stays in progress until that goroutine
\* settles it.
HeldInProgress == \A w \in Worker : Holding(w) => Row(worker[w].id).status = "in_progress"

\* The memory of a process that does not run is empty.
StoppedEmpty ==
    ~running => batch = {} /\ queue = <<>> /\ queued = {} /\ \A w \in Worker : ~Busy(w)

\* The stranded rows can be counted.
OrphansFinite == running => IsFiniteSet(Orphans)

\* The inductive invariant.
WorkerInd ==
    /\ WorkerTypeOK /\ SerialClaims
    /\ RowsExist /\ Tracked /\ HeldInProgress /\ StoppedEmpty
    /\ OrphansFinite /\ StrandedOnlyByFaults

-----------------------------------------------------------------------------
(* What the steps do to the rows. *)

\* No row is claimed or settled: rows come in progress only by a claim, leave it
\* only when they are settled, and a cancelled row stays so until it is deleted.
Quiet ==
    \A b \in Channel :
        /\ DOMAIN deliveries[b] \subseteq DOMAIN deliveries'[b]
        /\ \A m \in DOMAIN deliveries[b] :
              /\ deliveries'[b][m].status = "in_progress" <=> deliveries[b][m].status = "in_progress"
              /\ deliveries[b][m].status = "cancelled" => deliveries'[b][m].status \in {"cancelled", "deleted"}
        /\ \A m \in DOMAIN deliveries'[b] \ DOMAIN deliveries[b] : deliveries'[b][m].status # "in_progress"

\* Growing the tables is quiet.
LEMMA GrowQuiet ==
    ASSUME NEW i, NEW event, GrowStep(i, event)
    PROVE  Quiet
<1>1. \A b \in Channel : Grown(deliveries[b], deliveries'[b], i, event)
  BY DEF GrowStep
<1>2. ASSUME NEW b \in Channel, NEW m \in DOMAIN deliveries[b]
      PROVE  SameRow(deliveries[b][m], deliveries'[b][m])
  BY <1>1 DEF Grown
<1>3. ASSUME NEW b \in Channel, NEW m \in DOMAIN deliveries'[b] \ DOMAIN deliveries[b]
      PROVE  deliveries'[b][m].status # "in_progress"
  BY <1>1, NewRowStatus DEF Grown
<1>4. \A b \in Channel : DOMAIN deliveries[b] \subseteq DOMAIN deliveries'[b]
  BY <1>1 DEF Grown
<1> QED BY <1>2, <1>3, <1>4 DEF Quiet, SameRow

\* Rewriting one row is quiet when it is not in progress, before or after.
LEMMA PointQuiet ==
    ASSUME NEW c \in Channel, NEW n \in DOMAIN deliveries[c], PointStep(c, n),
           deliveries[c][n].status # "in_progress", deliveries'[c][n].status # "in_progress",
           deliveries[c][n].status = "cancelled" => deliveries'[c][n].status \in {"cancelled", "deleted"}
    PROVE  Quiet
  BY DEF PointStep, Quiet

\* Alerts, the administrator, the clock and retention are quiet.
LEMMA QuietSteps ==
    ASSUME TypeOK,
           \/ AlertStep \/ AdminStep
           \/ \E a \in DOMAIN alerts : CleanupAlert(a)
           \/ \E c \in Channel : \E n \in DOMAIN deliveries[c] : BecomeDue(c, n)
           \/ \E g \in Group : ScheduleReminders(g)
           \/ \E c \in Channel : \E n \in DOMAIN deliveries[c] : CleanupDelivery(c, n)
           \/ \E g \in Group : \E n \in DOMAIN incidents[g] : CleanupIncident(g, n)
    PROVE  Quiet
<1>1. UNCHANGED deliveries => Quiet
  BY DEF Quiet
<1>2. ASSUME NEW k \in Key, NEW s \in Severity, Fire(k, s) PROVE Quiet
  BY <1>2, FiredEffect, GrowQuiet DEF Fire
<1>3. ASSUME NEW a \in DOMAIN alerts, Resolve(a) PROVE Quiet
  <2>1. UNCHANGED deliveries \/ \E i, event : GrowStep(i, event)
    BY <1>3, ResolvedEffect DEF Resolve
  <2> QED BY <1>1, <2>1, GrowQuiet
<1>4. ASSUME NEW c \in Channel, NEW f \in ChannelConfig, CreateChannel(c, f) \/ PatchChannel(c, f)
      PROVE  Quiet
  <2>1. UNCHANGED deliveries \/ deliveries' = CancelPending(c)
    BY <1>4 DEF CreateChannel, PatchChannel
  <2> QED BY <1>1, <2>1, CancelPendingEffect, GrowQuiet
<1>5. ASSUME NEW c \in Channel, DeleteChannel(c) PROVE Quiet
  BY <1>5, CancelPendingEffect, GrowQuiet DEF DeleteChannel
<1>6. ASSUME NEW c \in Channel, Test(c) PROVE Quiet
  BY <1>6, TestEffect, GrowQuiet
<1>7. ASSUME NEW c \in Channel, NEW n \in DOMAIN deliveries[c],
             Retry(c, n) \/ BecomeDue(c, n) \/ CleanupDelivery(c, n)
      PROVE  Quiet
  <2>1. PointStep(c, n) /\ deliveries[c][n] \in DeliveryRow
    BY <1>7, RowActionEffect DEF RowAction, TypeOK
  <2>2. CASE Retry(c, n)
    <3> DEFINE row == [deliveries[c][n] EXCEPT !.status = "pending", !.attempts = 0, !.due = TRUE]
    <3>1. row \in DeliveryRow /\ row.status = "pending"
      BY <2>1 DEF DeliveryRow
    <3>2. deliveries' = [deliveries EXCEPT ![c][n] = row]
      BY <2>2 DEF Retry
    <3> HIDE DEF row
    <3>3. deliveries'[c][n].status = "pending"
      BY <3>1, <3>2, PointUpdate
    <3> QED BY <2>1, <2>2, <3>3, PointQuiet DEF Retry
  <2>3. CASE BecomeDue(c, n)
    <3> DEFINE row == [deliveries[c][n] EXCEPT !.due = TRUE]
    <3>1. row \in DeliveryRow /\ row.status = deliveries[c][n].status
      BY <2>1 DEF DeliveryRow
    <3>2. deliveries' = [deliveries EXCEPT ![c][n] = row]
      BY <2>3 DEF BecomeDue
    <3> HIDE DEF row
    <3>3. deliveries'[c][n].status = deliveries[c][n].status
      BY <3>1, <3>2, PointUpdate
    <3> QED BY <2>1, <2>3, <3>3, PointQuiet DEF BecomeDue
  <2>4. CASE CleanupDelivery(c, n)
    <3> DEFINE new == NewRow(NoIncident, "test")
               row == [new EXCEPT !.status = "deleted"]
    <3>1. new \in DeliveryRow
      BY NewRowType DEF Reference, Event
    <3>2. deliveries' = [deliveries EXCEPT ![c][n] = row]
      BY <2>4 DEF CleanupDelivery
    <3> HIDE DEF new
    <3>3. row \in DeliveryRow /\ row.status = "deleted"
      BY <3>1 DEF DeliveryRow
    <3> HIDE DEF row
    <3>4. deliveries'[c][n].status = "deleted"
      BY <3>2, <3>3, PointUpdate
    <3> QED BY <2>1, <2>4, <3>4, PointQuiet DEF CleanupDelivery, Completed
  <2> QED BY <1>7, <2>2, <2>3, <2>4
<1>8. ASSUME NEW a \in DOMAIN alerts, CleanupAlert(a) PROVE Quiet
  BY <1>1, <1>8 DEF CleanupAlert
<1>9. ASSUME NEW g \in Group, ScheduleReminders(g) PROVE Quiet
  BY <1>9, RemindersEffect, GrowQuiet
<1>10. ASSUME NEW g \in Group, NEW n \in DOMAIN incidents[g], CleanupIncident(g, n) PROVE Quiet
  BY <1>10, CleanupIncidentEffect DEF Quiet, BulkStep
<1> QED BY <1>2, <1>3, <1>4, <1>5, <1>6, <1>7, <1>8, <1>9, <1>10, Zenon DEF AlertStep, AdminStep

\* A claim puts its row, which was waiting, in progress.
LEMMA ClaimEffect ==
    ASSUME TypeOK, NEW c \in Channel, NEW n \in DOMAIN deliveries[c], ClaimRow(c, n)
    PROVE  /\ PointStep(c, n) /\ deliveries'[c][n].status = "in_progress"
           /\ deliveries[c][n].status = "pending"
<1>1. PointStep(c, n) /\ deliveries[c][n] \in DeliveryRow
  BY RowActionEffect DEF RowAction, TypeOK
<1> DEFINE row == [deliveries[c][n] EXCEPT !.status = "in_progress"]
<1>2. row \in DeliveryRow /\ row.status = "in_progress"
  BY <1>1 DEF DeliveryRow
<1>3. deliveries' = [deliveries EXCEPT ![c][n] = row]
  BY DEF ClaimRow
<1> HIDE DEF row
<1>4. deliveries'[c][n].status = "in_progress"
  BY <1>2, <1>3, PointUpdate
<1> QED BY <1>1, <1>4 DEF ClaimRow, Claimable

\* finish takes its row out of progress.
LEMMA FinishEffect ==
    ASSUME TypeOK, NEW c \in Channel, NEW n \in DOMAIN deliveries[c],
           ClaimError(c, n) \/ \E o \in Outcome : Settle(c, n, o)
    PROVE  PointStep(c, n) /\ deliveries'[c][n].status # "in_progress"
<1>1. PointStep(c, n) /\ deliveries[c][n] \in DeliveryRow
  BY RowActionEffect DEF RowAction, TypeOK
<1>2. PICK o \in Outcome : FinishRow(c, n, o)
  BY DEF ClaimError, Settle, Outcome
<1> DEFINE row == FinishedRow(deliveries[c][n], o)
<1>3. row \in DeliveryRow /\ row.status # "in_progress"
  BY <1>1, FinishedRowFacts
<1>4. deliveries' = [deliveries EXCEPT ![c][n] = row]
  BY <1>2 DEF FinishRow
<1> HIDE DEF row
<1>5. deliveries'[c][n].status # "in_progress"
  BY <1>3, <1>4, PointUpdate
<1> QED BY <1>1, <1>5

-----------------------------------------------------------------------------
(* The goroutines' steps on the tables are steps of module Notifications. *)

\* A busy goroutine's id is the id of a row.
LEMMA IdOf ==
    ASSUME WorkerInd, NEW w \in Worker, Busy(w)
    PROVE  \E c \in Channel : \E n \in DOMAIN deliveries[c] :
              worker[w].id = <<c, n>> /\ worker[w].id[1] = c /\ worker[w].id[2] = n
  BY DEF WorkerInd, RowsExist, Exists, DeliveryId

\* The cases of Claim.
LEMMA ClaimCases ==
    ASSUME WorkerInd, NEW w \in Worker, Claim(w)
    PROVE  \E c \in Channel : \E n \in DOMAIN deliveries[c] :
              /\ worker[w].id = <<c, n>> /\ worker[w].at = "claim"
              /\ \/ /\ ClaimRow(c, n)
                    /\ worker' = [worker EXCEPT ![w].at = "load"]
                    /\ UNCHANGED <<running, batch, queue, queued, faults, restarts>>
                 \/ UNCHANGED <<tables, faults>> /\ Return(w)
                 \/ Fault /\ (ClaimError(c, n) \/ UNCHANGED tables) /\ Return(w)
<1>1. worker[w].at = "claim"
  BY DEF Claim
<1>c. PICK c \in Channel : \E n \in DOMAIN deliveries[c] :
          worker[w].id = <<c, n>> /\ worker[w].id[1] = c /\ worker[w].id[2] = n
  BY <1>1, IdOf DEF Busy
<1>2. PICK n \in DOMAIN deliveries[c] :
          worker[w].id = <<c, n>> /\ worker[w].id[1] = c /\ worker[w].id[2] = n
  BY <1>c
<1>3. \/ /\ ClaimRow(c, n)
         /\ worker' = [worker EXCEPT ![w].at = "load"]
         /\ UNCHANGED <<running, batch, queue, queued, faults, restarts>>
      \/ UNCHANGED <<tables, faults>> /\ Return(w)
      \/ Fault /\ (ClaimError(c, n) \/ UNCHANGED tables) /\ Return(w)
  BY <1>2 DEF Claim
<1> QED BY <1>1, <1>2, <1>3

\* The cases of Load.
LEMMA LoadCases ==
    ASSUME WorkerInd, NEW w \in Worker, Load(w)
    PROVE  \E c \in Channel : \E n \in DOMAIN deliveries[c] :
              /\ worker[w].id = <<c, n>> /\ worker[w].at = "load"
              /\ \/ /\ worker' = [worker EXCEPT ![w].at = "send"]
                    /\ UNCHANGED <<tables, running, batch, queue, queued, faults, restarts>>
                 \/ Settle(c, n, "permanent") /\ Return(w) /\ UNCHANGED faults
                 \/ Fault /\ Return(w) /\ UNCHANGED tables
<1>1. worker[w].at = "load"
  BY DEF Load
<1>c. PICK c \in Channel : \E n \in DOMAIN deliveries[c] :
          worker[w].id = <<c, n>> /\ worker[w].id[1] = c /\ worker[w].id[2] = n
  BY <1>1, IdOf DEF Busy
<1>2. PICK n \in DOMAIN deliveries[c] :
          worker[w].id = <<c, n>> /\ worker[w].id[1] = c /\ worker[w].id[2] = n
  BY <1>c
<1>3. \/ /\ worker' = [worker EXCEPT ![w].at = "send"]
         /\ UNCHANGED <<tables, running, batch, queue, queued, faults, restarts>>
      \/ Settle(c, n, "permanent") /\ Return(w) /\ UNCHANGED faults
      \/ Fault /\ Return(w) /\ UNCHANGED tables
  BY <1>2 DEF Load
<1> QED BY <1>1, <1>2, <1>3

\* The cases of Finish.
LEMMA FinishCases ==
    ASSUME WorkerInd, NEW w \in Worker, Finish(w)
    PROVE  \E c \in Channel : \E n \in DOMAIN deliveries[c] : \E o \in Outcome :
              /\ worker[w].id = <<c, n>> /\ worker[w].at = "finish" /\ Return(w)
              /\ \/ Settle(c, n, o) /\ UNCHANGED faults
                 \/ Fault /\ UNCHANGED tables
<1>1. worker[w].at = "finish" /\ Return(w)
  BY DEF Finish
<1>c. PICK c \in Channel : \E n \in DOMAIN deliveries[c] :
          worker[w].id = <<c, n>> /\ worker[w].id[1] = c /\ worker[w].id[2] = n
  BY <1>1, IdOf DEF Busy
<1>2. PICK n \in DOMAIN deliveries[c] :
          worker[w].id = <<c, n>> /\ worker[w].id[1] = c /\ worker[w].id[2] = n
  BY <1>c
<1>3. PICK o \in Outcome : o = worker[w].outcome
  BY DEF WorkerInd, WorkerTypeOK, WorkerState
<1>4. (Settle(c, n, o) /\ UNCHANGED faults) \/ (Fault /\ UNCHANGED tables)
  BY <1>2, <1>3 DEF Finish
<1> QED BY <1>1, <1>2, <1>3, <1>4

\* Every step is a transaction of module Notifications, or leaves the tables alone.
LEMMA TablesStep ==
    ASSUME WorkerInd, [WorkerNext]_vars
    PROVE  [Next]_tables
<1>1. CASE UNCHANGED vars
  BY <1>1 DEF vars
<1>2. CASE Environment
  BY <1>2, Zenon DEF Environment, Next, MaintenanceStep, DeliveryStep
<1>3. CASE Start
  BY <1>3 DEF Start, Next
<1>4. CASE Halt \/ Dispatch
  BY <1>4 DEF Halt, Dispatch, Select, EnqueueDue
<1>5. CASE Maintain
  BY <1>5, Zenon DEF Maintain, Next, MaintenanceStep
<1>6. ASSUME NEW w \in Worker, Deliver(w)
      PROVE  [Next]_tables
  <2>1. CASE Take(w)
    BY <2>1 DEF Take
  <2>2. CASE Claim(w)
    <3>1. UNCHANGED tables \/ \E c \in Channel : \E n \in DOMAIN deliveries[c] : ClaimRow(c, n) \/ ClaimError(c, n)
      BY <2>2, ClaimCases, Zenon
    <3> QED BY <3>1, Zenon DEF Next, DeliveryStep
  <2>3. CASE Load(w)
    <3>1. "permanent" \in Outcome
      BY DEF Outcome
    <3>2. UNCHANGED tables \/ \E c \in Channel : \E n \in DOMAIN deliveries[c] : Settle(c, n, "permanent")
      <4>1. UNCHANGED <<tables, running, batch, queue, queued, faults, restarts>> => UNCHANGED tables
        OBVIOUS
      <4> QED BY <2>3, <4>1, LoadCases, Zenon
    <3> QED BY <3>1, <3>2, Zenon DEF Next, DeliveryStep
  <2>4. CASE \E o \in Outcome : Send(w, o)
    BY <2>4 DEF Send
  <2>5. CASE Finish(w)
    <3>1. UNCHANGED tables \/ \E c \in Channel : \E n \in DOMAIN deliveries[c] : \E o \in Outcome : Settle(c, n, o)
      BY <2>5, FinishCases, Zenon
    <3> QED BY <3>1, Zenon DEF Next, DeliveryStep
  <2> QED BY <1>6, <2>1, <2>2, <2>3, <2>4, <2>5 DEF Deliver
<1> QED BY <1>1, <1>2, <1>3, <1>4, <1>5, <1>6 DEF WorkerNext

\* So the tables keep their types and their serial claims.
LEMMA TablesKept ==
    ASSUME WorkerInd, [WorkerNext]_vars
    PROVE  TypeOK' /\ SerialClaims'
<1>1. TypeOK /\ SerialClaims /\ [Next]_tables
  BY TablesStep DEF WorkerInd, WorkerTypeOK
<1>2. CASE Next
  BY <1>1, <1>2, TypeStep, SerialClaimsStep
<1>3. CASE UNCHANGED tables
  BY <1>1, <1>3 DEF tables, TypeOK, SerialClaims
<1> QED BY <1>1, <1>2, <1>3

-----------------------------------------------------------------------------
(* Counting the stranded rows. *)

\* A row is stranded when it is in progress and no goroutine holds it.
Stranded(c, n) ==
    /\ deliveries[c][n].status = "in_progress"
    /\ \A w \in Worker : Holding(w) => worker[w].id # <<c, n>>

\* The stranded rows after a step are stranded before it, but for those in S.
LEMMA OrphansWithin ==
    ASSUME NEW S,
           \A c \in Channel : \A n \in DOMAIN deliveries'[c] :
              Stranded(c, n)' => (n \in DOMAIN deliveries[c] /\ Stranded(c, n)) \/ <<c, n>> \in S
    PROVE  Orphans' \subseteq Orphans \cup S
<1> SUFFICES ASSUME NEW id \in Orphans', id \notin S PROVE id \in Orphans
  OBVIOUS
<1>c. PICK c \in Channel : \E n \in DOMAIN deliveries'[c] : id = <<c, n>>
  BY DEF Orphans
<1>1. PICK n \in DOMAIN deliveries'[c] : id = <<c, n>>
  BY <1>c
<1>2. Stranded(c, n)'
  BY <1>1 DEF Orphans, Row, Stranded
<1>3. n \in DOMAIN deliveries[c] /\ Stranded(c, n)
  BY <1>1, <1>2
<1> QED BY <1>1, <1>3 DEF Orphans, Row, Stranded

\* No more rows are stranded than before: the count stays within the errors.
LEMMA StillCounted ==
    ASSUME WorkerInd, running, faults' \in Nat, faults' >= faults, Orphans' \subseteq Orphans
    PROVE  IsFiniteSet(Orphans') /\ Cardinality(Orphans') =< faults'
<1>1. IsFiniteSet(Orphans) /\ Cardinality(Orphans) =< faults /\ faults \in Nat
  BY DEF WorkerInd, OrphansFinite, StrandedOnlyByFaults, WorkerTypeOK
<1>2. PICK S, T : S = Orphans /\ T = Orphans'
  OBVIOUS
<1>3. IsFiniteSet(T) /\ Cardinality(T) =< Cardinality(S) /\ Cardinality(S) \in Nat /\ Cardinality(T) \in Nat
  BY <1>1, <1>2, FS_Subset, FS_CardinalityType
<1>4. Cardinality(T) =< faults'
  BY <1>1, <1>2, <1>3
<1> QED BY <1>2, <1>3, <1>4

\* A storage error may strand one row more.
LEMMA OneMoreCounted ==
    ASSUME WorkerInd, running, faults' = faults + 1, NEW x, Orphans' \subseteq Orphans \cup {x}
    PROVE  IsFiniteSet(Orphans') /\ Cardinality(Orphans') =< faults'
<1>1. IsFiniteSet(Orphans) /\ Cardinality(Orphans) =< faults /\ faults \in Nat
  BY DEF WorkerInd, OrphansFinite, StrandedOnlyByFaults, WorkerTypeOK
<1>2. PICK S, T : S = Orphans /\ T = Orphans'
  OBVIOUS
<1>3. IsFiniteSet(S \cup {x}) /\ Cardinality(S \cup {x}) =< Cardinality(S) + 1 /\ Cardinality(S) \in Nat
  <2>1. IsFiniteSet(S) /\ Cardinality(S) \in Nat
    BY <1>1, <1>2, FS_CardinalityType
  <2> QED BY <2>1, FS_AddElement
<1>4. IsFiniteSet(T) /\ Cardinality(T) =< Cardinality(S \cup {x}) /\ Cardinality(T) \in Nat
      /\ Cardinality(S \cup {x}) \in Nat
  BY <1>2, <1>3, FS_Subset, FS_CardinalityType
<1>5. Cardinality(S) =< faults
  BY <1>1, <1>2
<1>6. Cardinality(T) =< faults + 1
  BY <1>1, <1>3, <1>4, <1>5
<1> QED BY <1>2, <1>4, <1>6

-----------------------------------------------------------------------------
(* Steps that leave the goroutines where they are. *)

\* Steps of the rest of the system.
LEMMA QuietKeeps ==
    ASSUME WorkerInd, [WorkerNext]_vars, Quiet, UNCHANGED <<memory, faults, restarts>>
    PROVE  WorkerInd'
<1> USE DEF WorkerInd
<1>1. TypeOK' /\ SerialClaims'
  BY TablesKept
<1>2. /\ UNCHANGED <<running, batch, queue, queued, worker>>
      /\ UNCHANGED faults /\ UNCHANGED restarts
  BY DEF memory
<1>3. WorkerTypeOK'
  BY <1>1, <1>2 DEF WorkerTypeOK
<1>4. ASSUME NEW id, Exists(id)
      PROVE  Exists(id)' /\ (Row(id).status = "in_progress" => Row(id)'.status = "in_progress")
  BY <1>4 DEF Exists, Quiet, Row
<1>5. RowsExist'
  BY <1>2, <1>4 DEF RowsExist, Busy
<1>6. HeldInProgress'
  <2> SUFFICES ASSUME NEW w \in Worker, Holding(w)'
               PROVE  Row(worker[w].id)'.status = "in_progress"
    BY DEF HeldInProgress
  <2>1. Holding(w) /\ Busy(w)
    BY <1>2 DEF Holding, Busy
  <2>2. PICK id : id = worker[w].id
    OBVIOUS
  <2>3. Exists(id) /\ Row(id).status = "in_progress"
    BY <2>1, <2>2 DEF RowsExist, HeldInProgress, Row
  <2>4. Row(id)'.status = "in_progress"
    BY <1>4, <2>3
  <2> QED BY <1>2, <2>2, <2>4 DEF Row
<1>7. Tracked' /\ StoppedEmpty'
  BY <1>2 DEF Tracked, StoppedEmpty, Busy
<1>8. Orphans' \subseteq Orphans
  <2>1. \A c \in Channel : \A n \in DOMAIN deliveries'[c] :
           Stranded(c, n)' => (n \in DOMAIN deliveries[c] /\ Stranded(c, n)) \/ <<c, n>> \in {}
    BY <1>2 DEF Stranded, Holding, Quiet
  <2> QED BY <2>1, OrphansWithin
<1>9. OrphansFinite' /\ StrandedOnlyByFaults'
  <2>1. CASE running
    <3>1. faults' \in Nat /\ faults' >= faults
      BY <1>2 DEF WorkerTypeOK
    <3> QED BY <1>8, <2>1, <3>1, StillCounted DEF OrphansFinite, StrandedOnlyByFaults
  <2>2. CASE ~running
    BY <1>2, <2>2 DEF OrphansFinite, StrandedOnlyByFaults
  <2> QED BY <2>1, <2>2
<1> QED BY <1>1, <1>3, <1>5, <1>6, <1>7, <1>9

\* A step that leaves the tables alone is quiet.
LEMMA SameQuiet ==
    ASSUME UNCHANGED tables
    PROVE  Quiet
  BY DEF tables, Quiet

\* The worker starts: no row is in progress any more.
LEMMA StartKeeps ==
    ASSUME WorkerInd, [WorkerNext]_vars, Start
    PROVE  WorkerInd'
<1> USE DEF WorkerInd
<1>1. TypeOK' /\ SerialClaims' /\ TypeOK
  BY TablesKept DEF WorkerTypeOK
<1>2. /\ ~running /\ running' = TRUE /\ restarts' = restarts + 1
      /\ UNCHANGED <<batch, queue, queued, worker, faults>> /\ Recover
  BY DEF Start
<1>3. batch = {} /\ queue = <<>> /\ queued = {} /\ \A w \in Worker : ~Busy(w)
  BY <1>2 DEF StoppedEmpty
<1>4. WorkerTypeOK'
  <2>1. restarts' \in Nat
    BY <1>2 DEF WorkerTypeOK
  <2>2. running' \in BOOLEAN
    BY <1>2
  <2> QED BY <1>1, <1>2, <2>1, <2>2 DEF WorkerTypeOK
<1>5. RowsExist' /\ Tracked' /\ HeldInProgress' /\ StoppedEmpty'
  BY <1>2, <1>3 DEF RowsExist, Tracked, HeldInProgress, StoppedEmpty, Busy, Holding
<1>6. \A c \in Channel : /\ DOMAIN deliveries'[c] = DOMAIN deliveries[c]
                         /\ \A n \in DOMAIN deliveries[c] : deliveries'[c][n].status # "in_progress"
  BY <1>1, <1>2, RecoverEffect DEF BulkStep
<1>7. Orphans' = {}
  BY <1>6 DEF Orphans, Row
<1>8. IsFiniteSet({}) /\ Cardinality({}) = 0 /\ faults' \in Nat
  BY <1>2, FS_EmptySet DEF WorkerTypeOK
<1>9. IsFiniteSet(Orphans') /\ Cardinality(Orphans') =< faults'
  BY <1>7, <1>8
<1> QED BY <1>1, <1>4, <1>5, <1>9 DEF OrphansFinite, StrandedOnlyByFaults

\* An idle goroutine is a goroutine.
LEMMA IdleTyped == Idle \in WorkerState /\ Idle.at = "idle"
  BY DEF Idle, WorkerState, Outcome

\* The process stops: its memory is gone.
LEMMA HaltKeeps ==
    ASSUME WorkerInd, [WorkerNext]_vars, Halt
    PROVE  WorkerInd'
<1> USE DEF WorkerInd
<1>1. TypeOK' /\ SerialClaims'
  BY TablesKept
<1>2. running' = FALSE /\ batch' = {} /\ queue' = <<>> /\ queued' = {} /\ UNCHANGED <<faults, restarts>>
  BY DEF Halt
<1>3. worker' \in [Worker -> WorkerState] /\ \A w \in Worker : worker'[w].at = "idle"
  BY IdleTyped DEF Halt
<1>4. WorkerTypeOK'
  <2>1. running' \in BOOLEAN
    BY <1>2
  <2>2. queue' \in Seq(DeliveryId)
    BY <1>2
  <2> QED BY <1>1, <1>2, <1>3, <2>1, <2>2 DEF WorkerTypeOK
<1>5. RowsExist' /\ HeldInProgress' /\ StoppedEmpty'
  BY <1>2, <1>3 DEF RowsExist, HeldInProgress, StoppedEmpty, Busy, Holding
<1>6. Tracked'
  BY <1>2, <1>3 DEF Tracked, Busy
<1> QED BY <1>1, <1>2, <1>4, <1>5, <1>6 DEF OrphansFinite, StrandedOnlyByFaults

\* Steps that change neither the tables nor which rows are held keep the part of
\* the invariant that is about the rows.
LEMMA MemoryKeeps ==
    ASSUME WorkerInd, [WorkerNext]_vars, UNCHANGED <<tables, running, faults>>,
           WorkerTypeOK', RowsExist', Tracked', StoppedEmpty',
           \A w \in Worker : (Holding(w)' <=> Holding(w)) /\ (Holding(w) => worker'[w].id = worker[w].id)
    PROVE  WorkerInd'
<1> USE DEF WorkerInd
<1>1. TypeOK' /\ SerialClaims'
  BY TablesKept
<1>2. UNCHANGED deliveries /\ UNCHANGED running /\ UNCHANGED faults
  BY DEF tables
<1>3. HeldInProgress'
  BY <1>2 DEF HeldInProgress, Row
<1>4. Orphans' \subseteq Orphans
  <2>1. \A c \in Channel : \A n \in DOMAIN deliveries'[c] :
           Stranded(c, n)' => (n \in DOMAIN deliveries[c] /\ Stranded(c, n)) \/ <<c, n>> \in {}
    BY <1>2 DEF Stranded
  <2> QED BY <2>1, OrphansWithin
<1>5. OrphansFinite' /\ StrandedOnlyByFaults'
  <2>1. CASE running
    <3>1. faults' \in Nat /\ faults' >= faults
      BY <1>2 DEF WorkerTypeOK
    <3> QED BY <1>4, <2>1, <3>1, StillCounted DEF OrphansFinite, StrandedOnlyByFaults
  <2>2. CASE ~running
    BY <1>2, <2>2 DEF OrphansFinite, StrandedOnlyByFaults
  <2> QED BY <2>1, <2>2
<1> QED BY <1>1, <1>3, <1>5

\* The dispatcher selects rows that exist.
LEMMA SelectKeeps ==
    ASSUME WorkerInd, [WorkerNext]_vars, Select
    PROVE  WorkerInd'
<1> USE DEF WorkerInd
<1>1. running /\ UNCHANGED <<tables, running, queue, queued, worker, faults, restarts>> /\ batch' \subseteq Due
  BY DEF Select
<1>2. \A id \in Due : Exists(id)
  <2>1. \A c \in Channel : DOMAIN deliveries[c] \subseteq Nat
    BY DEF WorkerTypeOK, TypeOK
  <2> QED BY <2>1 DEF Due, Exists, DeliveryId
<1>3. UNCHANGED deliveries
  BY <1>1 DEF tables
<1>4. TypeOK'
  BY TablesKept
<1>5. WorkerTypeOK'
  BY <1>1, <1>2, <1>4 DEF WorkerTypeOK, Exists
<1>6. RowsExist'
  BY <1>1, <1>2, <1>3 DEF RowsExist, Exists, Busy
<1>7. Tracked' /\ StoppedEmpty'
  BY <1>1 DEF Tracked, StoppedEmpty, Busy
<1> QED BY <1>1, <1>5, <1>6, <1>7, MemoryKeeps DEF Holding

\* An id is queued only when it is neither in the queue nor with a goroutine.
LEMMA EnqueueKeeps ==
    ASSUME WorkerInd, [WorkerNext]_vars, NEW id \in batch, EnqueueDue(id)
    PROVE  WorkerInd'
<1> USE DEF WorkerInd
<1>1. UNCHANGED <<tables, running, worker, faults, restarts>> /\ batch' = batch \ {id}
  BY DEF EnqueueDue
<1>2. UNCHANGED deliveries
  BY <1>1 DEF tables
<1>3. TypeOK'
  BY TablesKept
<1>4. CASE UNCHANGED <<queue, queued>>
  <2>1. WorkerTypeOK'
    BY <1>1, <1>3, <1>4 DEF WorkerTypeOK
  <2>2. RowsExist'
    BY <1>1, <1>2, <1>4 DEF RowsExist, Exists, Busy
  <2>3. Tracked'
    BY <1>1, <1>4 DEF Tracked, Busy
  <2>4. StoppedEmpty'
    BY <1>1, <1>4 DEF StoppedEmpty, Busy
  <2> QED BY <1>1, <2>1, <2>2, <2>3, <2>4, MemoryKeeps DEF Holding
<1>5. CASE id \notin queued /\ queue' = Append(queue, id) /\ queued' = queued \cup {id}
  <2>1. id \in DeliveryId /\ queue \in Seq(DeliveryId) /\ running
    BY DEF WorkerTypeOK, StoppedEmpty
  <2>2. /\ queue' \in Seq(DeliveryId)
        /\ \A i \in DOMAIN queue' : IF i \in DOMAIN queue THEN queue'[i] = queue[i]
                                    ELSE i = Len(queue) + 1 /\ queue'[i] = id
    BY <1>5, <2>1
  <2>3. WorkerTypeOK'
    BY <1>1, <1>3, <1>5, <2>1, <2>2 DEF WorkerTypeOK
  <2>4. RowsExist'
    BY <1>1, <1>2, <1>5 DEF RowsExist, Exists, Busy
  <2>5. \A i \in DOMAIN queue : queue[i] # id
    BY <1>5 DEF Tracked
  <2>6. \A w \in Worker : Busy(w) => worker[w].id # id
    BY <1>5 DEF Tracked
  <2>7. Tracked'
    BY <1>1, <1>5, <2>2, <2>5, <2>6 DEF Tracked, Busy
  <2>8. StoppedEmpty'
    BY <1>1, <2>1 DEF StoppedEmpty
  <2> QED BY <1>1, <2>3, <2>4, <2>7, <2>8, MemoryKeeps DEF Holding
<1> QED BY <1>4, <1>5 DEF EnqueueDue

\* Placing one goroutine.
LEMMA PlaceWorker ==
    ASSUME WorkerInd, NEW w \in Worker, NEW q \in WorkerState, worker' = [worker EXCEPT ![w] = q]
    PROVE  worker' \in [Worker -> WorkerState] /\ worker'[w] = q /\ \A v \in Worker \ {w} : worker'[v] = worker[v]
  BY DEF WorkerInd, WorkerTypeOK

\* A goroutine takes the id at the head of the queue.
LEMMA TakeKeeps ==
    ASSUME WorkerInd, [WorkerNext]_vars, NEW w \in Worker, Take(w)
    PROVE  WorkerInd'
<1> USE DEF WorkerInd
<1>1. UNCHANGED <<tables, running, batch, queued, faults, restarts>> /\ worker[w].at = "idle"
      /\ queue # <<>> /\ queue' = Tail(queue)
  BY DEF Take
<1>2. UNCHANGED deliveries
  BY <1>1 DEF tables
<1>3. TypeOK'
  BY TablesKept
<1>4. PICK id \in DeliveryId : id = Head(queue)
  BY <1>1 DEF WorkerTypeOK
<1>5. /\ queue \in Seq(DeliveryId) /\ queue' \in Seq(DeliveryId)
      /\ 1 \in DOMAIN queue /\ queue[1] = id
      /\ \A i \in DOMAIN queue' : i + 1 \in DOMAIN queue /\ i + 1 # 1 /\ queue'[i] = queue[i + 1]
  BY <1>1, <1>4 DEF WorkerTypeOK
<1> DEFINE q == [Idle EXCEPT !.at = "claim", !.id = id]
<1>6. q \in WorkerState /\ q.at = "claim" /\ q.id = id
  BY DEF Idle, WorkerState, Outcome
<1>7. worker' = [worker EXCEPT ![w] = q]
  BY <1>4 DEF Take, At
<1> HIDE DEF q
<1>8. /\ worker' \in [Worker -> WorkerState] /\ worker'[w].at = "claim" /\ worker'[w].id = id
      /\ \A v \in Worker \ {w} : worker'[v] = worker[v]
  BY <1>6, <1>7, PlaceWorker
<1>9. id \in queued /\ running
  <2>1. id \in queued
    BY <1>5 DEF Tracked
  <2> QED BY <2>1 DEF StoppedEmpty
<1>10. WorkerTypeOK'
  BY <1>1, <1>3, <1>5, <1>8 DEF WorkerTypeOK
<1>11. RowsExist'
  BY <1>1, <1>2, <1>8, <1>9 DEF RowsExist, Exists, Busy
<1>12. \A i \in DOMAIN queue' : queue'[i] # id /\ queue'[i] \in queued
  BY <1>5 DEF Tracked
<1>13. \A i, j \in DOMAIN queue' : queue'[i] = queue'[j] => i = j
  <2> SUFFICES ASSUME NEW i \in DOMAIN queue', NEW j \in DOMAIN queue', queue'[i] = queue'[j]
               PROVE  i = j
    OBVIOUS
  <2>1. i + 1 = j + 1
    BY <1>5 DEF Tracked
  <2>2. i \in Nat /\ j \in Nat
    BY <1>5
  <2> QED BY <2>1, <2>2
<1>14. \A v \in Worker \ {w} : Busy(v) =>
          worker[v].id \in queued /\ worker[v].id # id /\ \A i \in DOMAIN queue' : queue'[i] # worker[v].id
  BY <1>5 DEF Tracked
<1>15. Tracked'
  <2>1. \A v \in Worker : Busy(v)' =>
           worker'[v].id \in queued' /\ \A i \in DOMAIN queue' : queue'[i] # worker'[v].id
    BY <1>1, <1>8, <1>9, <1>12, <1>14 DEF Busy
  <2>2. \A u, v \in Worker : Busy(u)' /\ Busy(v)' /\ worker'[u].id = worker'[v].id => u = v
    BY <1>8, <1>14 DEF Tracked, Busy
  <2> QED BY <1>1, <1>12, <1>13, <2>1, <2>2 DEF Tracked
<1>16. StoppedEmpty'
  BY <1>1, <1>9 DEF StoppedEmpty
<1>17. \A v \in Worker : (Holding(v)' <=> Holding(v)) /\ (Holding(v) => worker'[v].id = worker[v].id)
  BY <1>1, <1>8 DEF Holding
<1> QED BY <1>1, <1>10, <1>11, <1>15, <1>16, <1>17, MemoryKeeps

\* A goroutine that goes on with its row keeps it.
LEMMA MovesOn ==
    ASSUME WorkerInd, [WorkerNext]_vars, NEW w \in Worker, NEW q \in WorkerState,
           worker' = [worker EXCEPT ![w] = q], q.id = worker[w].id, Holding(w),
           q.at \in {"load", "send", "finish"},
           UNCHANGED <<tables, running, batch, queue, queued, faults, restarts>>
    PROVE  WorkerInd'
<1> USE DEF WorkerInd
<1>1. /\ worker' \in [Worker -> WorkerState] /\ worker'[w] = q
      /\ \A v \in Worker \ {w} : worker'[v] = worker[v]
  BY PlaceWorker
<1>2. UNCHANGED deliveries
  BY DEF tables
<1>3. TypeOK'
  BY TablesKept
<1>4. \A v \in Worker : /\ worker'[v].id = worker[v].id
                        /\ Busy(v)' <=> Busy(v)
                        /\ Holding(v)' <=> Holding(v)
  BY <1>1 DEF Busy, Holding
<1>5. WorkerTypeOK'
  BY <1>1, <1>3 DEF WorkerTypeOK
<1>6. RowsExist' /\ Tracked'
  BY <1>2, <1>4 DEF RowsExist, Exists, Tracked
<1>7. StoppedEmpty'
  BY <1>4 DEF StoppedEmpty
<1> QED BY <1>4, <1>5, <1>6, <1>7, MemoryKeeps

-----------------------------------------------------------------------------
(* Steps that take a row into progress or out of it. *)

\* Rewriting one row leaves the ids of rows.
LEMMA PointExists ==
    ASSUME NEW c \in Channel, NEW n \in DOMAIN deliveries[c], PointStep(c, n)
    PROVE  /\ \A id : Exists(id)' <=> Exists(id)
           /\ \A id : Exists(id) /\ id # <<c, n>> => deliveries'[id[1]][id[2]] = deliveries[id[1]][id[2]]
  BY DEF PointStep, Exists, DeliveryId

\* The claim puts a row in progress, in the hands of the goroutine that claimed it.
LEMMA ClaimedKeeps ==
    ASSUME WorkerInd, [WorkerNext]_vars, NEW w \in Worker, NEW c \in Channel, NEW n \in DOMAIN deliveries[c],
           worker[w].id = <<c, n>>, worker[w].at = "claim", ClaimRow(c, n),
           worker' = [worker EXCEPT ![w].at = "load"],
           UNCHANGED <<running, batch, queue, queued, faults, restarts>>
    PROVE  WorkerInd'
<1> USE DEF WorkerInd
<1>1. TypeOK' /\ SerialClaims' /\ TypeOK /\ running
  BY TablesKept DEF WorkerTypeOK, StoppedEmpty, Busy
<1>2. PointStep(c, n) /\ deliveries'[c][n].status = "in_progress"
  BY <1>1, ClaimEffect
<1>3. /\ \A id : Exists(id)' <=> Exists(id)
      /\ \A id : Exists(id) /\ id # <<c, n>> => deliveries'[id[1]][id[2]] = deliveries[id[1]][id[2]]
  BY <1>2, PointExists
<1> DEFINE q == [worker[w] EXCEPT !.at = "load"]
<1>4. q \in WorkerState /\ q.at = "load" /\ q.id = worker[w].id
  BY DEF WorkerTypeOK, WorkerState
<1>5. worker' = [worker EXCEPT ![w] = q]
  OBVIOUS
<1> HIDE DEF q
<1>6. /\ worker' \in [Worker -> WorkerState] /\ worker'[w].at = "load"
      /\ \A v \in Worker \ {w} : worker'[v] = worker[v]
      /\ \A v \in Worker : worker'[v].id = worker[v].id
  BY <1>4, <1>5, PlaceWorker
<1>7. \A v \in Worker : Busy(v)' <=> Busy(v)
  BY <1>6 DEF Busy
<1>8. WorkerTypeOK'
  BY <1>1, <1>6 DEF WorkerTypeOK
<1>9. RowsExist'
  BY <1>3, <1>6, <1>7 DEF RowsExist
<1>10. Tracked'
  BY <1>6, <1>7 DEF Tracked
<1>11. StoppedEmpty'
  BY <1>1 DEF StoppedEmpty
<1>12. HeldInProgress'
  <2> SUFFICES ASSUME NEW v \in Worker, Holding(v)'
               PROVE  Row(worker[v].id)'.status = "in_progress"
    BY DEF HeldInProgress
  <2>1. CASE v = w
    BY <1>2, <1>6, <2>1 DEF Row
  <2>2. CASE v # w
    <3>1. Holding(v) /\ Busy(v) /\ Busy(w)
      BY <1>6, <2>2 DEF Holding, Busy
    <3>2. PICK id : id = worker[v].id
      OBVIOUS
    <3>3. Exists(id) /\ id # <<c, n>> /\ deliveries[id[1]][id[2]].status = "in_progress"
      BY <2>2, <3>1, <3>2 DEF RowsExist, Tracked, HeldInProgress, Row
    <3>4. deliveries'[id[1]][id[2]].status = "in_progress"
      BY <1>3, <3>3
    <3> QED BY <1>6, <3>2, <3>4 DEF Row
  <2> QED BY <2>1, <2>2
<1>13. Orphans' \subseteq Orphans
  <2>1. ASSUME NEW b \in Channel, NEW m \in DOMAIN deliveries'[b], Stranded(b, m)'
        PROVE  m \in DOMAIN deliveries[b] /\ Stranded(b, m)
    <3>1. <<b, m>> # <<c, n>>
      BY <1>6, <2>1 DEF Stranded, Holding
    <3>2. m \in DOMAIN deliveries[b] /\ deliveries'[b][m] = deliveries[b][m]
      BY <1>2, <2>1, <3>1 DEF PointStep
    <3>3. \A v \in Worker : Holding(v) => Holding(v)'
      BY <1>6 DEF Holding
    <3> QED BY <1>6, <2>1, <3>2, <3>3 DEF Stranded
  <2>2. \A b \in Channel : \A m \in DOMAIN deliveries'[b] :
           Stranded(b, m)' => (m \in DOMAIN deliveries[b] /\ Stranded(b, m)) \/ <<b, m>> \in {}
    BY <2>1
  <2> QED BY <2>2, OrphansWithin
<1>14. faults' \in Nat /\ faults' >= faults
  BY DEF WorkerTypeOK
<1>15. OrphansFinite' /\ StrandedOnlyByFaults'
  BY <1>1, <1>13, <1>14, StillCounted DEF OrphansFinite, StrandedOnlyByFaults
<1> QED BY <1>1, <1>8, <1>9, <1>10, <1>11, <1>12, <1>15

\* A goroutine returns: it leaves a row in progress only after a storage error.
LEMMA ReturnKeeps ==
    ASSUME WorkerInd, [WorkerNext]_vars, NEW w \in Worker, NEW c \in Channel, NEW n \in DOMAIN deliveries[c],
           worker[w].id = <<c, n>>, Busy(w), Return(w), faults' = faults \/ faults' = faults + 1,
           UNCHANGED deliveries \/ (PointStep(c, n) /\ deliveries'[c][n].status # "in_progress"),
           \/ faults' = faults + 1
           \/ worker[w].at = "claim"
           \/ deliveries'[c][n].status # "in_progress"
    PROVE  WorkerInd'
<1> USE DEF WorkerInd
<1>1. TypeOK' /\ SerialClaims' /\ TypeOK /\ running
  BY TablesKept DEF WorkerTypeOK, StoppedEmpty
<1>2. /\ \A id : Exists(id)' <=> Exists(id)
      /\ \A id : Exists(id) /\ id # <<c, n>> => deliveries'[id[1]][id[2]] = deliveries[id[1]][id[2]]
  <2>1. CASE UNCHANGED deliveries
    BY <2>1 DEF Exists
  <2>2. CASE PointStep(c, n)
    BY <2>2, PointExists
  <2> QED BY <2>1, <2>2
<1>3. /\ worker' = [worker EXCEPT ![w] = Idle] /\ queued' = queued \ {<<c, n>>}
      /\ UNCHANGED <<running, batch, queue, restarts>>
  BY DEF Return
<1>4. /\ worker' \in [Worker -> WorkerState] /\ worker'[w].at = "idle"
      /\ \A v \in Worker \ {w} : worker'[v] = worker[v]
  BY <1>3, IdleTyped, PlaceWorker
<1>5. faults' \in Nat /\ faults' >= faults
  BY DEF WorkerTypeOK
<1>6. WorkerTypeOK'
  BY <1>1, <1>3, <1>4, <1>5 DEF WorkerTypeOK
<1>7. \A v \in Worker : Busy(v)' => v # w /\ Busy(v) /\ worker'[v] = worker[v] /\ worker[v].id # <<c, n>>
  BY <1>4 DEF Busy, Tracked
<1>8. RowsExist'
  BY <1>2, <1>3, <1>7 DEF RowsExist
<1>9. Tracked'
  <2>1. \A i \in DOMAIN queue : queue[i] \in queued /\ queue[i] # <<c, n>>
    BY DEF Tracked
  <2> QED BY <1>3, <1>7, <2>1 DEF Tracked
<1>10. StoppedEmpty'
  BY <1>1, <1>3 DEF StoppedEmpty
<1>11. HeldInProgress'
  <2> SUFFICES ASSUME NEW v \in Worker, Holding(v)'
               PROVE  Row(worker[v].id)'.status = "in_progress"
    BY DEF HeldInProgress
  <2>1. Busy(v)'
    BY DEF Holding, Busy
  <2>2. v # w /\ Busy(v) /\ worker'[v] = worker[v] /\ worker[v].id # <<c, n>>
    BY <1>7, <2>1
  <2>3. Holding(v)
    BY <2>2 DEF Holding
  <2>4. PICK id : id = worker[v].id
    OBVIOUS
  <2>5. Exists(id) /\ id # <<c, n>> /\ deliveries[id[1]][id[2]].status = "in_progress"
    BY <2>2, <2>3, <2>4 DEF RowsExist, HeldInProgress, Row
  <2>6. deliveries'[id[1]][id[2]].status = "in_progress"
    BY <1>2, <2>5
  <2> QED BY <2>2, <2>4, <2>6 DEF Row
<1>12. ASSUME NEW b \in Channel, NEW m \in DOMAIN deliveries'[b], Stranded(b, m)', <<b, m>> # <<c, n>>
       PROVE  m \in DOMAIN deliveries[b] /\ Stranded(b, m)
  <2>1. m \in DOMAIN deliveries[b] /\ deliveries'[b][m] = deliveries[b][m]
    BY <1>12 DEF PointStep
  <2>2. \A v \in Worker : Holding(v) => v = w \/ (Holding(v)' /\ worker'[v].id = worker[v].id)
    BY <1>4 DEF Holding
  <2> QED BY <1>12, <2>1, <2>2 DEF Stranded
<1>13. CASE faults' = faults + 1
  <2>1. Orphans' \subseteq Orphans \cup {<<c, n>>}
    <3>1. \A b \in Channel : \A m \in DOMAIN deliveries'[b] :
             Stranded(b, m)' => (m \in DOMAIN deliveries[b] /\ Stranded(b, m)) \/ <<b, m>> \in {<<c, n>>}
      BY <1>12
    <3> QED BY <3>1, OrphansWithin
  <2>2. IsFiniteSet(Orphans') /\ Cardinality(Orphans') =< faults'
    BY <1>1, <1>13, <2>1, OneMoreCounted
  <2> QED BY <1>1, <1>6, <1>8, <1>9, <1>10, <1>11, <2>2 DEF OrphansFinite, StrandedOnlyByFaults
<1>14. CASE worker[w].at = "claim" \/ deliveries'[c][n].status # "in_progress"
  <2>1. ASSUME Stranded(c, n)'
        PROVE  Stranded(c, n)
    <3>1. worker[w].at = "claim" /\ UNCHANGED deliveries
      BY <1>14, <2>1 DEF Stranded
    <3>2. \A v \in Worker : Holding(v) => (Holding(v)' /\ worker'[v].id = worker[v].id)
      BY <1>4, <3>1 DEF Holding
    <3> QED BY <2>1, <3>1, <3>2 DEF Stranded
  <2>2. Orphans' \subseteq Orphans
    <3>1. \A b \in Channel : \A m \in DOMAIN deliveries'[b] :
             Stranded(b, m)' => (m \in DOMAIN deliveries[b] /\ Stranded(b, m)) \/ <<b, m>> \in {}
      BY <1>12, <2>1
    <3> QED BY <3>1, OrphansWithin
  <2>3. IsFiniteSet(Orphans') /\ Cardinality(Orphans') =< faults'
    BY <1>1, <1>5, <2>2, StillCounted
  <2> QED BY <1>1, <1>6, <1>8, <1>9, <1>10, <1>11, <2>3 DEF OrphansFinite, StrandedOnlyByFaults
<1> QED BY <1>13, <1>14

\* Every step of a goroutine keeps the invariant.
LEMMA DeliverKeeps ==
    ASSUME WorkerInd, [WorkerNext]_vars, NEW w \in Worker, Deliver(w)
    PROVE  WorkerInd'
<1>1. TypeOK
  BY DEF WorkerInd, WorkerTypeOK
<1>2. UNCHANGED tables => UNCHANGED deliveries
  BY DEF tables
<1>3. CASE Take(w)
  BY <1>3, TakeKeeps
<1>4. CASE Claim(w)
  <2>c. PICK c \in Channel : \E n \in DOMAIN deliveries[c] :
              /\ worker[w].id = <<c, n>> /\ worker[w].at = "claim"
              /\ \/ /\ ClaimRow(c, n)
                    /\ worker' = [worker EXCEPT ![w].at = "load"]
                    /\ UNCHANGED <<running, batch, queue, queued, faults, restarts>>
                 \/ UNCHANGED <<tables, faults>> /\ Return(w)
                 \/ Fault /\ (ClaimError(c, n) \/ UNCHANGED tables) /\ Return(w)
    BY <1>4, ClaimCases
  <2>1. PICK n \in DOMAIN deliveries[c] :
              /\ worker[w].id = <<c, n>> /\ worker[w].at = "claim"
              /\ \/ /\ ClaimRow(c, n)
                    /\ worker' = [worker EXCEPT ![w].at = "load"]
                    /\ UNCHANGED <<running, batch, queue, queued, faults, restarts>>
                 \/ UNCHANGED <<tables, faults>> /\ Return(w)
                 \/ Fault /\ (ClaimError(c, n) \/ UNCHANGED tables) /\ Return(w)
    BY <2>c
  <2>2. CASE /\ ClaimRow(c, n)
             /\ worker' = [worker EXCEPT ![w].at = "load"]
             /\ UNCHANGED <<running, batch, queue, queued, faults, restarts>>
    BY <2>1, <2>2, ClaimedKeeps
  <2>3. CASE UNCHANGED <<tables, faults>> /\ Return(w)
    BY <1>2, <2>1, <2>3, ReturnKeeps DEF Busy
  <2>4. CASE Fault /\ (ClaimError(c, n) \/ UNCHANGED tables) /\ Return(w)
    <3>1. UNCHANGED deliveries \/ (PointStep(c, n) /\ deliveries'[c][n].status # "in_progress")
      BY <1>1, <1>2, <2>4, FinishEffect
    <3>2. faults' = faults + 1
      BY <2>4 DEF Fault
    <3> QED BY <2>1, <2>4, <3>1, <3>2, ReturnKeeps DEF Busy
  <2> QED BY <2>1, <2>2, <2>3, <2>4
<1>5. CASE Load(w)
  <2>c. PICK c \in Channel : \E n \in DOMAIN deliveries[c] :
              /\ worker[w].id = <<c, n>> /\ worker[w].at = "load"
              /\ \/ /\ worker' = [worker EXCEPT ![w].at = "send"]
                    /\ UNCHANGED <<tables, running, batch, queue, queued, faults, restarts>>
                 \/ Settle(c, n, "permanent") /\ Return(w) /\ UNCHANGED faults
                 \/ Fault /\ Return(w) /\ UNCHANGED tables
    BY <1>5, LoadCases
  <2>1. PICK n \in DOMAIN deliveries[c] :
              /\ worker[w].id = <<c, n>> /\ worker[w].at = "load"
              /\ \/ /\ worker' = [worker EXCEPT ![w].at = "send"]
                    /\ UNCHANGED <<tables, running, batch, queue, queued, faults, restarts>>
                 \/ Settle(c, n, "permanent") /\ Return(w) /\ UNCHANGED faults
                 \/ Fault /\ Return(w) /\ UNCHANGED tables
    BY <2>c
  <2>2. CASE /\ worker' = [worker EXCEPT ![w].at = "send"]
             /\ UNCHANGED <<tables, running, batch, queue, queued, faults, restarts>>
    <3> DEFINE q == [worker[w] EXCEPT !.at = "send"]
    <3>1. q \in WorkerState /\ q.at = "send" /\ q.id = worker[w].id
      BY DEF WorkerInd, WorkerTypeOK, WorkerState
    <3>2. worker' = [worker EXCEPT ![w] = q]
      BY <2>2
    <3> HIDE DEF q
    <3>3. Holding(w)
      BY <2>1 DEF Holding
    <3> QED BY <2>2, <3>1, <3>2, <3>3, MovesOn
  <2>3. CASE Settle(c, n, "permanent") /\ Return(w) /\ UNCHANGED faults
    <3>1. PointStep(c, n) /\ deliveries'[c][n].status # "in_progress"
      BY <1>1, <2>3, FinishEffect DEF Outcome
    <3> QED BY <2>1, <2>3, <3>1, ReturnKeeps DEF Busy
  <2>4. CASE Fault /\ Return(w) /\ UNCHANGED tables
    <3>1. faults' = faults + 1
      BY <2>4 DEF Fault
    <3> QED BY <1>2, <2>1, <2>4, <3>1, ReturnKeeps DEF Busy
  <2> QED BY <2>1, <2>2, <2>3, <2>4
<1>6. ASSUME NEW o \in Outcome, Send(w, o)
      PROVE  WorkerInd'
  <2> DEFINE q == [worker[w] EXCEPT !.at = "finish", !.outcome = o]
  <2>1. q \in WorkerState /\ q.at = "finish" /\ q.id = worker[w].id
    BY DEF WorkerInd, WorkerTypeOK, WorkerState
  <2>2. worker' = [worker EXCEPT ![w] = q]
    BY <1>6 DEF Send, WorkerInd, WorkerTypeOK
  <2> HIDE DEF q
  <2>3. Holding(w) /\ UNCHANGED <<tables, running, batch, queue, queued, faults, restarts>>
    BY <1>6 DEF Holding, Send
  <2> QED BY <2>1, <2>2, <2>3, MovesOn
<1>7. CASE Finish(w)
  <2>c. PICK c \in Channel : \E n \in DOMAIN deliveries[c] : \E o \in Outcome :
              /\ worker[w].id = <<c, n>> /\ worker[w].at = "finish" /\ Return(w)
              /\ \/ Settle(c, n, o) /\ UNCHANGED faults
                 \/ Fault /\ UNCHANGED tables
    BY <1>7, FinishCases
  <2>1. PICK n \in DOMAIN deliveries[c] : \E o \in Outcome :
              /\ worker[w].id = <<c, n>> /\ worker[w].at = "finish" /\ Return(w)
              /\ \/ Settle(c, n, o) /\ UNCHANGED faults
                 \/ Fault /\ UNCHANGED tables
    BY <2>c
  <2>2. CASE \E o \in Outcome : Settle(c, n, o) /\ UNCHANGED faults
    <3>1. PointStep(c, n) /\ deliveries'[c][n].status # "in_progress"
      BY <1>1, <2>2, FinishEffect
    <3> QED BY <2>1, <2>2, <3>1, ReturnKeeps DEF Busy
  <2>3. CASE Fault /\ UNCHANGED tables
    <3>1. faults' = faults + 1
      BY <2>3 DEF Fault
    <3> QED BY <1>2, <2>1, <2>3, <3>1, ReturnKeeps DEF Busy
  <2> QED BY <2>1, <2>2, <2>3
<1> QED BY <1>3, <1>4, <1>5, <1>6, <1>7, Zenon DEF Deliver

-----------------------------------------------------------------------------
(* The results. *)

\* Before the first start the worker's memory is empty.
LEMMA WorkerInitHolds == WorkerInit => WorkerInd
<1> SUFFICES ASSUME WorkerInit PROVE WorkerInd
  OBVIOUS
<1>1. Init /\ running = FALSE /\ batch = {} /\ queue = <<>> /\ queued = {} /\ faults = 0 /\ restarts = 0
  BY DEF WorkerInit
<1>2. TypeOK /\ SerialClaims
  BY <1>1, TypeInit DEF Init, SerialClaims
<1>3. worker \in [Worker -> WorkerState] /\ \A w \in Worker : worker[w].at = "idle"
  BY IdleTyped DEF WorkerInit
<1>4. WorkerTypeOK
  <2>1. running \in BOOLEAN
    BY Zenon DEF WorkerInit
  <2>2. queue \in Seq(DeliveryId)
    BY <1>1
  <2> QED BY <1>1, <1>2, <1>3, <2>1, <2>2 DEF WorkerTypeOK
<1>5. RowsExist /\ Tracked /\ HeldInProgress /\ StoppedEmpty
  BY <1>1, <1>3 DEF RowsExist, Tracked, HeldInProgress, StoppedEmpty, Busy, Holding
<1> QED BY <1>1, <1>2, <1>4, <1>5 DEF WorkerInd, OrphansFinite, StrandedOnlyByFaults

\* Every step keeps the invariant.
LEMMA WorkerStep == WorkerInd /\ [WorkerNext]_vars => WorkerInd'
<1> SUFFICES ASSUME WorkerInd, [WorkerNext]_vars PROVE WorkerInd'
  OBVIOUS
<1>1. TypeOK
  BY DEF WorkerInd, WorkerTypeOK
<1>2. CASE UNCHANGED vars
  <2>1. UNCHANGED <<memory, faults, restarts>> /\ UNCHANGED tables
    BY <1>2 DEF vars
  <2> QED BY <2>1, SameQuiet, QuietKeeps
<1>3. CASE Environment
  <2>1. Quiet
    BY <1>1, <1>3, QuietSteps DEF Environment
  <2> QED BY <1>3, <2>1, QuietKeeps DEF Environment
<1>4. CASE Maintain
  <2>1. Quiet
    BY <1>1, <1>4, QuietSteps DEF Maintain
  <2> QED BY <1>4, <2>1, QuietKeeps DEF Maintain
<1>5. CASE Dispatch
  BY <1>5, SelectKeeps, EnqueueKeeps, Zenon DEF Dispatch
<1> QED BY <1>2, <1>3, <1>4, <1>5, StartKeeps, HaltKeeps, DeliverKeeps, Zenon DEF WorkerNext

\* So it always holds.
LEMMA WorkerKept == WorkerSpec => []WorkerInd
  BY WorkerInitHolds, WorkerStep, PTL DEF WorkerSpec

\* Attempts that overlap are for different deliveries, and for different incidents
\* on a channel: rows that goroutines hold are in progress and distinct, and the
\* claim lets one row of an incident be in progress.
LEMMA SerialFollows ==
    ASSUME WorkerInd
    PROVE  SerialSends
<1> SUFFICES ASSUME NEW v \in Worker, NEW w \in Worker, Holding(v), Holding(w), v # w
             PROVE  /\ worker[v].id # worker[w].id
                    /\ (/\ worker[v].id[1] = worker[w].id[1]
                        /\ Row(worker[v].id).incident = Row(worker[w].id).incident)
                          => Row(worker[v].id).incident = NoIncident
  BY DEF SerialSends
<1> USE DEF WorkerInd
<1>1. Busy(v) /\ Busy(w)
  BY DEF Holding, Busy
<1>2. worker[v].id # worker[w].id
  BY <1>1 DEF Tracked
<1>3. PICK x, y : x = worker[v].id /\ y = worker[w].id
  OBVIOUS
<1>4. Exists(x) /\ Exists(y) /\ x # y
  BY <1>1, <1>2, <1>3 DEF RowsExist
<1>5. deliveries[x[1]][x[2]].status = "in_progress" /\ deliveries[y[1]][y[2]].status = "in_progress"
  BY <1>3 DEF HeldInProgress, Row
<1>6. ASSUME x[1] = y[1], deliveries[x[1]][x[2]].incident = deliveries[y[1]][y[2]].incident
      PROVE  deliveries[x[1]][x[2]].incident = NoIncident
  <2>1. x[2] # y[2]
    BY <1>4, <1>6 DEF Exists, DeliveryId
  <2> QED BY <1>4, <1>5, <1>6, <2>1 DEF SerialClaims, Exists
<1> QED BY <1>2, <1>3, <1>6 DEF Row

\* The delivery goroutines (deliver, claim and finish of worker.go): two attempts
\* under way are never for the same delivery or the same incident on a channel,
\* and while the worker runs at most one row per storage error is in progress with
\* nobody working on it, for any number of goroutines and restarts.
THEOREM WorkerHolds == WorkerSpec => []WorkerInv
<1>1. WorkerInd => WorkerInv
  BY SerialFollows DEF WorkerInd, WorkerInv
<1> QED BY <1>1, WorkerKept, PTL

\* The worker uses the outbox as module Notifications specifies: every step of its
\* goroutines on the tables is a transaction of that module, so what is proved of
\* the tables holds with the worker on top (claim, finish and Start of worker.go).
THEOREM WorkerImplements == WorkerSpec => Spec
<1>1. WorkerInit => Init
  BY DEF WorkerInit
<1>2. WorkerInd /\ [WorkerNext]_vars => [Next]_tables
  BY TablesStep
<1> QED BY <1>1, <1>2, WorkerKept, PTL DEF WorkerSpec, Spec

\* A cancelled delivery (CancelRows of a resolution or of a disabled channel) is not
\* brought back, unless a claim meets a storage error and finish overwrites it.
THEOREM CancelledStays == WorkerSpec => CancelledStaysCancelled
<1> DEFINE Stays == \A c \in Channel : \A n \in DOMAIN deliveries[c] :
               deliveries[c][n].status = "cancelled"
                   => \/ deliveries'[c][n].status \in {"cancelled", "deleted"}
                      \/ faults' = faults + 1
<1>1. WorkerInd /\ [WorkerNext]_vars => [Stays]_vars
  <2> SUFFICES ASSUME WorkerInd, WorkerNext PROVE Stays
    OBVIOUS
  <2>1. TypeOK
    BY DEF WorkerInd, WorkerTypeOK
  <2>2. Quiet => Stays
    BY DEF Quiet
  <2>3. CASE Environment
    BY <2>1, <2>2, <2>3, QuietSteps DEF Environment
  <2>4. CASE Maintain
    BY <2>1, <2>2, <2>4, QuietSteps DEF Maintain
  <2>5. CASE Start
    <3>1. Recover
      BY <2>5 DEF Start
    <3> QED BY <2>1, <3>1, RecoverEffect
  <2>6. UNCHANGED tables => Stays
    BY <2>2, SameQuiet
  <2>7. CASE Halt \/ Dispatch
    BY <2>6, <2>7 DEF Halt, Dispatch, Select, EnqueueDue
  <2>8. ASSUME NEW c \in Channel, NEW n \in DOMAIN deliveries[c], PointStep(c, n),
               deliveries[c][n].status # "cancelled"
        PROVE  Stays
    BY <2>8 DEF PointStep
  <2>9. ASSUME NEW w \in Worker, Deliver(w)
        PROVE  Stays
    <3>1. CASE Take(w) \/ \E o \in Outcome : Send(w, o)
      BY <2>6, <3>1 DEF Take, Send
    <3>2. ASSUME NEW c \in Channel, NEW n \in DOMAIN deliveries[c], ClaimRow(c, n)
          PROVE  Stays
      BY <2>1, <2>8, <3>2, ClaimEffect
    <3>3. ASSUME NEW c \in Channel, NEW n \in DOMAIN deliveries[c], NEW o \in Outcome, Settle(c, n, o)
          PROVE  Stays
      <4>1. PointStep(c, n)
        BY <2>1, <3>3, FinishEffect
      <4> QED BY <2>8, <3>3, <4>1 DEF Settle
    <3>4. Fault => Stays
      BY DEF Fault
    <3>5. UNCHANGED <<tables, faults>> \/ UNCHANGED <<tables, running, batch, queue, queued, faults, restarts>>
             => UNCHANGED tables
      OBVIOUS
    <3> HIDE DEF Stays
    <3>6. CASE Claim(w)
      BY <2>6, <3>2, <3>4, <3>5, <3>6, ClaimCases, Zenon
    <3>7. CASE Load(w)
      <4>1. "permanent" \in Outcome
        BY DEF Outcome
      <4> QED BY <2>6, <3>3, <3>4, <3>5, <3>7, <4>1, LoadCases, Zenon
    <3>8. CASE Finish(w)
      BY <3>3, <3>4, <3>8, FinishCases, Zenon
    <3> QED BY <2>9, <3>1, <3>6, <3>7, <3>8, Zenon DEF Deliver
  <2> QED BY <2>3, <2>4, <2>5, <2>7, <2>9 DEF WorkerNext
<1> QED BY <1>1, WorkerKept, PTL DEF WorkerSpec, CancelledStaysCancelled

=============================================================================

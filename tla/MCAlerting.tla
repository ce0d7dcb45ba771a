---------------------------- MODULE MCAlerting ----------------------------
(* One condition of one resource, evaluated by one or by two health checks. *)
EXTENDS Alerting

Check == [family |-> "required_check_failure", targetType |-> "resource", target |-> "web"]

MCCheckKey == {Check}
MCOneSlot == <<Check>>
MCTwoChecks == <<Check, Check>>
MCRule ==
    [k \in Key |-> [trigger |-> 1, recovery |-> 1, cooldown |-> Horizon, repeat |-> 1,
                    severity |-> "warning"]]

Failing == [failing |-> TRUE, recovered |-> FALSE, settled |-> FALSE]
Between == [failing |-> FALSE, recovered |-> FALSE, settled |-> FALSE]
Recovered == [failing |-> FALSE, recovered |-> TRUE, settled |-> FALSE]
Settled == [failing |-> FALSE, recovered |-> TRUE, settled |-> TRUE]
MCObservation == {Failing, Between, Recovered, Settled}
MCSimple == {Failing, Recovered}
MCChannelConfig == {[enabled |-> TRUE, minimum |-> "warning", notifyResolved |-> TRUE]}
===========================================================================

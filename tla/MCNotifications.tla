-------------------------- MODULE MCNotifications --------------------------
(* Two conditions of one resource, so that alerts join and escalate one     *)
(* incident.                                                                *)
EXTENDS Notifications

MCKey == {[family |-> "restart_storm", targetType |-> "resource", target |-> "web"],
          [family |-> "oom_loop", targetType |-> "resource", target |-> "web"]}

\* A channel for everything, one for critical incidents that does not hear of
\* resolutions, and a disabled one.
MCChannelConfig ==
    {[enabled |-> TRUE, minimum |-> "warning", notifyResolved |-> TRUE],
     [enabled |-> TRUE, minimum |-> "critical", notifyResolved |-> FALSE],
     [enabled |-> FALSE, minimum |-> "warning", notifyResolved |-> TRUE]}
=============================================================================

---------------------------- MODULE AlertState ----------------------------
(***************************************************************************)
(* The alert lifecycle of one condition: Advance of                        *)
(* internal/alerts/state.go.  The code compares the current time with      *)
(* stored timestamps; here a state holds the elapsed or remaining time     *)
(* itself, in evaluation intervals, saturated at Horizon, the longest      *)
(* duration any rule compares with.                                        *)
(***************************************************************************)
EXTENDS Integers

CONSTANT Horizon   \* bound: elapsed times saturate here

ASSUME HorizonAssumption == Horizon \in Nat

Phase == {"healthy", "pending", "firing", "recovering"}
Never == -1        \* a NULL last_notified_at

State == [phase : Phase,
          age : 0..Horizon,               \* now - phase_since
          notified : {Never} \cup 0..Horizon,   \* now - last_notified_at
          cooldown : 0..Horizon]          \* cooldown_until - now, 0 when passed

Healthy == [phase |-> "healthy", age |-> 0, notified |-> Never, cooldown |-> 0]

Older(n) == IF n = Never \/ n = Horizon THEN n ELSE n + 1

\* Mutant: phase_since is rewritten at every evaluation.
AgedButSince(s) == [s EXCEPT !.notified = Older(@),
                             !.cooldown = IF @ = 0 THEN 0 ELSE @ - 1]

\* The stored timestamps seen one evaluation interval later.
Aged(s) == [s EXCEPT !.age = Older(@), !.notified = Older(@),
                     !.cooldown = IF @ = 0 THEN 0 ELSE @ - 1]

\* Mutant: the cooldown is ignored.
CooldownIgnored(s) == TRUE

\* The cooldown of the last alert is over.
CooledDown(s) == s.cooldown = 0

\* A step to state s and what it announces: "none", "triggered", "repeated" or
\* "resolved".
To(s, what) == [state |-> s, what |-> what]

Advance(s, failing, recovered, suppressed, rule) ==
    CASE s.phase = "healthy" /\ failing ->
            To([Healthy EXCEPT !.phase = "pending", !.cooldown = s.cooldown], "none")
      [] s.phase = "pending" /\ ~failing ->
            To([Healthy EXCEPT !.cooldown = s.cooldown], "none")
      [] /\ s.phase = "pending" /\ failing
         /\ s.age >= rule.trigger /\ ~suppressed /\ CooledDown(s) ->
            To([s EXCEPT !.phase = "firing", !.age = 0, !.notified = 0], "triggered")
      [] s.phase = "firing" /\ recovered ->
            To([s EXCEPT !.phase = "recovering", !.age = 0], "none")
      [] /\ s.phase = "firing" /\ ~recovered /\ ~suppressed
         /\ s.notified # Never /\ rule.repeat > 0 /\ s.notified >= rule.repeat ->
            To([s EXCEPT !.notified = 0], "repeated")
      [] s.phase = "recovering" /\ failing ->
            To([s EXCEPT !.phase = "firing", !.age = 0], "none")
      [] /\ s.phase = "recovering" /\ ~failing /\ recovered
         /\ s.age >= rule.recovery ->
            To([Healthy EXCEPT !.cooldown = rule.cooldown], "resolved")
      [] OTHER -> To(s, "none")
===========================================================================

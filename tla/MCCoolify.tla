----------------------------- MODULE MCCoolify -----------------------------
(* Two browsers and two administrators over two presets, two Coolify servers *)
(* and a deployment on one of them.  "raw |-> 5" is longer than every minute *)
(* tier and "idle |-> 0" no timeout: they are refused, the first only for    *)
(* the advanced preset.                                                      *)
EXTENDS Coolify, TLC

MCPreset == [minimal |-> [raw |-> 1, minute |-> 2], balanced |-> [raw |-> 2, minute |-> 4]]
MCBase == [preset |-> "balanced", raw |-> 2, minute |-> 4, idle |-> 1, lifetime |-> 2]
MCChange == {[Unset EXCEPT !.preset = Advanced, !.raw = 3], [Unset EXCEPT !.raw = 5],
             [Unset EXCEPT !.idle = 0]}
MCServerOf == [d \in Deployment |-> CHOOSE u \in Https : TRUE]
Symmetry == Permutations(Client) \cup Permutations(Admin) \cup Permutations(Token)
=============================================================================

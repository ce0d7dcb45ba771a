------------------------------- MODULE MCAuth -------------------------------
(* Two requests at a time, one session and two enrolments.                   *)
EXTENDS Auth, TLC

MCConfig == {[idle |-> 1, lifetime |-> 2], [idle |-> 2, lifetime |-> 2],
             [idle |-> 2, lifetime |-> 1]}

Symmetry == Permutations(Request)
=============================================================================

----------------------------- MODULE MCRollups -----------------------------
(* Two tiers; samples may be closer than a step of the raw table or farther *)
(* apart; queries of every resolution.                                      *)
EXTENDS Rollups

MCTiers == <<2, 4>>
MCLimits == <<6, 8>>
MCPolicy == {[i \in 0..2 |-> <<1, 3, 0>>[i + 1]]}
MCQuery == {[from |-> f, to |-> t] : f \in {0}, t \in {6, 8, 13}}
============================================================================

----------------------------- MODULE MCSampler -----------------------------
(* Two containers of one resource and one browser.                           *)
EXTENDS Sampler, TLC

MCResourceOf == [c \in Container |-> "web"]
Symmetry == Permutations(Container)
=============================================================================

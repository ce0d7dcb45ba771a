------------------------- MODULE MCCheckScheduler -------------------------
(* More checks than the queue has places.                                  *)
EXTENDS CheckScheduler
===========================================================================

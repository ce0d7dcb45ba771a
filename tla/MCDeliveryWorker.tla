------------------------- MODULE MCDeliveryWorker -------------------------
(* The delivery worker over one alert condition of one resource.           *)
EXTENDS DeliveryWorker, TLC

MCOneKey == {[family |-> "oom_loop", targetType |-> "resource", target |-> "web"]}

Always == [enabled |-> TRUE, minimum |-> "warning", notifyResolved |-> TRUE]

Symmetry == Permutations(Worker)
MCOn == {Always}
===========================================================================

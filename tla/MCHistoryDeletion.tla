------------------------- MODULE MCHistoryDeletion -------------------------
(* One deletion of any kind among two resources and a container that may    *)
(* move from one to the other.                                              *)
EXTENDS HistoryDeletion

\* The containers start with one resource: which one makes no difference.
MCHome == [c \in Container |-> CHOOSE r \in Resource : TRUE]
============================================================================

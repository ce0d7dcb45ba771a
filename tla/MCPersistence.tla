--------------------------- MODULE MCPersistence ---------------------------
(* One collector, a queue of one place and two processes.                   *)
EXTENDS Persistence
============================================================================

------------------------- MODULE OptimisticRegister -------------------------
(***************************************************************************)
(* What the settings service promises its clients: a register with a       *)
(* version.  A client reads both, and its write takes effect only if the   *)
(* register still is what it read: nobody's change is overwritten unseen.  *)
(***************************************************************************)
EXTENDS Integers

CONSTANTS
    Client,
    Value,
    Initial      \* the value of a new register

VARIABLES
    version,
    value,
    known        \* [Client -> what it has read, or NotRead]

vars == <<version, value, known>>

NotRead == [version |-> -1, value |-> Initial]

Init ==
    /\ version = 0
    /\ value = Initial
    /\ known = [c \in Client |-> NotRead]

Read(c) ==
    /\ known' = [known EXCEPT ![c] = [version |-> version, value |-> value]]
    /\ UNCHANGED <<version, value>>

Write(c, v) ==
    /\ known[c] = [version |-> version, value |-> value]
    /\ version' = version + 1
    /\ value' = v
    /\ known' = [known EXCEPT ![c] = NotRead]

\* Clients give up what they have read.
Forget(C) ==
    /\ known' = [c \in Client |-> IF c \in C THEN NotRead ELSE known[c]]
    /\ UNCHANGED <<version, value>>

Next ==
    \/ \E c \in Client : Read(c) \/ \E v \in Value : Write(c, v)
    \/ \E C \in SUBSET Client : Forget(C)

Spec == Init /\ [][Next]_vars
=============================================================================

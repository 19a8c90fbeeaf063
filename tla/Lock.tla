-------------------------------- MODULE Lock --------------------------------
(***************************************************************************)
(* What a lease is for: of several clients, one at a time is inside.       *)
(* Module Lease implements this (ImplementsLock).                          *)
(***************************************************************************)
CONSTANT Client

VARIABLE inside      \* the clients that act

Init == inside = {}

Enter(c) == inside = {} /\ inside' = {c}

Leave(c) == inside = {c} /\ inside' = {}

Next == \E c \in Client : Enter(c) \/ Leave(c)

Spec == Init /\ [][Next]_inside
=============================================================================

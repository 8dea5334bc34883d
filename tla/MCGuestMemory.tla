--------------------------- MODULE MCGuestMemory ----------------------------
(* A small binary for GuestMemory: the first segment starts inside a page   *)
(* and its padding reaches the bytes of the second one.                     *)
EXTENDS GuestMemory

MCSegments == <<[addr |-> 1, size |-> 1], [addr |-> 2, size |-> 3]>>
=============================================================================

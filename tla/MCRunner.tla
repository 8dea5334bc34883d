------------------------------ MODULE MCRunner ------------------------------
(* Binaries for Runner: a and b are linked at the same address, c elsewhere *)
(* with an entry point that hashes to the same slot.                        *)
EXTENDS Runner

CONSTANTS a, b, c, p, q

MCEntry == [x \in {a, b, c} |-> IF x = c THEN q ELSE p]
MCSlot == [x \in {p, q} |-> 0]
=============================================================================

----------------------------- MODULE MCJitCache -----------------------------
(* A small JIT for TLC: three program counters, two of which share a slot.  *)
EXTENDS JitCache, TLC

CONSTANTS p1, p2, p3
MCSlotOf == p1 :> 0 @@ p2 :> 0 @@ p3 :> 1
=============================================================================

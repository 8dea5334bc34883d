---------------------------- MODULE MCInsnCache ----------------------------
(* Three addresses, two in one slot; zeros follow.  The bytes make NOP, MOV *)
(* of two bytes and more and shifts of three; NOP is what clients insert.   *)
EXTENDS InsnCache, Sequences

X == INSTANCE X86Decode

MCBytes == {\h8B, \h90, \hC0}
MCMemories == {<<\h8B, \hC0, \h90>>, <<\h90, \h90, \h90>>}
MCSlotOf == [a \in 1 .. 3 |-> a % 2]

From(m, a) == SubSeq(m, a, 3)
MCDecode(m, a) == X!Decode(From(m, a))
MCInsertable == {X!Decode(<<\h90>>)}
MCCovers(m, a) == a .. a + X!Decode(From(m, a)).length - 1
=============================================================================

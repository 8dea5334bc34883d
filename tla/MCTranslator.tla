---------------------------- MODULE MCTranslator ----------------------------
(* p and q share a slot of the translation cache, q and r one of the block  *)
(* cache; q's translation is the longest.                                   *)
EXTENDS Translator

CONSTANTS p, q, r

MCSizeOf == [x \in {p, q, r} |-> IF x = q THEN 2 ELSE 1]
MCTSlot == [x \in {p, q, r} |-> IF x = r THEN 1 ELSE 0]
MCBSlot == [x \in {p, q, r} |-> IF x = p THEN 1 ELSE 0]
=============================================================================

--------------------------- MODULE TranslationMap ---------------------------
(***************************************************************************)
(* What every translation cache of the repository promises its callers,    *)
(* whatever its table looks like: a partial map from guest program counters *)
(* to translations.  One step installs a translation for one program       *)
(* counter, and any step may forget translations (eviction, invalidation,  *)
(* flush).  What a step may never do is give a program counter a           *)
(* translation that was not installed for it.                              *)
(***************************************************************************)
CONSTANTS
  PCs,      \* guest program counters
  Values,   \* translations
  Absent    \* what a lookup that misses returns

VARIABLE map

TypeOK == map \in [PCs -> Values \union {Absent}]

Init == map = [p \in PCs |-> Absent]

(* Translations of the program counters in lost are dropped. *)
Forget(lost) == map' = [p \in PCs |-> IF p \in lost THEN Absent ELSE map[p]]

(* pc gets translation v; other program counters may lose theirs. *)
Install(pc, v, lost) ==
  map' = [p \in PCs |-> IF p = pc THEN v
                        ELSE IF p \in lost THEN Absent ELSE map[p]]

Next ==
  \/ \E lost \in SUBSET PCs : Forget(lost)
  \/ \E pc \in PCs, v \in Values, lost \in SUBSET PCs : Install(pc, v, lost)

Spec == Init /\ [][Next]_map
=============================================================================

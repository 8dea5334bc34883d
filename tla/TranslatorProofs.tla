-------------------------- MODULE TranslatorProofs --------------------------
(***************************************************************************)
(* Proofs about Translator, for every program, every size of the code cache *)
(* and every hash of the two tables.                                        *)
(***************************************************************************)
EXTENDS Translator, TLAPS

(* Cells behind the offset are never written again before the code cache is *)
(* unmapped: an entry whose code lies there stays good.                     *)
Good(e, mapped, end, cells) ==
  \/ e.host.at = "heap"
  \/ /\ e.host.at = "arena" /\ mapped
     /\ e.host.off + SizeOf[e.pc] <= end
     /\ \A c \in Region(e.pc, e.host.off) : cells[c] = e.pc

TableGood ==
  \A s \in TSlots : entry[s] # None => ready /\ Good(entry[s], ready, offset, arena)

BlocksGood ==
  \A s \in BSlots :
    block[s] # None /\ block[s].host.at # "block" /\ s \notin stale =>
      Good(block[s], ready, offset, arena)

IInv == TypeOK /\ TableGood /\ BlocksGood

-----------------------------------------------------------------------------
LEMMA SizesOK ==
  /\ ArenaSize \in Nat
  /\ \A p \in PCs : SizeOf[p] \in Nat /\ SizeOf[p] > 0
BY TranslatorAssumption DEF TranslatorAssumption

LEMMA SlotsOK ==
  ASSUME NEW p \in PCs PROVE TSlot[p] \in TSlots /\ BSlot[p] \in BSlots
BY DEF TSlots, BSlots

LEMMA EntryOK ==
  ASSUME NEW p \in PCs, NEW host \in Hosts
  PROVE  /\ [pc |-> p, host |-> host] \in Translations
         /\ [pc |-> p, host |-> host] # None
<1>1. [pc |-> p, host |-> host] \in Translations
  BY DEF Translations
<1> QED BY <1>1, TranslatorAssumption DEF TranslatorAssumption

LEMMA InitInv == Init => IInv
<1> SUFFICES ASSUME Init PROVE IInv
  OBVIOUS
<1>1. offset \in 0 .. ArenaSize
  BY SizesOK DEF Init
<1>2. /\ entry \in [TSlots -> Translations \union {None}]
      /\ arena \in [Cells -> PCs \union {None}]
      /\ static \in [{"exec", "block"} -> PCs \union {None}]
      /\ block \in [BSlots -> Translations \union {None}]
  BY DEF Init
<1>3. TypeOK
  BY <1>1, <1>2 DEF Init, TypeOK
<1> QED BY <1>3 DEF Init, IInv, TableGood, BlocksGood

-----------------------------------------------------------------------------
(* The code cache is mapped when it was not, or unmapped with the blocks    *)
(* that lie in it remembered.                                               *)
LEMMA EmptyInv ==
  ASSUME IInv, ~ready \/ {s \in BSlots : block[s] # None /\ block[s].host.at = "arena"} \subseteq stale',
         entry' = [s \in TSlots |-> None], offset' = 0, arena' = [c \in Cells |-> None],
         inited' \in BOOLEAN, ready' \in BOOLEAN,
         stale' \subseteq BSlots, stale \subseteq stale',
         UNCHANGED <<static, blocks>>
  PROVE  IInv'
<1>1. TypeOK'
  BY SizesOK DEF IInv, TypeOK, blocks
<1>2. TableGood'
  BY DEF TableGood
<1>3. ASSUME NEW s \in BSlots, block'[s] # None, block'[s].host.at # "block", s \notin stale'
      PROVE  Good(block'[s], ready', offset', arena')
  <2>1. block'[s] = block[s]
    BY DEF blocks
  <2>2. CASE ~ready
    BY <1>3, <2>1, <2>2 DEF IInv, BlocksGood, Good
  <2>3. CASE block[s].host.at # "arena"
    <3>1. block[s] \in Translations
      BY <1>3, <2>1 DEF IInv, TypeOK
    <3>2. block[s].host.at = "heap" \/ block[s].host.at = "exec"
      BY <1>3, <2>1, <2>3, <3>1 DEF Translations, Hosts
    <3> QED BY <1>3, <2>1, <2>3, <3>2 DEF IInv, BlocksGood, Good
  <2>4. ~ready \/ block[s].host.at # "arena"
    BY <1>3, <2>1
  <2> QED BY <2>2, <2>3, <2>4
<1> QED BY <1>1, <1>2, <1>3 DEF IInv, BlocksGood

(* A copy into the code cache keeps what is good, and makes its own good. *)
LEMMA CopyGood ==
  ASSUME IInv, NEW p \in PCs, Fits(p), CopyToArena(p), ready' = ready
  PROVE  /\ offset' \in 0 .. ArenaSize /\ arena' \in [Cells -> PCs \union {None}]
         /\ InArena(offset) \in Hosts
         /\ \A e \in Translations :
              Good(e, ready, offset, arena) => Good(e, ready, offset', arena')
         /\ \A e \in Translations :
              e.pc = p /\ e.host = InArena(offset) => Good(e, ready, offset', arena')
<1>1. /\ offset \in Nat /\ offset \in 0 .. ArenaSize /\ ArenaSize \in Nat /\ SizeOf[p] \in Nat
      /\ offset + SizeOf[p] <= ArenaSize /\ ready
      /\ offset' = offset + SizeOf[p]
  BY SizesOK DEF IInv, TypeOK, Fits, CopyToArena
<1>2. offset' \in 0 .. ArenaSize
  BY <1>1
<1>3. arena' = [c \in Cells |-> IF c \in Region(p, offset) THEN p ELSE arena[c]]
  BY DEF CopyToArena
<1>4. arena' \in [Cells -> PCs \union {None}]
  BY <1>3 DEF IInv, TypeOK
<1>5. InArena(offset) \in Hosts /\ InArena(offset).at = "arena" /\ InArena(offset).off = offset
  BY <1>1 DEF InArena, Hosts
<1>6. ASSUME NEW e \in Translations, Good(e, ready, offset, arena)
      PROVE  Good(e, ready, offset', arena')
  <2>1. CASE e.host.at = "heap"
    BY <2>1 DEF Good
  <2>2. CASE e.host.at = "arena" /\ e.host.at # "heap"
    <3>1. e.pc \in PCs /\ e.host.off \in 0 .. ArenaSize /\ SizeOf[e.pc] \in Nat
      <4>1. e.pc \in PCs /\ e.host \in Hosts
        BY DEF Translations
      <4> QED BY <4>1, <2>2, SizesOK DEF Hosts
    <3>2. /\ e.host.off + SizeOf[e.pc] <= offset
          /\ \A c \in Region(e.pc, e.host.off) : arena[c] = e.pc
      BY <1>6, <2>2 DEF Good
    <3>3. ASSUME NEW c \in Region(e.pc, e.host.off) PROVE arena'[c] = e.pc
      <4>1. c \in Cells /\ c \notin Region(p, offset)
        BY <1>1, <3>1, <3>2 DEF Cells, Region
      <4> QED BY <4>1, <3>2, <1>3
    <3>4. e.host.off + SizeOf[e.pc] <= offset'
      BY <1>1, <3>1, <3>2
    <3> QED BY <1>1, <2>2, <3>3, <3>4 DEF Good
  <2> QED BY <1>6, <2>1, <2>2 DEF Good
<1>7. ASSUME NEW e \in Translations, e.pc = p, e.host = InArena(offset)
      PROVE  Good(e, ready, offset', arena')
  <2>1. \A c \in Region(p, offset) : arena'[c] = p
    BY <1>1, <1>3 DEF Region, Cells
  <2>2. offset + SizeOf[p] <= offset'
    BY <1>1
  <2> QED BY <1>1, <1>5, <1>7, <2>1, <2>2 DEF Good
<1> QED BY <1>2, <1>4, <1>5, <1>6, <1>7

(* Where a translation ends up, everything good stays good, and so is the   *)
(* translation itself unless it is in the static buffer.                    *)
LEMMA PlacedGood ==
  ASSUME IInv, NEW p \in PCs, NEW who \in {"exec", "block"}, NEW host, Placed(p, who, host),
         ready' = ready
  PROVE  /\ offset' \in 0 .. ArenaSize /\ arena' \in [Cells -> PCs \union {None}]
         /\ host \in Hosts
         /\ \A e \in Translations :
              Good(e, ready, offset, arena) => Good(e, ready, offset', arena')
         /\ \A e \in Translations :
              e.pc = p /\ e.host = host /\ host.at # who => Good(e, ready, offset', arena')
         /\ host = Static(who) <=> host.at = who
<1>1. CASE Fits(p) /\ host = InArena(offset) /\ CopyToArena(p)
  <2>1. host.at = "arena"
    BY <1>1 DEF InArena
  <2>2. host # Static(who)
    BY <2>1 DEF Static
  <2> QED BY <1>1, <2>1, <2>2, CopyGood
<1>2. CASE ~Fits(p) /\ host \in {Heap, Static(who)} /\ UNCHANGED code
  <2>1. offset' = offset /\ arena' = arena
    BY <1>2 DEF code
  <2>2. host \in Hosts
    BY <1>2 DEF Heap, Static, Hosts
  <2>3. (host = Static(who) <=> host.at = who) /\ (host.at = who \/ host.at = "heap")
    BY <1>2 DEF Heap, Static
  <2>4. \A e \in Translations :
          e.pc = p /\ e.host = host /\ host.at # who => Good(e, ready, offset', arena')
    BY <2>3 DEF Good
  <2> QED BY <2>1, <2>2, <2>3, <2>4 DEF IInv, TypeOK
<1> QED BY <1>1, <1>2 DEF Placed

(* One entry of a table is replaced. *)
LEMMA ExecInv ==
  ASSUME IInv, NEW p \in PCs, NEW host \in Hosts, ExecTranslate(p, host)
  PROVE  IInv'
<1>1. /\ Placed(p, "exec", host) /\ ready' = ready /\ inited' = inited
      /\ blocksOn' = blocksOn /\ block' = block /\ stale' = stale
      /\ static' = [static EXCEPT !["exec"] = p]
  BY DEF ExecTranslate, blocks
<1>2. /\ offset' \in 0 .. ArenaSize /\ arena' \in [Cells -> PCs \union {None}]
      /\ \A e \in Translations :
           Good(e, ready, offset, arena) => Good(e, ready, offset', arena')
      /\ \A e \in Translations :
           e.pc = p /\ e.host = host /\ host.at # "exec" => Good(e, ready, offset', arena')
      /\ host = Static("exec") <=> host.at = "exec"
  BY <1>1, PlacedGood
<1>3. static' \in [{"exec", "block"} -> PCs \union {None}]
  BY <1>1 DEF IInv, TypeOK
<1> DEFINE new == [pc |-> p, host |-> host]
<1>4. new \in Translations /\ new # None /\ new.pc = p /\ new.host = host
  BY EntryOK
<1>5. \/ entry' = entry
      \/ ready /\ host.at # "exec" /\ entry' = [entry EXCEPT ![TSlot[p]] = new]
  BY <1>2 DEF ExecTranslate
<1> HIDE DEF new
<1>6. entry' \in [TSlots -> Translations \union {None}]
  BY <1>4, <1>5, SlotsOK DEF IInv, TypeOK
<1>7. ASSUME NEW s \in TSlots, entry'[s] # None
      PROVE  ready' /\ Good(entry'[s], ready', offset', arena')
  <2>1. CASE entry'[s] = entry[s]
    BY <2>1, <1>1, <1>2, <1>7 DEF IInv, TypeOK, TableGood
  <2>2. CASE ready /\ host.at # "exec" /\ entry'[s] = new
    BY <2>2, <1>1, <1>2, <1>4
  <2>3. entry'[s] = entry[s] \/ (ready /\ host.at # "exec" /\ entry'[s] = new)
    BY <1>5, SlotsOK DEF IInv, TypeOK
  <2> QED BY <2>1, <2>2, <2>3
<1>8. ASSUME NEW s \in BSlots, block'[s] # None, block'[s].host.at # "block", s \notin stale'
      PROVE  Good(block'[s], ready', offset', arena')
  BY <1>1, <1>2, <1>8 DEF IInv, TypeOK, BlocksGood
<1> QED BY <1>1, <1>2, <1>3, <1>6, <1>7, <1>8 DEF IInv, TypeOK, TableGood, BlocksGood

LEMMA BlockInv ==
  ASSUME IInv, NEW p \in PCs, NEW host \in Hosts, BlockTranslate(p, host)
  PROVE  IInv'
<1>1. /\ Placed(p, "block", host) /\ ready' = ready /\ inited' = inited /\ entry' = entry
      /\ blocksOn' = blocksOn
      /\ static' = [static EXCEPT !["block"] = p]
  BY DEF BlockTranslate, translation
<1>2. /\ offset' \in 0 .. ArenaSize /\ arena' \in [Cells -> PCs \union {None}]
      /\ \A e \in Translations :
           Good(e, ready, offset, arena) => Good(e, ready, offset', arena')
      /\ \A e \in Translations :
           e.pc = p /\ e.host = host /\ host.at # "block" => Good(e, ready, offset', arena')
  BY <1>1, PlacedGood
<1>3. static' \in [{"exec", "block"} -> PCs \union {None}]
  BY <1>1 DEF IInv, TypeOK
<1> DEFINE new == [pc |-> p, host |-> host]
<1>4. new \in Translations /\ new # None /\ new.pc = p /\ new.host = host
  BY EntryOK
<1>5. \/ block' = block /\ stale' = stale
      \/ block' = [block EXCEPT ![BSlot[p]] = new] /\ stale' = stale \ {BSlot[p]}
  BY DEF BlockTranslate
<1> HIDE DEF new
<1>6. block' \in [BSlots -> Translations \union {None}] /\ stale' \subseteq BSlots
  BY <1>4, <1>5, SlotsOK DEF IInv, TypeOK
<1>7. ASSUME NEW s \in TSlots, entry'[s] # None
      PROVE  ready' /\ Good(entry'[s], ready', offset', arena')
  BY <1>1, <1>2, <1>7 DEF IInv, TypeOK, TableGood
<1>8. ASSUME NEW s \in BSlots, block'[s] # None, block'[s].host.at # "block", s \notin stale'
      PROVE  Good(block'[s], ready', offset', arena')
  <2>1. CASE block'[s] = block[s] /\ s \notin stale
    BY <2>1, <1>1, <1>2, <1>8 DEF IInv, TypeOK, BlocksGood
  <2>2. CASE block'[s] = new
    BY <2>2, <1>1, <1>2, <1>4, <1>8
  <2>3. block'[s] = new \/ (block'[s] = block[s] /\ s \notin stale)
    BY <1>5, <1>8, SlotsOK DEF IInv, TypeOK
  <2> QED BY <2>1, <2>2, <2>3
<1> QED BY <1>1, <1>2, <1>3, <1>6, <1>7, <1>8 DEF IInv, TypeOK, TableGood, BlocksGood

(* Steps of the block cache that leave the translation cache alone, and no  *)
(* block that was not there.                                                *)
LEMMA BlocksInv ==
  ASSUME IInv, UNCHANGED <<translation, code, static>>, blocksOn' \in BOOLEAN,
         block' \in [BSlots -> Translations \union {None}],
         stale' \subseteq BSlots,
         \A s \in BSlots : block'[s] # None => block'[s] = block[s] /\ (s \in stale => s \in stale')
  PROVE  IInv'
BY DEF IInv, TypeOK, TableGood, BlocksGood, translation, code

LEMMA NextInv == IInv /\ [Next]_vars => IInv'
<1> SUFFICES ASSUME IInv, [Next]_vars PROVE IInv'
  OBVIOUS
<1>1. CASE RosettaInit
  <2>1. CASE ready /\ inited' = TRUE /\ UNCHANGED <<ready, entry, code>>
    BY <1>1, <2>1 DEF RosettaInit, IInv, TypeOK, TableGood, BlocksGood, code, blocks
  <2>2. CASE ~ready /\ inited' = TRUE /\ MapCache
    BY <1>1, <2>2, EmptyInv DEF RosettaInit, MapCache, IInv, TypeOK
  <2> QED BY <1>1, <2>1, <2>2 DEF RosettaInit
<1>2. CASE InitTranslationCache
  BY <1>2, EmptyInv DEF InitTranslationCache, MapCache, IInv, TypeOK
<1>3. ASSUME UnmapCache, inited' \in BOOLEAN, UNCHANGED <<static, blocks>> PROVE IInv'
  BY <1>3, EmptyInv DEF UnmapCache, IInv, TypeOK
<1>10. CASE TranslationCacheCleanup
  BY <1>3, <1>10 DEF TranslationCacheCleanup, IInv, TypeOK
<1>11. CASE RosettaCleanup
  <2>1. CASE ready /\ UnmapCache
    BY <1>3, <1>11, <2>1 DEF RosettaCleanup
  <2>2. CASE ~ready /\ UNCHANGED <<ready, entry, code, stale>>
    BY <1>11, <2>2 DEF RosettaCleanup, IInv, TypeOK, TableGood, BlocksGood, code, blocks
  <2> QED BY <1>11, <2>1, <2>2 DEF RosettaCleanup
<1>4. ASSUME NEW p \in PCs, NEW host \in Hosts, Translate(p, host) PROVE IInv'
  <2>1. CASE TranslateHit(p, host)
    BY <2>1 DEF TranslateHit, vars, translation, code, blocks, IInv, TypeOK, TableGood, BlocksGood
  <2> QED BY <1>4, <2>1, ExecInv, BlockInv DEF Translate
<1>5. ASSUME NEW p \in PCs, BlockRemove(p) PROVE IInv'
  <2>1. block' = [block EXCEPT ![BSlot[p]] = None] /\ blocksOn' = blocksOn
    BY <1>5 DEF BlockRemove
  <2>2. \A s \in BSlots : block'[s] # None =>
          block'[s] = block[s] /\ (s \in stale => s \in stale')
    BY <1>5, <2>1 DEF BlockRemove, IInv, TypeOK
  <2>3. /\ block' \in [BSlots -> Translations \union {None}] /\ blocksOn' \in BOOLEAN
        /\ stale' \subseteq BSlots
    BY <1>5, <2>1 DEF BlockRemove, IInv, TypeOK
  <2> QED BY <1>5, <2>1, <2>2, <2>3, BlocksInv DEF BlockRemove
<1>6. CASE BlockInit
  BY <1>6, BlocksInv DEF BlockInit
<1>7. CASE BlockCleanup
  BY <1>7, BlocksInv DEF BlockCleanup, IInv, TypeOK
<1>8. CASE BlockInvalidate
  BY <1>8, BlocksInv DEF BlockInvalidate, IInv, TypeOK
<1>9. CASE UNCHANGED vars
  BY <1>9 DEF vars, translation, code, blocks, IInv, TypeOK, TableGood, BlocksGood
<1> QED BY <1>1, <1>2, <1>10, <1>11, <1>4, <1>5, <1>6, <1>7, <1>8, <1>9 DEF Next

LEMMA Invariant == Spec => []IInv
<1> QED BY InitInv, NextInv, PTL DEF Spec

-----------------------------------------------------------------------------
(* What is good is intact. *)
LEMMA GoodIsIntact ==
  ASSUME NEW e \in Translations, Good(e, ready, offset, arena)
  PROVE  Intact(e.pc, e.host)
BY DEF Good, Intact

(* Types, and the code cache never handed out past its end. *)
THEOREM TypeCorrect == Spec => []TypeOK
<1>1. IInv => TypeOK
  BY DEF IInv
<1> QED BY <1>1, Invariant, PTL

(* What a lookup in the translation cache returns was not overwritten and   *)
(* not unmapped, whichever of the two translators used the code cache in    *)
(* between.                                                                 *)
THEOREM TableStaysIntact == Spec => []TableIntact
<1>1. IInv => TableIntact
  <2> SUFFICES ASSUME IInv, NEW p \in PCs, Cached(p)
               PROVE  Intact(p, entry[TSlot[p]].host)
    BY DEF TableIntact
  <2>1. /\ TSlot[p] \in TSlots /\ entry[TSlot[p]] \in Translations
        /\ entry[TSlot[p]].pc = p /\ entry[TSlot[p]] # None
    BY SlotsOK DEF IInv, TypeOK, Cached
  <2>2. Good(entry[TSlot[p]], ready, offset, arena)
    BY <2>1 DEF IInv, TableGood
  <2> QED BY <2>1, <2>2, GoodIsIntact
<1> QED BY <1>1, Invariant, PTL

(* The same for the block cache, of code that is not in the static buffer   *)
(* and was not unmapped under it by a cleanup.                              *)
THEOREM BlocksStayIntact == Spec => []BlocksIntact
<1>1. IInv => BlocksIntact
  <2> SUFFICES ASSUME IInv, NEW p \in PCs, InBlockCache(p), block[BSlot[p]].host # Static("block"),
                      BSlot[p] \notin stale
               PROVE  Intact(p, block[BSlot[p]].host)
    BY DEF BlocksIntact
  <2>1. /\ BSlot[p] \in BSlots /\ block[BSlot[p]] \in Translations
        /\ block[BSlot[p]].pc = p /\ block[BSlot[p]] # None
    BY SlotsOK DEF IInv, TypeOK, InBlockCache
  <2>2. block[BSlot[p]].host.at # "block"
    BY <2>1 DEF Translations, Hosts, Static
  <2>3. Good(block[BSlot[p]], ready, offset, arena)
    BY <2>1, <2>2 DEF IInv, BlocksGood, InBlockCache
  <2> QED BY <2>1, <2>3, GoodIsIntact
<1> QED BY <1>1, Invariant, PTL

-----------------------------------------------------------------------------
(* Refinement: every step is one of TranslationMap.                         *)
LEMMA ForgettingStep ==
  ASSUME \A x \in PCs : LookupResult'[x] \in {None, LookupResult[x]}
  PROVE  AbstractMap!Next
<1> DEFINE lost == {x \in PCs : LookupResult'[x] = None}
<1>1. LookupResult' = [x \in PCs |-> LookupResult'[x]]
  BY DEF LookupResult
<1>2. LookupResult' = [x \in PCs |-> IF x \in lost THEN None ELSE LookupResult[x]]
  BY <1>1
<1>3. lost \in SUBSET PCs /\ AbstractMap!Forget(lost)
  BY <1>2 DEF AbstractMap!Forget
<1> QED BY <1>3 DEF AbstractMap!Next

LEMMA InstallingStep ==
  ASSUME NEW p \in PCs, LookupResult'[p] \in Hosts,
         \A x \in PCs \ {p} : LookupResult'[x] \in {None, LookupResult[x]}
  PROVE  AbstractMap!Next
<1> DEFINE lost == {x \in PCs : LookupResult'[x] = None}
           v == LookupResult'[p]
<1>1. LookupResult' = [x \in PCs |-> LookupResult'[x]]
  BY DEF LookupResult
<1>2. LookupResult' = [x \in PCs |-> IF x = p THEN v
                         ELSE IF x \in lost THEN None ELSE LookupResult[x]]
  BY <1>1
<1>3. lost \in SUBSET PCs /\ AbstractMap!Install(p, v, lost)
  BY <1>2 DEF AbstractMap!Install
<1> QED BY <1>3 DEF AbstractMap!Next

(* A translation in its slot: the others of the slot are forgotten. *)
LEMMA ExecRefines ==
  ASSUME IInv, NEW p \in PCs, NEW host \in Hosts, ExecTranslate(p, host)
  PROVE  [AbstractMap!Next]_LookupResult
<1> DEFINE new == [pc |-> p, host |-> host]
<1>1. new # None /\ new.pc = p /\ new.host = host
  BY EntryOK
<1>2. \/ entry' = entry
      \/ ready /\ entry' = [entry EXCEPT ![TSlot[p]] = new]
  BY DEF ExecTranslate
<1>3. ready' = ready
  BY DEF ExecTranslate
<1> HIDE DEF new
<1>4. CASE entry' = entry
  BY <1>3, <1>4 DEF LookupResult, Cached
<1>5. CASE ready /\ entry' = [entry EXCEPT ![TSlot[p]] = new]
  <2>1. \A s \in TSlots : entry'[s] = IF s = TSlot[p] THEN new ELSE entry[s]
    BY <1>5 DEF IInv, TypeOK
  <2>2. LookupResult'[p] = host
    BY <1>1, <1>3, <1>5, <2>1, SlotsOK DEF LookupResult, Cached
  <2>3. ASSUME NEW x \in PCs \ {p} PROVE LookupResult'[x] \in {None, LookupResult[x]}
    <3>1. CASE TSlot[x] = TSlot[p]
      BY <1>1, <2>1, <3>1, SlotsOK DEF LookupResult, Cached
    <3>2. CASE TSlot[x] # TSlot[p]
      BY <1>3, <2>1, <3>2, SlotsOK DEF LookupResult, Cached
    <3> QED BY <3>1, <3>2
  <2> QED BY <2>2, <2>3, InstallingStep
<1> QED BY <1>2, <1>4, <1>5

LEMMA StepRefines ==
  ASSUME IInv, [Next]_vars
  PROVE  [AbstractMap!Next]_LookupResult
<1>1. ASSUME entry' = [s \in TSlots |-> None] PROVE AbstractMap!Next
  <2>1. \A x \in PCs : LookupResult'[x] = None
    BY <1>1, SlotsOK DEF LookupResult, Cached
  <2> QED BY <2>1, ForgettingStep
<1>2. ASSUME entry' = entry, ready' = ready PROVE LookupResult' = LookupResult
  BY <1>2 DEF LookupResult, Cached
<1>3. CASE RosettaInit
  BY <1>1, <1>2, <1>3 DEF RosettaInit, MapCache
<1>4. CASE InitTranslationCache \/ TranslationCacheCleanup \/ RosettaCleanup
  BY <1>1, <1>2, <1>4 DEF InitTranslationCache, TranslationCacheCleanup, RosettaCleanup,
                          MapCache, UnmapCache
<1>5. ASSUME NEW p \in PCs, NEW host \in Hosts, Translate(p, host)
      PROVE  [AbstractMap!Next]_LookupResult
  <2>1. CASE TranslateHit(p, host) \/ BlockTranslate(p, host)
    BY <1>2, <2>1 DEF TranslateHit, BlockTranslate, vars, translation
  <2> QED BY <1>5, <2>1, ExecRefines DEF Translate
<1>6. ASSUME NEW p \in PCs, BlockRemove(p) PROVE LookupResult' = LookupResult
  BY <1>2, <1>6 DEF BlockRemove, translation
<1>7. CASE BlockInit \/ BlockCleanup \/ BlockInvalidate
  BY <1>2, <1>7 DEF BlockInit, BlockCleanup, BlockInvalidate, translation
<1>8. CASE UNCHANGED vars
  BY <1>2, <1>8 DEF vars, translation
<1> QED BY <1>3, <1>4, <1>5, <1>6, <1>7, <1>8 DEF Next

(* The translation cache of the modular build implements TranslationMap,    *)
(* although a second translator and a second table use its code cache.      *)
THEOREM TranslatorRefinesMap == Spec => RefinesTranslationMap
<1>1. Init => AbstractMap!Init
  BY DEF Init, AbstractMap!Init, LookupResult, Cached
<1>2. IInv /\ [Next]_vars => [AbstractMap!Next]_LookupResult
  BY StepRefines
<1> QED BY <1>1, <1>2, Invariant, PTL DEF Spec, RefinesTranslationMap, AbstractMap!Spec
=============================================================================

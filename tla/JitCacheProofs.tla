--------------------------- MODULE JitCacheProofs ---------------------------
(***************************************************************************)
(* Proofs about the JIT core: for every cache geometry, every set of       *)
(* program counters and every hash, translated code that a lookup can      *)
(* return is never overwritten.  The chains of translation blocks, which    *)
(* the same component keeps, are at the end.                               *)
(***************************************************************************)
EXTENDS JitCache, BlockChain, FiniteSetTheorems, TLAPS

(* No request comes near 2^32, so that the u32 sums of the allocator do not *)
(* wrap.                                                                    *)
NoWrap ==
  \A n \in AllocSizes, a \in Alignments : CacheSize + a + n < Word

(* An entry sits in the slot its program counter hashes to.                 *)
TagsMatchSlots ==
  \A s \in Slots : Live(s) => cache[s].guest \in PCs /\ SlotOf[cache[s].guest] = s

(* The region lies below the offset: everything at or above the offset is   *)
(* nobody's, which is what lets translate_block write there.                *)
RegionAllocated ==
  /\ region.start + region.size <= offset
  /\ \A i \in Span(region.start, region.size) : owner[i] = Client

(* While the context is not initialised nothing is cached.                  *)
NothingCached == ~initialized => \A s \in Slots : ~Live(s)

Inv ==
  /\ TypeOK
  /\ GlobalFlagTrue
  /\ CodeIntact
  /\ TagsMatchSlots
  /\ RegionAllocated
  /\ NothingCached

-----------------------------------------------------------------------------
(* Aligning an offset moves it up, by less than the alignment.              *)
LEMMA AlignUpBounds ==
  ASSUME NEW x \in Nat, NEW a \in Nat \ {0}
  PROVE  AlignUp(x, a) \in Nat /\ x <= AlignUp(x, a) /\ AlignUp(x, a) < x + a
<1>1. x % a \in 0 .. a - 1
  OBVIOUS
<1>2. (a - (x % a)) % a \in 0 .. a - 1
  BY <1>1
<1> QED
  BY <1>1, <1>2 DEF AlignUp

(* The empty entry and the cleared entry are entries.                       *)
LEMMA EntryTypes ==
  /\ ZeroEntry \in Entry
  /\ \A e \in Entry : Cleared(e) \in Entry /\ Cleared(e).host = Null
  /\ ZeroEntry.host = Null
<1>1. ZeroEntry \in Entry /\ ZeroEntry.host = Null
  BY DEF ZeroEntry, Entry
<1>2. ASSUME NEW e \in Entry
      PROVE  Cleared(e) \in Entry /\ Cleared(e).host = Null
  BY <1>2 DEF Cleared, Entry
<1> QED
  BY <1>1, <1>2

(* Handing cells to someone keeps the owner map well typed and changes no   *)
(* other cell.                                                              *)
LEMMA FilledType ==
  ASSUME owner \in [Cells -> PCs \union {Nobody, Client}],
         NEW start, NEW n, NEW who \in PCs \union {Nobody, Client}
  PROVE  /\ Filled(start, n, who) \in [Cells -> PCs \union {Nobody, Client}]
         /\ \A i \in Cells : Filled(start, n, who)[i] =
              IF i \in Span(start, n) THEN who ELSE owner[i]
BY DEF Filled

LEMMA InitEstablishesInv == Init => Inv
<1> SUFFICES ASSUME Init PROVE Inv
  OBVIOUS
<1> USE JitAssumption, EntryTypes DEF Init
<1>1. cache \in [Slots -> Entry] /\ \A s \in Slots : ~Live(s)
  BY DEF Live
<1>2. prot \in [Pages -> {"RW", "RX"}]
  OBVIOUS
<1>3. owner \in [Cells -> PCs \union {Nobody, Client}]
  OBVIOUS
<1>4. region \in [start : Nat, size : Nat]
  BY DEF NoRegion
<1>5. gInit \in BOOLEAN /\ initialized \in BOOLEAN /\ alive \in BOOLEAN
  OBVIOUS
<1>7. offset \in 0 .. CacheSize /\ insertIndex \in Nat /\ blocks \in Nat /\ hits \in Nat
  OBVIOUS
<1>8. TypeOK
  BY <1>1, <1>2, <1>3, <1>4, <1>5, <1>7 DEF TypeOK
<1>6. RegionAllocated
  BY DEF RegionAllocated, NoRegion, Span, Cells
<1> QED
  BY <1>1, <1>6, <1>8 DEF Inv, GlobalFlagTrue, CodeIntact, CodeOwned,
     TagsMatchSlots, NothingCached

-----------------------------------------------------------------------------
(* A step that empties the translation cache and gives up the region keeps  *)
(* the invariant: jit_init, jit_cleanup and jit_reset.                      *)
LEMMA EmptyingKeepsInv ==
  ASSUME TypeOK', GlobalFlagTrue', \A s \in Slots : ~Live(s)', region' = NoRegion
  PROVE  Inv'
<1>1. RegionAllocated'
  BY DEF RegionAllocated, NoRegion, Span, Cells, TypeOK
<1> QED
  BY <1>1 DEF Inv, CodeIntact, CodeOwned, TagsMatchSlots, NothingCached

(* A step that publishes code for pc in cells that belong to no live        *)
(* translation, below the new offset, keeps every translation intact.       *)
LEMMA PublishingKeepsCode ==
  ASSUME Inv, TypeOK',
         NEW pc \in PCs, NEW start \in Nat, NEW n \in Nat, NEW whole \in BOOLEAN,
         Insert(pc, start, n, whole),
         owner' = Filled(start, n, pc),
         offset <= offset', start + n <= offset',
         \A s \in Slots : Live(s) =>
           \A i \in Span(start, n) : i \notin Span(cache[s].host, cache[s].size)
  PROVE  CodeIntact' /\ TagsMatchSlots'
<1> USE JitAssumption
<1> DEFINE new == [guest |-> pc, host |-> start, size |-> n, refcount |-> 1,
                   whole |-> whole]
<1>1. /\ cache \in [Slots -> Entry] /\ offset \in Nat /\ offset' \in Nat
      /\ owner \in [Cells -> PCs \union {Nobody, Client}]
  BY DEF Inv, TypeOK
<1>2. cache' = [cache EXCEPT ![SlotOf[pc]] = new] /\ SlotOf[pc] \in Slots
  BY DEF Insert
<1>3. \A i \in Cells : owner'[i] = IF i \in Span(start, n) THEN pc ELSE owner[i]
  BY <1>1, FilledType
<1>4. ASSUME NEW s \in Slots, Live(s)'
      PROVE  /\ (cache[s].host + cache[s].size <= offset)'
             /\ (\A i \in Span(cache[s].host, cache[s].size) :
                   owner[i] = cache[s].guest)'
             /\ (cache[s].guest \in PCs /\ SlotOf[cache[s].guest] = s)'
  <2>1. CASE s = SlotOf[pc]
    <3>1. cache'[s] = new
      BY <1>1, <1>2, <2>1
    <3>2. \A i \in Span(start, n) : owner'[i] = pc
      BY <1>3 DEF Span
    <3> QED
      BY <3>1, <3>2, <2>1 DEF Span
  <2>2. CASE s # SlotOf[pc]
    <3>1. cache'[s] = cache[s]
      BY <1>1, <1>2, <2>2
    <3>2. Live(s)
      BY <1>4, <3>1 DEF Live
    <3>3. cache[s].host \in Nat /\ cache[s].size \in Nat
      BY <1>1, <3>2 DEF Entry, Live
    <3>4. cache[s].host + cache[s].size <= offset'
      BY <1>1, <3>2, <3>3 DEF Inv, CodeIntact
    <3>5. ASSUME NEW i \in Span(cache[s].host, cache[s].size)
          PROVE  owner'[i] = cache[s].guest
      <4>1. i \notin Span(start, n) /\ i \in Cells
        BY <3>2 DEF Span
      <4>2. owner[i] = cache[s].guest
        BY <3>2 DEF Inv, CodeIntact, CodeOwned
      <4> QED
        BY <1>3, <4>1, <4>2
    <3>6. cache[s].guest \in PCs /\ SlotOf[cache[s].guest] = s
      BY <3>2 DEF Inv, TagsMatchSlots
    <3>7. \A i \in Span(cache'[s].host, cache'[s].size) : owner'[i] = cache'[s].guest
      BY <3>1, <3>5
    <3> QED
      BY <3>1, <3>4, <3>6, <3>7 DEF Span
  <2> QED
    BY <2>1, <2>2
<1> QED
  BY <1>4 DEF CodeIntact, CodeOwned, TagsMatchSlots, Live, Span

-----------------------------------------------------------------------------
(* A step that leaves offset, owner and region alone and only drops or      *)
(* re-counts translations keeps them intact: lookup, invalidate, flush.     *)
LEMMA DroppingKeepsInv ==
  ASSUME Inv, TypeOK',
         UNCHANGED <<gInit, initialized, offset, owner, region>>, initialized,
         \A s \in Slots : Live(s)' =>
           /\ Live(s)
           /\ cache'[s].guest = cache[s].guest /\ cache'[s].host = cache[s].host
           /\ cache'[s].size = cache[s].size
  PROVE  Inv'
<1>1. CodeIntact' /\ TagsMatchSlots'
  BY DEF Inv, CodeIntact, CodeOwned, TagsMatchSlots, Span, Cells
<1>2. RegionAllocated'
  BY DEF Inv, RegionAllocated, Span, Cells
<1> QED
  BY <1>1, <1>2 DEF Inv, GlobalFlagTrue, NothingCached

LEMMA LookupHitCache ==
  ASSUME Inv, NEW pc \in PCs, LookupHit(pc)
  PROVE  /\ cache' \in [Slots -> Entry]
         /\ hits' \in Nat
         /\ \A s \in Slots : /\ Live(s)' = Live(s)
                             /\ cache'[s].guest = cache[s].guest
                             /\ cache'[s].host = cache[s].host
                             /\ cache'[s].size = cache[s].size
<1> USE JitAssumption
<1>1. cache \in [Slots -> Entry] /\ hits \in Nat /\ SlotOf[pc] \in Slots
  BY DEF Inv, TypeOK
<1>2. cache' = [cache EXCEPT ![SlotOf[pc]].refcount = cache[SlotOf[pc]].refcount + 1]
      /\ hits' = hits + 1
  BY DEF LookupHit
<1>3. cache[SlotOf[pc]] \in Entry
  BY <1>1
<1>4. [cache[SlotOf[pc]] EXCEPT !.refcount = cache[SlotOf[pc]].refcount + 1] \in Entry
  BY <1>3 DEF Entry
<1>5. \A s \in Slots : cache'[s] =
        IF s = SlotOf[pc]
          THEN [cache[SlotOf[pc]] EXCEPT !.refcount = cache[SlotOf[pc]].refcount + 1]
          ELSE cache[s]
  BY <1>1, <1>2
<1>6. cache' \in [Slots -> Entry]
  BY <1>1, <1>2, <1>4
<1>7. ASSUME NEW s \in Slots
      PROVE  /\ cache'[s].guest = cache[s].guest /\ cache'[s].host = cache[s].host
             /\ cache'[s].size = cache[s].size
  BY <1>1, <1>3, <1>5 DEF Entry
<1> QED
  BY <1>1, <1>2, <1>6, <1>7 DEF Live

(* The hit path of translate_block. *)
LEMMA TranslateHitKeepsInv ==
  ASSUME Inv, NEW pc \in PCs, initialized, TranslateHit(pc), alive' \in BOOLEAN
  PROVE  Inv'
<1>1. LookupHit(pc) /\ UNCHANGED <<gInit, initialized, offset, insertIndex, blocks,
                                  memory, region>>
  BY DEF TranslateHit
<1>2. TypeOK'
  BY <1>1, LookupHitCache DEF Inv, TypeOK, memory
<1> QED
  BY <1>1, <1>2, LookupHitCache, DroppingKeepsInv DEF memory

(* The miss path of translate_block: the block is emitted at the offset,    *)
(* above everything a translation or a client owns.                         *)
LEMMA TranslateMissKeepsInv ==
  ASSUME Inv, NEW pc \in PCs, NEW full \in BlockSizes, NEW ok \in BOOLEAN,
         initialized, TranslateMiss(pc, full, ok), alive' \in BOOLEAN
  PROVE  Inv'
<1> USE JitAssumption
<1> DEFINE room == CacheSize - offset
           n == IF full <= room THEN full ELSE room
           whole == full <= room
<1>1. offset \in 0 .. CacheSize /\ full \in Nat /\ n \in Nat /\ offset + n <= CacheSize
  BY DEF Inv, TypeOK
<1>2. /\ owner' = Filled(offset, n, pc) /\ MarkExecutable(offset, n, ok)
      /\ offset' = offset + n /\ Insert(pc, offset, n, whole)
      /\ UNCHANGED <<gInit, initialized, region>> /\ hits' = hits
  BY DEF TranslateMiss, LookupMiss
<1>3. prot' \in [Pages -> {"RW", "RX"}]
  BY <1>2 DEF MarkExecutable, Inv, TypeOK
<1>4. owner' \in [Cells -> PCs \union {Nobody, Client}]
      /\ \A i \in Cells : owner'[i] = IF i \in Span(offset, n) THEN pc ELSE owner[i]
  BY <1>2, FilledType DEF Inv, TypeOK
<1>5. cache' \in [Slots -> Entry] /\ insertIndex' \in Nat /\ blocks' \in Nat
  <2>1. [guest |-> pc, host |-> offset, size |-> n, refcount |-> 1,
         whole |-> whole] \in Entry
    BY <1>1 DEF Entry
  <2> QED
    BY <1>2, <2>1 DEF Insert, Inv, TypeOK
<1>6. TypeOK'
  BY <1>1, <1>2, <1>3, <1>4, <1>5 DEF Inv, TypeOK
<1>7. \A s \in Slots : Live(s) =>
        \A i \in Span(offset, n) : i \notin Span(cache[s].host, cache[s].size)
  <2> SUFFICES ASSUME NEW s \in Slots, Live(s), NEW i \in Span(offset, n)
               PROVE  i \notin Span(cache[s].host, cache[s].size)
    OBVIOUS
  <2>1. cache[s].host \in Nat /\ cache[s].size \in Nat
    BY DEF Inv, TypeOK, Entry, Live
  <2>2. cache[s].host + cache[s].size <= offset
    BY DEF Inv, CodeIntact
  <2> QED
    BY <1>1, <2>1, <2>2 DEF Span, Cells
<1>8. CodeIntact' /\ TagsMatchSlots'
  <2>1. offset <= offset' /\ offset + n <= offset' /\ offset \in Nat
        /\ whole \in BOOLEAN
    BY <1>1, <1>2
  <2> HIDE DEF n, whole
  <2> QED
    BY <1>1, <1>2, <1>6, <1>7, <2>1, PublishingKeepsCode
<1>9. RegionAllocated'
  <2>1. region.start \in Nat /\ region.size \in Nat
        /\ region.start + region.size <= offset
        /\ \A i \in Span(region.start, region.size) : owner[i] = Client
    BY DEF Inv, TypeOK, RegionAllocated
  <2>2. \A i \in Span(region.start, region.size) : i \notin Span(offset, n)
    BY <1>1, <2>1 DEF Span, Cells
  <2> QED
    BY <1>1, <1>2, <1>4, <2>1, <2>2 DEF RegionAllocated, Span
<1> QED
  BY <1>2, <1>6, <1>8, <1>9 DEF Inv, GlobalFlagTrue, NothingCached

(* The fault path of translate_block. *)
LEMMA TranslateFaultKeepsInv ==
  ASSUME Inv, NEW pc \in PCs, NEW full \in BlockSizes,
         initialized, TranslateFault(pc, full)
  PROVE  Inv'
<1>1. /\ UNCHANGED <<gInit, initialized, offset, cache, insertIndex, blocks, hits,
                     prot, owner, region>>
      /\ alive' = FALSE
  BY DEF TranslateFault, LookupMiss, memory
<1>2. TypeOK'
  BY <1>1 DEF Inv, TypeOK
<1> QED
  BY <1>1, <1>2, DroppingKeepsInv DEF Live

-----------------------------------------------------------------------------
LEMMA InitGlobalKeepsInv == Inv /\ JitInitGlobal => Inv'
<1> SUFFICES ASSUME Inv, JitInitGlobal PROVE Inv'
  OBVIOUS
<1> USE JitAssumption, EntryTypes
<1>1. /\ gInit' = TRUE /\ initialized' = TRUE /\ alive' = alive
      /\ offset' = 0 /\ insertIndex' = 0 /\ blocks' = 0 /\ hits' = 0
      /\ cache' = [s \in Slots |-> ZeroEntry]
      /\ prot' = [p \in Pages |-> "RW"] /\ owner' = [i \in Cells |-> Nobody]
      /\ region' = NoRegion
  BY DEF JitInitGlobal, JitInit
<1>2. cache' \in [Slots -> Entry] /\ \A s \in Slots : ~Live(s)'
  BY <1>1 DEF Live
<1>3. prot' \in [Pages -> {"RW", "RX"}]
      /\ owner' \in [Cells -> PCs \union {Nobody, Client}]
      /\ region' \in [start : Nat, size : Nat]
  BY <1>1 DEF NoRegion
<1>4. offset' \in 0 .. CacheSize /\ insertIndex' \in Nat /\ blocks' \in Nat
      /\ hits' \in Nat
  BY <1>1
<1>5. gInit' \in BOOLEAN /\ initialized' \in BOOLEAN /\ alive' \in BOOLEAN
  BY <1>1 DEF Inv, TypeOK
<1>6. TypeOK'
  BY <1>2, <1>3, <1>4, <1>5 DEF TypeOK
<1> QED
  BY <1>1, <1>2, <1>6, EmptyingKeepsInv DEF GlobalFlagTrue

LEMMA CleanupGlobalKeepsInv == Inv /\ JitCleanupGlobal => Inv'
<1> SUFFICES ASSUME Inv, JitCleanupGlobal PROVE Inv'
  OBVIOUS
<1> USE JitAssumption, EntryTypes
<1>1. /\ gInit' = FALSE /\ initialized' = FALSE /\ alive' = alive
      /\ offset' = 0 /\ UNCHANGED <<insertIndex, blocks, hits, prot>>
      /\ cache' = [s \in Slots |-> ZeroEntry]
      /\ owner' = [i \in Cells |-> Nobody] /\ region' = NoRegion
  BY DEF JitCleanupGlobal, JitCleanup, stats
<1>2. cache' \in [Slots -> Entry] /\ \A s \in Slots : ~Live(s)'
  BY <1>1 DEF Live
<1>3. owner' \in [Cells -> PCs \union {Nobody, Client}]
      /\ region' \in [start : Nat, size : Nat] /\ offset' \in 0 .. CacheSize
  BY <1>1 DEF NoRegion
<1>4. gInit' \in BOOLEAN /\ initialized' \in BOOLEAN /\ alive' \in BOOLEAN
  BY <1>1 DEF Inv, TypeOK
<1>5. TypeOK'
  BY <1>1, <1>2, <1>3, <1>4 DEF Inv, TypeOK
<1> QED
  BY <1>1, <1>2, <1>5, EmptyingKeepsInv DEF GlobalFlagTrue

LEMMA FlushedIsEmpty ==
  ASSUME Inv
  PROVE  Flushed \in [Slots -> Entry] /\ \A s \in Slots : Flushed[s].host = Null
BY EntryTypes DEF Inv, TypeOK, Flushed

LEMMA ResetKeepsInv == Inv /\ JitReset => Inv'
<1> SUFFICES ASSUME Inv, JitReset PROVE Inv'
  OBVIOUS
<1> USE JitAssumption
<1>1. /\ UNCHANGED <<gInit, initialized, prot, alive>>
      /\ offset' = 0 /\ blocks' = 0 /\ hits' = 0
      /\ owner' = [i \in Cells |-> Nobody] /\ region' = NoRegion
  BY DEF JitReset
<1>2. /\ cache' \in [Slots -> Entry] /\ insertIndex' \in Nat
      /\ \A s \in Slots : ~Live(s)'
  <2>1. CASE initialized
    BY <2>1, FlushedIsEmpty DEF JitReset, Live
  <2>2. CASE ~initialized
    <3>1. cache' = cache /\ insertIndex' = insertIndex
      BY <2>2 DEF JitReset
    <3> QED
      BY <2>2, <3>1 DEF Inv, TypeOK, NothingCached, Live
  <2> QED
    BY <2>1, <2>2
<1>3. owner' \in [Cells -> PCs \union {Nobody, Client}]
      /\ region' \in [start : Nat, size : Nat] /\ offset' \in 0 .. CacheSize
      /\ blocks' \in Nat /\ hits' \in Nat
  BY <1>1 DEF NoRegion
<1>4. TypeOK'
  BY <1>1, <1>2, <1>3 DEF Inv, TypeOK
<1> QED
  BY <1>1, <1>2, <1>4, EmptyingKeepsInv DEF Inv, GlobalFlagTrue

LEMMA FlushKeepsInv == Inv /\ TranslationFlush => Inv'
<1> SUFFICES ASSUME Inv, TranslationFlush PROVE Inv'
  OBVIOUS
<1>1. /\ initialized /\ cache' = Flushed /\ insertIndex' = 0
      /\ UNCHANGED <<gInit, initialized, offset, blocks, hits, prot, owner,
                     region, alive>>
  BY DEF TranslationFlush, memory
<1>2. cache' \in [Slots -> Entry] /\ \A s \in Slots : ~Live(s)'
  BY <1>1, FlushedIsEmpty DEF Live
<1>3. TypeOK'
  BY <1>1, <1>2 DEF Inv, TypeOK
<1> QED
  BY <1>1, <1>2, <1>3, DroppingKeepsInv

LEMMA LookupKeepsInv ==
  ASSUME Inv, NEW pc \in PCs, TranslationLookup(pc)
  PROVE  Inv'
<1>1. /\ initialized
      /\ UNCHANGED <<gInit, initialized, offset, insertIndex, blocks, prot, owner,
                     region, alive>>
  BY DEF TranslationLookup, memory
<1>2. CASE LookupHit(pc)
  <2>1. TypeOK'
    BY <1>1, <1>2, LookupHitCache DEF Inv, TypeOK
  <2> QED
    BY <1>1, <1>2, <2>1, LookupHitCache, DroppingKeepsInv
<1>3. CASE LookupMiss(pc) /\ UNCHANGED cache
  <2>1. hits' = hits
    BY <1>3 DEF LookupMiss
  <2>2. TypeOK'
    BY <1>1, <1>3, <2>1 DEF Inv, TypeOK
  <2> QED
    BY <1>1, <1>3, <2>2, DroppingKeepsInv DEF Live
<1> QED
  BY <1>2, <1>3 DEF TranslationLookup

LEMMA InvalidateKeepsInv ==
  ASSUME Inv, NEW pc \in PCs, TranslationInvalidate(pc)
  PROVE  Inv'
<1> USE JitAssumption
<1>1. /\ initialized /\ cache' = [cache EXCEPT ![SlotOf[pc]] = Cleared(cache[SlotOf[pc]])]
      /\ UNCHANGED <<gInit, initialized, offset, insertIndex, blocks, hits, prot,
                     owner, region, alive>>
  BY DEF TranslationInvalidate, memory, stats
<1>2. cache \in [Slots -> Entry] /\ SlotOf[pc] \in Slots
  BY DEF Inv, TypeOK
<1>3. cache' \in [Slots -> Entry]
  BY <1>1, <1>2, EntryTypes
<1>4. \A s \in Slots : Live(s)' => cache'[s] = cache[s] /\ Live(s)
  BY <1>1, <1>2, EntryTypes DEF Live
<1>5. TypeOK'
  BY <1>1, <1>3 DEF Inv, TypeOK
<1> QED
  BY <1>1, <1>4, <1>5, DroppingKeepsInv

(* A client publishes the region it filled.                                 *)
LEMMA InsertKeepsInv ==
  ASSUME Inv, NEW pc \in PCs, TranslationInsert(pc)
  PROVE  Inv'
<1> USE JitAssumption
<1> DEFINE start == region.start
           n == region.size
           whole == TRUE
<1>1. /\ initialized /\ owner' = Filled(start, n, pc) /\ Insert(pc, start, n, whole)
      /\ region' = NoRegion
      /\ UNCHANGED <<gInit, initialized, offset, hits, prot, alive>>
  BY DEF TranslationInsert
<1>2. /\ start \in Nat /\ n \in Nat /\ start + n <= offset /\ offset \in Nat
      /\ \A i \in Span(start, n) : owner[i] = Client
  BY DEF Inv, TypeOK, RegionAllocated
<1>3. owner' \in [Cells -> PCs \union {Nobody, Client}]
  BY <1>1, FilledType DEF Inv, TypeOK
<1>4. cache' \in [Slots -> Entry] /\ insertIndex' \in Nat /\ blocks' \in Nat
  <2>1. [guest |-> pc, host |-> start, size |-> n, refcount |-> 1,
         whole |-> whole] \in Entry
    BY <1>2 DEF Entry
  <2> QED
    BY <1>1, <2>1 DEF Insert, Inv, TypeOK
<1>5. region' \in [start : Nat, size : Nat]
  BY <1>1 DEF NoRegion
<1>6. TypeOK'
  BY <1>1, <1>3, <1>4, <1>5 DEF Inv, TypeOK
<1>7. \A s \in Slots : Live(s) =>
        \A i \in Span(start, n) : i \notin Span(cache[s].host, cache[s].size)
  BY <1>2 DEF Inv, CodeIntact, CodeOwned, TagsMatchSlots
<1>8. CodeIntact' /\ TagsMatchSlots'
  <2>1. offset <= offset' /\ start + n <= offset' /\ whole \in BOOLEAN
    BY <1>1, <1>2
  <2> HIDE DEF n, start, whole
  <2> QED
    BY <1>1, <1>2, <1>6, <1>7, <2>1, PublishingKeepsCode
<1>9. RegionAllocated'
  BY <1>1, <1>2 DEF RegionAllocated, NoRegion, Span, Cells
<1> QED
  BY <1>1, <1>6, <1>8, <1>9 DEF Inv, GlobalFlagTrue, NothingCached

(* A client allocates a region: it starts at or above the offset, so it     *)
(* holds no cell of a live translation.                                     *)
LEMMA AllocKeepsInv ==
  ASSUME NoWrap, Inv, NEW n \in AllocSizes, NEW a \in Alignments,
         CodeCacheAlloc(n, a)
  PROVE  Inv'
<1> USE JitAssumption
<1> DEFINE start == AlignUp(offset, a) % Word
           end == (start + n) % Word
<1>1. offset \in 0 .. CacheSize /\ n \in Nat /\ a \in Nat \ {0} /\ Word \in Nat
      /\ CacheSize + a + n < Word /\ offset \in Nat
  BY DEF Inv, TypeOK, NoWrap
<1>2. AlignUp(offset, a) \in Nat /\ offset <= AlignUp(offset, a)
      /\ AlignUp(offset, a) < offset + a
  BY <1>1, AlignUpBounds
<1>3. start = AlignUp(offset, a)
  BY <1>1, <1>2
<1>4. end = start + n /\ start \in Nat /\ offset <= start
  BY <1>1, <1>2, <1>3
<1>5. /\ initialized /\ end <= CacheSize /\ offset' = end
      /\ region' = [start |-> start, size |-> n] /\ owner' = Filled(start, n, Client)
      /\ UNCHANGED <<gInit, initialized, cache, insertIndex, blocks, hits, prot, alive>>
  BY DEF CodeCacheAlloc, stats
<1> HIDE DEF start, end
<1>6. /\ owner' \in [Cells -> PCs \union {Nobody, Client}]
      /\ \A i \in Cells : owner'[i] = IF i \in Span(start, n) THEN Client ELSE owner[i]
  BY <1>5, FilledType DEF Inv, TypeOK
<1>7. TypeOK'
  BY <1>1, <1>4, <1>5, <1>6 DEF Inv, TypeOK
<1>8. RegionAllocated'
  BY <1>1, <1>4, <1>5, <1>6 DEF RegionAllocated, Span
<1>9. CodeIntact' /\ TagsMatchSlots'
  <2> SUFFICES ASSUME NEW s \in Slots, Live(s)
               PROVE  /\ cache[s].host + cache[s].size <= offset'
                      /\ \A i \in Span(cache[s].host, cache[s].size) :
                           owner'[i] = cache[s].guest
    BY <1>5 DEF CodeIntact, CodeOwned, TagsMatchSlots, Live, Span, Cells, Inv
  <2>1. cache[s].host \in Nat /\ cache[s].size \in Nat
    BY DEF Inv, TypeOK, Entry, Live
  <2>2. cache[s].host + cache[s].size <= offset
    BY DEF Inv, CodeIntact
  <2>3. ASSUME NEW i \in Span(cache[s].host, cache[s].size)
        PROVE  owner'[i] = cache[s].guest
    <3>1. i \in Cells /\ i < offset
      BY <1>1, <2>1, <2>2 DEF Span, Cells
    <3>2. i \notin Span(start, n)
      BY <1>1, <1>4, <3>1 DEF Span, Cells
    <3>3. owner[i] = cache[s].guest
      BY DEF Inv, CodeIntact, CodeOwned
    <3> QED
      BY <1>6, <3>1, <3>2, <3>3
  <2> QED
    BY <1>1, <1>4, <1>5, <2>1, <2>2, <2>3
<1> QED
  BY <1>5, <1>7, <1>8, <1>9 DEF Inv, GlobalFlagTrue, NothingCached

LEMMA MarkKeepsInv == Inv /\ CodeCacheMarkExecutable => Inv'
<1> SUFFICES ASSUME Inv, CodeCacheMarkExecutable PROVE Inv'
  OBVIOUS
<1>1. /\ initialized
      /\ UNCHANGED <<gInit, initialized, offset, cache, insertIndex, blocks, hits,
                     owner, region, alive>>
      /\ \E ok \in BOOLEAN : MarkExecutable(region.start, region.size, ok)
  BY DEF CodeCacheMarkExecutable, stats
<1>2. prot' \in [Pages -> {"RW", "RX"}]
  BY <1>1 DEF MarkExecutable, Inv, TypeOK
<1>3. TypeOK'
  BY <1>1, <1>2 DEF Inv, TypeOK
<1> QED
  BY <1>1, <1>3, DroppingKeepsInv DEF Live

LEMMA TranslateKeepsInv ==
  ASSUME Inv, NEW pc \in PCs, TranslateBlock(pc)
  PROVE  Inv'
<1>1. initialized /\ alive \in BOOLEAN
  BY DEF TranslateBlock, Inv, TypeOK
<1>2. CASE TranslateHit(pc) /\ UNCHANGED alive
  BY <1>1, <1>2, TranslateHitKeepsInv
<1>3. ASSUME NEW full \in BlockSizes, NEW ok \in BOOLEAN,
             TranslateMiss(pc, full, ok), UNCHANGED alive
      PROVE  Inv'
  BY <1>1, <1>3, TranslateMissKeepsInv
<1>4. ASSUME NEW full \in BlockSizes, TranslateFault(pc, full)
      PROVE  Inv'
  BY <1>1, <1>4, TranslateFaultKeepsInv
<1> QED
  BY <1>2, <1>3, <1>4 DEF TranslateBlock

LEMMA ExecuteKeepsInv ==
  ASSUME Inv, NEW pc \in PCs, JitExecute(pc)
  PROVE  Inv'
<1>1. initialized
  BY DEF JitExecute
<1>2. ASSUME NEW e \in Entry, NEW protection
      PROVE  Returns(e, protection) \in BOOLEAN
  BY <1>2 DEF Returns, Entry
<1>3. CASE TranslateHit(pc) /\ alive' = Returns(cache[SlotOf[pc]], prot)
  BY <1>1, <1>2, <1>3, TranslateHitKeepsInv, JitAssumption DEF Inv, TypeOK
<1>4. ASSUME NEW full \in BlockSizes, NEW ok \in BOOLEAN,
             TranslateMiss(pc, full, ok), alive' = Returns(cache'[SlotOf[pc]], prot')
      PROVE  Inv'
  <2>1. alive' \in BOOLEAN
    BY <1>4 DEF Returns
  <2> QED
    BY <1>1, <1>4, <2>1, TranslateMissKeepsInv
<1>5. ASSUME NEW full \in BlockSizes, TranslateFault(pc, full)
      PROVE  Inv'
  BY <1>1, <1>5, TranslateFaultKeepsInv
<1> QED
  BY <1>3, <1>4, <1>5 DEF JitExecute

(* The invariant is inductive: every operation keeps it.                    *)
LEMMA NextKeepsInv ==
  ASSUME NoWrap, Inv, [Next]_vars
  PROVE  Inv'
<1>1. CASE UNCHANGED vars
  BY <1>1 DEF vars, Inv, TypeOK, GlobalFlagTrue, CodeIntact, CodeOwned,
     TagsMatchSlots, RegionAllocated, NothingCached, Live, Span, Cells
<1>2. ASSUME NEW pc \in PCs,
             \/ TranslationLookup(pc)
             \/ TranslationInsert(pc)
             \/ TranslationInvalidate(pc)
             \/ TranslateBlock(pc)
             \/ JitExecute(pc)
      PROVE  Inv'
  BY <1>2, LookupKeepsInv, InsertKeepsInv, InvalidateKeepsInv, TranslateKeepsInv,
     ExecuteKeepsInv
<1> QED
  BY <1>1, <1>2, InitGlobalKeepsInv, CleanupGlobalKeepsInv, ResetKeepsInv,
     FlushKeepsInv, MarkKeepsInv, AllocKeepsInv DEF Next

-----------------------------------------------------------------------------
(* The invariant holds in every reachable state of the JIT core.            *)
THEOREM InvHolds == ASSUME NoWrap PROVE Spec => []Inv
<1>1. Init => Inv
  BY InitEstablishesInv
<1>2. Inv /\ [Next]_vars => Inv'
  BY NextKeepsInv
<1> QED
  BY <1>1, <1>2, PTL DEF Spec

(* The context is well typed and its code cache offset never passes the end *)
(* of the code cache.                                                       *)
THEOREM TypeCorrect == ASSUME NoWrap PROVE Spec => []TypeOK
BY InvHolds, PTL DEF Inv

(* A region handed to a client lies inside the code cache and stays the     *)
(* client's until it publishes it.                                          *)
THEOREM RegionStaysIntact == ASSUME NoWrap PROVE Spec => []RegionIntact
<1>1. Inv => RegionIntact
  BY JitAssumption DEF Inv, TypeOK, RegionAllocated, RegionIntact
<1> QED
  BY <1>1, InvHolds, PTL

(* No translation that translation_lookup can return is ever overwritten.   *)
THEOREM CodeStaysIntact == ASSUME NoWrap PROVE Spec => []CodeIntact
BY InvHolds, PTL DEF Inv

(* jit_init_global never reports success for an uninitialised context.      *)
THEOREM GlobalFlagIsTrue == ASSUME NoWrap PROVE Spec => []GlobalFlagTrue
BY InvHolds, PTL DEF Inv

(* The code cache is rewound only together with the translation cache.      *)
THEOREM NoRewind == ASSUME NoWrap PROVE Spec => NoRewindUnderCode
<1>1. ASSUME Inv, Inv', [Next]_vars, offset' < offset
      PROVE  \A s \in Slots : ~Live(s)'
  <2> USE JitAssumption, EntryTypes
  <2>1. offset \in Nat /\ offset' \in Nat /\ offset <= CacheSize
    BY <1>1 DEF Inv, TypeOK
  <2>2. CASE JitInitGlobal
    BY <2>2 DEF JitInitGlobal, JitInit, Live
  <2>3. CASE JitCleanupGlobal
    BY <2>3 DEF JitCleanupGlobal, JitCleanup, Live
  <2>4. CASE JitReset
    <3>1. CASE initialized
      BY <1>1, <2>4, <3>1, FlushedIsEmpty DEF JitReset, Live
    <3>2. CASE ~initialized
      BY <1>1, <2>4, <3>2 DEF JitReset, Inv, NothingCached, Live
    <3> QED
      BY <3>1, <3>2
  <2>5. ASSUME NEW n \in AllocSizes, NEW a \in Alignments, CodeCacheAlloc(n, a)
        PROVE  offset <= offset'
    <3>1. n \in Nat /\ a \in Nat \ {0} /\ CacheSize + a + n < Word /\ Word \in Nat
      BY DEF NoWrap
    <3>2. AlignUp(offset, a) \in Nat /\ offset <= AlignUp(offset, a)
          /\ AlignUp(offset, a) < offset + a
      BY <2>1, <3>1, AlignUpBounds
    <3>3. AlignUp(offset, a) % Word = AlignUp(offset, a)
      BY <2>1, <3>1, <3>2
    <3>4. (AlignUp(offset, a) + n) % Word = AlignUp(offset, a) + n
      <4>1. AlignUp(offset, a) + n \in Nat /\ AlignUp(offset, a) + n < Word
        BY <2>1, <3>1, <3>2
      <4> QED
        BY <3>1, <4>1
    <3>5. offset' = AlignUp(offset, a) + n
      BY <2>5, <3>3, <3>4 DEF CodeCacheAlloc
    <3> QED
      BY <2>1, <3>1, <3>2, <3>5
  <2>6. ASSUME NEW pc \in PCs, NEW full \in BlockSizes, NEW ok \in BOOLEAN,
               TranslateMiss(pc, full, ok)
        PROVE  offset <= offset'
    <3>1. full \in Nat
      OBVIOUS
    <3> QED
      BY <1>1, <2>1, <2>6, <3>1 DEF TranslateMiss
  <2>7. ASSUME NEW pc \in PCs, TranslateBlock(pc) \/ JitExecute(pc)
        PROVE  offset <= offset'
    BY <2>1, <2>6, <2>7 DEF TranslateBlock, JitExecute, TranslateHit, TranslateFault
  <2>8. ASSUME NEW pc \in PCs,
               TranslationLookup(pc) \/ TranslationInsert(pc) \/ TranslationInvalidate(pc)
        PROVE  offset <= offset'
    <3>1. offset' = offset
      BY <2>8 DEF TranslationLookup, TranslationInsert, TranslationInvalidate
    <3> QED
      BY <2>1, <3>1
  <2>9. ASSUME TranslationFlush \/ CodeCacheMarkExecutable \/ UNCHANGED vars
        PROVE  offset <= offset'
    <3>1. offset' = offset
      BY <2>9 DEF TranslationFlush, CodeCacheMarkExecutable, vars
    <3> QED
      BY <2>1, <3>1
  <2>10. ~(offset <= offset')
    BY <1>1, <2>1
  <2> QED
    BY <1>1, <2>2, <2>3, <2>4, <2>5, <2>7, <2>8, <2>9, <2>10 DEF Next
<1>2. Inv /\ Inv' /\ [Next]_vars
        => [offset' < offset => \A s \in Slots : ~Live(s)']_vars
  BY <1>1
<1> QED
  BY <1>2, InvHolds, PTL DEF Spec, NoRewindUnderCode

-----------------------------------------------------------------------------
(* Refinement: every step of the JIT core is a step of TranslationMap.      *)
LEMMA ForgettingStep ==
  ASSUME \A pc \in PCs : LookupResult'[pc] \in {Null, LookupResult[pc]}
  PROVE  AbstractMap!Next
<1> DEFINE dropped == {pc \in PCs : LookupResult'[pc] = Null}
<1>1. LookupResult' = [pc \in PCs |-> LookupResult'[pc]]
  BY DEF LookupResult
<1>2. LookupResult' = [pc \in PCs |-> IF pc \in dropped THEN Null ELSE LookupResult[pc]]
  BY <1>1
<1>3. dropped \in SUBSET PCs /\ AbstractMap!Forget(dropped)
  BY <1>2 DEF AbstractMap!Forget
<1> QED
  BY <1>3 DEF AbstractMap!Next

LEMMA InstallingStep ==
  ASSUME NEW new \in PCs, LookupResult'[new] \in 0 .. CacheSize,
         \A pc \in PCs \ {new} : LookupResult'[pc] \in {Null, LookupResult[pc]}
  PROVE  AbstractMap!Next
<1> DEFINE dropped == {pc \in PCs : LookupResult'[pc] = Null}
           v == LookupResult'[new]
<1>1. LookupResult' = [pc \in PCs |-> LookupResult'[pc]]
  BY DEF LookupResult
<1>2. LookupResult' = [pc \in PCs |-> IF pc = new THEN v
                         ELSE IF pc \in dropped THEN Null ELSE LookupResult[pc]]
  BY <1>1
<1>3. dropped \in SUBSET PCs /\ AbstractMap!Install(new, v, dropped)
  BY <1>2 DEF AbstractMap!Install
<1> QED
  BY <1>3 DEF AbstractMap!Next

(* Inserting a translation replaces what its slot held.                     *)
LEMMA InsertingStep ==
  ASSUME Inv, NEW pc \in PCs, NEW host \in 0 .. CacheSize, NEW n, NEW whole,
         Insert(pc, host, n, whole)
  PROVE  AbstractMap!Next
<1> USE JitAssumption
<1>1. cache \in [Slots -> Entry] /\ SlotOf[pc] \in Slots
  BY DEF Inv, TypeOK
<1>2. \A s \in Slots : cache'[s] =
        IF s = SlotOf[pc] THEN [guest |-> pc, host |-> host, size |-> n,
                                refcount |-> 1, whole |-> whole]
        ELSE cache[s]
  BY <1>1 DEF Insert
<1>3. LookupResult'[pc] = host
  BY <1>1, <1>2 DEF LookupResult, Hit, Null
<1>4. ASSUME NEW q \in PCs \ {pc}
      PROVE  LookupResult'[q] \in {Null, LookupResult[q]}
  <2>1. CASE SlotOf[q] = SlotOf[pc]
    BY <1>1, <1>2, <2>1 DEF LookupResult, Hit
  <2>2. CASE SlotOf[q] # SlotOf[pc]
    BY <1>1, <1>2, <2>2 DEF LookupResult, Hit
  <2> QED
    BY <2>1, <2>2
<1> QED
  BY <1>3, <1>4, InstallingStep

(* A step after which every live entry is one that was there before.        *)
LEMMA KeepingStep ==
  ASSUME \A s \in Slots : Live(s)' =>
           cache'[s].guest = cache[s].guest /\ cache'[s].host = cache[s].host
  PROVE  AbstractMap!Next
BY ForgettingStep, JitAssumption DEF LookupResult, Hit, Live

LEMMA EveryStepRefines ==
  ASSUME Inv, Inv', [Next]_vars
  PROVE  [AbstractMap!Next]_LookupResult
<1> USE JitAssumption, EntryTypes
<1>1. CASE UNCHANGED cache
  BY <1>1, KeepingStep
<1>2. CASE JitInitGlobal \/ JitCleanupGlobal
  BY <1>2, KeepingStep DEF JitInitGlobal, JitInit, JitCleanupGlobal, JitCleanup, Live
<1>3. ASSUME cache' = Flushed
      PROVE  AbstractMap!Next
  BY <1>3, FlushedIsEmpty, KeepingStep DEF Live
<1>4. CASE JitReset \/ TranslationFlush
  BY <1>1, <1>3, <1>4 DEF JitReset, TranslationFlush
<1>5. ASSUME NEW pc \in PCs, LookupHit(pc)
      PROVE  AbstractMap!Next
  BY <1>5, LookupHitCache, KeepingStep
<1>6. ASSUME NEW pc \in PCs, TranslationInvalidate(pc)
      PROVE  AbstractMap!Next
  <2>1. cache' = [cache EXCEPT ![SlotOf[pc]] = Cleared(cache[SlotOf[pc]])]
        /\ cache \in [Slots -> Entry] /\ SlotOf[pc] \in Slots
    BY <1>6 DEF TranslationInvalidate, Inv, TypeOK
  <2>2. \A s \in Slots : Live(s)' => cache'[s] = cache[s]
    BY <2>1 DEF Live
  <2> QED
    BY <2>2, KeepingStep
<1>7. ASSUME NEW pc \in PCs, TranslationInsert(pc)
      PROVE  AbstractMap!Next
  <2>1. region.start \in 0 .. CacheSize
    BY DEF Inv, TypeOK, RegionAllocated
  <2> QED
    BY <1>7, <2>1, InsertingStep DEF TranslationInsert
<1>8. ASSUME NEW pc \in PCs, NEW full \in BlockSizes, NEW ok \in BOOLEAN,
             TranslateMiss(pc, full, ok)
      PROVE  AbstractMap!Next
  <2>1. offset \in 0 .. CacheSize
    BY DEF Inv, TypeOK
  <2> QED
    BY <1>8, <2>1, InsertingStep DEF TranslateMiss
<1>9. ASSUME NEW pc \in PCs, TranslateBlock(pc) \/ JitExecute(pc)
      PROVE  AbstractMap!Next \/ UNCHANGED cache
  BY <1>5, <1>8, <1>9 DEF TranslateBlock, JitExecute, TranslateHit, TranslateFault
<1>10. ASSUME NEW pc \in PCs, TranslationLookup(pc)
       PROVE  AbstractMap!Next \/ UNCHANGED cache
  BY <1>5, <1>10 DEF TranslationLookup
<1>11. ASSUME CodeCacheMarkExecutable \/ UNCHANGED vars
              \/ (\E n \in AllocSizes, a \in Alignments : CodeCacheAlloc(n, a))
       PROVE  UNCHANGED cache
  BY <1>11 DEF CodeCacheMarkExecutable, vars, CodeCacheAlloc
<1> QED
  BY <1>1, <1>2, <1>4, <1>6, <1>7, <1>9, <1>10, <1>11 DEF Next

(* The translation cache of the JIT core implements TranslationMap.         *)
THEOREM JitRefinesTranslationMap == ASSUME NoWrap PROVE Spec => RefinesTranslationMap
<1>1. Init => AbstractMap!Init
  BY JitAssumption, EntryTypes
     DEF Init, AbstractMap!Init, LookupResult, Hit
<1>2. Inv /\ Inv' /\ [Next]_vars => [AbstractMap!Next]_LookupResult
  BY EveryStepRefines
<1> QED
  BY <1>1, <1>2, InvHolds, PTL DEF Spec, RefinesTranslationMap, AbstractMap!Spec
-----------------------------------------------------------------------------
(* Reference counts.                                                        *)

(* What a step does to the table: it empties it, or only drops entries, or  *)
(* counts a hit, or inserts one entry.                                      *)
Emptied == \A s \in Slots : ~Live(s)'
Dropped == \A s \in Slots : Live(s)' => cache'[s] = cache[s]
Inserted ==
  \E pc \in PCs : \E host, n, whole : Insert(pc, host, n, whole) /\ hits' = hits

LEMMA StepsOfTheTable ==
  ASSUME Inv, [Next]_vars
  PROVE  \/ Emptied
         \/ Dropped /\ hits' = hits /\ blocks' = blocks /\ insertIndex' = insertIndex
         \/ \E pc \in PCs : LookupHit(pc) /\ blocks' = blocks /\ insertIndex' = insertIndex
         \/ Inserted
<1> USE JitAssumption, EntryTypes
<1> DEFINE Same == hits' = hits /\ blocks' = blocks /\ insertIndex' = insertIndex
<1>1. ASSUME cache' = cache PROVE Dropped
  BY <1>1 DEF Dropped
<1>2. CASE JitInitGlobal \/ JitCleanupGlobal
  <2>1. Emptied
    BY <1>2 DEF JitInitGlobal, JitInit, JitCleanupGlobal, JitCleanup, Live, Emptied
  <2> QED BY <2>1
<1>3. CASE JitReset \/ TranslationFlush
  <2>1. CASE cache' = Flushed
    BY <2>1, FlushedIsEmpty DEF Live, Emptied
  <2>2. CASE JitReset /\ ~initialized
    BY <2>2 DEF JitReset, Inv, NothingCached, Live, Emptied
  <2> QED BY <1>3, <2>1, <2>2 DEF JitReset, TranslationFlush
<1>4. CASE \/ CodeCacheMarkExecutable \/ UNCHANGED vars
           \/ \E n \in AllocSizes, a \in Alignments : CodeCacheAlloc(n, a)
  <2>1. cache' = cache /\ Same
    BY <1>4 DEF CodeCacheMarkExecutable, vars, CodeCacheAlloc, stats
  <2> QED BY <1>1, <2>1
<1>5. ASSUME NEW pc \in PCs, TranslationLookup(pc)
      PROVE  \/ LookupHit(pc) /\ blocks' = blocks /\ insertIndex' = insertIndex
             \/ Dropped /\ Same
  <2>1. blocks' = blocks /\ insertIndex' = insertIndex
    BY <1>5 DEF TranslationLookup
  <2>2. LookupHit(pc) \/ (cache' = cache /\ hits' = hits)
    BY <1>5 DEF TranslationLookup, LookupMiss
  <2>3. CASE LookupHit(pc)
    BY <2>1, <2>3
  <2>4. CASE cache' = cache /\ hits' = hits
    <3>1. Dropped
      BY <1>1, <2>4
    <3> QED BY <2>1, <2>4, <3>1
  <2> QED BY <2>2, <2>3, <2>4
<1>6. ASSUME NEW pc \in PCs, TranslationInvalidate(pc) PROVE Dropped /\ Same
  <2>1. cache' = [cache EXCEPT ![SlotOf[pc]] = Cleared(cache[SlotOf[pc]])]
        /\ cache \in [Slots -> Entry] /\ SlotOf[pc] \in Slots /\ Same
    BY <1>6 DEF TranslationInvalidate, Inv, TypeOK, stats
  <2>2. Dropped
    BY <2>1 DEF Live, Dropped
  <2> QED BY <2>1, <2>2
<1>7. ASSUME NEW pc \in PCs, TranslationInsert(pc) PROVE Inserted
  BY <1>7 DEF TranslationInsert, Inserted
<1>8. ASSUME NEW pc \in PCs, NEW full \in BlockSizes, NEW ok \in BOOLEAN,
             TranslateMiss(pc, full, ok)
      PROVE  Inserted
  BY <1>8 DEF TranslateMiss, LookupMiss, Inserted
<1>9. ASSUME NEW pc \in PCs, NEW full \in BlockSizes, TranslateFault(pc, full)
      PROVE  Dropped /\ Same
  BY <1>1, <1>9 DEF TranslateFault, LookupMiss
<1>10. ASSUME NEW pc \in PCs, TranslateHit(pc)
       PROVE  LookupHit(pc) /\ blocks' = blocks /\ insertIndex' = insertIndex
  BY <1>10 DEF TranslateHit
<1>11. ASSUME NEW pc \in PCs, TranslateBlock(pc) \/ JitExecute(pc)
       PROVE  \/ LookupHit(pc) /\ blocks' = blocks /\ insertIndex' = insertIndex
              \/ Inserted
              \/ Dropped /\ Same
  BY <1>8, <1>9, <1>10, <1>11 DEF TranslateBlock, JitExecute
<1> DEFINE Counted == \E pc \in PCs :
             LookupHit(pc) /\ blocks' = blocks /\ insertIndex' = insertIndex
           Goal == Emptied \/ (Dropped /\ Same) \/ Counted \/ Inserted
<1>12. ASSUME NEW pc \in PCs,
              \/ TranslationLookup(pc)
              \/ TranslationInsert(pc)
              \/ TranslationInvalidate(pc)
              \/ TranslateBlock(pc)
              \/ JitExecute(pc)
       PROVE  Goal
  BY <1>5, <1>6, <1>7, <1>11, <1>12
<1> HIDE DEF Goal
<1>13. CASE \E pc \in PCs :
              \/ TranslationLookup(pc)
              \/ TranslationInsert(pc)
              \/ TranslationInvalidate(pc)
              \/ TranslateBlock(pc)
              \/ JitExecute(pc)
  <2>1. Goal
    BY <1>12, <1>13
  <2> QED BY <2>1 DEF Goal
<1> QED BY <1>2, <1>3, <1>4, <1>13 DEF Next

LEMMA InsertedEntry ==
  ASSUME Inv, NEW pc \in PCs, NEW host, NEW n, NEW whole, Insert(pc, host, n, whole)
  PROVE  /\ SlotOf[pc] \in Slots
         /\ cache'[SlotOf[pc]].refcount = 1
         /\ \A s \in Slots \ {SlotOf[pc]} : cache'[s] = cache[s]
         /\ insertIndex' = insertIndex + 1 /\ blocks' = blocks + 1
BY JitAssumption DEF Insert, Inv, TypeOK

LEMMA NextKeepsRefs ==
  ASSUME Inv, RefsAreHits, [Next]_vars
  PROVE  RefsAreHits'
<1>1. hits \in Nat /\ cache \in [Slots -> Entry]
  BY DEF Inv, TypeOK
<1>2. CASE Emptied
  BY <1>2 DEF Emptied, RefsAreHits
<1>3. CASE Dropped /\ hits' = hits
  BY <1>3 DEF Dropped, RefsAreHits, Live
<1>4. ASSUME NEW pc \in PCs, LookupHit(pc) PROVE RefsAreHits'
  <2> SUFFICES ASSUME NEW s \in Slots, Live(s)'
               PROVE  cache'[s].refcount >= 1 /\ cache'[s].refcount <= hits' + 1
    BY DEF RefsAreHits
  <2>1. /\ cache' = [cache EXCEPT ![SlotOf[pc]].refcount = @ + 1]
        /\ hits' = hits + 1
    BY <1>4 DEF LookupHit
  <2>2. cache[s].refcount \in Nat
    BY <1>1 DEF Entry
  <2>3. cache'[s].host = cache[s].host
        /\ cache'[s].refcount \in {cache[s].refcount, cache[s].refcount + 1}
    BY <1>1, <2>1 DEF Entry
  <2>4. cache[s].refcount >= 1 /\ cache[s].refcount <= hits + 1
    BY <2>3 DEF Live, RefsAreHits
  <2> QED BY <1>1, <2>1, <2>2, <2>3, <2>4
<1>5. ASSUME NEW pc \in PCs, NEW host, NEW n, NEW whole, Insert(pc, host, n, whole),
             hits' = hits
      PROVE  RefsAreHits'
  <2> SUFFICES ASSUME NEW s \in Slots, Live(s)'
               PROVE  cache'[s].refcount >= 1 /\ cache'[s].refcount <= hits' + 1
    BY DEF RefsAreHits
  <2>1. CASE s = SlotOf[pc]
    BY <1>1, <1>5, <2>1, InsertedEntry
  <2>2. CASE s # SlotOf[pc]
    BY <1>5, <2>2, InsertedEntry DEF Live, RefsAreHits
  <2> QED BY <2>1, <2>2
<1> QED BY <1>2, <1>3, <1>4, <1>5, StepsOfTheTable DEF Inserted

(* A reference count is one more than the hits it took, at most all of them. *)
THEOREM RefCountsAreHits == ASSUME NoWrap PROVE Spec => []RefsAreHits
<1>1. Init => RefsAreHits
  BY EntryTypes DEF Init, RefsAreHits, Live
<1>2. Inv /\ RefsAreHits /\ [Next]_vars => RefsAreHits'
  BY NextKeepsRefs
<1> QED BY <1>1, <1>2, InvHolds, PTL DEF Spec

-----------------------------------------------------------------------------
(* The counters of the context.                                             *)
Used == {s \in Slots : cache[s].guest # NoPC /\ Live(s)}

LEMMA UsedFinite ==
  \A S \in SUBSET Slots : IsFiniteSet(S) /\ Cardinality(S) \in Nat
BY JitAssumption, FS_Subset, FS_CardinalityType

(* A step that adds no used entry and leaves the counters alone.            *)
LEMMA FewerUsedAgree ==
  ASSUME Inv, CountersAgree, initialized, Used' \subseteq Used,
         blocks' = blocks, insertIndex' = insertIndex
  PROVE  CountersAgree'
<1>1. Cardinality(Used') <= Cardinality(Used) /\ Cardinality(Used) \in Nat
      /\ Cardinality(Used') \in Nat
  <2>1. Used \in SUBSET Slots /\ Used' \in SUBSET Slots /\ Used' \in SUBSET Used
    BY DEF Used
  <2> QED BY <2>1, UsedFinite, FS_Subset
<1>2. blocks \in Nat /\ insertIndex \in Nat
  BY DEF Inv, TypeOK
<1>3. Cardinality(Used) <= insertIndex /\ insertIndex <= blocks
  BY DEF CountersAgree, UsedCount, Used
<1>4. Cardinality(Used') <= insertIndex' /\ insertIndex' <= blocks'
  BY <1>1, <1>2, <1>3
<1> QED BY <1>4 DEF CountersAgree, UsedCount, Used

(* An insertion uses at most one more slot and is counted twice.            *)
LEMMA InsertAgrees ==
  ASSUME Inv, CountersAgree, initialized,
         NEW pc \in PCs, NEW host, NEW n, NEW whole, Insert(pc, host, n, whole)
  PROVE  CountersAgree'
<1> DEFINE s == SlotOf[pc]
<1>1. /\ s \in Slots /\ \A t \in Slots \ {s} : cache'[t] = cache[t]
      /\ insertIndex' = insertIndex + 1 /\ blocks' = blocks + 1
  BY InsertedEntry
<1> HIDE DEF s
<1>2. Used \in SUBSET Slots /\ Used' \in SUBSET Slots
  BY DEF Used
<1>3. Used' \in SUBSET (Used \union {s})
  BY <1>1 DEF Used, Live
<1>4. IsFiniteSet(Used) /\ Cardinality(Used) \in Nat /\ Cardinality(Used') \in Nat
  BY <1>2, UsedFinite
<1>5. /\ IsFiniteSet(Used \union {s})
      /\ Cardinality(Used \union {s}) \in {Cardinality(Used), Cardinality(Used) + 1}
  BY <1>4, FS_AddElement
<1>6. Cardinality(Used') <= Cardinality(Used \union {s})
  BY <1>3, <1>5, FS_Subset
<1>7. blocks \in Nat /\ insertIndex \in Nat
  BY DEF Inv, TypeOK
<1>8. Cardinality(Used) <= insertIndex /\ insertIndex <= blocks
  BY DEF CountersAgree, UsedCount, Used
<1>9. Cardinality(Used') <= insertIndex' /\ insertIndex' <= blocks'
  BY <1>1, <1>4, <1>5, <1>6, <1>7, <1>8
<1> QED BY <1>9 DEF CountersAgree, UsedCount, Used

(* A step that empties the table leaves the counters in order.              *)
LEMMA EmptiedAgrees ==
  ASSUME Emptied, insertIndex' = 0, blocks' \in Nat
  PROVE  CountersAgree'
<1>1. Used' = {}
  BY DEF Used, Emptied
<1>2. Cardinality(Used') = 0
  BY <1>1, FS_EmptySet
<1> QED BY <1>2 DEF CountersAgree, UsedCount, Used

LEMMA NextKeepsCounters ==
  ASSUME Inv, CountersAgree, [Next]_vars
  PROVE  CountersAgree'
<1> USE JitAssumption, EntryTypes
<1>1. blocks \in Nat /\ cache \in [Slots -> Entry]
  BY DEF Inv, TypeOK
<1>2. CASE JitInitGlobal
  BY <1>2, EmptiedAgrees DEF JitInitGlobal, JitInit, Emptied, Live
<1>3. CASE JitCleanupGlobal
  BY <1>3 DEF JitCleanupGlobal, JitCleanup, CountersAgree
<1>4. CASE JitReset
  <2>1. CASE initialized
    BY <1>4, <2>1, EmptiedAgrees, FlushedIsEmpty DEF JitReset, Emptied, Live, Inv
  <2>2. CASE ~initialized
    BY <1>4, <2>2 DEF JitReset, CountersAgree
  <2> QED BY <2>1, <2>2
<1>5. CASE TranslationFlush
  BY <1>1, <1>5, EmptiedAgrees, FlushedIsEmpty DEF TranslationFlush, Emptied, Live, Inv
<1>6. CASE UNCHANGED vars
  BY <1>6 DEF vars, CountersAgree, UsedCount, Live
<1>7. ASSUME initialized,
             \/ Dropped /\ blocks' = blocks /\ insertIndex' = insertIndex
             \/ Inserted
             \/ \E pc \in PCs : LookupHit(pc) /\ blocks' = blocks /\ insertIndex' = insertIndex
      PROVE  CountersAgree'
  <2>1. CASE Dropped /\ blocks' = blocks /\ insertIndex' = insertIndex
    <3>1. Used' \subseteq Used
      BY <2>1 DEF Used, Dropped, Live
    <3> QED BY <1>7, <2>1, <3>1, FewerUsedAgree
  <2>2. CASE Inserted
    BY <1>7, <2>2, InsertAgrees DEF Inserted
  <2>3. ASSUME NEW pc \in PCs, LookupHit(pc), blocks' = blocks, insertIndex' = insertIndex
        PROVE  CountersAgree'
    <3>1. \A s \in Slots : cache'[s].guest = cache[s].guest
                           /\ cache'[s].host = cache[s].host
      BY <1>1, <2>3 DEF LookupHit, Entry
    <3>2. Used' \subseteq Used
      BY <3>1 DEF Used, Live
    <3> QED BY <1>7, <2>3, <3>2, FewerUsedAgree
  <2> QED BY <1>7, <2>1, <2>2, <2>3
<1>8. ASSUME initialized, ~JitInitGlobal, ~JitCleanupGlobal, ~JitReset,
             ~TranslationFlush, ~UNCHANGED vars
      PROVE  CountersAgree'
  <2>1. CASE Emptied /\ blocks' = blocks /\ insertIndex' = insertIndex
    <3>1. Dropped
      BY <2>1 DEF Emptied, Dropped
    <3> QED BY <1>7, <1>8, <2>1, <3>1
  <2>2. (insertIndex' = insertIndex /\ blocks' = blocks) \/ Inserted
    BY <1>8 DEF Next, CodeCacheMarkExecutable, CodeCacheAlloc, TranslationLookup,
       TranslationInsert, TranslationInvalidate, TranslateBlock, JitExecute,
       TranslateHit, TranslateMiss, TranslateFault, LookupMiss, Inserted, stats
  <2> QED BY <1>7, <1>8, <2>1, <2>2, StepsOfTheTable
<1>9. initialized \/ JitInitGlobal \/ JitCleanupGlobal \/ JitReset
      \/ TranslationFlush \/ UNCHANGED vars
  BY DEF Next, CodeCacheMarkExecutable, CodeCacheAlloc, TranslationLookup,
     TranslationInsert, TranslationInvalidate, TranslateBlock, JitExecute
<1> QED BY <1>2, <1>3, <1>4, <1>5, <1>6, <1>8, <1>9

(* Table and counters agree whatever the client calls.                      *)
THEOREM CountersStayInStep == ASSUME NoWrap PROVE Spec => []CountersAgree
<1>1. Init => CountersAgree
  BY DEF Init, CountersAgree
<1>2. Inv /\ CountersAgree /\ [Next]_vars => CountersAgree'
  BY NextKeepsCounters
<1> QED BY <1>1, <1>2, InvHolds, PTL DEF Spec

-----------------------------------------------------------------------------
(* Chains built by the client of the tests are well formed, for any number  *)
(* of blocks and whatever addresses malloc hands out again.  Blocks are     *)
(* freed chained or not: lost holds those that are left with half a link.   *)

(* The four invariants hold each other up: an allocation needs that no live *)
(* block leads to the address malloc returns, an unchaining that each half  *)
(* of a link has its other half where it looks for it.                      *)
ChainsInv == ChainTypeOK /\ Reciprocal /\ NoDangling /\ JumpFlagged

(* Nothing is allocated at first. *)
LEMMA ChainsInit == ChainInit => ChainsInv
BY DEF ChainInit, ChainsInv, ChainTypeOK, Reciprocal, NoDangling, JumpFlagged

LEMMA AllocInv ==
  ASSUME NEW b \in Blocks, ChainsInv, TranslationAllocBlock(b)
  PROVE  ChainsInv'
<1> USE BlockChainAssumption
<1>1. ChainTypeOK'
  BY DEF ChainsInv, ChainTypeOK, TranslationAllocBlock
<1>2. \A a \in allocated \ lost : succ[a] # b /\ pred[a] # b
  BY DEF ChainsInv, ChainTypeOK, NoDangling, TranslationAllocBlock
<1>3. Reciprocal'
  BY <1>2 DEF ChainsInv, ChainTypeOK, Reciprocal, TranslationAllocBlock
<1>4. NoDangling'
  BY DEF ChainsInv, ChainTypeOK, NoDangling, TranslationAllocBlock
<1>5. JumpFlagged'
  BY DEF ChainsInv, ChainTypeOK, JumpFlagged, TranslationAllocBlock
<1> QED BY <1>1, <1>3, <1>4, <1>5 DEF ChainsInv

LEMMA FreeInv ==
  ASSUME NEW b \in Blocks, ChainsInv, TranslationFreeBlock(b)
  PROVE  ChainsInv'
<1> USE BlockChainAssumption DEF TranslationFreeBlock
<1>1. ChainTypeOK'
  BY DEF ChainsInv, ChainTypeOK, Neighbours
<1>2. lost \ {b} \subseteq lost'
  OBVIOUS
(* A block that leads to b is a neighbour, or had lost one already. *)
<1>3. \A a \in allocated \ lost : b \in {succ[a], pred[a]} => a \in Neighbours(b)
  BY DEF ChainsInv, ChainTypeOK, Reciprocal, Neighbours
<1>4. \A a \in allocated' \ lost' : a \in allocated \ lost /\ succ[a] # b /\ pred[a] # b
  BY <1>2, <1>3
<1>5. Reciprocal'
  BY <1>4 DEF ChainsInv, Reciprocal
<1>6. NoDangling'
  BY <1>4 DEF ChainsInv, NoDangling
<1>7. JumpFlagged'
  BY DEF ChainsInv, JumpFlagged
<1> QED BY <1>1, <1>5, <1>6, <1>7 DEF ChainsInv

LEMMA ChainInv ==
  ASSUME NEW from \in Blocks, NEW to \in Blocks, ChainsInv, CarefulChain(from, to)
  PROVE  ChainsInv'
<1> USE BlockChainAssumption DEF CarefulChain, TranslationChainBlocks
<1>1. ChainTypeOK'
  BY DEF ChainsInv, ChainTypeOK
<1>2. \A a \in allocated \ lost : succ[a] # to /\ pred[a] # from
  BY DEF ChainsInv, ChainTypeOK, Reciprocal, NoDangling
<1>3. Reciprocal'
  BY <1>2 DEF ChainsInv, ChainTypeOK, Reciprocal
<1>4. NoDangling'
  BY DEF ChainsInv, ChainTypeOK, NoDangling
<1>5. JumpFlagged'
  BY DEF ChainsInv, ChainTypeOK, JumpFlagged
<1> QED BY <1>1, <1>3, <1>4, <1>5 DEF ChainsInv

LEMMA UnchainInv ==
  ASSUME NEW b \in Blocks, ChainsInv, CarefulUnchain(b)
  PROVE  ChainsInv'
<1> USE BlockChainAssumption DEF CarefulUnchain, TranslationUnchainBlocks
<1>1. ChainTypeOK'
  BY DEF ChainsInv, ChainTypeOK
<1>2. \A a \in allocated \ lost : succ[a] = b <=> pred[b] = a
  BY DEF ChainsInv, ChainTypeOK, Reciprocal
<1>3. \A a \in allocated \ lost : pred[a] = b <=> succ[b] = a
  BY DEF ChainsInv, ChainTypeOK, Reciprocal
<1>4. /\ \A a \in allocated \ lost : succ'[a] # b /\ pred'[a] # b
      /\ succ'[b] = NoBlock /\ pred'[b] = NoBlock
  BY <1>2, <1>3 DEF ChainsInv, ChainTypeOK
<1>5. Reciprocal'
  BY <1>2, <1>3, <1>4 DEF ChainsInv, ChainTypeOK, Reciprocal
<1>6. NoDangling'
  BY DEF ChainsInv, ChainTypeOK, NoDangling
<1>7. JumpFlagged'
  BY DEF ChainsInv, ChainTypeOK, JumpFlagged
<1> QED BY <1>1, <1>5, <1>6, <1>7 DEF ChainsInv

(* Every reachable state satisfies the four. *)
THEOREM ChainsHold == ChainSpec => []ChainsInv
<1>1. ChainsInv /\ [ChainNext]_chainVars => ChainsInv'
  <2> SUFFICES ASSUME ChainsInv, [ChainNext]_chainVars PROVE ChainsInv'
    OBVIOUS
  <2>1. CASE \E b \in Blocks : TranslationAllocBlock(b)
    BY <2>1, AllocInv
  <2>2. CASE \E b \in Blocks : TranslationFreeBlock(b)
    BY <2>2, FreeInv
  <2>3. CASE \E b \in Blocks : CarefulUnchain(b)
    BY <2>3, UnchainInv
  <2>4. CASE \E from, to \in Blocks : CarefulChain(from, to)
    BY <2>4, ChainInv
  <2>5. CASE UNCHANGED chainVars
    BY <2>5 DEF ChainsInv, ChainTypeOK, Reciprocal, NoDangling, JumpFlagged, chainVars
  <2> QED BY <2>1, <2>2, <2>3, <2>4, <2>5 DEF ChainNext
<1> QED BY ChainsInit, <1>1, PTL DEF ChainSpec

(* Chaining, unchaining, freeing and the reuse of addresses keep the two    *)
(* halves of every link together, except at blocks a neighbour of which was *)
(* freed while it was chained.                                              *)
THEOREM LinksAreReciprocal == ChainSpec => []Reciprocal
<1>1. ChainsInv => Reciprocal
  BY DEF ChainsInv
<1> QED BY <1>1, ChainsHold, PTL

(* A block leads to freed memory only when a neighbour of it was freed while *)
(* it was chained: the links of all other live blocks lead to live blocks.  *)
THEOREM LinksLeadToLiveBlocks == ChainSpec => []NoDangling
<1>1. ChainsInv => NoDangling
  BY DEF ChainsInv
<1> QED BY <1>1, ChainsHold, PTL

(* Types, with links that lead to addresses of blocks only. *)
THEOREM ChainTypeCorrect == ChainSpec => []ChainTypeOK
<1>1. ChainsInv => ChainTypeOK
  BY DEF ChainsInv
<1> QED BY <1>1, ChainsHold, PTL

(* A block that jumps to its successor has the flag that says so, however   *)
(* chains were built and parted.                                            *)
THEOREM JumpsAreFlagged == ChainSpec => []JumpFlagged
<1>1. ChainsInv => JumpFlagged
  BY DEF ChainsInv
<1> QED BY <1>1, ChainsHold, PTL
=============================================================================

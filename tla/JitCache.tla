------------------------------ MODULE JitCache ------------------------------
(***************************************************************************)
(* The JIT core, rosetta_jit.c: one jit_context_t (the global one) with    *)
(* its bump-allocated code cache, its direct-mapped translation cache, the *)
(* page protection of the code cache and the statistics.                   *)
(*                                                                         *)
(* The code cache is CacheSize cells; a cell is the unit block sizes are   *)
(* counted in.  Its bytes are abstracted to who a cell was last given to.   *)
(***************************************************************************)
EXTENDS Integers, FiniteSets

CONSTANTS
  PCs,          \* guest program counters translated (never 0)
  NoPC,         \* guest_addr 0: an empty translation cache entry
  Slots,        \* indices of the translation cache
  SlotOf,       \* hash_address(pc) & TRANSLATION_CACHE_MASK
  CacheSize,    \* code_cache_size of an initialised context
  PageSize,     \* sysconf(_SC_PAGESIZE), in cells
  BlockSizes,   \* sizes the emitted code of a block can have, if it fits
  AllocSizes,   \* sizes asked of code_cache_alloc
  Alignments,   \* alignments asked of code_cache_alloc_aligned
  Word,         \* 2^32: code cache offsets are u32
  MaxBlocks,    \* bound on blocks_translated
  MaxHits       \* bound on cache_hits

Null == -1
Nobody == "nobody"
Client == "client"

ASSUME JitAssumption ==
  /\ NoPC \notin PCs
  /\ Nobody \notin PCs /\ Client \notin PCs
  /\ SlotOf \in [PCs -> Slots] /\ IsFiniteSet(Slots)
  /\ CacheSize \in Nat \ {0} /\ PageSize \in Nat \ {0}
  /\ BlockSizes \subseteq Nat \ {0}
  /\ AllocSizes \subseteq Nat
  /\ Alignments \subseteq Nat \ {0}
  /\ Word \in Nat \ {0} /\ CacheSize < Word
  /\ MaxBlocks \in Nat /\ MaxHits \in Nat

VARIABLES
  gInit,        \* g_jit_initialized
  initialized,  \* ctx->initialized
  offset,       \* ctx->code_cache_offset
  cache,        \* ctx->cache
  insertIndex,  \* ctx->cache_insert_index
  blocks,       \* ctx->blocks_translated
  hits,         \* ctx->cache_hits (cache_misses is write-only: left out)
  prot,         \* protection of each page of the code cache
  owner,        \* history: who each cell was handed to since it was free
  region,       \* the region a client got from code_cache_alloc and still fills
  alive         \* FALSE once the process took a SIGSEGV in the code cache

vars == <<gInit, initialized, offset, cache, insertIndex, blocks, hits,
          prot, owner, region, alive>>
stats == <<insertIndex, blocks, hits>>
memory == <<prot, owner>>

Cells == 0 .. CacheSize - 1
Pages == 0 .. (CacheSize - 1) \div PageSize

(* The cells of n units from start, those outside the mapping left out. *)
Span(start, n) == {i \in Cells : start <= i /\ i < start + n}

(* A cache entry.  whole is history: emit_buf.error was never raised while *)
(* the code was emitted.                                                   *)
Entry == [guest : PCs \union {NoPC}, host : Nat \union {Null}, size : Nat,
          refcount : Nat, whole : BOOLEAN]
Cleared(e) == [e EXCEPT !.guest = NoPC, !.host = Null, !.refcount = 0]
ZeroEntry == [guest |-> NoPC, host |-> Null, size |-> 0, refcount |-> 0,
              whole |-> FALSE]

NoRegion == [start |-> 0, size |-> 0]

Live(s) == cache[s].host # Null

(* Mutant: the lookup compares no tag. *)
HitAnyTag(pc) == cache[SlotOf[pc]].host # Null

Hit(pc) == cache[SlotOf[pc]].guest = pc /\ cache[SlotOf[pc]].host # Null

(* The pages code_cache_mark_executable(ctx, off, n) covers. *)
MarkedPages(off, n) ==
  LET first == off \div PageSize
      count == ((off + n) - first * PageSize + PageSize - 1) \div PageSize
  IN  {p \in Pages : first <= p /\ p < first + count}

(* The pages that n units from off touch. *)
TouchedPages(off, n) == {i \div PageSize : i \in Span(off, n)}
Writable(off, n) == \A p \in TouchedPages(off, n) : prot[p] = "RW"

(* mprotect may refuse (ok is FALSE): the pages then keep their protection. *)
MarkExecutable(off, n, ok) ==
  prot' = [p \in Pages |-> IF ok /\ p \in MarkedPages(off, n) THEN "RX"
                           ELSE prot[p]]

Filled(start, n, who) ==
  [i \in Cells |-> IF i \in Span(start, n) THEN who ELSE owner[i]]

AlignUp(x, a) == x + ((a - (x % a)) % a)

-----------------------------------------------------------------------------
Init ==
  /\ gInit = FALSE /\ initialized = FALSE
  /\ offset = 0
  /\ cache = [s \in Slots |-> ZeroEntry]
  /\ insertIndex = 0 /\ blocks = 0 /\ hits = 0
  /\ prot = [p \in Pages |-> "RW"]
  /\ owner = [i \in Cells |-> Nobody]
  /\ region = NoRegion
  /\ alive = TRUE

(* jit_init: a fresh RW mapping and a zeroed translation cache.  Either     *)
(* allocation may fail, which leaves the context as it was.                 *)
JitInit ==
  /\ offset' = 0
  /\ cache' = [s \in Slots |-> ZeroEntry]
  /\ insertIndex' = 0 /\ blocks' = 0 /\ hits' = 0
  /\ prot' = [p \in Pages |-> "RW"]
  /\ owner' = [i \in Cells |-> Nobody]
  /\ initialized' = TRUE
  /\ region' = NoRegion

(* jit_cleanup: the table is freed and the code cache unmapped. *)
JitCleanup ==
  /\ cache' = [s \in Slots |-> ZeroEntry]
  /\ offset' = 0
  /\ initialized' = FALSE
  /\ owner' = [i \in Cells |-> Nobody]
  /\ region' = NoRegion
  /\ UNCHANGED <<stats, prot>>

(* jit_init_global: a second call is a no-op that reports success. *)
JitInitGlobal ==
  /\ alive /\ ~gInit
  /\ JitInit
  /\ gInit' = TRUE
  /\ UNCHANGED alive

(* jit_cleanup_global *)
JitCleanupGlobal ==
  /\ alive /\ gInit
  /\ JitCleanup
  /\ gInit' = FALSE
  /\ UNCHANGED alive

(* translation_flush on an initialised context. *)
Flushed == [s \in Slots |-> Cleared(cache[s])]

TranslationFlush ==
  /\ alive /\ initialized
  /\ cache' = Flushed
  /\ insertIndex' = 0
  /\ UNCHANGED <<gInit, initialized, offset, blocks, hits, memory,
                 region, alive>>

(* Mutant: the reset forgets the translation cache. *)
JitResetNoFlush ==
  /\ alive
  /\ offset' = 0
  /\ blocks' = 0 /\ hits' = 0
  /\ owner' = [i \in Cells |-> Nobody]
  /\ region' = NoRegion
  /\ UNCHANGED <<gInit, initialized, cache, insertIndex, prot, alive>>

(* jit_reset: flush, rewind the code cache, zero the statistics.  A client  *)
(* that resets gives up the region it was filling.                          *)
JitReset ==
  /\ alive
  /\ IF initialized THEN cache' = Flushed /\ insertIndex' = 0
                    ELSE UNCHANGED <<cache, insertIndex>>
  /\ offset' = 0
  /\ blocks' = 0 /\ hits' = 0
  /\ owner' = [i \in Cells |-> Nobody]
  /\ region' = NoRegion
  /\ UNCHANGED <<gInit, initialized, prot, alive>>

-----------------------------------------------------------------------------
(* translation_lookup, the two outcomes *)
LookupHit(pc) ==
  /\ Hit(pc)
  /\ hits < MaxHits
  /\ cache' = [cache EXCEPT ![SlotOf[pc]].refcount = @ + 1]
  /\ hits' = hits + 1

LookupMiss(pc) == ~Hit(pc) /\ hits' = hits

(* translation_lookup and translate_block_fast *)
TranslationLookup(pc) ==
  /\ alive /\ initialized
  /\ \/ LookupHit(pc)
     \/ LookupMiss(pc) /\ UNCHANGED cache
  /\ UNCHANGED <<gInit, initialized, offset, insertIndex, blocks, memory,
                 region, alive>>

(* translation_insert: whatever the slot held is overwritten. *)
Insert(pc, host, n, whole) ==
  /\ blocks < MaxBlocks
  /\ cache' = [cache EXCEPT ![SlotOf[pc]] =
                 [guest |-> pc, host |-> host, size |-> n, refcount |-> 1,
                  whole |-> whole]]
  /\ insertIndex' = insertIndex + 1
  /\ blocks' = blocks + 1

(* A client that emitted pc's code into the region it allocated publishes   *)
(* it with translation_insert.                                              *)
TranslationInsert(pc) ==
  /\ alive /\ initialized
  /\ region.size > 0
  /\ Writable(region.start, region.size)
  /\ owner' = Filled(region.start, region.size, pc)
  /\ Insert(pc, region.start, region.size, TRUE)
  /\ region' = NoRegion
  /\ UNCHANGED <<gInit, initialized, offset, hits, prot, alive>>

(* translation_invalidate *)
TranslationInvalidate(pc) ==
  /\ alive /\ initialized
  /\ cache[SlotOf[pc]].guest = pc
  /\ cache' = [cache EXCEPT ![SlotOf[pc]] = Cleared(@)]
  /\ UNCHANGED <<gInit, initialized, offset, stats, memory, region, alive>>

-----------------------------------------------------------------------------
(* Mutant: the aligned start is not part of the space check. *)
CodeCacheAllocUnaligned(n, a) ==
  LET start == AlignUp(offset, a) % Word
  IN  /\ alive /\ initialized
      /\ offset + n <= CacheSize
      /\ offset' = (start + n) % Word
      /\ region' = [start |-> start, size |-> n]
      /\ owner' = Filled(start, n, Client)
      /\ UNCHANGED <<gInit, initialized, cache, stats, prot, alive>>

(* code_cache_alloc_aligned; code_cache_alloc is alignment 1.  The sum is   *)
(* computed in u32.  The client now fills the region it got.                *)
CodeCacheAlloc(n, a) ==
  LET start == AlignUp(offset, a) % Word
      end == (start + n) % Word
  IN  /\ alive /\ initialized
      /\ end <= CacheSize
      /\ offset' = end
      /\ region' = [start |-> start, size |-> n]
      /\ owner' = Filled(start, n, Client)
      /\ UNCHANGED <<gInit, initialized, cache, stats, prot, alive>>

(* code_cache_mark_executable by the client, on the region it allocated. *)
CodeCacheMarkExecutable ==
  /\ alive /\ initialized
  /\ \E ok \in BOOLEAN : MarkExecutable(region.start, region.size, ok)
  /\ UNCHANGED <<gInit, initialized, offset, cache, stats, owner, region,
                 alive>>

-----------------------------------------------------------------------------
(* Mutant: the code cache offset is advanced by the size asked for. *)
TranslateMissFullSize(pc, full, ok) ==
  LET n == IF full <= CacheSize - offset THEN full ELSE CacheSize - offset
  IN  /\ LookupMiss(pc)
      /\ Writable(offset, n)
      /\ owner' = Filled(offset, n, pc)
      /\ MarkExecutable(offset, n, ok)
      /\ offset' = offset + full
      /\ Insert(pc, offset, n, full = n)
      /\ UNCHANGED <<gInit, initialized, region>>

(* Mutant: the code cache offset is not advanced past the block. *)
TranslateMissNoAdvance(pc, full, ok) ==
  LET n == IF full <= CacheSize - offset THEN full ELSE CacheSize - offset
  IN  /\ LookupMiss(pc)
      /\ Writable(offset, n)
      /\ owner' = Filled(offset, n, pc)
      /\ MarkExecutable(offset, n, ok)
      /\ Insert(pc, offset, n, full = n)
      /\ UNCHANGED <<gInit, initialized, offset, region>>

(* translate_block on a miss.  The block's code would take full units; the  *)
(* emit buffer is what is left of the code cache and drops what does not    *)
(* fit, and translate_block neither looks at emit_buf.error nor at the      *)
(* result of code_cache_mark_executable.                                    *)
TranslateMiss(pc, full, ok) ==
  LET room == CacheSize - offset
      n == IF full <= room THEN full ELSE room
  IN  /\ LookupMiss(pc)
      /\ Writable(offset, n)
      /\ owner' = Filled(offset, n, pc)
      /\ MarkExecutable(offset, n, ok)
      /\ offset' = offset + n
      /\ Insert(pc, offset, n, full <= room)
      /\ UNCHANGED <<gInit, initialized, region>>

(* Emitting into a page that is already RX is a SIGSEGV. *)
TranslateFault(pc, full) ==
  /\ LookupMiss(pc)
  /\ ~Writable(offset, full)
  /\ alive' = FALSE
  /\ UNCHANGED <<gInit, initialized, offset, cache, insertIndex, blocks,
                 memory, region>>

TranslateHit(pc) ==
  /\ LookupHit(pc)
  /\ UNCHANGED <<gInit, initialized, offset, insertIndex, blocks, memory,
                 region>>

TranslateBlock(pc) ==
  /\ alive /\ initialized
  /\ \/ TranslateHit(pc) /\ UNCHANGED alive
     \/ \E full \in BlockSizes, ok \in BOOLEAN :
          TranslateMiss(pc, full, ok) /\ UNCHANGED alive
     \/ \E full \in BlockSizes : TranslateFault(pc, full)

(* Code that is whole and mapped executable returns to its caller; code     *)
(* that is cut off or not executable ends in a SIGSEGV.                     *)
Returns(e, protection) ==
  e.whole /\ \A p \in TouchedPages(e.host, e.size) : protection[p] = "RX"

(* jit_execute: translate_block, then the call of the host code. *)
JitExecute(pc) ==
  /\ alive /\ initialized
  /\ \/ TranslateHit(pc) /\ alive' = Returns(cache[SlotOf[pc]], prot)
     \/ \E full \in BlockSizes, ok \in BOOLEAN :
          /\ TranslateMiss(pc, full, ok)
          /\ alive' = Returns(cache'[SlotOf[pc]], prot')
     \/ \E full \in BlockSizes : TranslateFault(pc, full)

-----------------------------------------------------------------------------
Next ==
  \/ JitInitGlobal
  \/ JitCleanupGlobal
  \/ JitReset
  \/ TranslationFlush
  \/ CodeCacheMarkExecutable
  \/ \E n \in AllocSizes, a \in Alignments : CodeCacheAlloc(n, a)
  \/ \E pc \in PCs :
       \/ TranslationLookup(pc)
       \/ TranslationInsert(pc)
       \/ TranslationInvalidate(pc)
       \/ TranslateBlock(pc)
       \/ JitExecute(pc)

Spec == Init /\ [][Next]_vars

(* The two calls the header also exports and that only a careful client     *)
(* avoids: code_cache_reset, which rewinds the code cache and nothing else, *)
(* and jit_cleanup on the context jit_get_global_context returns.           *)
CodeCacheReset ==
  /\ alive /\ initialized
  /\ offset' = 0
  /\ UNCHANGED <<gInit, initialized, cache, stats, memory, region, alive>>

JitCleanupOfGlobal ==
  /\ alive /\ initialized
  /\ JitCleanup
  /\ UNCHANGED <<gInit, alive>>

OpenSpec == Init /\ [][Next \/ CodeCacheReset \/ JitCleanupOfGlobal]_vars
-----------------------------------------------------------------------------
(* Every variable holds a value of the program's type, and the code cache   *)
(* offset never passes the end of the code cache, so that the free space    *)
(* code_cache_get_free_space computes does not wrap.                        *)
TypeOK ==
  /\ gInit \in BOOLEAN /\ initialized \in BOOLEAN /\ alive \in BOOLEAN
  /\ offset \in 0 .. CacheSize
  /\ cache \in [Slots -> Entry]
  /\ insertIndex \in Nat /\ blocks \in Nat /\ hits \in Nat
  /\ prot \in [Pages -> {"RW", "RX"}]
  /\ owner \in [Cells -> PCs \union {Nobody, Client}]
  /\ region \in [start : Nat, size : Nat]

(* All cells of a translation that translation_lookup can return still hold *)
(* the code emitted for its program counter.                                *)
CodeOwned ==
  \A s \in Slots : Live(s) =>
    \A i \in Span(cache[s].host, cache[s].size) : owner[i] = cache[s].guest

(* A translation that a lookup can return lies inside the allocated part of *)
(* the code cache, and neither another block, nor a client's region, nor a  *)
(* reset has overwritten it.                                                *)
CodeIntact ==
  /\ \A s \in Slots : Live(s) => cache[s].host + cache[s].size <= offset
  /\ CodeOwned

(* The region a client is filling is its own until it publishes it.         *)
RegionIntact ==
  /\ region.start + region.size <= CacheSize
  /\ \A i \in Span(region.start, region.size) : owner[i] = Client

(* The entries jit_cache_get_used_count counts were each inserted since the *)
(* last flush, and every insertion of an initialised context is counted in  *)
(* blocks_translated: flush and reset clear table and counters together.    *)
UsedCount == Cardinality({s \in Slots : cache[s].guest # NoPC /\ Live(s)})
CountersAgree ==
  initialized => UsedCount <= insertIndex /\ insertIndex <= blocks

(* A reference count above the one an insertion gives is the work of        *)
(* lookups that cache_hits counts.                                          *)
RefsAreHits ==
  \A s \in Slots : Live(s) =>
    cache[s].refcount >= 1 /\ cache[s].refcount <= hits + 1

(* The code cache is rewound only together with the translation cache: a    *)
(* step that lowers the offset leaves no live translation behind.           *)
NoRewindUnderCode ==
  [][offset' < offset => \A s \in Slots : ~Live(s)']_vars

(* g_jit_initialized tells the truth: when jit_init_global reports success  *)
(* without doing anything, the context it stands for is initialised.        *)
GlobalFlagTrue == gInit => initialized

(* The translation cache is a TranslationMap: a lookup never returns a      *)
(* translation of another program counter that shares the slot.             *)
LookupResult == [pc \in PCs |-> IF Hit(pc) THEN cache[SlotOf[pc]].host ELSE Null]
AbstractMap == INSTANCE TranslationMap
  WITH Values <- 0 .. CacheSize, Absent <- Null, map <- LookupResult
RefinesTranslationMap == AbstractMap!Spec

-----------------------------------------------------------------------------
(* Claims of comments and documents that the code does not keep.            *)

(* A cache miss translates the block on demand and execution continues:     *)
(* translation itself never kills the process.                              *)
TranslationSurvives ==
  [][\A pc \in PCs : TranslateBlock(pc) => alive']_vars

(* What translate_block caches is the complete code of the block.           *)
CachedCodeWhole == \A s \in Slots : Live(s) => cache[s].whole
=============================================================================

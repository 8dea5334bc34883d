----------------------------- MODULE Translator -----------------------------
(***************************************************************************)
(* The modular build's two block translators and their two caches.          *)
(* translate_block (rosetta_refactored_exec.c) fills the global translation *)
(* cache and its code cache (rosetta_trans_cache.c), rosetta_block_translate *)
(* (rosetta_refactored_block.c) looks into that cache too but fills a block *)
(* cache of its own.  Each emits into a static buffer, copies the code to    *)
(* the code cache or else to the heap, and returns the static buffer when    *)
(* there is room in neither.                                                *)
(***************************************************************************)
EXTENDS Naturals

CONSTANTS
  PCs,        \* guest program counters
  SizeOf,     \* cells the translation of each takes
  TSlot,      \* slot of each in the translation cache
  BSlot,      \* slot of each in the block cache
  ArenaSize,  \* cells of the code cache
  None        \* NULL

VARIABLES
  inited,     \* g_initialized of rosetta_refactored_init.c
  ready,      \* g_cache_initialized: the code cache is mapped
  entry,      \* g_trans_cache.entries
  offset,     \* g_trans_cache.code_cache.offset
  arena,      \* whose translation each cell of the code cache holds
  static,     \* whose translation the static buffer of each translator holds
  blocksOn,   \* g_block_initialized
  block,      \* g_block_cache, None where g_block_valid is false
  stale       \* history: slots whose block's code was unmapped under it

translation == <<inited, ready, entry>>
code == <<offset, arena>>
blocks == <<blocksOn, block>>
vars == <<translation, code, static, blocks, stale>>

TSlots == {TSlot[p] : p \in PCs}
BSlots == {BSlot[p] : p \in PCs}
Cells == 0 .. ArenaSize - 1

(* Host addresses.  The code of "heap" is never freed nor changed. *)
Hosts == [at : {"arena"}, off : 0 .. ArenaSize] \union [at : {"heap", "exec", "block"}, off : {0}]
Static(who) == [at |-> who, off |-> 0]
Heap == [at |-> "heap", off |-> 0]
InArena(o) == [at |-> "arena", off |-> o]

Translations == [pc : PCs, host : Hosts]

ASSUME TranslatorAssumption ==
  /\ ArenaSize \in Nat
  /\ SizeOf \in [PCs -> Nat \ {0}]
  /\ None \notin PCs \union Hosts \union Translations

Region(p, o) == o .. o + SizeOf[p] - 1

(* What p's translation at host needs to be run. *)
Intact(p, host) ==
  CASE host.at = "heap" -> TRUE
    [] host.at = "arena" -> ready /\ \A c \in Region(p, host.off) : arena[c] = p
    [] OTHER -> static[host.at] = p

Init ==
  /\ inited = FALSE /\ ready = FALSE
  /\ entry = [s \in TSlots |-> None]
  /\ offset = 0
  /\ arena = [c \in Cells |-> None]
  /\ static = [who \in {"exec", "block"} |-> None]
  /\ blocksOn = FALSE
  /\ block = [s \in BSlots |-> None]
  /\ stale = {}

-----------------------------------------------------------------------------
(* Initialisation and cleanup.                                              *)

(* trans_cache_init: an empty table and a new mapping. *)
MapCache ==
  /\ ready' = TRUE
  /\ entry' = [s \in TSlots |-> None]
  /\ offset' = 0
  /\ arena' = [c \in Cells |-> None]

(* mmap may fail; an initialised cache is left alone. *)
RosettaInit ==
  /\ ~inited
  /\ \/ ready /\ inited' = TRUE /\ UNCHANGED <<ready, entry, code>>
     \/ ~ready /\ inited' = TRUE /\ MapCache
  /\ UNCHANGED <<static, blocks, stale>>

(* Mutant: a cache that is initialised is initialised again. *)
InitCacheAgain ==
  /\ MapCache
  /\ UNCHANGED <<inited, static, blocks, stale>>

(* refactored_translation_cache_init: the cache alone. *)
InitTranslationCache ==
  /\ ~ready
  /\ MapCache
  /\ UNCHANGED <<inited, static, blocks, stale>>

(* trans_cache_cleanup: the code cache is unmapped.  The block cache is not *)
(* told; stale remembers the blocks that lead into what was unmapped.       *)
UnmapCache ==
  /\ ready' = FALSE
  /\ entry' = [s \in TSlots |-> None]
  /\ offset' = 0
  /\ arena' = [c \in Cells |-> None]
  /\ stale' = stale \union {s \in BSlots : block[s] # None /\ block[s].host.at = "arena"}

(* refactored_translation_cache_cleanup: the cache alone, after which       *)
(* rosetta_init takes it for initialised still.                             *)
TranslationCacheCleanup ==
  /\ ready
  /\ UnmapCache
  /\ UNCHANGED <<inited, static, blocks>>

(* rosetta_cleanup *)
RosettaCleanup ==
  /\ inited
  /\ inited' = FALSE
  /\ \/ ready /\ UnmapCache
     \/ ~ready /\ UNCHANGED <<ready, entry, code, stale>>
  /\ UNCHANGED <<static, blocks>>

-----------------------------------------------------------------------------
(* Translation.                                                             *)

(* Mutant: the program counter of the entry is not compared. *)
CachedAny(p) == ready /\ entry[TSlot[p]] # None

(* trans_cache_lookup *)
Cached(p) == ready /\ entry[TSlot[p]] # None /\ entry[TSlot[p]].pc = p

(* Both translators ask the translation cache first.  In what follows host  *)
(* is the address that is returned.                                         *)
TranslateHit(p, host) ==
  /\ Cached(p) /\ host = entry[TSlot[p]].host
  /\ UNCHANGED vars

(* Mutant: the size of the request is not added. *)
FitsStart(p) == ready /\ offset < ArenaSize

Fits(p) == ready /\ offset + SizeOf[p] <= ArenaSize

(* trans_code_cache_alloc and the copy into it. *)
CopyToArena(p) ==
  /\ offset' = offset + SizeOf[p]
  /\ arena' = [c \in Cells |-> IF c \in Region(p, offset) THEN p ELSE arena[c]]

(* Where the code ends up: in the code cache if it fits, else on the heap,  *)
(* else, if malloc fails, in the static buffer of the translator.           *)
Placed(p, who, host) ==
  \/ Fits(p) /\ host = InArena(offset) /\ CopyToArena(p)
  \/ ~Fits(p) /\ host \in {Heap, Static(who)} /\ UNCHANGED code

(* Mutant: the code is cached wherever it is. *)
ExecTranslateAll(p, host) ==
  /\ ~Cached(p) /\ Placed(p, "exec", host)
  /\ static' = [static EXCEPT !["exec"] = p]
  /\ entry' = IF ready THEN [entry EXCEPT ![TSlot[p]] = [pc |-> p, host |-> host]] ELSE entry
  /\ UNCHANGED <<inited, ready, blocks, stale>>

(* translate_block: only permanent code is cached. *)
ExecTranslate(p, host) ==
  /\ ~Cached(p) /\ Placed(p, "exec", host)
  /\ static' = [static EXCEPT !["exec"] = p]
  /\ entry' = IF ready /\ host # Static("exec")
              THEN [entry EXCEPT ![TSlot[p]] = [pc |-> p, host |-> host]]
              ELSE entry
  /\ UNCHANGED <<inited, ready, blocks, stale>>

(* rosetta_block_translate: the block cache gets the code wherever it is,   *)
(* and is not asked first.                                                  *)
BlockTranslate(p, host) ==
  /\ ~Cached(p) /\ Placed(p, "block", host)
  /\ static' = [static EXCEPT !["block"] = p]
  /\ block' = IF blocksOn THEN [block EXCEPT ![BSlot[p]] = [pc |-> p, host |-> host]]
                          ELSE block
  /\ stale' = IF blocksOn THEN stale \ {BSlot[p]} ELSE stale
  /\ UNCHANGED <<translation, blocksOn>>

Translate(p, host) == TranslateHit(p, host) \/ ExecTranslate(p, host) \/ BlockTranslate(p, host)

-----------------------------------------------------------------------------
(* The block cache.                                                         *)

BlockInit ==
  /\ blocksOn' = TRUE
  /\ block' = [s \in BSlots |-> None] /\ stale' = {}
  /\ UNCHANGED <<translation, code, static>>

(* Only the flag: the blocks stay where they are. *)
BlockCleanup ==
  /\ blocksOn
  /\ blocksOn' = FALSE
  /\ UNCHANGED <<translation, code, static, block, stale>>

InBlockCache(p) == blocksOn /\ block[BSlot[p]] # None /\ block[BSlot[p]].pc = p

BlockRemove(p) ==
  /\ InBlockCache(p)
  /\ block' = [block EXCEPT ![BSlot[p]] = None] /\ stale' = stale \ {BSlot[p]}
  /\ UNCHANGED <<translation, code, static, blocksOn>>

BlockInvalidate ==
  /\ blocksOn
  /\ block' = [s \in BSlots |-> None] /\ stale' = {}
  /\ UNCHANGED <<translation, code, static, blocksOn>>

Next ==
  \/ RosettaInit \/ InitTranslationCache \/ TranslationCacheCleanup \/ RosettaCleanup
  \/ \E p \in PCs : BlockRemove(p) \/ \E host \in Hosts : Translate(p, host)
  \/ BlockInit \/ BlockCleanup \/ BlockInvalidate

Spec == Init /\ [][Next]_vars

-----------------------------------------------------------------------------
TypeOK ==
  /\ inited \in BOOLEAN /\ ready \in BOOLEAN /\ blocksOn \in BOOLEAN
  /\ entry \in [TSlots -> Translations \union {None}]
  /\ offset \in 0 .. ArenaSize
  /\ arena \in [Cells -> PCs \union {None}]
  /\ static \in [{"exec", "block"} -> PCs \union {None}]
  /\ block \in [BSlots -> Translations \union {None}]
  /\ stale \subseteq BSlots

(* The translation cache never leads to code that was overwritten or        *)
(* unmapped, although two translators share its code cache, code may be     *)
(* left in a static buffer, and the cache may be cleaned up and mapped anew.*)
TableIntact ==
  \A p \in PCs : Cached(p) => Intact(p, entry[TSlot[p]].host)

(* The block cache, which holds addresses in a code cache it does not own,  *)
(* leads to code of the right program counter: only code that was left in   *)
(* the static buffer, and code that was in the code cache when that was     *)
(* cleaned up under the block, is not there any more.                       *)
BlocksIntact ==
  \A p \in PCs :
    InBlockCache(p) /\ BSlot[p] \notin stale /\ block[BSlot[p]].host # Static("block") =>
      Intact(p, block[BSlot[p]].host)

(* The translation cache is a TranslationMap. *)
LookupResult == [p \in PCs |-> IF Cached(p) THEN entry[TSlot[p]].host ELSE None]
AbstractMap == INSTANCE TranslationMap
  WITH Values <- Hosts, Absent <- None, map <- LookupResult
RefinesTranslationMap == AbstractMap!Spec

-----------------------------------------------------------------------------
(* The block cache holds "permanent storage" (a comment of                  *)
(* rosetta_block_translate) only: what rosetta_block_translate_fast returns *)
(* can be run.  The static buffer breaks it when malloc fails,              *)
(* and rosetta_cleanup, which leaves the block cache as it is, does too.    *)
FastCodeIntact ==
  \A p \in PCs : InBlockCache(p) => Intact(p, block[BSlot[p]].host)
=============================================================================

------------------------------ MODULE InsnCache ------------------------------
(***************************************************************************)
(* The cache of decoded instructions (rosetta_insn_cache.c) and             *)
(* decode_x86_insn_cached, which decodes through it, over a guest memory    *)
(* the bytes of which may be written at any time.  The cache is not told of *)
(* a write: whoever writes has to invalidate what the byte was cached in,   *)
(* sooner or later or, as the clients in the repository do, never.          *)
(***************************************************************************)
EXTENDS Naturals, FiniteSets

CONSTANTS
  Addrs,          \* guest addresses
  Bytes,          \* what they can hold
  Memories,       \* initial contents of memory
  DecodeAt(_, _), \* what decode_x86_insn makes of the bytes at an address
  Covers(_, _),   \* addresses of the instruction there
  Insertable,     \* instructions that clients insert by themselves
  SlotOf,         \* hash of each address
  None,
  MaxCount        \* bound on the counts of lookups and of insertions

VARIABLES
  memory,
  initialized,    \* g_cache_initialized
  enabled,        \* g_cache_enabled
  cache,          \* g_insn_cache, None where the valid flag is clear
  stats,          \* g_stats
  owed            \* history: what should have been invalidated and was not

vars == <<memory, initialized, enabled, cache, stats, owed>>

Slots == {SlotOf[a] : a \in Addrs}
Contents == [Addrs -> Bytes]
Decodings == {DecodeAt(m, a) : m \in Contents, a \in Addrs}

ASSUME InsnCacheAssumption ==
  /\ IsFiniteSet(Addrs)
  /\ Memories \subseteq Contents
  /\ Insertable \subseteq Decodings
  /\ \A a \in Addrs, i \in Decodings : [pc |-> a, insn |-> i] # None

(* Decoding depends on the bytes of the instruction only.  DecoderProofs    *)
(* proves it of the decoder of the repository (WritesElsewhere).            *)
ASSUME DecodeIsLocal ==
  \A m \in Contents, a \in Addrs, b \in Addrs, v \in Bytes :
    b \notin Covers(m, a) =>
      /\ DecodeAt([m EXCEPT ![b] = v], a) = DecodeAt(m, a)
      /\ Covers([m EXCEPT ![b] = v], a) = Covers(m, a)

EmptyCache == [s \in Slots |-> None]
NoStats == [lookups |-> 0, hits |-> 0, misses |-> 0, inserts |-> 0, evictions |-> 0]

Valid(pc) == cache[SlotOf[pc]] # None /\ cache[SlotOf[pc]].pc = pc
Active == initialized /\ enabled

Init ==
  /\ memory \in Memories
  /\ initialized = FALSE /\ enabled = TRUE
  /\ cache = EmptyCache
  /\ stats = NoStats
  /\ owed = {}

-----------------------------------------------------------------------------
(* Switching on and off, emptying.                                          *)

CacheInit ==
  /\ ~initialized
  /\ initialized' = TRUE /\ enabled' = TRUE
  /\ cache' = EmptyCache /\ owed' = {}
  /\ stats' = NoStats
  /\ UNCHANGED memory

(* Mutant: the entries stay, too. *)
CacheCleanupKeep ==
  /\ initialized
  /\ initialized' = FALSE
  /\ stats' = NoStats
  /\ UNCHANGED <<memory, enabled, cache, owed>>

(* Whether the cache is enabled stays. *)
CacheCleanup ==
  /\ initialized
  /\ initialized' = FALSE
  /\ cache' = EmptyCache /\ owed' = {}
  /\ stats' = NoStats
  /\ UNCHANGED <<memory, enabled>>

(* The entries stay while the cache is off. *)
SetEnabled(on) ==
  /\ enabled' = on
  /\ UNCHANGED <<memory, initialized, cache, stats, owed>>

Flush ==
  /\ initialized
  /\ cache' = EmptyCache /\ owed' = {}
  /\ UNCHANGED <<memory, initialized, enabled, stats>>

(* Mutant: a cache that is off is not asked to invalidate. *)
InvalidateActive(pc) ==
  /\ initialized
  /\ cache' = IF enabled /\ Valid(pc) THEN [cache EXCEPT ![SlotOf[pc]] = None] ELSE cache
  /\ owed' = owed \ {pc}
  /\ UNCHANGED <<memory, initialized, enabled, stats>>

(* Also while the cache is off. *)
Invalidate(pc) ==
  /\ initialized
  /\ cache' = IF Valid(pc) THEN [cache EXCEPT ![SlotOf[pc]] = None] ELSE cache
  /\ owed' = owed \ {pc}
  /\ UNCHANGED <<memory, initialized, enabled, stats>>

-----------------------------------------------------------------------------
(* Lookups and insertions.                                                  *)

Counting == Active /\ stats.lookups < MaxCount /\ stats.inserts < MaxCount

(* insn_cache_lookup, of the cache alone or in decode_x86_insn_cached.      *)
LookupHit(pc) ==
  /\ Counting /\ Valid(pc)
  /\ stats' = [stats EXCEPT !.lookups = @ + 1, !.hits = @ + 1]
  /\ UNCHANGED <<memory, initialized, enabled, cache, owed>>

LookupMiss(pc) ==
  /\ Counting /\ ~Valid(pc)
  /\ stats' = [stats EXCEPT !.lookups = @ + 1, !.misses = @ + 1]
  /\ UNCHANGED <<memory, initialized, enabled, cache, owed>>

Evicts(pc) == cache[SlotOf[pc]] # None /\ cache[SlotOf[pc]].pc # pc

(* What insn_cache_insert does to the entries. *)
Stored(pc, insn) ==
  /\ cache' = [cache EXCEPT ![SlotOf[pc]] = [pc |-> pc, insn |-> insn]]
  /\ owed' = IF insn = DecodeAt(memory, pc) THEN owed \ {pc} ELSE owed \union {pc}
  /\ UNCHANGED <<memory, initialized, enabled>>

(* Mutant: an entry that is replaced by one of its own address is evicted.  *)
InsertEvicting(pc, insn) ==
  /\ Counting
  /\ Stored(pc, insn)
  /\ stats' = [stats EXCEPT !.inserts = @ + 1, !.evictions = @ + 1]

(* insn_cache_insert by a client, of whatever instruction it has.           *)
Insert(pc, insn) ==
  /\ Counting
  /\ Stored(pc, insn)
  /\ stats' = [stats EXCEPT !.inserts = @ + 1,
                            !.evictions = IF Evicts(pc) THEN @ + 1 ELSE @]

(* A miss of decode_x86_insn_cached: every instruction has a length above   *)
(* 0, and is inserted.  With the cache off it changes nothing.              *)
DecodeMiss(pc) ==
  /\ Counting /\ ~Valid(pc)
  /\ Stored(pc, DecodeAt(memory, pc))
  /\ stats' = [stats EXCEPT !.lookups = @ + 1, !.misses = @ + 1, !.inserts = @ + 1,
                            !.evictions = IF Evicts(pc) THEN @ + 1 ELSE @]

-----------------------------------------------------------------------------
(* A byte is written, whatever is cached; owed remembers the instructions   *)
(* in the cache that the byte belongs to.                                   *)
Write(a, v) ==
  /\ memory' = [memory EXCEPT ![a] = v]
  /\ owed' = owed \union {pc \in Addrs : Valid(pc) /\ a \in Covers(memory, pc)}
  /\ UNCHANGED <<initialized, enabled, cache, stats>>

Next ==
  \/ CacheInit \/ CacheCleanup \/ Flush
  \/ \E on \in BOOLEAN : SetEnabled(on)
  \/ \E pc \in Addrs :
       \/ Invalidate(pc) \/ LookupHit(pc) \/ LookupMiss(pc) \/ DecodeMiss(pc)
       \/ \E insn \in Insertable : Insert(pc, insn)
  \/ \E a \in Addrs, v \in Bytes : Write(a, v)

Spec == Init /\ [][Next]_vars

-----------------------------------------------------------------------------
Entries == [pc : Addrs, insn : Decodings]
Stats == [lookups : Nat, hits : Nat, misses : Nat, inserts : Nat, evictions : Nat]

(* An entry is only in the slot of its address, and none before the cache   *)
(* is initialised.                                                          *)
TypeOK ==
  /\ memory \in Contents
  /\ initialized \in BOOLEAN /\ enabled \in BOOLEAN
  /\ cache \in [Slots -> Entries \union {None}]
  /\ \A s \in Slots : cache[s] # None => initialized /\ SlotOf[cache[s].pc] = s
  /\ stats \in Stats
  /\ owed \subseteq Addrs

(* The cache is transparent up to what clients owe it: an entry differs     *)
(* from what decode_x86_insn makes of the bytes that are there now only if  *)
(* one of its own bytes was written, or a wrong instruction inserted, since *)
(* it was cached, and it was not invalidated or flushed since, while the    *)
(* cache was on or off.  Writes to other bytes, collisions, invalidations   *)
(* of overlapping instructions and switching off and on make nothing stale. *)
CachedIsCurrent ==
  \A pc \in Addrs :
    Valid(pc) /\ pc \notin owed => cache[SlotOf[pc]].insn = DecodeAt(memory, pc)

(* The statistics add up: every lookup hit or missed, and what was inserted *)
(* and not evicted accounts for all that is in the cache.                   *)
StatsAgree ==
  /\ stats.lookups = stats.hits + stats.misses
  /\ Cardinality({s \in Slots : cache[s] # None}) + stats.evictions <= stats.inserts
=============================================================================

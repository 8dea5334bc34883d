--------------------------- MODULE DecoderProofs ---------------------------
(***************************************************************************)
(* Proofs about the decoder and the cache of what it decoded.  What         *)
(* InsnCache holds is current up to what its clients owe it, for every      *)
(* decoder whose result depends on the bytes of the instruction only, every *)
(* hash and every memory; the decoder of X86Decode is one                   *)
(* (WritesElsewhere), its fast paths agree with the general path but for    *)
(* two fields (FastIsGeneral), and the lengths it gives are those of the    *)
(* manual but for the instructions that Mishandled lists.                   *)
(***************************************************************************)
EXTENDS InsnCache, DecodeCheck, FiniteSetTheorems, SequenceTheorems, WellFoundedInduction, TLAPS

(* The entry for pc, and why it is one. *)
LEMMA EntryOK ==
  ASSUME NEW i \in Decodings, NEW pc \in Addrs
  PROVE  /\ [pc |-> pc, insn |-> i] \in Entries
         /\ [pc |-> pc, insn |-> i] # None
         /\ SlotOf[pc] \in Slots
<1>1. [pc |-> pc, insn |-> i] \in Entries
  BY DEF Entries
<1>2. [pc |-> pc, insn |-> i] # None
  BY InsnCacheAssumption DEF InsnCacheAssumption
<1>3. SlotOf[pc] \in Slots
  BY DEF Slots
<1> QED BY <1>1, <1>2, <1>3

LEMMA DecodingOK ==
  ASSUME NEW m \in Contents, NEW pc \in Addrs
  PROVE  DecodeAt(m, pc) \in Decodings
BY DEF Decodings

(* Counting is counting in the natural numbers. *)
LEMMA StatsCount ==
  ASSUME stats \in Stats, NEW n \in Nat
  PROVE  /\ [stats EXCEPT !.lookups = @ + 1, !.hits = @ + 1] \in Stats
         /\ [stats EXCEPT !.lookups = @ + 1, !.misses = @ + 1] \in Stats
         /\ [stats EXCEPT !.inserts = @ + 1, !.evictions = n] \in Stats
         /\ [stats EXCEPT !.lookups = @ + 1, !.misses = @ + 1, !.inserts = @ + 1,
                          !.evictions = n] \in Stats
<1>1. /\ stats.lookups + 1 \in Nat /\ stats.hits + 1 \in Nat /\ stats.misses + 1 \in Nat
      /\ stats.inserts + 1 \in Nat /\ stats.evictions \in Nat
  BY DEF Stats
<1>2. /\ [stats EXCEPT !.lookups = @ + 1, !.hits = @ + 1] \in Stats
      /\ [stats EXCEPT !.lookups = @ + 1, !.misses = @ + 1] \in Stats
  BY <1>1, Zenon DEF Stats
<1>3. [stats EXCEPT !.inserts = @ + 1, !.evictions = n] \in Stats
  BY <1>1 DEF Stats
<1>4. [stats EXCEPT !.lookups = @ + 1, !.misses = @ + 1, !.inserts = @ + 1,
                    !.evictions = n] \in Stats
  BY <1>1 DEF Stats
<1> QED BY <1>2, <1>3, <1>4

-----------------------------------------------------------------------------
(* The invariant that the proofs use: types, and every entry, wherever it   *)
(* is, decodes the bytes that are there now unless its address is owed.     *)
Current ==
  \A s \in Slots : cache[s] # None /\ cache[s].pc \notin owed =>
    cache[s].insn = DecodeAt(memory, cache[s].pc)

IInv == TypeOK /\ Current

LEMMA InitInv == Init => IInv
<1> SUFFICES ASSUME Init PROVE IInv
  OBVIOUS
<1>1. memory \in Contents
  BY InsnCacheAssumption DEF Init, InsnCacheAssumption
<1>2. cache \in [Slots -> Entries \union {None}] /\ \A s \in Slots : cache[s] = None
  BY DEF Init, EmptyCache
<1>3. stats \in Stats
  BY DEF Init, NoStats, Stats
<1> QED BY <1>1, <1>2, <1>3 DEF IInv, TypeOK, Current, Init

LEMMA EmptyInv ==
  ASSUME IInv, cache' = EmptyCache, owed' = {}, memory' = memory, initialized' \in BOOLEAN,
         enabled' \in BOOLEAN, stats' \in Stats
  PROVE  IInv'
<1>1. cache' \in [Slots -> Entries \union {None}] /\ \A s \in Slots : cache'[s] = None
  BY DEF EmptyCache
<1> QED BY <1>1 DEF IInv, TypeOK, Current

LEMMA SameInv ==
  ASSUME IInv, cache' = cache, owed' = owed, memory' = memory, initialized' = initialized,
         enabled' \in BOOLEAN, stats' \in Stats
  PROVE  IInv'
BY DEF IInv, TypeOK, Current

(* An instruction enters the slot of its address: a right one settles what  *)
(* was owed for the address, a wrong one is owed from then on.              *)
LEMMA StoredInv ==
  ASSUME IInv, NEW pc \in Addrs, NEW i \in Decodings, Active, Stored(pc, i), stats' \in Stats
  PROVE  IInv'
<1> DEFINE e == [pc |-> pc, insn |-> i]
<1>1. cache' = [cache EXCEPT ![SlotOf[pc]] = e]
  BY DEF Stored
<1>2. e \in Entries /\ e # None /\ SlotOf[pc] \in Slots
  BY EntryOK
<1>3. e.pc = pc /\ e.insn = i
  OBVIOUS
<1>4. memory' = memory /\ initialized' = initialized /\ enabled' = enabled /\ initialized
  BY DEF Stored, Active
<1> HIDE DEF e
<1>5. cache' \in [Slots -> Entries \union {None}]
  BY <1>1, <1>2 DEF IInv, TypeOK
<1>6. /\ owed' \subseteq Addrs
      /\ pc \notin owed' => i = DecodeAt(memory, pc)
      /\ \A q : q # pc => (q \in owed' <=> q \in owed)
  BY DEF Stored, IInv, TypeOK
<1>7. ASSUME NEW s \in Slots, cache'[s] # None
      PROVE  /\ initialized' /\ SlotOf[cache'[s].pc] = s
             /\ cache'[s].pc \notin owed' => cache'[s].insn = DecodeAt(memory', cache'[s].pc)
  <2>1. CASE s = SlotOf[pc]
    <3>1. cache'[s] = e
      BY <2>1, <1>1, <1>2 DEF IInv, TypeOK
    <3> QED BY <2>1, <3>1, <1>3, <1>4, <1>6
  <2>2. CASE s # SlotOf[pc]
    <3>1. cache'[s] = cache[s]
      BY <2>2, <1>1 DEF IInv, TypeOK
    <3>2. SlotOf[cache[s].pc] = s
      BY <3>1, <1>7 DEF IInv, TypeOK
    <3>3. cache[s].pc # pc
      BY <3>2, <2>2
    <3>4. cache'[s].pc \notin owed' => cache[s].pc \notin owed
      BY <3>1, <3>3, <1>6
    <3> QED BY <3>1, <3>2, <3>4, <1>4, <1>7 DEF IInv, Current
  <2> QED BY <2>1, <2>2
<1> QED BY <1>4, <1>5, <1>6, <1>7 DEF IInv, TypeOK, Current

(* A write changes the meaning of the entries that cover the byte only, and *)
(* these are owed from then on.                                             *)
LEMMA WriteInv ==
  ASSUME IInv, NEW a \in Addrs, NEW v \in Bytes, Write(a, v)
  PROVE  IInv'
<1>1. memory' = [memory EXCEPT ![a] = v] /\ cache' = cache
  BY DEF Write
<1>2. memory' \in Contents
  BY <1>1 DEF IInv, TypeOK, Contents
<1>3. ASSUME NEW s \in Slots, cache[s] # None, cache[s].pc \notin owed'
      PROVE  cache[s].insn = DecodeAt(memory', cache[s].pc)
  <2> DEFINE pc == cache[s].pc
  <2>1. pc \in Addrs /\ SlotOf[pc] = s
    BY <1>3 DEF IInv, TypeOK, Entries
  <2>2. Valid(pc)
    BY <2>1, <1>3 DEF Valid
  <2>3. a \notin Covers(memory, pc) /\ pc \notin owed
    BY <2>1, <2>2, <1>3 DEF Write
  <2>4. DecodeAt([memory EXCEPT ![a] = v], pc) = DecodeAt(memory, pc)
    BY <2>1, <2>3, DecodeIsLocal DEF IInv, TypeOK
  <2> QED BY <2>3, <2>4, <1>1, <1>3 DEF IInv, Current
<1>4. owed' \subseteq Addrs
  BY DEF Write, IInv, TypeOK
<1> QED BY <1>1, <1>2, <1>3, <1>4 DEF IInv, TypeOK, Current, Write

(* The entry of the address is gone, and nothing is owed for it. *)
LEMMA InvalidateInv ==
  ASSUME IInv, NEW pc \in Addrs, Invalidate(pc)
  PROVE  IInv'
<1>1. cache' \in [Slots -> Entries \union {None}]
  BY DEF Invalidate, IInv, TypeOK
<1>2. ASSUME NEW s \in Slots, cache'[s] # None
      PROVE  cache'[s] = cache[s] /\ cache[s].pc # pc
  <2>1. CASE Valid(pc)
    <3>1. cache' = [cache EXCEPT ![SlotOf[pc]] = None] /\ SlotOf[pc] \in Slots
      BY <2>1 DEF Invalidate, Slots
    <3>2. s # SlotOf[pc]
      BY <3>1, <1>2 DEF IInv, TypeOK
    <3>3. cache'[s] = cache[s]
      BY <3>1, <3>2 DEF IInv, TypeOK
    <3> QED BY <3>2, <3>3, <1>2 DEF IInv, TypeOK
  <2>2. CASE ~Valid(pc)
    <3>1. cache' = cache
      BY <2>2 DEF Invalidate
    <3>2. SlotOf[cache[s].pc] = s
      BY <3>1, <1>2 DEF IInv, TypeOK
    <3> QED BY <3>1, <3>2, <2>2, <1>2 DEF Valid
  <2> QED BY <2>1, <2>2
<1>3. /\ owed' = owed \ {pc} /\ memory' = memory /\ initialized' = initialized
      /\ enabled' = enabled /\ stats' = stats
  BY DEF Invalidate
<1> QED BY <1>1, <1>2, <1>3 DEF IInv, TypeOK, Current

LEMMA InsertInv ==
  ASSUME IInv, NEW pc \in Addrs, NEW i \in Insertable, Insert(pc, i)
  PROVE  IInv'
<1>1. stats \in Stats /\ Active /\ Stored(pc, i)
  BY DEF IInv, TypeOK, Insert, Counting
<1>2. i \in Decodings
  BY InsnCacheAssumption DEF InsnCacheAssumption
<1>3. stats' \in Stats
  <2> DEFINE n == IF Evicts(pc) THEN stats.evictions + 1 ELSE stats.evictions
  <2>1. n \in Nat
    BY <1>1 DEF Stats
  <2>2. stats' = [stats EXCEPT !.inserts = @ + 1, !.evictions = n]
    BY <1>1 DEF Insert, Stats
  <2> HIDE DEF n
  <2> QED BY <2>1, <2>2, <1>1, StatsCount
<1> QED BY <1>1, <1>2, <1>3, StoredInv

LEMMA MissInv ==
  ASSUME IInv, NEW pc \in Addrs, DecodeMiss(pc)
  PROVE  IInv'
<1>1. stats \in Stats /\ Active /\ Stored(pc, DecodeAt(memory, pc))
  BY DEF IInv, TypeOK, DecodeMiss, Counting
<1>2. DecodeAt(memory, pc) \in Decodings
  BY DecodingOK DEF IInv, TypeOK
<1>3. stats' \in Stats
  <2> DEFINE n == IF Evicts(pc) THEN stats.evictions + 1 ELSE stats.evictions
  <2>1. n \in Nat
    BY <1>1 DEF Stats
  <2>2. stats' = [stats EXCEPT !.lookups = @ + 1, !.misses = @ + 1, !.inserts = @ + 1,
                               !.evictions = n]
    BY <1>1 DEF DecodeMiss, Stats
  <2> HIDE DEF n
  <2> QED BY <2>1, <2>2, <1>1, StatsCount
<1> QED BY <1>1, <1>2, <1>3, StoredInv

LEMMA NextInv == IInv /\ [Next]_vars => IInv'
<1> SUFFICES ASSUME IInv, [Next]_vars PROVE IInv'
  OBVIOUS
<1>1. CASE CacheInit
  BY <1>1, EmptyInv DEF CacheInit, NoStats, Stats
<1>2. CASE CacheCleanup
  BY <1>2, EmptyInv DEF CacheCleanup, NoStats, Stats, IInv, TypeOK
<1>3. CASE Flush
  BY <1>3, EmptyInv DEF Flush, IInv, TypeOK
<1>4. ASSUME NEW on \in BOOLEAN, SetEnabled(on) PROVE IInv'
  BY <1>4, SameInv DEF SetEnabled, IInv, TypeOK
<1>5. ASSUME NEW pc \in Addrs, Invalidate(pc) PROVE IInv'
  BY <1>5, InvalidateInv
<1>6. ASSUME NEW pc \in Addrs, LookupHit(pc) \/ LookupMiss(pc) PROVE IInv'
  <2>1. stats' \in Stats
    BY <1>6, StatsCount DEF LookupHit, LookupMiss, IInv, TypeOK
  <2> QED BY <1>6, <2>1, SameInv DEF LookupHit, LookupMiss, IInv, TypeOK
<1>7. ASSUME NEW pc \in Addrs, DecodeMiss(pc) PROVE IInv'
  BY <1>7, MissInv
<1>8. ASSUME NEW a \in Addrs, NEW v \in Bytes, Write(a, v) PROVE IInv'
  BY <1>8, WriteInv
<1>9. CASE UNCHANGED vars
  BY <1>9, SameInv DEF vars, IInv, TypeOK
<1>10. ASSUME NEW pc \in Addrs, NEW i \in Insertable, Insert(pc, i) PROVE IInv'
  BY <1>10, InsertInv
<1> QED BY <1>1, <1>2, <1>3, <1>4, <1>5, <1>6, <1>7, <1>8, <1>9, <1>10 DEF Next

LEMMA Invariant == Spec => []IInv
<1> QED BY InitInv, NextInv, PTL DEF Spec

-----------------------------------------------------------------------------
(* Types, and the place of every entry, whatever the client calls.          *)
THEOREM TypeCorrect == Spec => []TypeOK
<1>1. IInv => TypeOK
  BY DEF IInv
<1> QED BY <1>1, Invariant, PTL

(* The cache of rosetta_insn_cache.c is transparent up to what its clients  *)
(* owe it, for every decoder that looks at the bytes of the instruction     *)
(* only: however lookups, insertions, collisions, invalidations, flushes    *)
(* and writes follow each other, an entry is stale only for a byte of its   *)
(* own that was written, or a wrong instruction inserted, and not           *)
(* invalidated since.  Nothing in the repository does invalidate.           *)
THEOREM CacheTransparent == Spec => []CachedIsCurrent
<1>1. IInv => CachedIsCurrent
  <2> SUFFICES ASSUME IInv, NEW pc \in Addrs, Valid(pc), pc \notin owed
               PROVE  cache[SlotOf[pc]].insn = DecodeAt(memory, pc)
    BY DEF CachedIsCurrent
  <2>1. SlotOf[pc] \in Slots
    BY DEF Slots
  <2> QED BY <2>1 DEF IInv, Current, Valid
<1> QED BY <1>1, Invariant, PTL

-----------------------------------------------------------------------------
(* The statistics. *)
Used == {s \in Slots : cache[s] # None}

LEMMA SlotsFinite == IsFiniteSet(Slots)
<1>1. IsFiniteSet(Addrs)
  BY InsnCacheAssumption DEF InsnCacheAssumption
<1> DEFINE f == [a \in Addrs |-> SlotOf[a]]
<1>2. f \in Surjection(Addrs, Slots)
  BY DEF Slots, Surjection
<1> QED BY <1>1, <1>2, FS_Surjection

LEMMA UsedFinite ==
  ASSUME NEW T \in SUBSET Slots
  PROVE  IsFiniteSet(T) /\ Cardinality(T) \in Nat
BY SlotsFinite, FS_Subset, FS_CardinalityType

(* The counts only grow apart. *)
LEMMA FewerUsed ==
  ASSUME StatsAgree, stats \in Stats, stats' = stats, Used' \subseteq Used
  PROVE  StatsAgree'
<1>1. Cardinality(Used') <= Cardinality(Used) /\ Cardinality(Used) \in Nat
      /\ Cardinality(Used') \in Nat
  <2>1. Used \in SUBSET Slots /\ Used' \in SUBSET Slots /\ Used' \in SUBSET Used
    BY DEF Used
  <2> QED BY <2>1, UsedFinite, FS_Subset
<1>2. stats.evictions \in Nat /\ stats.inserts \in Nat
  BY DEF Stats
<1>3. Cardinality(Used) + stats.evictions <= stats.inserts
  BY DEF StatsAgree, Used
<1>4. Cardinality(Used') + stats'.evictions <= stats'.inserts
  BY <1>1, <1>2, <1>3
<1> QED BY <1>4 DEF StatsAgree, Used

(* An insertion fills an empty slot, replaces the entry of the same address *)
(* or evicts that of another.                                               *)
LEMMA StoredCounts ==
  ASSUME IInv, NEW pc \in Addrs, NEW i \in Decodings, Stored(pc, i),
         Cardinality(Used) + stats.evictions <= stats.inserts,
         stats'.inserts = stats.inserts + 1,
         stats'.evictions = IF Evicts(pc) THEN stats.evictions + 1 ELSE stats.evictions
  PROVE  Cardinality(Used') + stats'.evictions <= stats'.inserts
<1> DEFINE e == [pc |-> pc, insn |-> i]
           s == SlotOf[pc]
<1>1. cache' = [cache EXCEPT ![s] = e]
  BY DEF Stored
<1>2. e # None /\ s \in Slots /\ cache \in [Slots -> Entries \union {None}]
  BY EntryOK DEF IInv, TypeOK
<1>3. Evicts(pc) => cache[s] # None
  BY DEF Evicts
<1> HIDE DEF e, s
<1>4. Used' = Used \union {s}
  BY <1>1, <1>2 DEF Used
<1>5. IsFiniteSet(Used) /\ Cardinality(Used) \in Nat
  <2>1. Used \in SUBSET Slots
    BY DEF Used
  <2> QED BY <2>1, UsedFinite
<1>6. Cardinality(Used') = IF cache[s] # None THEN Cardinality(Used) ELSE Cardinality(Used) + 1
  <2>1. s \in Used <=> cache[s] # None
    BY <1>2 DEF Used
  <2> QED BY <1>4, <1>5, <2>1, FS_AddElement
<1>7. stats.inserts \in Nat /\ stats.evictions \in Nat
  BY DEF IInv, TypeOK, Stats
<1>8. CASE cache[s] = None
  BY <1>8, <1>3, <1>5, <1>6, <1>7
<1>9. CASE cache[s] # None
  BY <1>9, <1>5, <1>6, <1>7
<1> QED BY <1>8, <1>9

LEMMA InsertCounts ==
  ASSUME IInv, StatsAgree, NEW pc \in Addrs, NEW i \in Insertable, Insert(pc, i)
  PROVE  StatsAgree'
<1>1. stats \in Stats /\ i \in Decodings /\ Stored(pc, i)
  BY InsnCacheAssumption DEF IInv, TypeOK, InsnCacheAssumption, Insert
<1>2. /\ stats'.lookups = stats.lookups /\ stats'.hits = stats.hits
      /\ stats'.misses = stats.misses /\ stats'.inserts = stats.inserts + 1
      /\ stats'.evictions = IF Evicts(pc) THEN stats.evictions + 1 ELSE stats.evictions
  BY <1>1 DEF Insert, Stats
<1>3. /\ stats.lookups = stats.hits + stats.misses
      /\ Cardinality(Used) + stats.evictions <= stats.inserts
  BY DEF StatsAgree, Used
<1>4. Cardinality(Used') + stats'.evictions <= stats'.inserts
  BY <1>1, <1>2, <1>3, StoredCounts
<1> QED BY <1>2, <1>3, <1>4 DEF StatsAgree, Used

LEMMA MissCounts ==
  ASSUME IInv, StatsAgree, NEW pc \in Addrs, DecodeMiss(pc)
  PROVE  StatsAgree'
<1>1. stats \in Stats /\ Stored(pc, DecodeAt(memory, pc))
  BY DEF IInv, TypeOK, DecodeMiss
<1>2. DecodeAt(memory, pc) \in Decodings
  BY DecodingOK DEF IInv, TypeOK
<1>3. /\ stats'.lookups = stats.lookups + 1 /\ stats'.hits = stats.hits
      /\ stats'.misses = stats.misses + 1 /\ stats'.inserts = stats.inserts + 1
      /\ stats'.evictions = IF Evicts(pc) THEN stats.evictions + 1 ELSE stats.evictions
  BY <1>1 DEF DecodeMiss, Stats
<1>4. /\ stats.lookups = stats.hits + stats.misses
      /\ Cardinality(Used) + stats.evictions <= stats.inserts
      /\ stats.hits \in Nat /\ stats.misses \in Nat
  BY <1>1 DEF StatsAgree, Used, Stats
<1>5. Cardinality(Used') + stats'.evictions <= stats'.inserts
  BY <1>1, <1>2, <1>3, <1>4, StoredCounts
<1>6. stats'.lookups = stats'.hits + stats'.misses
  BY <1>3, <1>4
<1> QED BY <1>5, <1>6 DEF StatsAgree, Used

LEMMA EmptyCounts ==
  ASSUME cache' = EmptyCache, stats' = NoStats
  PROVE  StatsAgree'
<1>1. {s \in Slots : cache'[s] # None} = {}
  BY DEF EmptyCache
<1>2. Cardinality({s \in Slots : cache'[s] # None}) = 0
  BY <1>1, FS_EmptySet
<1>3. {s \in Slots : cache[s] # None}' = {s \in Slots : cache'[s] # None}
  OBVIOUS
<1> QED BY <1>2 DEF StatsAgree, NoStats

LEMMA NextCounts == IInv /\ StatsAgree /\ [Next]_vars => StatsAgree'
<1> SUFFICES ASSUME IInv, StatsAgree, [Next]_vars PROVE StatsAgree'
  OBVIOUS
<1>0. stats \in Stats
  BY DEF IInv, TypeOK
<1>1. CASE CacheInit \/ CacheCleanup
  BY <1>1, EmptyCounts DEF CacheInit, CacheCleanup
<1>2. CASE Flush
  <2>1. Used' \subseteq Used
    BY <1>2 DEF Flush, EmptyCache, Used
  <2> QED BY <1>0, <1>2, <2>1, FewerUsed DEF Flush
<1>3. ASSUME cache' = cache, stats' = stats PROVE StatsAgree'
  BY <1>3 DEF StatsAgree
<1>4. ASSUME NEW pc \in Addrs, Invalidate(pc) PROVE StatsAgree'
  <2>1. Used' \subseteq Used
    <3>1. \A s \in Slots : cache'[s] # None => cache[s] # None
      BY <1>4 DEF Invalidate, Valid, IInv, TypeOK
    <3> QED BY <3>1 DEF Used
  <2> QED BY <1>0, <1>4, <2>1, FewerUsed DEF Invalidate
<1>5. ASSUME NEW pc \in Addrs, LookupHit(pc) \/ LookupMiss(pc) PROVE StatsAgree'
  <2>1. /\ stats'.lookups = stats.lookups + 1
        /\ \/ stats'.hits = stats.hits + 1 /\ stats'.misses = stats.misses
           \/ stats'.hits = stats.hits /\ stats'.misses = stats.misses + 1
        /\ stats'.inserts = stats.inserts /\ stats'.evictions = stats.evictions
        /\ cache' = cache
    BY <1>0, <1>5 DEF LookupHit, LookupMiss, Stats
  <2>2. stats.lookups \in Nat /\ stats.hits \in Nat /\ stats.misses \in Nat
    BY <1>0 DEF Stats
  <2>3. stats'.lookups = stats'.hits + stats'.misses
    BY <2>1, <2>2 DEF StatsAgree
  <2> QED BY <2>1, <2>3 DEF StatsAgree
<1>6. ASSUME NEW pc \in Addrs, DecodeMiss(pc) PROVE StatsAgree'
  BY <1>6, MissCounts
<1>7. ASSUME NEW pc \in Addrs, NEW i \in Insertable, Insert(pc, i) PROVE StatsAgree'
  BY <1>7, InsertCounts
<1> QED BY <1>1, <1>2, <1>3, <1>4, <1>5, <1>6, <1>7 DEF Next, SetEnabled, Write, vars

(* The statistics add up whatever the client calls. *)
THEOREM StatsAddUp == Spec => []StatsAgree
<1>1. Init => StatsAgree
  <2> SUFFICES ASSUME Init PROVE StatsAgree
    OBVIOUS
  <2>1. {s \in Slots : cache[s] # None} = {}
    BY DEF Init, EmptyCache
  <2>2. Cardinality({s \in Slots : cache[s] # None}) = 0
    BY <2>1, FS_EmptySet
  <2> QED BY <2>2 DEF Init, StatsAgree, NoStats
<1> QED BY <1>1, NextCounts, Invariant, PTL DEF Spec

-----------------------------------------------------------------------------
(* The decoder itself.                                                      *)

Octets == 0 .. 255

(* What is read of a sequence of bytes is a byte, behind its end 0.         *)
LEMMA OctetAt ==
  ASSUME NEW b \in Seq(Octets), NEW i \in Nat
  PROVE  At(b, i) \in Octets
<1>1. CASE i < Len(b)
  <2>1. i + 1 \in 1 .. Len(b)
    BY <1>1
  <2>2. b[i + 1] \in Octets
    BY <2>1, ElementOfSeq
  <2> QED BY <1>1, <2>2 DEF At
<1>2. CASE ~(i < Len(b))
  BY <1>2 DEF At, Octets
<1> QED BY <1>1, <1>2

(* The first byte that is no prefix. *)
IsFirst(b, k) == ~IsPrefix(At(b, k)) /\ \A i \in 0 .. k - 1 : IsPrefix(At(b, i))

(* There is one first byte that is no prefix, and Prefixes is its offset.   *)
LEMMA PrefixesAre ==
  ASSUME NEW b \in Seq(Octets), NEW k \in 0 .. Len(b), IsFirst(b, k)
  PROVE  Prefixes(b) = k
<1>1. Prefixes(b) \in 0 .. Len(b) /\ IsFirst(b, Prefixes(b))
  BY DEF Prefixes, IsFirst
<1>2. ASSUME NEW j \in 0 .. Len(b), NEW h \in 0 .. Len(b), IsFirst(b, j), IsFirst(b, h)
      PROVE  ~(j < h)
  <2> SUFFICES ASSUME j < h PROVE FALSE
    OBVIOUS
  <2>1. Len(b) \in Nat
    OBVIOUS
  <2>2. j \in 0 .. h - 1
    BY <2>1
  <2> QED BY <1>2, <2>2 DEF IsFirst
<1>3. ~(k < Prefixes(b)) /\ ~(Prefixes(b) < k)
  BY <1>1, <1>2
<1> QED BY <1>1, <1>3

(* There is such a byte: 0 stands behind the end.                           *)
LEMMA PrefixesEnd ==
  ASSUME NEW b \in Seq(Octets)
  PROVE  Prefixes(b) \in 0 .. Len(b) /\ IsFirst(b, Prefixes(b))
<1> DEFINE T == {k \in 0 .. Len(b) : ~IsPrefix(At(b, k))}
<1>1. Len(b) \in Nat
  OBVIOUS
<1>2. Len(b) \in T
  BY <1>1 DEF At, IsPrefix, IsRex
<1>3. T \subseteq Nat /\ T # {}
  BY <1>1, <1>2
<1>4. PICK k \in T : \A j \in T : <<j, k>> \notin OpToRel(<, Nat)
  <2> HIDE DEF T
  <2> QED BY <1>3, NatLessThanWellFounded, WFMin
<1>5. \A j \in T : ~(j < k)
  <2> TAKE j \in T
  <2>1. <<j, k>> \notin OpToRel(<, Nat) /\ j \in Nat /\ k \in Nat
    BY <1>3, <1>4
  <2> HIDE DEF T
  <2> QED BY <2>1 DEF OpToRel
<1>6. k \in 0 .. Len(b) /\ IsFirst(b, k)
  BY <1>1, <1>5 DEF IsFirst
<1> QED BY <1>6, PrefixesAre

(* A REX prefix that stands first is the one that counts.                   *)
LEMMA RexIsFast ==
  ASSUME NEW b \in Seq(Octets), Prefixes(b) = Skip(b)
  PROVE  Rex(b) = FastRex(b)
<1>1. CASE IsRex(At(b, 0))
  <2>1. Prefixes(b) = 1 /\ FastRex(b) = At(b, 0)
    BY <1>1 DEF Skip, FastRex
  <2>2. {i \in 0 .. Prefixes(b) - 1 : IsRex(At(b, i))} = {0}
    BY <1>1, <2>1
  <2>3. (CHOOSE i \in {0} : \A j \in {0} : i <= j) = 0
    OBVIOUS
  <2> QED BY <2>1, <2>2, <2>3 DEF Rex
<1>2. CASE ~IsRex(At(b, 0))
  <2>1. Prefixes(b) = 0 /\ FastRex(b) = 0
    BY <1>2 DEF Skip, FastRex
  <2>2. {i \in 0 .. Prefixes(b) - 1 : IsRex(At(b, i))} = {}
    BY <2>1
  <2> QED BY <2>1, <2>2 DEF Rex
<1> QED BY <1>1, <1>2

(* Bits. *)
LEMMA Bits ==
  ASSUME NEW x \in Octets
  PROVE  /\ Bit(x, 0) = x % 2 /\ Bit(x, 2) = (x \div 4) % 2 /\ Bit(x, 3) = (x \div 8) % 2
         /\ \A i \in {0, 2, 3} : Bit(x, i) \in {0, 1}
<1>1. 2^0 = 1 /\ 2^2 = 4 /\ 2^3 = 8
  OBVIOUS
<1>2. Bit(x, 0) = x % 2 /\ Bit(x, 2) = (x \div 4) % 2 /\ Bit(x, 3) = (x \div 8) % 2
  BY <1>1 DEF Bit, Octets
<1> QED BY <1>2 DEF Octets

(* The ranges of the fields of a ModR/M byte.                               *)
LEMMA Fields3 ==
  ASSUME NEW m \in Octets
  PROVE  Mod(m) \in 0 .. 3 /\ Reg(m) \in 0 .. 7 /\ Rm(m) \in 0 .. 7
BY DEF Octets, Mod, Reg, Rm

(* What the fast paths look at.                                             *)
LEMMA SkipType ==
  ASSUME NEW b \in Seq(Octets)
  PROVE  /\ Skip(b) \in {0, 1} /\ Skip(b) \in Nat /\ Skip(b) + 1 \in Nat
         /\ Op(b) \in Octets /\ ModRM(b) \in Octets /\ At(b, 0) \in Octets
         /\ FastRex(b) \in Octets
         /\ Skip(b) = 1 <=> IsRex(At(b, 0))
         /\ Skip(b) = 0 => Op(b) = At(b, 0)
         /\ Skip(b) <= Len(b)
<1>1. Skip(b) \in {0, 1} /\ (Skip(b) = 1 <=> IsRex(At(b, 0)))
  BY DEF Skip
<1>2. Op(b) \in Octets /\ ModRM(b) \in Octets /\ At(b, 0) \in Octets
  BY <1>1, OctetAt DEF Op, ModRM
<1>3. FastRex(b) \in Octets
  BY <1>2 DEF FastRex, Octets
<1>4. IsRex(At(b, 0)) => Len(b) > 0
  BY DEF At, IsRex
<1> QED BY <1>1, <1>2, <1>3, <1>4 DEF Op

(* An opcode where the fast paths look for it ends the prefixes.            *)
LEMMA FastPrefixes ==
  ASSUME NEW b \in Seq(Octets), ~IsPrefix(Op(b))
  PROVE  Prefixes(b) = Skip(b) /\ Rex(b) = FastRex(b)
<1>1. IsFirst(b, Skip(b))
  BY SkipType DEF IsFirst, Op, IsPrefix
<1>2. Skip(b) \in 0 .. Len(b)
  BY SkipType
<1> QED BY <1>1, <1>2, PrefixesAre, RexIsFast

Special == {\h0F, \hC4, \hC5}

(* The general path reads an opcode of one byte where the fast paths do.    *)
LEMMA PlainOpcode ==
  ASSUME NEW b \in Seq(Octets), ~IsPrefix(Op(b)), Op(b) \notin Special
  PROVE  /\ Opcode(b) = Codes(Op(b), 0, 0, Skip(b) + 1)
         /\ Codes(Op(b), 0, 0, Skip(b) + 1).next = Skip(b) + 1
         /\ At(b, Skip(b) + 1) = ModRM(b)
<1>1. At(b, Prefixes(b)) = Op(b) /\ Prefixes(b) = Skip(b)
  BY FastPrefixes DEF Op
<1> QED BY <1>1 DEF Opcode, Special, ModRM, Codes

(* What the general path makes of an opcode of one byte behind at most one  *)
(* REX prefix.                                                              *)
LEMMA GeneralPlain ==
  ASSUME NEW b \in Seq(Octets), ~IsPrefix(Op(b)), Op(b) \notin Special
  PROVE  LET imm == ImmSize(Codes(Op(b), 0, 0, Skip(b) + 1), FastRex(b)) IN
         /\ Op(b) \in ModRMLookup =>
              DecodeGeneral(b) =
                Insn(Skip(b) + 1 + AddressSize(ModRM(b)) + imm, Op(b), 0, Mod(ModRM(b)),
                     RegX(FastRex(b), ModRM(b)),
                     IF IsEaxImm(Op(b)) THEN 0 ELSE RmX(FastRex(b), ModRM(b)))
         /\ Op(b) \notin ModRMLookup =>
              DecodeGeneral(b) = NoOperand(Skip(b) + 1 + imm, Op(b), 0)
<1> DEFINE c == Codes(Op(b), 0, 0, Skip(b) + 1)
<1>1. c.op = Op(b) /\ c.op2 = 0 /\ c.op3 = 0 /\ c.next = Skip(b) + 1
  BY DEF Codes
<1>2. HasModRM(c) <=> Op(b) \in ModRMLookup
  BY <1>1 DEF HasModRM
<1>3. Opcode(b) = c /\ At(b, c.next) = ModRM(b) /\ Rex(b) = FastRex(b)
  BY <1>1, PlainOpcode, FastPrefixes
<1> HIDE DEF c
<1>4. /\ HasModRM(c) => DecodeGeneral(b) =
           Insn(Skip(b) + 1 + AddressSize(ModRM(b)) + ImmSize(c, FastRex(b)), Op(b), 0,
                Mod(ModRM(b)), RegX(FastRex(b), ModRM(b)),
                IF IsEaxImm(Op(b)) THEN 0 ELSE RmX(FastRex(b), ModRM(b)))
      /\ ~HasModRM(c) => DecodeGeneral(b) =
           NoOperand(Skip(b) + 1 + ImmSize(c, FastRex(b)), Op(b), 0)
  BY <1>1, <1>3, Zenon DEF DecodeGeneral
<1> QED BY <1>2, <1>4 DEF c

FastOps == AluOps \union (\h88 .. \h8B) \union {\h8D, \hFF}

(* How the general path takes the opcodes of the fast paths with ModR/M.    *)
LEMMA FastOpsAre ==
  ASSUME NEW x \in FastOps
  PROVE  /\ x \in ModRMLookup /\ x \in Octets /\ ~IsPrefix(x) /\ x \notin Special
         /\ ~IsEaxImm(x)
<1>1. x \in Octets
  BY DEF FastOps, AluOps, Octets
<1>2. x \in ModRMLookup
  BY DEF FastOps, AluOps, ModRMLookup
<1>3. ~IsPrefix(x) /\ x \notin Special
  BY DEF FastOps, AluOps, IsPrefix, IsRex, Special
<1>4. ~IsEaxImm(x)
  BY <1>1, Bits DEF FastOps, AluOps, IsEaxImm
<1> QED BY <1>1, <1>2, <1>3, <1>4

(* They have no immediate.                                                  *)
LEMMA NoImmediate ==
  ASSUME NEW x \in FastOps, NEW rex, NEW n
  PROVE  ImmSize(Codes(x, 0, 0, n), rex) = 0
<1>1. /\ x \notin \hB8 .. \hBF /\ ~IsEaxImm(x) /\ x \notin Imm32Ops /\ x \notin Imm8Ops
      /\ x \notin {\hC2, \hCA} /\ x \notin \hB0 .. \hB7
  BY FastOpsAre DEF FastOps, AluOps, Imm32Ops, Imm8Ops
<1> DEFINE c == Codes(x, 0, 0, n)
<1>2. c.op = x /\ c.op2 = 0 /\ c.op3 = 0
  BY DEF Codes
<1>3. 0 \notin Imm8Ops2
  BY DEF Imm8Ops2
<1> HIDE DEF c
<1>4. ImmSize(c, rex) = 0
  BY <1>1, <1>2, <1>3 DEF ImmSize
<1> QED BY <1>4 DEF c

(* Bytes are integers.                                                      *)
LEMMA OctetIsInt == \A x \in Octets : x \in Int
BY DEF Octets

(* No byte that a fast path starts with is a REX prefix. *)
LEMMA NotRex ==
  \A x \in (\h50 .. \h5F) \union {\hC2, \hC3, \h0F, \hE8, \hE9, \hEB} \union (\h70 .. \h7F) : ~IsRex(x)
BY DEF IsRex

(* Each fast path is told by the opcode. *)
LEMMA FastByOpcode ==
  ASSUME NEW b \in Seq(Octets)
  PROVE  /\ IsSimplePushPop(b) => Skip(b) = 0 /\ Op(b) \in \h50 .. \h5F
         /\ IsSimpleMemoryInsn(b) => Op(b) \in \h88 .. \h8B
         /\ IsRegToRegAlu(b) => Op(b) \in AluOps
         /\ IsSimpleLea(b) => Op(b) = \h8D
         /\ IsSimpleIncDec(b) => Op(b) = \hFF
         /\ IsSimpleRet(b) => Skip(b) = 0 /\ Op(b) \in {\hC2, \hC3}
         /\ IsSimpleJcc(b) => Skip(b) = 0 /\ (Op(b) \in \h70 .. \h7F \/ (Op(b) = \h0F /\ At(b, 1) \in \h80 .. \h8F))
         /\ IsSimpleJmpCall(b) => Skip(b) = 0 /\ Op(b) \in {\hE8, \hE9, \hEB}
<1>1. At(b, 0) \in Int /\ ~IsRex(At(b, 0)) => Skip(b) = 0 /\ Op(b) = At(b, 0)
  BY DEF Skip, Op
<1>2. IsSimpleMemoryInsn(b) => Op(b) \in \h88 .. \h8B
  BY DEF IsSimpleMemoryInsn
<1>3. IsRegToRegAlu(b) => Op(b) \in AluOps
  BY DEF IsRegToRegAlu
<1>4. IsSimpleLea(b) => Op(b) = \h8D
  BY DEF IsSimpleLea
<1>5. IsSimpleIncDec(b) => Op(b) = \hFF
  BY DEF IsSimpleIncDec
<1>6. At(b, 0) \in Int
  BY SkipType, OctetIsInt
<1> DEFINE p == At(b, 0)
           q == At(b, 1)
<1>20. ASSUME p \in (\h50 .. \h5F) \union {\hC2, \hC3, \h0F, \hE8, \hE9, \hEB} \union (\h70 .. \h7F)
       PROVE  Skip(b) = 0 /\ Op(b) = p
  <2>1. ~IsRex(p)
    BY <1>20, NotRex, Zenon
  <2> QED BY <2>1, <1>1, <1>6, Zenon
<1>7. ASSUME IsSimplePushPop(b) PROVE Skip(b) = 0 /\ Op(b) \in \h50 .. \h5F
  <2>1. p \in \h50 .. \h5F
    BY <1>7 DEF IsSimplePushPop
  <2> HIDE DEF p
  <2>2. Skip(b) = 0 /\ Op(b) = p
    BY <2>1, <1>20
  <2> QED BY <2>1, <2>2
<1>8. ASSUME IsSimpleRet(b) PROVE Skip(b) = 0 /\ Op(b) \in {\hC2, \hC3}
  <2>1. p \in {\hC2, \hC3}
    BY <1>8 DEF IsSimpleRet
  <2> HIDE DEF p
  <2>2. Skip(b) = 0 /\ Op(b) = p
    BY <2>1, <1>20
  <2> QED BY <2>1, <2>2
<1>9. ASSUME IsSimpleJcc(b)
      PROVE  Skip(b) = 0 /\ (Op(b) \in \h70 .. \h7F \/ (Op(b) = \h0F /\ q \in \h80 .. \h8F))
  <2>1. p \in \h70 .. \h7F \/ (p = \h0F /\ q \in \h80 .. \h8F)
    BY <1>9, Zenon DEF IsSimpleJcc
  <2> HIDE DEF p, q
  <2>2. Skip(b) = 0 /\ Op(b) = p
    BY <2>1, <1>20
  <2> QED BY <2>1, <2>2
<1>10. ASSUME IsSimpleJmpCall(b) PROVE Skip(b) = 0 /\ Op(b) \in {\hE8, \hE9, \hEB}
  <2>1. p \in {\hE8, \hE9, \hEB}
    BY <1>10 DEF IsSimpleJmpCall
  <2> HIDE DEF p
  <2>2. Skip(b) = 0 /\ Op(b) = p
    BY <2>1, <1>20
  <2> QED BY <2>1, <2>2
<1> QED BY <1>2, <1>3, <1>4, <1>5, <1>7, <1>8, <1>9, <1>10

(* No two fast paths take the same opcode. *)
LEMMA FastApart ==
  ASSUME NEW x \in Int
  PROVE  /\ x \in \h50 .. \h5F =>
              x \notin AluOps \union (\h88 .. \h8B) \union {\h8D, \hFF, \hC2, \hC3, \h0F, \hE8, \hE9, \hEB} \union (\h70 .. \h7F)
         /\ x \in AluOps \union (\h88 .. \h8B) =>
              x \notin {\h8D, \hFF, \hC2, \hC3, \h0F, \hE8, \hE9, \hEB} \union (\h70 .. \h7F)
         /\ x \in \h70 .. \h7F => x \notin {\h8D, \hFF, \hC2, \hC3, \hE8, \hE9, \hEB}
BY DEF AluOps

(* What the fast paths make of an instruction. *)
LEMMA FastDecoded ==
  ASSUME NEW b \in Seq(Octets)
  PROVE  /\ IsSimplePushPop(b) => DecodeFast(b) = [NoOperand(1, Op(b), 0) EXCEPT !.reg = Op(b) % 8]
         /\ IsSimpleMemoryInsn(b) \/ IsRegToRegAlu(b) => DecodeFast(b) = DecodeRegisters(b)
         /\ IsSimpleLea(b) => DecodeFast(b) = DecodeLeaFast(b)
         /\ IsSimpleIncDec(b) => DecodeFast(b) = DecodeIncDecFast(b)
         /\ IsSimpleRet(b) => DecodeFast(b) = NoOperand(IF Op(b) = \hC2 THEN 3 ELSE 1, Op(b), 0)
         /\ IsSimpleJcc(b) => DecodeFast(b) = IF Op(b) = \h0F THEN NoOperand(6, Op(b), At(b, 1))
                                              ELSE NoOperand(2, Op(b), 0)
         /\ IsSimpleJmpCall(b) => DecodeFast(b) = NoOperand(IF Op(b) = \hEB THEN 2 ELSE 5, Op(b), 0)
<1> DEFINE PP == IsSimplePushPop(b)
           RR == IsSimpleMemoryInsn(b) \/ IsRegToRegAlu(b)
           LL == IsSimpleLea(b)
           DD == IsSimpleIncDec(b)
           TT == IsSimpleRet(b)
           JJ == IsSimpleJcc(b)
           CC == IsSimpleJmpCall(b)
<1>1. Op(b) \in Int /\ (Skip(b) = 0 => Op(b) = At(b, 0))
  <2>1. Op(b) \in Octets /\ (Skip(b) = 0 => Op(b) = At(b, 0))
    BY SkipType
  <2> QED BY <2>1, OctetIsInt
<1>2. /\ PP => Op(b) \in \h50 .. \h5F
      /\ RR => Op(b) \in AluOps \union (\h88 .. \h8B)
      /\ LL => Op(b) = \h8D
      /\ DD => Op(b) = \hFF
      /\ TT => Op(b) \in {\hC2, \hC3}
      /\ JJ => Op(b) \in \h70 .. \h7F \/ Op(b) = \h0F
      /\ CC => Op(b) \in {\hE8, \hE9, \hEB}
      /\ PP \/ TT \/ JJ \/ CC => Op(b) = At(b, 0)
  BY <1>1, FastByOpcode
<1> HIDE DEF PP, RR, LL, DD, TT, JJ, CC
<1>3. /\ PP => ~RR /\ ~LL /\ ~DD /\ ~TT /\ ~JJ /\ ~CC
      /\ RR => ~LL /\ ~DD /\ ~TT /\ ~JJ /\ ~CC
      /\ LL => ~DD /\ ~TT /\ ~JJ /\ ~CC
      /\ DD => ~TT /\ ~JJ /\ ~CC
      /\ TT => ~JJ /\ ~CC
      /\ JJ => ~CC
  <2> DEFINE x == Op(b)
  <2>1. x \in Int
    BY <1>1
  <2>2. /\ PP => x \in \h50 .. \h5F
        /\ RR => x \in AluOps \union (\h88 .. \h8B)
        /\ LL => x = \h8D
        /\ DD => x = \hFF
        /\ TT => x \in {\hC2, \hC3}
        /\ JJ => x \in \h70 .. \h7F \/ x = \h0F
        /\ CC => x \in {\hE8, \hE9, \hEB}
    BY <1>2
  <2> HIDE DEF x
  <2>3. PP => ~RR /\ ~LL /\ ~DD /\ ~TT /\ ~JJ /\ ~CC
    BY <2>1, <2>2, FastApart
  <2>4. RR => ~LL /\ ~DD /\ ~TT /\ ~JJ /\ ~CC
    BY <2>1, <2>2, FastApart
  <2>5. JJ => ~LL /\ ~DD /\ ~TT /\ ~CC
    BY <2>1, <2>2, FastApart
  <2>6. /\ LL => ~DD /\ ~TT /\ ~CC
        /\ DD => ~TT /\ ~CC
        /\ TT => ~CC
    BY <2>1, <2>2
  <2> QED BY <2>3, <2>4, <2>5, <2>6
<1>4. CASE PP
  BY <1>2, <1>3, <1>4, Zenon DEF DecodeFast, PP, RR, LL, DD, TT, JJ, CC
<1>5. CASE RR
  BY <1>2, <1>3, <1>5, Zenon DEF DecodeFast, PP, RR, LL, DD, TT, JJ, CC
<1>6. CASE LL
  BY <1>2, <1>3, <1>6, Zenon DEF DecodeFast, PP, RR, LL, DD, TT, JJ, CC
<1>7. CASE DD
  BY <1>2, <1>3, <1>7, Zenon DEF DecodeFast, PP, RR, LL, DD, TT, JJ, CC
<1>8. CASE TT
  BY <1>2, <1>3, <1>8, Zenon DEF DecodeFast, PP, RR, LL, DD, TT, JJ, CC
<1>9. CASE JJ
  BY <1>2, <1>3, <1>9, Zenon DEF DecodeFast, PP, RR, LL, DD, TT, JJ, CC
<1>10. CASE CC
  BY <1>2, <1>3, <1>10, Zenon DEF DecodeFast, PP, RR, LL, DD, TT, JJ, CC
<1>11. CASE ~PP /\ ~RR /\ ~LL /\ ~DD /\ ~TT /\ ~JJ /\ ~CC
  BY <1>11 DEF PP, RR, LL, DD, TT, JJ, CC
<1> QED
  BY <1>4, <1>5, <1>6, <1>7, <1>8, <1>9, <1>10, <1>11
     DEF PP, RR, LL, DD, TT, JJ, CC

(* The opcodes of fast paths that have no ModR/M byte, and their immediates.*)
BareOps == (\h50 .. \h5F) \union {\hC2, \hC3, \hE8, \hE9, \hEB} \union (\h70 .. \h7F)
BareImm(x) == IF x \in {\hE8, \hE9} THEN 4 ELSE IF x = \hC2 THEN 2
              ELSE IF x = \hEB \/ x \in \h70 .. \h7F THEN 1 ELSE 0

(* How it takes the opcodes of the fast paths without ModR/M.               *)
LEMMA BareOpsAre ==
  ASSUME NEW x \in BareOps
  PROVE  x \in Octets /\ ~IsPrefix(x) /\ x \notin Special /\ x \notin ModRMLookup
BY DEF BareOps, Octets, IsPrefix, IsRex, Special, ModRMLookup

(* Their immediates.                                                        *)
LEMMA BareImmediate ==
  ASSUME NEW x \in BareOps, NEW rex, NEW n
  PROVE  ImmSize(Codes(x, 0, 0, n), rex) = BareImm(x)
<1>1. x \notin \hB8 .. \hBF /\ ~IsEaxImm(x) /\ x \notin \hB0 .. \hB7
  BY DEF BareOps, IsEaxImm
<1>2. /\ x \in Imm32Ops <=> x \in {\hE8, \hE9}
      /\ x \in Imm8Ops <=> x = \hEB \/ x \in \h70 .. \h7F
      /\ x \in {\hC2, \hCA} <=> x = \hC2
  BY DEF BareOps, Imm32Ops, Imm8Ops
<1>3. 0 \notin Imm8Ops2 /\ 0 # \h3A
  BY DEF Imm8Ops2
<1>4. /\ x \in Imm32Ops => x \notin Imm8Ops /\ x \notin {\hC2, \hCA}
      /\ x \in Imm8Ops => x \notin {\hC2, \hCA}
  BY DEF BareOps, Imm32Ops, Imm8Ops
<1> DEFINE c == Codes(x, 0, 0, n)
<1>5. c.op = x /\ c.op2 = 0 /\ c.op3 = 0
  BY DEF Codes
<1> HIDE DEF c
<1>6. ImmSize(c, rex) =
        IF x \in Imm32Ops THEN 4 ELSE IF x \in Imm8Ops THEN 1
        ELSE IF x \in {\hC2, \hCA} THEN 2 ELSE 0
  BY <1>1, <1>3, <1>4, <1>5 DEF ImmSize
<1>7. ImmSize(c, rex) = BareImm(x)
  BY <1>2, <1>4, <1>6 DEF BareImm
<1> QED BY <1>7 DEF c

(* What the general path makes of an instruction, but for the two fields in *)
(* which the fast paths differ.                                             *)
FastForm(b, general) ==
  [general EXCEPT !.is64 = IF Skip(b) = 0 THEN 1 ELSE Bit(FastRex(b), 3),
                  !.reg = IF IsSimplePushPop(b) THEN Op(b) % 8
                          ELSE IF IsSimpleIncDec(b) THEN @ % 8 ELSE @]

Fields(l, o, mod, reg, rm, w) ==
  [length |-> l, opcode |-> o, opcode2 |-> 0, mod |-> mod, reg |-> reg, rm |-> rm, is64 |-> w]

(* The fields of what is decoded. *)
LEMMA InsnFields ==
  \A l, o, mod, reg, rm : Insn(l, o, 0, mod, reg, rm) = Fields(l, o, mod, reg, rm, 1)
BY DEF Insn, Fields

(* Those of an instruction without ModR/M byte. *)
LEMMA NoOperandFields == \A l, o : NoOperand(l, o, 0) = Fields(l, o, 0, 0, 0, 1)
BY DEF NoOperand, Insn, Fields

(* LEA with a base of r12 or r13, whose fast path looks for SIB byte and    *)
(* displacement by the extended register.                                   *)
LeaR12R13(b) ==
  /\ Op(b) = \h8D /\ Bit(FastRex(b), 0) = 1
  /\ \/ Mod(ModRM(b)) # 3 /\ Rm(ModRM(b)) = 4
     \/ Mod(ModRM(b)) = 0 /\ Rm(ModRM(b)) = 5

(* The lengths the two paths give LEA. *)
LEMMA LeaLengths ==
  ASSUME NEW b \in Seq(Octets), Op(b) = \h8D, ~LeaR12R13(b)
  PROVE  DecodeLeaFast(b).length = Skip(b) + 1 + AddressSize(ModRM(b))
<1> DEFINE m == ModRM(b)
           bit == Bit(FastRex(b), 0)
           sib == IF RmX(FastRex(b), m) = 4 /\ Mod(m) # 3 THEN 1 ELSE 0
           disp == IF Mod(m) = 1 THEN 1
                   ELSE IF Mod(m) = 2 \/ (Mod(m) = 0 /\ RmX(FastRex(b), m) = 5) THEN 4 ELSE 0
<1>1. DecodeLeaFast(b).length = Skip(b) + 2 + sib + disp
  <2>1. DecodeRegisters(b).length = Skip(b) + 2 /\ "length" \in DOMAIN DecodeRegisters(b)
    BY DEF DecodeRegisters, Insn
  <2>2. [DecodeRegisters(b) EXCEPT !.length = @ + sib + disp].length = Skip(b) + 2 + sib + disp
    BY <2>1, Zenon
  <2> QED BY <2>2 DEF DecodeLeaFast
<1>2. /\ bit \in {0, 1} /\ Mod(m) \in 0 .. 3 /\ Rm(m) \in 0 .. 7 /\ Skip(b) \in {0, 1}
      /\ RmX(FastRex(b), m) = Rm(m) + 8 * bit
  BY SkipType, Bits, Fields3 DEF RmX
<1>3. bit = 1 => ~(Mod(m) # 3 /\ Rm(m) = 4) /\ ~(Mod(m) = 0 /\ Rm(m) = 5)
  BY DEF LeaR12R13
<1> HIDE DEF m, bit
<1>4. sib = IF Mod(m) # 3 /\ Rm(m) = 4 THEN 1 ELSE 0
  BY <1>2, <1>3
<1>5. disp = IF Mod(m) = 1 THEN 1
             ELSE IF Mod(m) = 2 \/ (Mod(m) = 0 /\ Rm(m) = 5) THEN 4 ELSE 0
  BY <1>2, <1>3
<1>6. AddressSize(m) =
        1 + (IF Mod(m) # 3 /\ Rm(m) = 4 THEN 1 ELSE 0)
          + (IF Mod(m) = 1 THEN 1 ELSE IF Mod(m) = 2 \/ (Mod(m) = 0 /\ Rm(m) = 5) THEN 4 ELSE 0)
  BY <1>2 DEF AddressSize
<1> HIDE DEF sib, disp
<1>7. DecodeLeaFast(b).length = Skip(b) + 1 + AddressSize(m)
  BY <1>1, <1>2, <1>4, <1>5, <1>6
<1> QED BY <1>7 DEF m

(* The registers of a ModR/M byte need nothing behind it. *)
LEMMA RegisterSize ==
  ASSUME NEW m \in Octets, Mod(m) = 3
  PROVE  AddressSize(m) = 1
BY DEF AddressSize

(* What the general path makes of the opcodes the fast paths take.          *)
LEMMA GeneralRegisters ==
  ASSUME NEW b \in Seq(Octets), Op(b) \in FastOps
  PROVE  DecodeGeneral(b) =
           Insn(Skip(b) + 1 + AddressSize(ModRM(b)), Op(b), 0, Mod(ModRM(b)),
                RegX(FastRex(b), ModRM(b)), RmX(FastRex(b), ModRM(b)))
<1>1. Op(b) \in ModRMLookup /\ ~IsPrefix(Op(b)) /\ Op(b) \notin Special /\ ~IsEaxImm(Op(b))
  BY FastOpsAre
<1> DEFINE imm == ImmSize(Codes(Op(b), 0, 0, Skip(b) + 1), FastRex(b))
<1>2. imm = 0
  BY NoImmediate
<1>3. DecodeGeneral(b) =
        Insn(Skip(b) + 1 + AddressSize(ModRM(b)) + imm, Op(b), 0, Mod(ModRM(b)),
             RegX(FastRex(b), ModRM(b)), RmX(FastRex(b), ModRM(b)))
  BY <1>1, GeneralPlain
<1> HIDE DEF imm
<1>4. Skip(b) + 1 + AddressSize(ModRM(b)) + imm = Skip(b) + 1 + AddressSize(ModRM(b))
  <2>1. Mod(ModRM(b)) \in 0 .. 3 /\ Skip(b) \in {0, 1}
    BY SkipType, Fields3
  <2>2. AddressSize(ModRM(b)) \in Nat
    BY <2>1 DEF AddressSize
  <2> QED BY <1>2, <2>1, <2>2
<1> QED BY <1>3, <1>4

(* The general path on them.                                                *)
LEMMA GeneralBare ==
  ASSUME NEW b \in Seq(Octets), Op(b) \in BareOps, Skip(b) = 0
  PROVE  DecodeGeneral(b) = NoOperand(1 + BareImm(Op(b)), Op(b), 0)
<1>1. Op(b) \notin ModRMLookup /\ ~IsPrefix(Op(b)) /\ Op(b) \notin Special
  BY BareOpsAre
<1> DEFINE imm == ImmSize(Codes(Op(b), 0, 0, Skip(b) + 1), FastRex(b))
<1>2. imm = BareImm(Op(b))
  BY BareImmediate
<1>3. DecodeGeneral(b) = NoOperand(Skip(b) + 1 + imm, Op(b), 0)
  BY <1>1, GeneralPlain
<1> HIDE DEF imm
<1>4. Skip(b) + 1 + imm = 1 + imm
  OBVIOUS
<1> QED BY <1>2, <1>3, <1>4

(* What the fast paths make of an instruction is what the general path      *)
(* would have made of it, is64 and the reg of PUSH, POP, INC and DEC, LEA   *)
(* with a base of r12 or r13 and the near conditional jumps apart: for      *)
(* every sequence of bytes.                                                 *)
THEOREM FastIsGeneral ==
  ASSUME NEW b \in Seq(Octets), IsFast(b), ~LeaR12R13(b), Op(b) # \h0F
  PROVE  DecodeFast(b) = FastForm(b, DecodeGeneral(b))
<1> DEFINE f == DecodeFast(b)
           g == DecodeGeneral(b)
           m == ModRM(b)
           d == Mod(m)
           n == Skip(b) + 1
           reg == RegX(FastRex(b), m)
           rm == RmX(FastRex(b), m)
           x == Op(b)
           w == IF Skip(b) = 0 THEN 1 ELSE Bit(FastRex(b), 3)
           push == IsSimplePushPop(b)
           inc == IsSimpleIncDec(b)
           form == [g EXCEPT !.is64 = w, !.reg = IF push THEN x % 8 ELSE IF inc THEN @ % 8 ELSE @]
<1> SUFFICES f = form
  BY DEF FastForm
<1>1. Skip(b) \in {0, 1} /\ m \in Octets /\ x \in Int
  BY SkipType, OctetIsInt
<1>2. ASSUME x \in FastOps
      PROVE  g = Fields(n + AddressSize(m), x, d, reg, rm, 1)
  <2>1. g = Insn(n + AddressSize(m), x, 0, d, reg, rm)
    BY <1>2, GeneralRegisters
  <2> HIDE DEF f, g, m, d, n, rm, reg, x
  <2> QED BY <2>1, InsnFields
<1>3. ASSUME x \in BareOps, Skip(b) = 0
      PROVE  g = Fields(1 + BareImm(x), x, 0, 0, 0, 1)
  <2>1. g = NoOperand(1 + BareImm(x), x, 0)
    BY <1>3, GeneralBare
  <2> HIDE DEF f, g, m, d, n, rm, reg, x
  <2> QED BY <2>1, NoOperandFields
<1>4. /\ push => Skip(b) = 0 /\ x \in \h50 .. \h5F
      /\ inc => x = \hFF
  BY FastByOpcode
<1>5. ASSUME NEW l, NEW e, NEW r, NEW s, g = Fields(l, x, e, r, s, 1)
      PROVE  form = Fields(l, x, e, IF push THEN x % 8 ELSE IF inc THEN r % 8 ELSE r, s, w)
  <2> DEFINE q == IF push THEN x % 8 ELSE IF inc THEN r % 8 ELSE r
  <2> HIDE DEF f, g, m, d, n, rm, reg, x, w, push, inc
  <2>1. g.reg = r
    BY <1>5 DEF Fields
  <2>2. form = [g EXCEPT !.is64 = w, !.reg = q]
    BY <2>1
  <2> HIDE DEF q
  <2>3. form = [[g EXCEPT !.is64 = w] EXCEPT !.reg = q]
    <3> HIDE DEF form
    <3> QED BY <2>2
  <2>4. [g EXCEPT !.is64 = w] = Fields(l, x, e, r, s, w)
    BY <1>5 DEF Fields
  <2>5. [Fields(l, x, e, r, s, w) EXCEPT !.reg = q] = Fields(l, x, e, q, s, w)
    BY DEF Fields
  <2> QED BY <2>3, <2>4, <2>5 DEF q
<1>6. ASSUME x \in BareOps, Skip(b) = 0, ~push, f = NoOperand(1 + BareImm(x), x, 0)
      PROVE  f = form
  <2>1. ~inc
    <3>1. \hFF \notin BareOps
      BY DEF BareOps
    <3> QED BY <1>4, <1>6, <3>1, Zenon
  <2>2. w = 1
    BY <1>6
  <2>3. g = Fields(1 + BareImm(x), x, 0, 0, 0, 1)
    BY <1>3, <1>6
  <2> HIDE DEF f, g, m, d, n, rm, reg, x
  <2>4. f = Fields(1 + BareImm(x), x, 0, 0, 0, 1)
    BY <1>6, NoOperandFields
  <2>5. form = Fields(1 + BareImm(x), x, 0, 0, 0, 1)
    <3> HIDE DEF form, w, push, inc
    <3> QED BY <1>5, <1>6, <2>1, <2>2, <2>3
  <2> QED BY <2>4, <2>5
<1>7. DecodeRegisters(b) = Fields(n + 1, x, d, reg, rm, w)
  <2>1. Skip(b) + 2 = n + 1
    BY <1>1
  <2>2. DecodeRegisters(b) = [Insn(n + 1, x, 0, d, reg, rm) EXCEPT !.is64 = w]
    BY <2>1, Zenon DEF DecodeRegisters
  <2> HIDE DEF f, g, m, d, n, rm, reg, x, w
  <2>3. Insn(n + 1, x, 0, d, reg, rm) = Fields(n + 1, x, d, reg, rm, 1)
    BY InsnFields
  <2>4. [Fields(n + 1, x, d, reg, rm, 1) EXCEPT !.is64 = w] = Fields(n + 1, x, d, reg, rm, w)
    BY DEF Fields
  <2> QED BY <2>2, <2>3, <2>4
<1>8. CASE push
  <2>1. f = [NoOperand(1, x, 0) EXCEPT !.reg = x % 8]
    BY <1>8, FastDecoded
  <2>2. Skip(b) = 0 /\ x \in \h50 .. \h5F
    BY <1>4, <1>8
  <2>3. w = 1
    BY <2>2
  <2>4. x \in BareOps /\ BareImm(x) = 0
    <3> HIDE DEF x
    <3> QED BY <2>2 DEF BareOps, BareImm
  <2>5. g = Fields(1, x, 0, 0, 0, 1)
    BY <1>3, <2>2, <2>4
  <2> DEFINE y == x % 8
  <2> HIDE DEF y, f, g, m, d, n, rm, reg, x, w, push, inc
  <2>6. f = Fields(1, x, 0, y, 0, 1)
    <3>1. NoOperand(1, x, 0) = Fields(1, x, 0, 0, 0, 1)
      BY NoOperandFields
    <3>2. [Fields(1, x, 0, 0, 0, 1) EXCEPT !.reg = y] = Fields(1, x, 0, y, 0, 1)
      BY DEF Fields
    <3> QED BY <2>1, <3>1, <3>2 DEF y
  <2>7. form = Fields(1, x, 0, y, 0, w)
    <3> HIDE DEF form
    <3> QED BY <1>5, <1>8, <2>5 DEF y
  <2> QED BY <2>3, <2>6, <2>7
<1>9. CASE IsSimpleMemoryInsn(b) \/ IsRegToRegAlu(b)
  <2>1. f = DecodeRegisters(b)
    BY <1>9, FastDecoded
  <2>2. x \in \h88 .. \h8B \/ x \in AluOps
    BY <1>9, FastByOpcode
  <2>3. d = 3
    BY <1>9 DEF IsSimpleMemoryInsn, IsRegToRegAlu
  <2>4. AddressSize(m) = 1
    BY <1>1, <2>3, RegisterSize
  <2> HIDE DEF x
  <2>5. x \in FastOps
    BY <2>2 DEF FastOps
  <2>6. ~push /\ ~inc
    <3> HIDE DEF push, inc
    <3>1. x \notin \h50 .. \h5F /\ x # \hFF
      BY <1>1, <2>2, FastApart DEF AluOps
    <3> QED BY <1>4, <3>1
  <2>7. g = Fields(n + 1, x, d, reg, rm, 1)
    BY <1>2, <2>4, <2>5
  <2> HIDE DEF f, g, m, d, n, rm, reg, w, push, inc, form
  <2> QED BY <1>5, <1>7, <2>1, <2>6, <2>7
<1>10. CASE IsSimpleLea(b)
  <2> DEFINE l == n + AddressSize(m)
  <2>1. f = DecodeLeaFast(b)
    BY <1>10, FastDecoded
  <2>2. x = \h8D
    BY <1>10, FastByOpcode
  <2>3. f.length = l
    BY <2>1, <2>2, LeaLengths
  <2>4. \E k : f = [DecodeRegisters(b) EXCEPT !.length = k]
    BY <2>1 DEF DecodeLeaFast
  <2> HIDE DEF x
  <2>5. x \in FastOps
    BY <2>2 DEF FastOps
  <2>6. ~push /\ ~inc
    <3> HIDE DEF push, inc
    <3>1. x \notin \h50 .. \h5F /\ x # \hFF
      BY <2>2
    <3> QED BY <1>4, <3>1
  <2>7. g = Fields(l, x, d, reg, rm, 1)
    BY <1>2, <2>5
  <2> HIDE DEF f, g, m, d, n, rm, reg, w, push, inc, l, form
  <2>8. PICK k : f = [Fields(n + 1, x, d, reg, rm, w) EXCEPT !.length = k]
    BY <1>7, <2>4
  <2>9. f = Fields(k, x, d, reg, rm, w)
    BY <2>8 DEF Fields
  <2>10. k = l
    <3>1. f.length = k
      BY <2>9 DEF Fields
    <3> QED BY <2>3, <3>1
  <2> QED BY <1>5, <2>6, <2>7, <2>9, <2>10
<1>11. CASE inc
  <2>1. f = [DecodeRegisters(b) EXCEPT !.reg = Reg(m)]
    BY <1>11, FastDecoded DEF DecodeIncDecFast
  <2>2. x = \hFF
    BY <1>4, <1>11
  <2>3. AddressSize(m) = 1
    BY <1>1, <1>11, RegisterSize DEF IsSimpleIncDec
  <2>4. Reg(m) = reg % 8
    <3>1. Bit(FastRex(b), 2) \in {0, 1} /\ Reg(m) \in 0 .. 7
      BY <1>1, SkipType, Bits, Fields3
    <3> QED BY <3>1 DEF RegX
  <2> HIDE DEF x
  <2>5. x \in FastOps
    BY <2>2 DEF FastOps
  <2>6. ~push
    <3> HIDE DEF push
    <3>1. x \notin \h50 .. \h5F
      BY <2>2
    <3> QED BY <1>4, <3>1
  <2>7. g = Fields(n + 1, x, d, reg, rm, 1)
    BY <1>2, <2>3, <2>5
  <2> DEFINE r == reg % 8
  <2>8. f = [Fields(n + 1, x, d, reg, rm, w) EXCEPT !.reg = r]
    BY <1>7, <2>1, <2>4
  <2> HIDE DEF f, g, m, d, n, rm, reg, w, push, inc, r, form
  <2>9. f = Fields(n + 1, x, d, r, rm, w)
    BY <2>8 DEF Fields
  <2> QED BY <1>5, <1>11, <2>6, <2>7, <2>9 DEF r
<1>12. CASE IsSimpleRet(b)
  <2>1. f = NoOperand(IF x = \hC2 THEN 3 ELSE 1, x, 0)
    BY <1>12, FastDecoded
  <2>2. Skip(b) = 0 /\ x \in {\hC2, \hC3}
    BY <1>12, FastByOpcode
  <2> HIDE DEF f, x, push, form
  <2>3. ~push
    BY <1>4, <2>2
  <2>4. x \in BareOps /\ 1 + BareImm(x) = IF x = \hC2 THEN 3 ELSE 1
    BY <2>2 DEF BareOps, BareImm
  <2> QED BY <1>6, <2>1, <2>2, <2>3, <2>4
<1>13. CASE IsSimpleJcc(b)
  <2>1. f = NoOperand(2, x, 0)
    BY <1>13, FastDecoded
  <2>2. Skip(b) = 0 /\ x \in \h70 .. \h7F
    BY <1>13, FastByOpcode
  <2> HIDE DEF f, x, push, form
  <2>3. ~push
    BY <1>4, <2>2
  <2>4. x \in BareOps /\ 1 + BareImm(x) = 2
    BY <2>2 DEF BareOps, BareImm
  <2> QED BY <1>6, <2>1, <2>2, <2>3, <2>4
<1>14. CASE IsSimpleJmpCall(b)
  <2>1. f = NoOperand(IF x = \hEB THEN 2 ELSE 5, x, 0)
    BY <1>14, FastDecoded
  <2>2. Skip(b) = 0 /\ x \in {\hE8, \hE9, \hEB}
    BY <1>14, FastByOpcode
  <2> HIDE DEF f, x, push, form
  <2>3. ~push
    BY <1>4, <2>2
  <2>4. x \in BareOps /\ 1 + BareImm(x) = IF x = \hEB THEN 2 ELSE 5
    BY <2>2 DEF BareOps, BareImm
  <2> QED BY <1>6, <2>1, <2>2, <2>3, <2>4
<1> QED BY <1>8, <1>9, <1>10, <1>11, <1>12, <1>13, <1>14 DEF IsFast

-----------------------------------------------------------------------------
(* Two sequences whose first n bytes are the same. *)
Agree(b, c, n) == \A i \in Nat : i < n => At(b, i) = At(c, i)

(* Sequences that agree on the prefixes and the byte behind have the same.  *)
LEMMA SamePrefixes ==
  ASSUME NEW b \in Seq(Octets), NEW c \in Seq(Octets), NEW n \in Nat,
         Agree(b, c, n), Prefixes(b) < n
  PROVE  Prefixes(c) = Prefixes(b) /\ Rex(c) = Rex(b)
<1> DEFINE k == Prefixes(b)
<1>1. k \in 0 .. Len(b) /\ IsFirst(b, k)
  BY PrefixesEnd
<1>2. k \in Nat /\ k < n
  BY <1>1
<1> HIDE DEF k
<1>3. \A i \in Nat : i <= k => At(b, i) = At(c, i)
  BY <1>2 DEF Agree
<1>4. IsFirst(c, k)
  BY <1>1, <1>2, <1>3 DEF IsFirst
<1>5. k \in 0 .. Len(c)
  <2> SUFFICES ASSUME Len(c) < k PROVE FALSE
    BY <1>2
  <2>1. At(c, Len(c)) = 0
    BY DEF At
  <2>2. Len(c) \in Nat /\ IsPrefix(At(c, Len(c)))
    BY <1>2, <1>4 DEF IsFirst
  <2> QED BY <2>1, <2>2 DEF IsPrefix, IsRex
<1>6. Prefixes(c) = k
  BY <1>4, <1>5, PrefixesAre
<1>7. \A i \in 0 .. k - 1 : At(b, i) = At(c, i)
  BY <1>2, <1>3
<1>8. Rex(c) = Rex(b)
  <2> DEFINE S == {i \in 0 .. k - 1 : IsRex(At(b, i))}
             T == {i \in 0 .. k - 1 : IsRex(At(c, i))}
             r == CHOOSE i \in S : \A j \in S : i <= j
  <2>1. S = T
    BY <1>7
  <2>2. /\ Rex(b) = IF S = {} THEN 0 ELSE At(b, CHOOSE i \in S : \A j \in S : i <= j)
        /\ Rex(c) = IF T = {} THEN 0 ELSE At(c, CHOOSE i \in T : \A j \in T : i <= j)
    BY <1>6 DEF Rex, k
  <2>3. S # {} => r \in 0 .. k - 1
    <3> SUFFICES ASSUME S # {} PROVE r \in S
      OBVIOUS
    <3>1. S \subseteq Nat
      BY <1>2
    <3> HIDE DEF S
    <3>2. PICK i \in S : \A j \in S : <<j, i>> \notin OpToRel(<, Nat)
      BY <3>1, NatLessThanWellFounded, WFMin
    <3>3. \A j \in S : i <= j
      <4> TAKE j \in S
      <4>1. <<j, i>> \notin OpToRel(<, Nat) /\ j \in Nat /\ i \in Nat
        BY <3>1, <3>2
      <4> QED BY <4>1 DEF OpToRel
    <3> QED BY <3>3
  <2>4. S # {} => At(b, r) = At(c, r)
    BY <1>7, <2>3
  <2> HIDE DEF S, T
  <2> QED BY <2>1, <2>2, <2>4
<1> QED BY <1>6, <1>8 DEF k

(* How far the opcode reaches. *)
LEMMA OpcodeType ==
  ASSUME NEW b \in Seq(Octets)
  PROVE  /\ Opcode(b).op \in Octets /\ Opcode(b).op2 \in Octets /\ Opcode(b).op3 \in Octets
         /\ Opcode(b).next \in Prefixes(b) + 1 .. Prefixes(b) + 4
         /\ Opcode(b).next \in Nat /\ Prefixes(b) \in Nat
<1> DEFINE k == Prefixes(b)
<1>1. k \in Nat /\ k + 1 \in Nat /\ k + 2 \in Nat /\ k + 3 \in Nat
  BY PrefixesEnd
<1>2. At(b, k) \in Octets /\ At(b, k + 1) \in Octets /\ At(b, k + 2) \in Octets /\ At(b, k + 3) \in Octets
  BY <1>1, OctetAt
<1>3. 0 \in Octets
  BY DEF Octets
<1>4. \E x, y, z \in Octets, n \in k + 1 .. k + 4 : Opcode(b) = Codes(x, y, z, n)
  <2> HIDE DEF k
  <2>1. /\ k + 1 \in k + 1 .. k + 4 /\ k + 2 \in k + 1 .. k + 4
        /\ k + 3 \in k + 1 .. k + 4 /\ k + 4 \in k + 1 .. k + 4
    BY <1>1
  <2>2. \/ Opcode(b) = Codes(0, At(b, k + 2), 0, k + 3)
        \/ Opcode(b) = Codes(0, At(b, k + 3), 0, k + 4)
        \/ Opcode(b) = Codes(At(b, k + 3), 0, 0, k + 4)
        \/ Opcode(b) = Codes(0, At(b, k + 1), At(b, k + 2), k + 3)
        \/ Opcode(b) = Codes(0, At(b, k + 1), 0, k + 2)
        \/ Opcode(b) = Codes(At(b, k), 0, 0, k + 1)
    BY DEF Opcode, k
  <2> QED BY <1>2, <1>3, <2>1, <2>2
<1> HIDE DEF k
<1>5. PICK x, y, z \in Octets, n \in k + 1 .. k + 4 : Opcode(b) = Codes(x, y, z, n)
  BY <1>4
<1>6. Opcode(b).op = x /\ Opcode(b).op2 = y /\ Opcode(b).op3 = z /\ Opcode(b).next = n
  BY <1>5 DEF Codes
<1> QED BY <1>1, <1>5, <1>6 DEF k

(* Sequences that agree on the opcode have the same.                        *)
LEMMA SameOpcode ==
  ASSUME NEW b \in Seq(Octets), NEW c \in Seq(Octets), NEW n \in Nat,
         Agree(b, c, n), Opcode(b).next <= n
  PROVE  Opcode(c) = Opcode(b) /\ Rex(c) = Rex(b) /\ Prefixes(c) = Prefixes(b)
<1> DEFINE k == Prefixes(b)
           p == At(b, k)
<1>1. k \in Nat /\ Opcode(b).next \in k + 1 .. k + 4
  BY OpcodeType
<1>2. k < n
  BY <1>1
<1>3. Prefixes(c) = k /\ Rex(c) = Rex(b)
  BY <1>2, SamePrefixes
<1>4. At(c, k) = p
  BY <1>1, <1>2 DEF Agree
<1> HIDE DEF k, p
<1>5. \A j \in 1 .. 3 : k + j < Opcode(b).next => At(c, k + j) = At(b, k + j)
  BY <1>1 DEF Agree
<1>6. CASE p = \hC5
  <2>1. Opcode(b) = Codes(0, At(b, k + 2), 0, k + 3) /\ Opcode(c) = Codes(0, At(c, k + 2), 0, k + 3)
    BY <1>3, <1>4, <1>6 DEF Opcode, k, p
  <2>2. Opcode(b).next = k + 3
    BY <2>1 DEF Codes
  <2>3. At(c, k + 2) = At(b, k + 2)
    BY <1>1, <1>5, <2>2
  <2> QED BY <1>3, <2>1, <2>3 DEF k
<1>7. CASE p = \hC4
  <2>1. /\ Opcode(b) = IF At(b, k + 1) % 32 \in 1 .. 3
                       THEN Codes(0, At(b, k + 3), 0, k + 4) ELSE Codes(At(b, k + 3), 0, 0, k + 4)
        /\ Opcode(c) = IF At(c, k + 1) % 32 \in 1 .. 3
                       THEN Codes(0, At(c, k + 3), 0, k + 4) ELSE Codes(At(c, k + 3), 0, 0, k + 4)
    BY <1>3, <1>4, <1>7 DEF Opcode, k, p
  <2>2. Opcode(b).next = k + 4
    BY <2>1 DEF Codes
  <2>3. At(c, k + 1) = At(b, k + 1) /\ At(c, k + 3) = At(b, k + 3)
    BY <1>1, <1>5, <2>2
  <2> QED BY <1>3, <2>1, <2>3 DEF k
<1>8. CASE p = \h0F
  <2>1. /\ Opcode(b) = IF At(b, k + 1) \in {\h38, \h3A}
                       THEN Codes(0, At(b, k + 1), At(b, k + 2), k + 3)
                       ELSE Codes(0, At(b, k + 1), 0, k + 2)
        /\ Opcode(c) = IF At(c, k + 1) \in {\h38, \h3A}
                       THEN Codes(0, At(c, k + 1), At(c, k + 2), k + 3)
                       ELSE Codes(0, At(c, k + 1), 0, k + 2)
    BY <1>3, <1>4, <1>8 DEF Opcode, k, p
  <2>2. Opcode(b).next = IF At(b, k + 1) \in {\h38, \h3A} THEN k + 3 ELSE k + 2
    BY <2>1 DEF Codes
  <2>3. At(c, k + 1) = At(b, k + 1)
    BY <1>1, <1>5, <2>2
  <2>4. At(b, k + 1) \in {\h38, \h3A} => At(c, k + 2) = At(b, k + 2)
    BY <1>1, <1>5, <2>2
  <2> QED BY <1>3, <2>1, <2>3, <2>4 DEF k
<1>9. CASE p \notin {\hC5, \hC4, \h0F}
  <2>1. Opcode(b) = Codes(p, 0, 0, k + 1) /\ Opcode(c) = Codes(p, 0, 0, k + 1)
    BY <1>3, <1>4, <1>9 DEF Opcode, k, p
  <2> QED BY <1>3, <2>1 DEF k
<1> QED BY <1>6, <1>7, <1>8, <1>9

(* The sizes of an immediate, and of a ModR/M byte with what belongs to it. *)
LEMMA ImmSizes ==
  ASSUME NEW c, NEW rex, c.op \in Octets
  PROVE  /\ ImmSize(c, rex) \in {0, 1, 2, 4, 8}
         /\ c.op \notin \hB8 .. \hBF => ImmSize(c, rex) \in {0, 1, 2, 4}
<1> DEFINE x == c.op
<1>1. x \in Int /\ 0 <= x
  BY DEF Octets
<1> HIDE DEF x
<1>2. /\ x \in \hB8 .. \hBF => ~IsEaxImm(x) /\ x \notin Imm32Ops /\ x \notin Imm8Ops
                               /\ x \notin {\hC2, \hCA} /\ x \notin \hB0 .. \hB7
      /\ IsEaxImm(x) => x \notin Imm32Ops /\ x \notin Imm8Ops
                        /\ x \notin {\hC2, \hCA} /\ x \notin \hB0 .. \hB7
      /\ x \in Imm32Ops => x \notin Imm8Ops /\ x \notin {\hC2, \hCA} /\ x \notin \hB0 .. \hB7
      /\ x \in Imm8Ops => x \notin {\hC2, \hCA} /\ x \notin \hB0 .. \hB7
      /\ x \in {\hC2, \hCA} => x \notin \hB0 .. \hB7
  BY <1>1 DEF IsEaxImm, Imm32Ops, Imm8Ops
<1>3. /\ ImmSize(c, rex) \in {0, 1, 2, 4, 8}
      /\ x \notin \hB8 .. \hBF => ImmSize(c, rex) \in {0, 1, 2, 4}
  BY <1>2 DEF ImmSize, x
<1> QED BY <1>3 DEF x

(* ModR/M byte, SIB byte and displacement take 1 to 6 bytes.                *)
LEMMA AddressSizes ==
  ASSUME NEW m \in Octets
  PROVE  AddressSize(m) \in 1 .. 6
<1>1. Mod(m) \in 0 .. 3
  BY Fields3
<1> QED BY <1>1 DEF AddressSize

(* The general path: its result, and how long it is. *)
LEMMA GeneralIs ==
  ASSUME NEW b \in Seq(Octets)
  PROVE  LET c == Opcode(b)
             m == At(b, c.next)
             imm == ImmSize(c, Rex(b))
         IN  /\ HasModRM(c) =>
                  DecodeGeneral(b) =
                    Insn(c.next + AddressSize(m) + imm, c.op, c.op2, Mod(m), RegX(Rex(b), m),
                         IF IsEaxImm(c.op) THEN 0 ELSE RmX(Rex(b), m))
             /\ ~HasModRM(c) => DecodeGeneral(b) = NoOperand(c.next + imm, c.op, c.op2)
             /\ DecodeGeneral(b).length =
                  c.next + (IF HasModRM(c) THEN AddressSize(m) ELSE 0) + imm
             /\ c.next \in Nat /\ c.op \in Octets /\ m \in Octets
             /\ AddressSize(m) \in 1 .. 6 /\ imm \in {0, 1, 2, 4, 8}
<1> DEFINE c == Opcode(b)
           m == At(b, c.next)
           imm == ImmSize(c, Rex(b))
<1>1. c.next \in Nat /\ c.op \in Octets
  BY OpcodeType
<1>2. m \in Octets
  BY <1>1, OctetAt
<1>3. AddressSize(m) \in 1 .. 6 /\ imm \in {0, 1, 2, 4, 8}
  BY <1>1, <1>2, AddressSizes, ImmSizes
<1>4. HasModRM(c) =>
        DecodeGeneral(b) =
          Insn(c.next + AddressSize(m) + imm, c.op, c.op2, Mod(m), RegX(Rex(b), m),
               IF IsEaxImm(c.op) THEN 0 ELSE RmX(Rex(b), m))
  BY Zenon DEF DecodeGeneral
<1>5. ~HasModRM(c) => DecodeGeneral(b) = NoOperand(c.next + imm, c.op, c.op2)
  BY Zenon DEF DecodeGeneral
<1> HIDE DEF c, m, imm
<1>6. DecodeGeneral(b).length = c.next + (IF HasModRM(c) THEN AddressSize(m) ELSE 0) + imm
  <2>1. CASE HasModRM(c)
    BY <2>1, <1>4 DEF Insn
  <2>2. CASE ~HasModRM(c)
    BY <2>2, <1>1, <1>3, <1>5 DEF NoOperand, Insn
  <2> QED BY <2>1, <2>2
<1> QED BY <1>1, <1>2, <1>3, <1>4, <1>5, <1>6 DEF c, m, imm

(* Opcode and ModR/M byte lie within the length of the instruction.         *)
LEMMA GeneralReaches ==
  ASSUME NEW b \in Seq(Octets)
  PROVE  /\ DecodeGeneral(b).length \in Nat /\ Opcode(b).next <= DecodeGeneral(b).length
         /\ HasModRM(Opcode(b)) => Opcode(b).next < DecodeGeneral(b).length
<1> DEFINE n == DecodeGeneral(b).length
           x == Opcode(b).next
           s == AddressSize(At(b, x))
           imm == ImmSize(Opcode(b), Rex(b))
           has == HasModRM(Opcode(b))
<1>1. n = x + (IF has THEN s ELSE 0) + imm /\ x \in Nat /\ s \in 1 .. 6 /\ imm \in {0, 1, 2, 4, 8}
  BY GeneralIs
<1> SUFFICES n \in Nat /\ x <= n /\ (has => x < n)
  OBVIOUS
<1> HIDE DEF n, x, s, imm, has
<1>2. CASE has
  BY <1>1, <1>2
<1>3. CASE ~has
  BY <1>1, <1>3
<1> QED BY <1>2, <1>3

(* The general path depends on the bytes of the instruction only.           *)
LEMMA GeneralIsLocal ==
  ASSUME NEW b \in Seq(Octets), NEW c \in Seq(Octets), Agree(b, c, DecodeGeneral(b).length)
  PROVE  DecodeGeneral(c) = DecodeGeneral(b)
<1> DEFINE n == DecodeGeneral(b).length
           o == Opcode(b)
           m == At(b, o.next)
           imm == ImmSize(o, Rex(b))
<1>1. /\ n = o.next + (IF HasModRM(o) THEN AddressSize(m) ELSE 0) + imm
      /\ o.next \in Nat /\ AddressSize(m) \in 1 .. 6 /\ imm \in {0, 1, 2, 4, 8}
  BY GeneralIs
<1>2. HasModRM(o) => DecodeGeneral(b) =
        Insn(o.next + AddressSize(m) + imm, o.op, o.op2, Mod(m), RegX(Rex(b), m),
             IF IsEaxImm(o.op) THEN 0 ELSE RmX(Rex(b), m))
  BY GeneralIs
<1>3. ~HasModRM(o) => DecodeGeneral(b) = NoOperand(o.next + imm, o.op, o.op2)
  BY GeneralIs
<1>4. Agree(b, c, n)
  OBVIOUS
<1> HIDE DEF n, m, imm
<1>5. n \in Nat /\ o.next <= n /\ (HasModRM(o) => o.next < n)
  BY <1>1, GeneralReaches DEF n, o
<1>6. Opcode(c) = o /\ Rex(c) = Rex(b)
  BY <1>4, <1>5, SameOpcode
<1>7. HasModRM(o) => At(c, o.next) = m
  BY <1>1, <1>4, <1>5 DEF Agree, m
<1>8. /\ HasModRM(Opcode(c)) => DecodeGeneral(c) =
           Insn(Opcode(c).next + AddressSize(At(c, Opcode(c).next)) + ImmSize(Opcode(c), Rex(c)),
                Opcode(c).op, Opcode(c).op2, Mod(At(c, Opcode(c).next)),
                RegX(Rex(c), At(c, Opcode(c).next)),
                IF IsEaxImm(Opcode(c).op) THEN 0 ELSE RmX(Rex(c), At(c, Opcode(c).next)))
      /\ ~HasModRM(Opcode(c)) => DecodeGeneral(c) =
           NoOperand(Opcode(c).next + ImmSize(Opcode(c), Rex(c)), Opcode(c).op, Opcode(c).op2)
  BY GeneralIs
<1> HIDE DEF o
<1>9. CASE HasModRM(o)
  BY <1>2, <1>6, <1>7, <1>8, <1>9 DEF imm
<1>10. CASE ~HasModRM(o)
  BY <1>3, <1>6, <1>8, <1>10 DEF imm
<1> QED BY <1>9, <1>10

(* What the fast paths look at. *)
LEMMA SameStart ==
  ASSUME NEW b \in Seq(Octets), NEW c \in Seq(Octets), NEW n \in Nat, Agree(b, c, n), 0 < n
  PROVE  /\ At(c, 0) = At(b, 0) /\ Skip(c) = Skip(b) /\ FastRex(c) = FastRex(b)
         /\ Skip(b) < n => Op(c) = Op(b)
         /\ Skip(b) + 1 < n => ModRM(c) = ModRM(b)
<1>1. At(c, 0) = At(b, 0)
  BY DEF Agree
<1>2. Skip(c) = Skip(b) /\ FastRex(c) = FastRex(b)
  BY <1>1 DEF Skip, FastRex
<1>3. Skip(b) \in Nat /\ Skip(b) + 1 \in Nat
  BY SkipType
<1>4. Skip(b) < n => Op(c) = Op(b)
  BY <1>2, <1>3 DEF Agree, Op
<1>5. Skip(b) + 1 < n => ModRM(c) = ModRM(b)
  BY <1>2, <1>3 DEF Agree, ModRM
<1> QED BY <1>1, <1>2, <1>4, <1>5

(* The length of what the fast paths take. *)
LEMMA FastLength ==
  ASSUME NEW b \in Seq(Octets)
  PROVE  /\ IsSimplePushPop(b) => DecodeFast(b).length = 1
         /\ IsSimpleMemoryInsn(b) \/ IsRegToRegAlu(b) \/ IsSimpleIncDec(b) =>
              DecodeFast(b).length = Skip(b) + 2
         /\ IsSimpleLea(b) => DecodeFast(b).length \in Skip(b) + 2 .. Skip(b) + 7
         /\ IsSimpleRet(b) => DecodeFast(b).length \in {1, 3}
         /\ IsSimpleJcc(b) => DecodeFast(b).length = IF Op(b) = \h0F THEN 6 ELSE 2
         /\ IsSimpleJmpCall(b) => DecodeFast(b).length \in {2, 5}
<1> DEFINE f == DecodeFast(b)
<1>0. Skip(b) \in {0, 1}
  BY SkipType
<1>1. ASSUME IsSimplePushPop(b) PROVE f.length = 1
  <2>1. f = [NoOperand(1, Op(b), 0) EXCEPT !.reg = Op(b) % 8]
    BY <1>1, FastDecoded
  <2> QED BY <2>1 DEF NoOperand, Insn
<1>2. ASSUME IsSimpleMemoryInsn(b) \/ IsRegToRegAlu(b) PROVE f.length = Skip(b) + 2
  <2>1. f = DecodeRegisters(b)
    BY <1>2, FastDecoded
  <2> QED BY <2>1 DEF DecodeRegisters, Insn
<1>3. ASSUME IsSimpleIncDec(b) PROVE f.length = Skip(b) + 2
  <2>1. f = DecodeIncDecFast(b)
    BY <1>3, FastDecoded
  <2> QED BY <2>1 DEF DecodeIncDecFast, DecodeRegisters, Insn
<1>4. ASSUME IsSimpleLea(b) PROVE f.length \in Skip(b) + 2 .. Skip(b) + 7
  <2>1. f = DecodeLeaFast(b)
    BY <1>4, FastDecoded
  <2>2. \E i \in {0, 1}, j \in {0, 1, 4} : f = [DecodeRegisters(b) EXCEPT !.length = @ + i + j]
    BY <2>1 DEF DecodeLeaFast
  <2>3. PICK i \in {0, 1}, j \in {0, 1, 4} : f = [DecodeRegisters(b) EXCEPT !.length = @ + i + j]
    BY <2>2
  <2> HIDE DEF f
  <2>4. f.length = Skip(b) + 2 + i + j
    BY <2>3 DEF DecodeRegisters, Insn
  <2> QED BY <1>0, <2>4
<1>5. ASSUME IsSimpleRet(b) PROVE f.length \in {1, 3}
  <2>1. f = NoOperand(IF Op(b) = \hC2 THEN 3 ELSE 1, Op(b), 0)
    BY <1>5, FastDecoded
  <2> QED BY <2>1 DEF NoOperand, Insn
<1>6. ASSUME IsSimpleJcc(b) PROVE f.length = IF Op(b) = \h0F THEN 6 ELSE 2
  <2>1. f = IF Op(b) = \h0F THEN NoOperand(6, Op(b), At(b, 1)) ELSE NoOperand(2, Op(b), 0)
    BY <1>6, FastDecoded
  <2> QED BY <2>1 DEF NoOperand, Insn
<1>7. ASSUME IsSimpleJmpCall(b) PROVE f.length \in {2, 5}
  <2>1. f = NoOperand(IF Op(b) = \hEB THEN 2 ELSE 5, Op(b), 0)
    BY <1>7, FastDecoded
  <2> QED BY <2>1 DEF NoOperand, Insn
<1> QED BY <1>1, <1>2, <1>3, <1>4, <1>5, <1>6, <1>7

(* A fast path looks at no more than it takes. *)
LEMMA FastIsLocal ==
  ASSUME NEW b \in Seq(Octets), NEW c \in Seq(Octets), IsFast(b), Agree(b, c, DecodeFast(b).length)
  PROVE  IsFast(c) /\ DecodeFast(c) = DecodeFast(b)
<1> DEFINE n == DecodeFast(b).length
<1>0. Agree(b, c, n) /\ Skip(b) \in {0, 1}
  BY SkipType
<1>1. n \in Nat /\ 0 < n
  <2> HIDE DEF n
  <2>1. n \in {1, 2, 3, 5, 6} \/ n \in Skip(b) + 2 .. Skip(b) + 7
    <3>1. n \in {1, 2, 3, 5, 6} \/ n = Skip(b) + 2 \/ n \in Skip(b) + 2 .. Skip(b) + 7
      BY FastLength DEF IsFast, n
    <3> QED BY <1>0, <3>1
  <2> QED BY <1>0, <2>1
<1>2. /\ At(c, 0) = At(b, 0) /\ Skip(c) = Skip(b) /\ FastRex(c) = FastRex(b)
      /\ Skip(b) < n => Op(c) = Op(b)
      /\ Skip(b) + 1 < n => ModRM(c) = ModRM(b)
  <2> HIDE DEF n
  <2> QED BY <1>0, <1>1, SameStart
<1> HIDE DEF n
<1>3. CASE IsSimplePushPop(b)
  <2>1. Skip(b) = 0 /\ n = 1
    BY <1>3, FastByOpcode, FastLength DEF n
  <2>2. IsSimplePushPop(c) /\ Op(c) = Op(b)
    BY <1>2, <1>3, <2>1 DEF IsSimplePushPop
  <2>3. DecodeFast(c) = DecodeFast(b)
    BY <1>3, <2>2, FastDecoded
  <2> QED BY <2>2, <2>3 DEF IsFast
<1>4. CASE IsSimpleMemoryInsn(b) \/ IsRegToRegAlu(b)
  <2>1. n = Skip(b) + 2
    BY <1>4, FastLength DEF n
  <2>2. Op(c) = Op(b) /\ ModRM(c) = ModRM(b)
    BY <1>0, <1>2, <2>1
  <2>3. IsSimpleMemoryInsn(c) \/ IsRegToRegAlu(c)
    BY <1>2, <1>4, <2>2 DEF IsSimpleMemoryInsn, IsRegToRegAlu
  <2>4. DecodeRegisters(c) = DecodeRegisters(b)
    BY <1>2, <2>2 DEF DecodeRegisters
  <2>5. DecodeFast(c) = DecodeFast(b)
    BY <1>4, <2>3, <2>4, FastDecoded
  <2> QED BY <2>3, <2>5 DEF IsFast
<1>5. CASE IsSimpleLea(b)
  <2>1. n \in Skip(b) + 2 .. Skip(b) + 7
    BY <1>5, FastLength DEF n
  <2>2. Op(c) = Op(b) /\ ModRM(c) = ModRM(b)
    BY <1>0, <1>2, <2>1
  <2>3. IsSimpleLea(c)
    BY <1>5, <2>2 DEF IsSimpleLea
  <2>4. DecodeRegisters(c) = DecodeRegisters(b)
    BY <1>2, <2>2 DEF DecodeRegisters
  <2>5. DecodeLeaFast(c) = DecodeLeaFast(b)
    BY <1>2, <2>2, <2>4 DEF DecodeLeaFast
  <2>6. DecodeFast(c) = DecodeFast(b)
    BY <1>5, <2>3, <2>5, FastDecoded
  <2> QED BY <2>3, <2>6 DEF IsFast
<1>6. CASE IsSimpleIncDec(b)
  <2>1. n = Skip(b) + 2
    BY <1>6, FastLength DEF n
  <2>2. Op(c) = Op(b) /\ ModRM(c) = ModRM(b)
    BY <1>0, <1>2, <2>1
  <2>3. IsSimpleIncDec(c)
    BY <1>2, <1>6, <2>2 DEF IsSimpleIncDec
  <2>4. DecodeRegisters(c) = DecodeRegisters(b)
    BY <1>2, <2>2 DEF DecodeRegisters
  <2>5. DecodeIncDecFast(c) = DecodeIncDecFast(b)
    BY <2>2, <2>4 DEF DecodeIncDecFast
  <2>6. DecodeFast(c) = DecodeFast(b)
    BY <1>6, <2>3, <2>5, FastDecoded
  <2> QED BY <2>3, <2>6 DEF IsFast
<1>7. CASE IsSimpleRet(b)
  <2>1. Skip(b) = 0
    BY <1>7, FastByOpcode
  <2>2. IsSimpleRet(c) /\ Op(c) = Op(b)
    BY <1>1, <1>2, <1>7, <2>1 DEF IsSimpleRet
  <2>3. DecodeFast(c) = DecodeFast(b)
    BY <1>7, <2>2, FastDecoded
  <2> QED BY <2>2, <2>3 DEF IsFast
<1>8. CASE IsSimpleJcc(b)
  <2>1. Skip(b) = 0 /\ n = IF Op(b) = \h0F THEN 6 ELSE 2
    BY <1>8, FastByOpcode, FastLength DEF n
  <2>2. 1 < n
    BY <2>1
  <2>3. At(c, 1) = At(b, 1)
    BY <1>0, <1>1, <2>2 DEF Agree
  <2>4. IsSimpleJcc(c) /\ Op(c) = Op(b)
    BY <1>1, <1>2, <1>8, <2>1, <2>3 DEF IsSimpleJcc
  <2>5. DecodeFast(c) = DecodeFast(b)
    BY <1>8, <2>3, <2>4, FastDecoded
  <2> QED BY <2>4, <2>5 DEF IsFast
<1>9. CASE IsSimpleJmpCall(b)
  <2>1. Skip(b) = 0
    BY <1>9, FastByOpcode
  <2>2. IsSimpleJmpCall(c) /\ Op(c) = Op(b)
    BY <1>1, <1>2, <1>9, <2>1 DEF IsSimpleJmpCall
  <2>3. DecodeFast(c) = DecodeFast(b)
    BY <1>9, <2>2, FastDecoded
  <2> QED BY <2>2, <2>3 DEF IsFast
<1> QED BY <1>3, <1>4, <1>5, <1>6, <1>7, <1>8, <1>9 DEF IsFast

(* What the general path takes is long enough to have kept every fast path  *)
(* away.                                                                    *)
LEMMA GeneralIsNotFast ==
  ASSUME NEW b \in Seq(Octets), NEW c \in Seq(Octets), ~IsFast(b),
         Agree(b, c, DecodeGeneral(b).length)
  PROVE  ~IsFast(c)
<1> DEFINE n == DecodeGeneral(b).length
           o == Opcode(b)
           k == Prefixes(b)
<1>1. /\ n \in Nat /\ k \in Nat /\ k < n /\ o.next <= n /\ o.next \in Nat
      /\ HasModRM(o) => o.next < n
  <2>1. n \in Nat /\ o.next <= n /\ (HasModRM(o) => o.next < n)
    BY GeneralReaches
  <2>2. k \in Nat /\ o.next \in k + 1 .. k + 4
    BY OpcodeType
  <2> HIDE DEF n, o, k
  <2> QED BY <2>1, <2>2
<1>2. Agree(b, c, n)
  OBVIOUS
<1>3. k \in 0 .. Len(b) /\ IsFirst(b, k)
  BY PrefixesEnd
<1>4. Skip(b) \in {0, 1} /\ (Skip(b) = 1 <=> IsRex(At(b, 0))) /\ (Skip(b) = 0 => Op(b) = At(b, 0))
  BY SkipType
<1>5. Skip(b) <= k
  BY <1>1, <1>3, <1>4 DEF IsFirst, IsPrefix
<1>6. At(c, 0) = At(b, 0) /\ Skip(c) = Skip(b) /\ Op(c) = Op(b)
      /\ (Skip(b) + 1 < n => ModRM(c) = ModRM(b))
  <2> HIDE DEF n
  <2> QED BY <1>1, <1>2, <1>4, <1>5, SameStart
<1>7. ASSUME Op(b) \in FastOps PROVE ModRM(c) = ModRM(b)
  <2>1. ~IsPrefix(Op(b)) /\ Op(b) \notin Special /\ Op(b) \in ModRMLookup
    BY <1>7, FastOpsAre
  <2>2. o = Codes(Op(b), 0, 0, Skip(b) + 1)
    BY <2>1, PlainOpcode
  <2>3. HasModRM(o) /\ o.next = Skip(b) + 1
    BY <2>1, <2>2 DEF HasModRM, Codes
  <2> QED BY <1>1, <1>6, <2>3
<1> SUFFICES ASSUME IsFast(c) PROVE FALSE
  OBVIOUS
<1> HIDE DEF n, o, k
<1>8. ~IsSimplePushPop(c) /\ ~IsSimpleRet(c) /\ ~IsSimpleJmpCall(c) /\ ~IsSimpleLea(c)
  BY <1>6 DEF IsFast, IsSimplePushPop, IsSimpleRet, IsSimpleJmpCall, IsSimpleLea
<1>9. ~IsSimpleMemoryInsn(c) /\ ~IsRegToRegAlu(c)
  <2>1. IsSimpleMemoryInsn(c) => Op(b) \in FastOps
    BY <1>6, FastByOpcode DEF FastOps
  <2>2. IsRegToRegAlu(c) => Op(b) \in FastOps
    BY <1>6, FastByOpcode DEF FastOps
  <2>3. IsSimpleMemoryInsn(c) => IsSimpleMemoryInsn(b)
    BY <1>6, <1>7, <2>1 DEF IsSimpleMemoryInsn
  <2>4. IsRegToRegAlu(c) => IsRegToRegAlu(b)
    BY <1>6, <1>7, <2>2 DEF IsRegToRegAlu
  <2> QED BY <2>3, <2>4 DEF IsFast
<1>10. ~IsSimpleIncDec(c)
  <2>1. IsSimpleIncDec(c) => Op(b) \in FastOps
    BY <1>6, FastByOpcode DEF FastOps
  <2>2. IsSimpleIncDec(c) => IsSimpleIncDec(b)
    BY <1>6, <1>7, <2>1 DEF IsSimpleIncDec
  <2> QED BY <2>2 DEF IsFast
<1>11. ~IsSimpleJcc(c)
  <2> SUFFICES ASSUME IsSimpleJcc(c) PROVE FALSE
    OBVIOUS
  <2>1. At(b, 0) \notin \h70 .. \h7F
    BY DEF IsFast, IsSimpleJcc
  <2>2. At(b, 0) = \h0F /\ At(c, 1) \in \h80 .. \h8F
    BY <1>6, <2>1 DEF IsSimpleJcc
  <2>3. k = 0
    <3>1. ~IsPrefix(\h0F)
      BY DEF IsPrefix, IsRex
    <3> QED BY <1>1, <1>3, <2>2, <3>1 DEF IsFirst
  <2>4. o.next >= 2
    BY <2>2, <2>3 DEF o, k, Opcode, Codes
  <2>5. At(c, 1) = At(b, 1)
    BY <1>1, <1>2, <2>4 DEF Agree
  <2>6. IsSimpleJcc(b)
    BY <2>2, <2>5 DEF IsSimpleJcc
  <2> QED BY <2>6 DEF IsFast
<1> QED BY <1>8, <1>9, <1>10, <1>11 DEF IsFast

(* Every instruction has a length.                                          *)
LEMMA DecodedLength ==
  ASSUME NEW b \in Seq(Octets)
  PROVE  Decode(b).length \in Nat
<1>1. CASE IsFast(b)
  <2> DEFINE n == DecodeFast(b).length
             s == Skip(b)
  <2>1. n \in {1, 2, 3, 5, 6} \/ n = s + 2 \/ n \in s + 2 .. s + 7
    BY <1>1, FastLength DEF IsFast
  <2>2. s \in {0, 1}
    BY SkipType
  <2>3. Decode(b).length = n
    BY <1>1 DEF Decode
  <2> HIDE DEF n, s
  <2>4. n \in Nat
    BY <2>1, <2>2
  <2> QED BY <2>3, <2>4
<1>2. CASE ~IsFast(b)
  BY <1>2, GeneralReaches DEF Decode
<1> QED BY <1>1, <1>2

(* What is decoded depends on the bytes of the instruction and on none      *)
(* behind it.                                                               *)
THEOREM DecodingIsLocal ==
  ASSUME NEW b \in Seq(Octets), NEW c \in Seq(Octets), Agree(b, c, Decode(b).length)
  PROVE  Decode(c) = Decode(b)
<1>1. CASE IsFast(b)
  <2>1. Decode(b) = DecodeFast(b)
    BY <1>1 DEF Decode
  <2>2. IsFast(c) /\ DecodeFast(c) = DecodeFast(b)
    BY <1>1, <2>1, FastIsLocal
  <2> QED BY <2>1, <2>2 DEF Decode
<1>2. CASE ~IsFast(b)
  <2>1. Decode(b) = DecodeGeneral(b)
    BY <1>2 DEF Decode
  <2>2. ~IsFast(c) /\ DecodeGeneral(c) = DecodeGeneral(b)
    BY <1>2, <2>1, GeneralIsLocal, GeneralIsNotFast
  <2> QED BY <2>1, <2>2 DEF Decode
<1> QED BY <1>1, <1>2

-----------------------------------------------------------------------------
(* The bytes of an instruction.                                             *)

(* The bytes of two sequences, one behind the other.                        *)
LEMMA ConcatIs ==
  ASSUME NEW s \in Seq(Octets), NEW t \in Seq(Octets)
  PROVE  /\ s \o t \in Seq(Octets) /\ Len(s \o t) = Len(s) + Len(t)
         /\ \A i \in Nat : At(s \o t, i) = IF i < Len(s) THEN At(s, i) ELSE At(t, i - Len(s))
<1>1. s \o t \in Seq(Octets) /\ Len(s \o t) = Len(s) + Len(t)
  OBVIOUS
<1>2. ASSUME NEW i \in Nat
      PROVE  At(s \o t, i) = IF i < Len(s) THEN At(s, i) ELSE At(t, i - Len(s))
  <2>1. CASE i < Len(s)
    <3>1. (s \o t)[i + 1] = s[i + 1] /\ i < Len(s \o t)
      BY <2>1
    <3> QED BY <2>1, <3>1 DEF At
  <2>2. CASE Len(s) <= i /\ i < Len(s) + Len(t)
    <3>1. (s \o t)[i + 1] = t[i + 1 - Len(s)] /\ i < Len(s \o t) /\ i - Len(s) < Len(t)
      BY <2>2
    <3> QED BY <2>2, <3>1 DEF At
  <2>3. CASE Len(s) + Len(t) <= i
    <3>1. ~(i < Len(s \o t)) /\ ~(i - Len(s) < Len(t)) /\ ~(i < Len(s))
      BY <1>1, <2>3
    <3> QED BY <3>1 DEF At
  <2> QED BY <2>1, <2>2, <2>3
<1> QED BY <1>1, <1>2

LegacyBytes == {\h64, \h65, \h66, \h67, \hF0, \hF2, \hF3}

(* The opcode maps, told apart by name. *)
One == <<>>
Two == <<\h0F>>
Three8 == <<\h0F, \h38>>
ThreeA == <<\h0F, \h3A>>
Vex5 == <<\hC5, \hF8>>
Vex1 == <<\hC4, \hE1, \h78>>
Vex2 == <<\hC4, \hE2, \h79>>
Vex3 == <<\hC4, \hE3, \h79>>
Maps == {One, Two, Three8, ThreeA, Vex5, Vex1, Vex2, Vex3}

(* What the maps are made of.                                               *)
LEMMA MapBytes ==
  /\ One \in Seq(Octets) /\ Len(One) = 0
  /\ Two \in Seq(Octets) /\ Len(Two) = 1 /\ Two[1] = \h0F
  /\ Three8 \in Seq(Octets) /\ Len(Three8) = 2 /\ Three8[1] = \h0F /\ Three8[2] = \h38
  /\ ThreeA \in Seq(Octets) /\ Len(ThreeA) = 2 /\ ThreeA[1] = \h0F /\ ThreeA[2] = \h3A
  /\ Vex5 \in Seq(Octets) /\ Len(Vex5) = 2 /\ Vex5[1] = \hC5 /\ Vex5[2] = \hF8
  /\ Vex1 \in Seq(Octets) /\ Len(Vex1) = 3 /\ Vex1[1] = \hC4 /\ Vex1[2] = \hE1 /\ Vex1[3] = \h78
  /\ Vex2 \in Seq(Octets) /\ Len(Vex2) = 3 /\ Vex2[1] = \hC4 /\ Vex2[2] = \hE2 /\ Vex2[3] = \h79
  /\ Vex3 \in Seq(Octets) /\ Len(Vex3) = 3 /\ Vex3[1] = \hC4 /\ Vex3[2] = \hE3 /\ Vex3[3] = \h79
<1>1. One \in Seq(Octets) /\ Len(One) = 0
  BY DEF One
<1>2. ASSUME NEW x \in Octets
      PROVE  <<x>> \in Seq(Octets) /\ Len(<<x>>) = 1 /\ <<x>>[1] = x
  OBVIOUS
<1>3. ASSUME NEW x \in Octets, NEW y \in Octets
      PROVE  <<x, y>> \in Seq(Octets) /\ Len(<<x, y>>) = 2 /\ <<x, y>>[1] = x /\ <<x, y>>[2] = y
  OBVIOUS
<1>4. ASSUME NEW x \in Octets, NEW y \in Octets, NEW z \in Octets
      PROVE  /\ <<x, y, z>> \in Seq(Octets) /\ Len(<<x, y, z>>) = 3
             /\ <<x, y, z>>[1] = x /\ <<x, y, z>>[2] = y /\ <<x, y, z>>[3] = z
  OBVIOUS
<1>5. {\h0F, \h38, \h3A, \hC4, \hC5, \hE1, \hE2, \hE3, \hF8, \h78, \h79} \subseteq Octets
  BY DEF Octets
<1>6. Two \in Seq(Octets) /\ Len(Two) = 1 /\ Two[1] = \h0F
  BY <1>2, <1>5 DEF Two
<1>7. Three8 \in Seq(Octets) /\ Len(Three8) = 2 /\ Three8[1] = \h0F /\ Three8[2] = \h38
  BY <1>3, <1>5 DEF Three8
<1>8. ThreeA \in Seq(Octets) /\ Len(ThreeA) = 2 /\ ThreeA[1] = \h0F /\ ThreeA[2] = \h3A
  BY <1>3, <1>5 DEF ThreeA
<1>9. Vex5 \in Seq(Octets) /\ Len(Vex5) = 2 /\ Vex5[1] = \hC5 /\ Vex5[2] = \hF8
  BY <1>3, <1>5 DEF Vex5
<1>10. Vex1 \in Seq(Octets) /\ Len(Vex1) = 3 /\ Vex1[1] = \hC4 /\ Vex1[2] = \hE1 /\ Vex1[3] = \h78
  BY <1>4, <1>5 DEF Vex1
<1>11. Vex2 \in Seq(Octets) /\ Len(Vex2) = 3 /\ Vex2[1] = \hC4 /\ Vex2[2] = \hE2 /\ Vex2[3] = \h79
  BY <1>4, <1>5 DEF Vex2
<1>12. Vex3 \in Seq(Octets) /\ Len(Vex3) = 3 /\ Vex3[1] = \hC4 /\ Vex3[2] = \hE3 /\ Vex3[3] = \h79
  BY <1>4, <1>5 DEF Vex3
<1> QED BY <1>1, <1>6, <1>7, <1>8, <1>9, <1>10, <1>11, <1>12

(* The maps are different.                                                  *)
LEMMA MapsApart ==
  /\ One # Two /\ One # Three8 /\ One # ThreeA /\ One # Vex5 /\ One # Vex1 /\ One # Vex2 /\ One # Vex3
  /\ Two # Three8 /\ Two # ThreeA /\ Two # Vex5 /\ Two # Vex1 /\ Two # Vex2 /\ Two # Vex3
  /\ Three8 # ThreeA /\ Three8 # Vex5 /\ Three8 # Vex1 /\ Three8 # Vex2 /\ Three8 # Vex3
  /\ ThreeA # Vex5 /\ ThreeA # Vex1 /\ ThreeA # Vex2 /\ ThreeA # Vex3
  /\ Vex5 # Vex1 /\ Vex5 # Vex2 /\ Vex5 # Vex3
  /\ Vex1 # Vex2 /\ Vex1 # Vex3 /\ Vex2 # Vex3
<1>1. /\ Len(One) = 0 /\ Len(Two) = 1 /\ Len(Three8) = 2 /\ Len(ThreeA) = 2
      /\ Len(Vex5) = 2 /\ Len(Vex1) = 3 /\ Len(Vex2) = 3 /\ Len(Vex3) = 3
  BY MapBytes
<1>2. Three8[2] = \h38 /\ ThreeA[2] = \h3A /\ Vex5[2] = \hF8
  BY MapBytes
<1>3. Vex1[2] = \hE1 /\ Vex2[2] = \hE2 /\ Vex3[2] = \hE3
  BY MapBytes
<1>4. One # Two /\ One # Three8 /\ One # ThreeA /\ One # Vex5 /\ One # Vex1 /\ One # Vex2 /\ One # Vex3
  BY <1>1
<1>5. Two # Three8 /\ Two # ThreeA /\ Two # Vex5 /\ Two # Vex1 /\ Two # Vex2 /\ Two # Vex3
  BY <1>1
<1>6. Three8 # ThreeA /\ Three8 # Vex5 /\ ThreeA # Vex5
  BY <1>2
<1>7. Vex1 # Vex2 /\ Vex1 # Vex3 /\ Vex2 # Vex3
  BY <1>3
<1>8. /\ Three8 # Vex1 /\ Three8 # Vex2 /\ Three8 # Vex3
      /\ ThreeA # Vex1 /\ ThreeA # Vex2 /\ ThreeA # Vex3
      /\ Vex5 # Vex1 /\ Vex5 # Vex2 /\ Vex5 # Vex3
  BY <1>1
<1> QED BY <1>4, <1>5, <1>6, <1>7, <1>8

(* Every map but the first begins with an escape or a VEX prefix.           *)
LEMMA MapFirst ==
  ASSUME NEW m \in Maps, m # One
  PROVE  m[1] \in {\h0F, \hC4, \hC5} /\ Len(m) \in 1 .. 3
<1>1. /\ Two[1] = \h0F /\ Three8[1] = \h0F /\ ThreeA[1] = \h0F
      /\ Vex5[1] = \hC5 /\ Vex1[1] = \hC4 /\ Vex2[1] = \hC4 /\ Vex3[1] = \hC4
  BY MapBytes
<1>2. /\ Len(Two) = 1 /\ Len(Three8) = 2 /\ Len(ThreeA) = 2
      /\ Len(Vex5) = 2 /\ Len(Vex1) = 3 /\ Len(Vex2) = 3 /\ Len(Vex3) = 3
  BY MapBytes
<1>3. m[1] \in {\h0F, \hC4, \hC5}
  BY <1>1 DEF Maps
<1>4. Len(m) \in 1 .. 3
  BY <1>2 DEF Maps
<1> QED BY <1>3, <1>4

(* The opcodes of each map. *)
Listed(m, x) ==
  /\ m \in Maps /\ x \in Octets
  /\ m = One => x \in OneByte
  /\ m = Two => x \in TwoByte
  /\ m = Three8 => x \in {\h00, \hF0}
  /\ m = ThreeA => x \in {\h0F, \h63}
  /\ m = Vex5 => x \in {\h10, \h58, \h77, \hC6, \hEF}
  /\ m = Vex1 => x \in {\h10, \h58, \hC6, \hEF}
  /\ m = Vex2 => x \in {\h00, \h0C, \h18}
  /\ m = Vex3 => x \in {\h0F, \h4A}

(* The opcodes are those of the maps.                                       *)
LEMMA OpcodesAre ==
  ASSUME NEW o \in Opcodes \union VexOpcodes
  PROVE  /\ Listed(o.map, o.op)
         /\ o = [map |-> o.map, op |-> o.op]
         /\ o \notin Opcodes => o.map \in {Vex5, Vex1, Vex2, Vex3}
<1>0. OneByte \subseteq Octets /\ TwoByte \subseteq Octets
  BY DEF OneByte, TwoByte, Octets
<1>1. ASSUME NEW X, X \subseteq Octets, NEW m \in Maps, o \in {[map |-> m, op |-> x] : x \in X},
             \A x \in X : Listed(m, x)
      PROVE  Listed(o.map, o.op) /\ o.map = m /\ o = [map |-> o.map, op |-> o.op]
  <2>1. PICK x \in X : o = [map |-> m, op |-> x]
    BY <1>1
  <2>2. o.map = m /\ o.op = x
    BY <2>1
  <2> QED BY <1>1, <2>2
<1>2. /\ {\h00, \hF0} \subseteq Octets /\ {\h0F, \h63} \subseteq Octets
      /\ {\h10, \h58, \h77, \hC6, \hEF} \subseteq Octets /\ {\h10, \h58, \hC6, \hEF} \subseteq Octets
      /\ {\h00, \h0C, \h18} \subseteq Octets /\ {\h0F, \h4A} \subseteq Octets
  BY DEF Octets
<1>3. /\ \A x \in OneByte : Listed(One, x)
      /\ \A x \in TwoByte : Listed(Two, x)
      /\ \A x \in {\h00, \hF0} : Listed(Three8, x)
      /\ \A x \in {\h0F, \h63} : Listed(ThreeA, x)
      /\ \A x \in {\h10, \h58, \h77, \hC6, \hEF} : Listed(Vex5, x)
      /\ \A x \in {\h10, \h58, \hC6, \hEF} : Listed(Vex1, x)
      /\ \A x \in {\h00, \h0C, \h18} : Listed(Vex2, x)
      /\ \A x \in {\h0F, \h4A} : Listed(Vex3, x)
  BY <1>0, <1>2, MapsApart DEF Listed, Maps
<1>4. ASSUME o \in Opcodes PROVE Listed(o.map, o.op) /\ o = [map |-> o.map, op |-> o.op]
  <2>1. CASE o \in {[map |-> One, op |-> x] : x \in OneByte}
    BY <1>0, <1>1, <1>3, <2>1 DEF Maps
  <2>2. CASE o \in {[map |-> Two, op |-> x] : x \in TwoByte}
    BY <1>0, <1>1, <1>3, <2>2 DEF Maps
  <2>3. CASE o \in {[map |-> Three8, op |-> x] : x \in {\h00, \hF0}}
    BY <1>1, <1>2, <1>3, <2>3 DEF Maps
  <2>4. CASE o \in {[map |-> ThreeA, op |-> x] : x \in {\h0F, \h63}}
    BY <1>1, <1>2, <1>3, <2>4 DEF Maps
  <2> QED BY <1>4, <2>1, <2>2, <2>3, <2>4, Zenon DEF Opcodes, One, Two, Three8, ThreeA
<1>5. ASSUME o \in VexOpcodes
      PROVE  /\ Listed(o.map, o.op) /\ o = [map |-> o.map, op |-> o.op]
             /\ o.map \in {Vex5, Vex1, Vex2, Vex3}
  <2>0. Vex5 \in Maps /\ Vex1 \in Maps /\ Vex2 \in Maps /\ Vex3 \in Maps
    BY Zenon DEF Maps
  <2>1. CASE o \in {[map |-> Vex5, op |-> x] : x \in {\h10, \h58, \h77, \hC6, \hEF}}
    <3> DEFINE X == {\h10, \h58, \h77, \hC6, \hEF}
    <3>1. X \subseteq Octets /\ Vex5 \in Maps /\ o \in {[map |-> Vex5, op |-> x] : x \in X}
          /\ \A x \in X : Listed(Vex5, x)
      BY <1>2, <1>3, <2>0, <2>1, Zenon
    <3> HIDE DEF X
    <3>2. Listed(o.map, o.op) /\ o.map = Vex5 /\ o = [map |-> o.map, op |-> o.op]
      BY <1>1, <3>1
    <3> QED BY <3>2, Zenon
  <2>2. CASE o \in {[map |-> Vex1, op |-> x] : x \in {\h10, \h58, \hC6, \hEF}}
    <3> DEFINE X == {\h10, \h58, \hC6, \hEF}
    <3>1. X \subseteq Octets /\ Vex1 \in Maps /\ o \in {[map |-> Vex1, op |-> x] : x \in X}
          /\ \A x \in X : Listed(Vex1, x)
      BY <1>2, <1>3, <2>0, <2>2, Zenon
    <3> HIDE DEF X
    <3>2. Listed(o.map, o.op) /\ o.map = Vex1 /\ o = [map |-> o.map, op |-> o.op]
      BY <1>1, <3>1
    <3> QED BY <3>2, Zenon
  <2>3. CASE o \in {[map |-> Vex2, op |-> x] : x \in {\h00, \h0C, \h18}}
    <3> DEFINE X == {\h00, \h0C, \h18}
    <3>1. X \subseteq Octets /\ Vex2 \in Maps /\ o \in {[map |-> Vex2, op |-> x] : x \in X}
          /\ \A x \in X : Listed(Vex2, x)
      BY <1>2, <1>3, <2>0, <2>3, Zenon
    <3> HIDE DEF X
    <3>2. Listed(o.map, o.op) /\ o.map = Vex2 /\ o = [map |-> o.map, op |-> o.op]
      BY <1>1, <3>1
    <3> QED BY <3>2, Zenon
  <2>4. CASE o \in {[map |-> Vex3, op |-> x] : x \in {\h0F, \h4A}}
    <3> DEFINE X == {\h0F, \h4A}
    <3>1. X \subseteq Octets /\ Vex3 \in Maps /\ o \in {[map |-> Vex3, op |-> x] : x \in X}
          /\ \A x \in X : Listed(Vex3, x)
      BY <1>2, <1>3, <2>0, <2>4, Zenon
    <3> HIDE DEF X
    <3>2. Listed(o.map, o.op) /\ o.map = Vex3 /\ o = [map |-> o.map, op |-> o.op]
      BY <1>1, <3>1
    <3> QED BY <3>2, Zenon
  <2>5. \/ o \in {[map |-> Vex5, op |-> x] : x \in {\h10, \h58, \h77, \hC6, \hEF}}
        \/ o \in {[map |-> Vex1, op |-> x] : x \in {\h10, \h58, \hC6, \hEF}}
        \/ o \in {[map |-> Vex2, op |-> x] : x \in {\h00, \h0C, \h18}}
        \/ o \in {[map |-> Vex3, op |-> x] : x \in {\h0F, \h4A}}
    BY <1>5, ZenonT(30) DEF VexOpcodes, Vex5, Vex1, Vex2, Vex3
  <2> QED BY <2>1, <2>2, <2>3, <2>4, <2>5, ZenonT(30)
<1> QED BY <1>4, <1>5

(* The parts of an instruction are bytes.                                   *)
LEMMA Parts ==
  ASSUME NEW i \in Instructions
  PROVE  /\ i.legacy \in Seq(LegacyBytes) /\ i.rex \in {<<>>} \union {<<x>> : x \in \h40 .. \h4F}
         /\ i.opcode \in Opcodes \union VexOpcodes
         /\ i.modrm \in Octets /\ i.sib \in Octets
         /\ i.opcode \in VexOpcodes \ Opcodes => i.legacy = <<>> /\ i.rex = <<>>
<1>1. /\ Legacies \subseteq Seq(LegacyBytes) /\ ModRMs \subseteq Octets /\ Sibs \subseteq Octets
      /\ Rexes \subseteq {<<>>} \union {<<x>> : x \in \h40 .. \h4F}
  BY DecodeAssumption DEF DecodeAssumption, LegacyBytes, Octets
<1>2. <<>> \in Seq(LegacyBytes)
  OBVIOUS
<1>3. CASE i \in [legacy : Legacies, rex : Rexes, opcode : Opcodes, modrm : ModRMs, sib : Sibs]
  BY <1>1, <1>3
<1>4. CASE i \in [legacy : {<<>>}, rex : {<<>>}, opcode : VexOpcodes, modrm : ModRMs, sib : Sibs]
  <2>1. i.legacy = <<>> /\ i.rex = <<>> /\ i.opcode \in VexOpcodes /\ i.modrm \in ModRMs /\ i.sib \in Sibs
    BY <1>4
  <2> QED BY <1>1, <1>2, <2>1
<1> QED BY <1>3, <1>4 DEF Instructions

Front(i) == i.legacy \o i.rex
Pad == [k \in 1 .. 15 |-> \h90]
Body(i) == i.opcode.map \o <<i.opcode.op, i.modrm, i.sib>> \o Pad

(* The maps are sequences of up to three bytes.                             *)
LEMMA MapsAre ==
  ASSUME NEW m \in Maps
  PROVE  m \in Seq(Octets) /\ Len(m) \in 0 .. 3
<1>1. /\ Len(One) = 0 /\ Len(Two) = 1 /\ Len(Three8) = 2 /\ Len(ThreeA) = 2
      /\ Len(Vex5) = 2 /\ Len(Vex1) = 3 /\ Len(Vex2) = 3 /\ Len(Vex3) = 3
  BY MapBytes
<1>2. Len(m) \in 0 .. 3
  BY <1>1 DEF Maps
<1>3. /\ One \in Seq(Octets) /\ Two \in Seq(Octets) /\ Three8 \in Seq(Octets) /\ ThreeA \in Seq(Octets)
      /\ Vex5 \in Seq(Octets) /\ Vex1 \in Seq(Octets) /\ Vex2 \in Seq(Octets) /\ Vex3 \in Seq(Octets)
  BY MapBytes
<1>4. m \in Seq(Octets)
  BY <1>3, Zenon DEF Maps
<1> QED BY <1>2, <1>4

(* What follows the instruction.                                            *)
LEMMA PadIs ==
  /\ Pad \in Seq(Octets) /\ Len(Pad) = 15
  /\ \A j \in 0 .. 14 : At(Pad, j) = \h90
<1>1. Pad \in Seq(Octets) /\ Len(Pad) = 15
  BY DEF Pad, Octets
<1>2. ASSUME NEW j \in 0 .. 14 PROVE At(Pad, j) = \h90
  <2>1. j + 1 \in 1 .. 15 /\ j < Len(Pad)
    BY <1>1
  <2> QED BY <2>1 DEF At, Pad
<1> QED BY <1>1, <1>2

(* The prefixes as sequences of bytes.                                      *)
LEMMA FrontParts ==
  ASSUME NEW i \in Instructions
  PROVE  /\ i.legacy \in Seq(Octets) /\ i.rex \in Seq(Octets) /\ Len(i.legacy) \in Nat
         /\ i.rex # <<>> => Len(i.rex) = 1 /\ IsRex(i.rex[1])
         /\ i.rex = <<>> => Len(i.rex) = 0
<1>1. i.legacy \in Seq(LegacyBytes) /\ i.rex \in {<<>>} \union {<<x>> : x \in \h40 .. \h4F}
  BY Parts
<1>2. LegacyBytes \subseteq Octets
  BY DEF LegacyBytes, Octets
<1>3. i.legacy \in Seq(Octets) /\ Len(i.legacy) \in Nat
  <2> DEFINE l == i.legacy
  <2>1. l \in Seq(LegacyBytes)
    BY <1>1
  <2> HIDE DEF l
  <2>2. l \in Seq(Octets) /\ Len(l) \in Nat
    BY <1>2, <2>1
  <2> QED BY <2>2 DEF l
<1>4. CASE i.rex = <<>>
  <2>1. i.rex \in Seq(Octets) /\ Len(i.rex) = 0
    BY <1>4
  <2> QED BY <1>3, <1>4, <2>1
<1>5. ASSUME NEW x \in \h40 .. \h4F, i.rex = <<x>>
      PROVE  i.rex \in Seq(Octets) /\ i.rex # <<>> /\ Len(i.rex) = 1 /\ IsRex(i.rex[1])
  BY <1>5 DEF Octets, IsRex
<1> QED BY <1>1, <1>3, <1>4, <1>5

(* In front of the opcode stand prefixes.                                   *)
LEMMA FrontIs ==
  ASSUME NEW i \in Instructions
  PROVE  /\ Front(i) \in Seq(Octets) /\ Len(Front(i)) = Len(i.legacy) + Len(i.rex)
         /\ \A j \in 0 .. Len(Front(i)) - 1 : IsPrefix(At(Front(i), j))
         /\ i.legacy # <<>> => Len(Front(i)) > 0 /\ At(Front(i), 0) \in LegacyBytes
         /\ i.legacy = <<>> /\ i.rex # <<>> =>
              Len(Front(i)) = 1 /\ At(Front(i), 0) = i.rex[1] /\ IsRex(i.rex[1])
         /\ i.legacy = <<>> /\ i.rex = <<>> => Len(Front(i)) = 0
<1>1. i.legacy \in Seq(LegacyBytes) /\ i.rex \in {<<>>} \union {<<x>> : x \in \h40 .. \h4F}
  BY Parts
<1>2. LegacyBytes \subseteq Octets /\ \A x \in LegacyBytes : IsPrefix(x)
  BY DEF LegacyBytes, Octets, IsPrefix
<1>3. i.legacy \in Seq(Octets)
  <2> DEFINE l == i.legacy
  <2> HIDE DEF l
  <2>1. l \in Seq(LegacyBytes)
    BY <1>1 DEF l
  <2>2. l \in Seq(Octets)
    BY <1>2, <2>1
  <2> QED BY <2>2 DEF l
<1>4. i.rex \in Seq(Octets) /\ (i.rex # <<>> => Len(i.rex) = 1 /\ IsRex(i.rex[1]))
  <2>1. CASE i.rex = <<>>
    BY <2>1
  <2>2. ASSUME NEW x \in \h40 .. \h4F, i.rex = <<x>>
        PROVE  i.rex \in Seq(Octets) /\ Len(i.rex) = 1 /\ IsRex(i.rex[1])
    BY <2>2 DEF Octets, IsRex
  <2> QED BY <1>1, <2>1, <2>2
<1> DEFINE l == i.legacy
           r == i.rex
           f == Front(i)
<1>5. /\ f \in Seq(Octets) /\ Len(f) = Len(l) + Len(r)
      /\ \A j \in Nat : At(f, j) = IF j < Len(l) THEN At(l, j) ELSE At(r, j - Len(l))
  BY <1>3, <1>4, ConcatIs DEF Front
<1>6. \A j \in Nat : j < Len(l) => At(l, j) \in LegacyBytes
  <2> TAKE j \in Nat
  <2> HAVE j < Len(l)
  <2>1. j + 1 \in 1 .. Len(l)
    BY <1>1
  <2>2. l[j + 1] \in LegacyBytes
    BY <1>1, <2>1, ElementOfSeq
  <2> QED BY <2>2 DEF At
<1>7. r # <<>> => At(r, 0) = r[1] /\ IsRex(r[1]) /\ Len(r) = 1
  BY <1>4 DEF At
<1>8. (r = <<>> <=> Len(r) = 0) /\ (l = <<>> <=> Len(l) = 0) /\ Len(l) \in Nat /\ Len(r) \in Nat
  BY <1>1, <1>3, <1>4, EmptySeq
<1> HIDE DEF l, r, f
<1>9. ASSUME NEW j \in 0 .. Len(f) - 1 PROVE IsPrefix(At(f, j))
  <2>1. CASE j < Len(l)
    BY <2>1, <1>2, <1>5, <1>6, <1>8
  <2>2. CASE ~(j < Len(l))
    <3>1. Len(r) = 1
      <4>1. Len(f) = Len(l) + Len(r) /\ j \in 0 .. Len(f) - 1 /\ Len(l) <= j
        BY <2>2, <1>5, <1>8
      <4>2. Len(r) # 0
        BY <4>1, <1>8
      <4> QED BY <4>2, <1>7, <1>8
    <3>2. j = Len(l)
      BY <2>2, <3>1, <1>5, <1>8
    <3>3. At(f, j) = r[1]
      BY <2>2, <3>1, <3>2, <1>5, <1>7, <1>8
    <3> QED BY <3>1, <3>3, <1>7, <1>8 DEF IsPrefix
  <2> QED BY <2>1, <2>2
<1>10. l # <<>> => Len(f) > 0 /\ At(f, 0) \in LegacyBytes
  BY <1>5, <1>6, <1>8
<1>11. l = <<>> /\ r # <<>> => Len(f) = 1 /\ At(f, 0) = r[1] /\ IsRex(r[1])
  BY <1>5, <1>7, <1>8
<1>12. l = <<>> /\ r = <<>> => Len(f) = 0
  BY <1>5, <1>8
<1> QED BY <1>5, <1>9, <1>10, <1>11, <1>12 DEF l, r, f

(* The bytes from the opcode map on.                                        *)
LEMMA BodyIs ==
  ASSUME NEW i \in Instructions
  PROVE  LET m == i.opcode.map IN
         /\ m \in Seq(Octets) /\ Len(m) \in 0 .. 3
         /\ Body(i) \in Seq(Octets) /\ Len(Body(i)) = Len(m) + 18
         /\ \A j \in 0 .. Len(m) - 1 : At(Body(i), j) = m[j + 1]
         /\ At(Body(i), Len(m)) = i.opcode.op /\ At(Body(i), Len(m) + 1) = i.modrm
         /\ At(Body(i), Len(m) + 2) = i.sib /\ At(Body(i), Len(m) + 3) = \h90
<1> DEFINE m == i.opcode.map
           c == <<i.opcode.op, i.modrm, i.sib>>
           b == Body(i)
<1>1. i.opcode.op \in Octets /\ m \in Maps /\ i.modrm \in Octets /\ i.sib \in Octets
  BY Parts, OpcodesAre DEF Listed
<1>2. m \in Seq(Octets) /\ Len(m) \in 0 .. 3
  BY <1>1, MapsAre
<1>3. c \in Seq(Octets) /\ Len(c) = 3 /\ At(c, 0) = i.opcode.op /\ At(c, 1) = i.modrm /\ At(c, 2) = i.sib
  BY <1>1 DEF At
<1> HIDE DEF m, c
<1>4. /\ m \o c \in Seq(Octets) /\ Len(m \o c) = Len(m) + 3
      /\ \A j \in Nat : At(m \o c, j) = IF j < Len(m) THEN At(m, j) ELSE At(c, j - Len(m))
  BY <1>2, <1>3, ConcatIs
<1>5. b = (m \o c) \o Pad
  BY DEF Body, m, c
<1>6. /\ b \in Seq(Octets) /\ Len(b) = Len(m) + 3 + 15
      /\ \A j \in Nat : At(b, j) = IF j < Len(m) + 3 THEN At(m \o c, j) ELSE At(Pad, j - (Len(m) + 3))
  <2> DEFINE s == m \o c
  <2> HIDE DEF s, b
  <2>1. s \in Seq(Octets) /\ b = s \o Pad /\ Len(s) = Len(m) + 3
    BY <1>4, <1>5 DEF s
  <2>2. Pad \in Seq(Octets) /\ Len(Pad) = 15
    BY PadIs
  <2>3. /\ s \o Pad \in Seq(Octets) /\ Len(s \o Pad) = Len(s) + Len(Pad)
        /\ \A j \in Nat : At(s \o Pad, j) = IF j < Len(s) THEN At(s, j) ELSE At(Pad, j - Len(s))
    BY <2>1, <2>2, ConcatIs, Zenon
  <2> QED BY <2>1, <2>2, <2>3 DEF s
<1> HIDE DEF b
<1>7. \A j \in Nat : At(b, j) = IF j < Len(m) THEN At(m, j)
                                ELSE IF j < Len(m) + 3 THEN At(c, j - Len(m)) ELSE At(Pad, j - (Len(m) + 3))
  BY <1>2, <1>4, <1>6
<1>8. \A j \in 0 .. Len(m) - 1 : At(b, j) = m[j + 1]
  BY <1>2, <1>7 DEF At
<1>9. At(b, Len(m)) = At(c, 0) /\ At(b, Len(m) + 1) = At(c, 1) /\ At(b, Len(m) + 2) = At(c, 2)
      /\ At(b, Len(m) + 3) = At(Pad, 0)
  BY <1>2, <1>7
<1>10. At(Pad, 0) = \h90
  BY PadIs
<1>11. Len(b) = Len(m) + 18
  BY <1>2, <1>6
<1> QED BY <1>2, <1>3, <1>6, <1>8, <1>9, <1>10, <1>11 DEF m, b

(* The prefixes stand in front, the rest behind them. *)
LEMMA BytesAre ==
  ASSUME NEW i \in Instructions
  PROVE  /\ BytesOf(i) \in Seq(Octets)
         /\ Len(BytesOf(i)) = Len(Front(i)) + Len(i.opcode.map) + 18
         /\ \A j \in 0 .. Len(Front(i)) - 1 : At(BytesOf(i), j) = At(Front(i), j)
         /\ \A j \in Nat : At(BytesOf(i), Len(Front(i)) + j) = At(Body(i), j)
<1> DEFINE f == Front(i)
           b == Body(i)
           m == i.opcode.map
           c == <<i.opcode.op, i.modrm, i.sib>>
<1>1. f \in Seq(Octets) /\ b \in Seq(Octets) /\ Len(b) = Len(m) + 18 /\ Len(m) \in Nat
  <2>1. f \in Seq(Octets)
    BY FrontIs
  <2>2. b \in Seq(Octets) /\ Len(b) = Len(m) + 18 /\ Len(m) \in 0 .. 3
    BY BodyIs
  <2> QED BY <2>1, <2>2
<1>2. BytesOf(i) = f \o b
  <2>1. m \in Seq(Octets) /\ c \in Seq(Octets) /\ Pad \in Seq(Octets)
    <3>1. i.opcode.op \in Octets /\ i.modrm \in Octets /\ i.sib \in Octets
      BY Parts, OpcodesAre DEF Listed
    <3> QED BY <3>1, BodyIs, PadIs
  <2>2. BytesOf(i) = ((f \o m) \o c) \o Pad /\ b = (m \o c) \o Pad
    BY DEF BytesOf, Front, Pad, Body
  <2> HIDE DEF f, b, m, c
  <2>3. ((f \o m) \o c) \o Pad = f \o ((m \o c) \o Pad)
    <3> DEFINE p == Pad
    <3>1. f \in Seq(Octets) /\ m \in Seq(Octets) /\ c \in Seq(Octets) /\ p \in Seq(Octets)
      BY <1>1, <2>1
    <3> HIDE DEF p
    <3>2. ((f \o m) \o c) \o p = f \o ((m \o c) \o p)
      <4> DEFINE s == m \o c
      <4>1. (f \o m) \o c = f \o s
        BY <3>1, ConcatAssociative, SMTT(30) DEF s
      <4>2. s \in Seq(Octets)
        BY <3>1
      <4> HIDE DEF s
      <4>3. (f \o s) \o p = f \o (s \o p)
        BY <3>1, <4>2, ConcatAssociative, SMTT(30)
      <4> QED BY <4>1, <4>3, Zenon DEF s
    <3> QED BY <3>2 DEF p
  <2> QED BY <2>2, <2>3
<1> HIDE DEF f, b, m
<1>3. /\ f \o b \in Seq(Octets) /\ Len(f \o b) = Len(f) + Len(b)
      /\ \A j \in Nat : At(f \o b, j) = IF j < Len(f) THEN At(f, j) ELSE At(b, j - Len(f))
  BY <1>1, ConcatIs
<1>4. Len(f \o b) = Len(f) + Len(m) + 18
  BY <1>1, <1>3
<1>5. \A j \in 0 .. Len(f) - 1 : At(f \o b, j) = At(f, j)
  BY <1>1, <1>3
<1>6. ASSUME NEW j \in Nat PROVE At(f \o b, Len(f) + j) = At(b, j)
  BY <1>1, <1>3
<1> QED BY <1>2, <1>3, <1>4, <1>5, <1>6 DEF f, b, m

(* Where the fast paths find opcode and ModR/M byte of an instruction.      *)
LEMMA FastSees ==
  ASSUME NEW i \in Instructions
  PROVE  LET b == BytesOf(i) IN
         /\ i.legacy # <<>> => Op(b) \in LegacyBytes
         /\ i.legacy = <<>> =>
              /\ Op(b) = At(Body(i), 0) /\ ModRM(b) = At(Body(i), 1)
              /\ Skip(b) = Len(i.rex) /\ Len(Front(i)) = Skip(b)
              /\ i.rex # <<>> => FastRex(b) = i.rex[1]
              /\ i.rex = <<>> => FastRex(b) = 0
<1> DEFINE b == BytesOf(i)
           f == Front(i)
<1>1. /\ \A j \in 0 .. Len(f) - 1 : At(b, j) = At(f, j)
      /\ \A j \in Nat : At(b, Len(f) + j) = At(Body(i), j)
  BY BytesAre
<1>2. Len(f) \in Nat
  <2>1. f \in Seq(Octets)
    BY FrontIs
  <2> HIDE DEF f
  <2> QED BY <2>1
<1>3. i.rex \in {<<>>} \union {<<x>> : x \in \h40 .. \h4F}
  BY Parts
<1>4. CASE i.legacy # <<>>
  <2>1. Len(f) > 0 /\ At(f, 0) \in LegacyBytes
    BY <1>4, FrontIs
  <2> HIDE DEF b, f
  <2>2. At(b, 0) \in LegacyBytes
    <3>1. 0 \in 0 .. Len(f) - 1
      BY <1>2, <2>1
    <3> QED BY <1>1, <2>1, <3>1
  <2>3. ~IsRex(At(b, 0))
    BY <2>2 DEF LegacyBytes, IsRex
  <2>4. Op(b) = At(b, 0)
    BY <2>3 DEF Op, Skip
  <2> QED BY <1>4, <2>2, <2>4 DEF b
<1>5. CASE i.legacy = <<>> /\ i.rex # <<>>
  <2>1. Len(f) = 1 /\ At(f, 0) = i.rex[1] /\ IsRex(i.rex[1]) /\ Len(i.rex) = 1
    <3>1. Len(i.rex) = 1
      BY <1>3, <1>5
    <3> QED BY <1>5, <3>1, FrontIs
  <2> DEFINE r == i.rex[1]
  <2> HIDE DEF b, f, r
  <2>2. At(b, 0) = r
    BY <1>1, <2>1 DEF r
  <2>3. Skip(b) = 1 /\ FastRex(b) = r
    BY <2>1, <2>2 DEF Skip, FastRex, r
  <2>4. At(b, 1 + 0) = At(Body(i), 0) /\ At(b, 1 + 1) = At(Body(i), 1)
    BY <1>1, <2>1
  <2>5. Op(b) = At(Body(i), 0) /\ ModRM(b) = At(Body(i), 1)
    BY <2>3, <2>4 DEF Op, ModRM
  <2> QED BY <1>5, <2>1, <2>3, <2>5 DEF b, f, r
<1>6. CASE i.legacy = <<>> /\ i.rex = <<>>
  <2>1. Len(f) = 0 /\ Len(i.rex) = 0
    BY <1>6, FrontIs
  <2>2. ~IsRex(At(Body(i), 0))
    <3> DEFINE m == i.opcode.map
               x == i.opcode.op
    <3>1. Listed(m, x) /\ m \in Maps
      BY Parts, OpcodesAre DEF Listed
    <3>2. /\ \A j \in 0 .. Len(m) - 1 : At(Body(i), j) = m[j + 1]
          /\ At(Body(i), Len(m)) = x
      BY BodyIs
    <3> HIDE DEF m, x
    <3>3. CASE m = One
      <4>1. At(Body(i), 0) = x /\ x \in OneByte
        BY <3>1, <3>2, <3>3, MapBytes DEF Listed
      <4> QED BY <4>1 DEF OneByte, IsRex
    <3>4. CASE m # One
      <4>1. m[1] \in {\h0F, \hC4, \hC5} /\ Len(m) \in 1 .. 3
        BY <3>1, <3>4, MapFirst
      <4>2. At(Body(i), 0) = m[1]
        BY <3>2, <4>1
      <4> QED BY <4>1, <4>2 DEF IsRex
    <3> QED BY <3>3, <3>4
  <2> HIDE DEF b, f
  <2>3. At(b, 0) = At(Body(i), 0) /\ At(b, 1) = At(Body(i), 1)
    BY <1>1, <2>1
  <2>4. Skip(b) = 0 /\ FastRex(b) = 0
    BY <2>2, <2>3 DEF Skip, FastRex
  <2>5. Op(b) = At(Body(i), 0) /\ ModRM(b) = At(Body(i), 1)
    BY <2>3, <2>4 DEF Op, ModRM
  <2> QED BY <1>6, <2>1, <2>4, <2>5 DEF b, f
<1> QED BY <1>4, <1>5, <1>6

(* An instruction whose first opcode byte is that of a two-byte map.        *)
LEMMA FirstByte ==
  ASSUME NEW i \in Instructions
  PROVE  /\ i.opcode.map = One => At(Body(i), 0) = i.opcode.op /\ At(Body(i), 1) = i.modrm
         /\ i.opcode.map # One => At(Body(i), 0) = i.opcode.map[1]
         /\ i.opcode.map \in {Three8, ThreeA} => At(Body(i), 1) \in {\h38, \h3A}
         /\ i.opcode.map = Two => At(Body(i), 1) = i.opcode.op
<1> DEFINE m == i.opcode.map
           x == i.opcode.op
<1>1. /\ \A j \in 0 .. Len(m) - 1 : At(Body(i), j) = m[j + 1]
      /\ At(Body(i), Len(m)) = x /\ At(Body(i), Len(m) + 1) = i.modrm
  BY BodyIs
<1>2. m \in Maps
  BY Parts, OpcodesAre DEF Listed
<1> HIDE DEF m, x
<1>3. m = One => At(Body(i), 0) = x /\ At(Body(i), 1) = i.modrm
  <2> SUFFICES ASSUME m = One PROVE At(Body(i), 0) = x /\ At(Body(i), 1) = i.modrm
    OBVIOUS
  <2>1. Len(m) = 0
    BY MapBytes
  <2> QED BY <1>1, <2>1
<1>4. m # One => At(Body(i), 0) = m[1]
  <2> SUFFICES ASSUME m # One PROVE At(Body(i), 0) = m[1]
    OBVIOUS
  <2>1. Len(m) \in 1 .. 3
    BY <1>2, MapFirst
  <2> QED BY <1>1, <2>1
<1>5. m \in {Three8, ThreeA} => At(Body(i), 1) \in {\h38, \h3A}
  <2> SUFFICES ASSUME m \in {Three8, ThreeA} PROVE At(Body(i), 1) \in {\h38, \h3A}
    OBVIOUS
  <2>1. Len(m) = 2 /\ m[2] \in {\h38, \h3A}
    BY MapBytes
  <2> QED BY <1>1, <2>1
<1>6. m = Two => At(Body(i), 1) = x
  <2> SUFFICES ASSUME m = Two PROVE At(Body(i), 1) = x
    OBVIOUS
  <2>1. Len(m) = 1
    BY MapBytes
  <2> QED BY <1>1, <2>1
<1> QED BY <1>3, <1>4, <1>5, <1>6 DEF m, x

(* Of the opcodes of two bytes only the near conditional jumps are fast.    *)
LEMMA JccAlone ==
  ASSUME NEW b \in Seq(Octets)
  PROVE  IsFast(b) /\ Op(b) = \h0F => Skip(b) = 0 /\ At(b, 1) \in \h80 .. \h8F
<1>1. \h0F \notin AluOps
  BY DEF AluOps
<1> DEFINE x == Op(b)
<1>2. /\ IsSimplePushPop(b) => x \in \h50 .. \h5F
      /\ IsSimpleMemoryInsn(b) => x \in \h88 .. \h8B
      /\ IsRegToRegAlu(b) => x \in AluOps
      /\ IsSimpleLea(b) => x = \h8D
      /\ IsSimpleIncDec(b) => x = \hFF
      /\ IsSimpleRet(b) => x \in {\hC2, \hC3}
      /\ IsSimpleJcc(b) => Skip(b) = 0 /\ (x \in \h70 .. \h7F \/ (x = \h0F /\ At(b, 1) \in \h80 .. \h8F))
      /\ IsSimpleJmpCall(b) => x \in {\hE8, \hE9, \hEB}
  BY FastByOpcode
<1> HIDE DEF x
<1> SUFFICES ASSUME IsFast(b), x = \h0F PROVE Skip(b) = 0 /\ At(b, 1) \in \h80 .. \h8F
  BY DEF x
<1>3. x = \h0F
  OBVIOUS
<1>4. /\ ~IsSimplePushPop(b) /\ ~IsSimpleMemoryInsn(b) /\ ~IsRegToRegAlu(b) /\ ~IsSimpleLea(b)
      /\ ~IsSimpleIncDec(b) /\ ~IsSimpleRet(b) /\ ~IsSimpleJmpCall(b)
  BY <1>1, <1>2, <1>3
<1>5. IsSimpleJcc(b)
  BY <1>4 DEF IsFast
<1> QED BY <1>2, <1>3, <1>5

(* What is left out of the comparison is only LEA with a base of r12 or     *)
(* r13, and the near conditional jumps.                                     *)
LEMMA FastComparable ==
  ASSUME NEW i \in Instructions, IsFast(BytesOf(i)), ~BaseR12R13(i),
         ~(i.opcode.map = Two /\ i.opcode.op \in \h80 .. \h8F)
  PROVE  ~LeaR12R13(BytesOf(i)) /\ Op(BytesOf(i)) # \h0F
<1> DEFINE b == BytesOf(i)
           m == i.opcode.map
           x == i.opcode.op
<1>1. b \in Seq(Octets) /\ \A j \in Nat : At(b, Len(Front(i)) + j) = At(Body(i), j)
  BY BytesAre
<1>2. Listed(m, x) /\ m \in Maps /\ i.opcode \in Opcodes \union VexOpcodes
  BY Parts, OpcodesAre DEF Listed
<1>3. CASE i.legacy # <<>>
  <2>1. Op(b) \in LegacyBytes
    BY <1>3, FastSees
  <2> QED BY <2>1 DEF LegacyBytes, LeaR12R13
<1>4. CASE i.legacy = <<>>
  <2>1. /\ Op(b) = At(Body(i), 0) /\ ModRM(b) = At(Body(i), 1) /\ Len(Front(i)) = Skip(b)
        /\ i.rex = <<>> => FastRex(b) = 0
        /\ i.rex # <<>> => FastRex(b) = i.rex[1]
    BY <1>4, FastSees
  <2>2. /\ m = One => At(Body(i), 0) = x /\ At(Body(i), 1) = i.modrm
        /\ m # One => At(Body(i), 0) = m[1]
        /\ m \in {Three8, ThreeA} => At(Body(i), 1) \in {\h38, \h3A}
        /\ m = Two => At(Body(i), 1) = x
    BY FirstByte
  <2>3. m # One => m[1] \in {\h0F, \hC4, \hC5}
    BY <1>2, MapFirst
  <2>4. ~LeaR12R13(b)
    <3> SUFFICES ASSUME LeaR12R13(b) PROVE FALSE
      OBVIOUS
    <3>1. /\ Op(b) = \h8D /\ Bit(FastRex(b), 0) = 1
          /\ \/ Mod(ModRM(b)) # 3 /\ Rm(ModRM(b)) = 4
             \/ Mod(ModRM(b)) = 0 /\ Rm(ModRM(b)) = 5
      BY DEF LeaR12R13
    <3>2. m = One
      BY <2>1, <2>2, <2>3, <3>1
    <3>3. x = \h8D /\ ModRM(b) = i.modrm
      BY <2>1, <2>2, <3>1, <3>2
    <3>4. Bit(0, 0) = 0
      BY Bits DEF Octets
    <3>5. i.rex # <<>> /\ Bit(i.rex[1], 0) = 1
      BY <2>1, <3>1, <3>4
    <3>6. i.opcode = [map |-> One, op |-> \h8D]
      <4>1. i.opcode = [map |-> m, op |-> x]
        BY <1>2, OpcodesAre
      <4> QED BY <3>2, <3>3, <4>1
    <3>7. HasSib(i) \/ (Mod(i.modrm) = 0 /\ Rm(i.modrm) = 5)
      BY <3>1, <3>3 DEF HasSib
    <3>8. BaseR12R13(i)
      BY <1>4, <3>5, <3>6, <3>7 DEF BaseR12R13, One
    <3> QED BY <3>8
  <2>5. Op(b) # \h0F
    <3> SUFFICES ASSUME Op(b) = \h0F PROVE FALSE
      OBVIOUS
    <3>1. m \in {Two, Three8, ThreeA}
      <4>1. m # One
        <5> SUFFICES ASSUME m = One PROVE FALSE
          OBVIOUS
        <5>1. x = \h0F /\ x \in OneByte
          BY <1>2, <2>1, <2>2 DEF Listed
        <5> QED BY <5>1 DEF OneByte
      <4>2. m[1] = \h0F
        BY <2>1, <2>2, <4>1
      <4>3. m \notin {Vex5, Vex1, Vex2, Vex3}
        <5>1. Vex5[1] # \h0F /\ Vex1[1] # \h0F /\ Vex2[1] # \h0F /\ Vex3[1] # \h0F
          BY MapBytes
        <5> HIDE DEF m
        <5> QED BY <4>2, <5>1
      <4> QED BY <1>2, <4>1, <4>3 DEF Maps
    <3>2. Skip(b) = 0 /\ At(b, 1) \in \h80 .. \h8F
      BY <1>1, JccAlone
    <3>4. At(b, 1) = At(Body(i), 1)
      BY <1>1, <2>1, <3>2
    <3>5. CASE m = Two
      <4>1. At(b, 1) = x /\ x \notin \h80 .. \h8F
        BY <2>2, <3>4, <3>5
      <4> QED BY <3>2, <4>1
    <3>6. CASE m # Two
      <4>1. At(b, 1) \in {\h38, \h3A}
        BY <2>2, <3>1, <3>4, <3>6
      <4> QED BY <3>2, <4>1
    <3> QED BY <3>5, <3>6
  <2> QED BY <2>4, <2>5
<1> QED BY <1>3, <1>4

-----------------------------------------------------------------------------
(* What a behaviour of the check keeps: the instruction, and either nothing *)
(* or what it was decoded to.                                               *)
Result == code \in Instructions /\ insn \in {NotDecoded, Decode(BytesOf(code))}

(* The check decodes the instruction it began with.                         *)
LEMMA ResultHolds == CheckSpec => []Result
<1>1. CheckInit => Result
  BY DEF CheckInit, Result
<1>2. Result /\ [CheckStep]_checkVars => Result'
  BY DEF Result, CheckStep, checkVars
<1> QED BY <1>1, <1>2, PTL DEF CheckSpec

(* What a fast path sees of the prefixes and the opcode of an instruction.  *)
LEMMA FastParts ==
  ASSUME NEW i \in Instructions, IsFast(BytesOf(i))
  PROVE  LET b == BytesOf(i) IN
         /\ (IF Skip(b) = 0 THEN 1 ELSE Bit(FastRex(b), 3)) =
              (IF i.rex = <<>> THEN 1 ELSE Bit(i.rex[1], 3))
         /\ IsSimplePushPop(b) => Op(b) = i.opcode.op
<1> DEFINE b == BytesOf(i)
           m == i.opcode.map
           x == Op(b)
<1>1. b \in Seq(Octets)
  BY BytesAre
<1>2. i.legacy = <<>>
  <2> SUFFICES ASSUME i.legacy # <<>> PROVE FALSE
    OBVIOUS
  <2>1. x \in LegacyBytes
    BY FastSees
  <2>2. \/ x \in \h50 .. \h5F \/ x \in \h88 .. \h8B \/ x \in AluOps \/ x \in {\h8D, \hFF}
        \/ x \in {\hC2, \hC3} \/ x \in \h70 .. \h7F \/ x = \h0F \/ x \in {\hE8, \hE9, \hEB}
    BY <1>1, FastByOpcode DEF IsFast
  <2> HIDE DEF x
  <2> QED BY <2>1, <2>2 DEF LegacyBytes, AluOps
<1>3. /\ x = At(Body(i), 0) /\ Skip(b) = Len(i.rex)
      /\ i.rex # <<>> => FastRex(b) = i.rex[1]
  BY <1>2, FastSees
<1>4. i.rex \in {<<>>} \union {<<y>> : y \in \h40 .. \h4F}
  BY Parts
<1>5. (i.rex = <<>> => Len(i.rex) = 0) /\ (i.rex # <<>> => Len(i.rex) = 1)
  BY <1>4
<1>6. (IF Skip(b) = 0 THEN 1 ELSE Bit(FastRex(b), 3)) =
        (IF i.rex = <<>> THEN 1 ELSE Bit(i.rex[1], 3))
  <2> HIDE DEF b
  <2>1. CASE i.rex = <<>>
    BY <1>3, <1>5, <2>1
  <2>2. CASE i.rex # <<>>
    BY <1>3, <1>5, <2>2
  <2> QED BY <2>1, <2>2
<1>7. ASSUME IsSimplePushPop(b) PROVE x = i.opcode.op
  <2>1. x \in \h50 .. \h5F
    BY <1>1, <1>7, FastByOpcode
  <2>2. m \in Maps
    BY Parts, OpcodesAre DEF Listed
  <2>3. m = One
    <3> SUFFICES ASSUME m # One PROVE FALSE
      OBVIOUS
    <3>1. m[1] \in {\h0F, \hC4, \hC5}
      BY <2>2, MapFirst
    <3>2. x = m[1]
      BY <1>3, FirstByte
    <3> HIDE DEF m, x
    <3> QED BY <2>1, <3>1, <3>2
  <2> QED BY <1>3, <2>3, FirstByte
<1> QED BY <1>6, <1>7

(* The fast paths of rosetta_x86_decode.c make of an instruction what the   *)
(* general path does but for is_64bit and reg, for all prefixes, ModR/M and *)
(* SIB bytes.                                                               *)
THEOREM FastPathsAlwaysAgree == CheckSpec => []FastPathsAgree
<1>1. Result => FastPathsAgree
  <2> DEFINE b == BytesOf(code)
             w == IF Skip(b) = 0 THEN 1 ELSE Bit(FastRex(b), 3)
             v == IF code.rex = <<>> THEN 1 ELSE Bit(code.rex[1], 3)
             g == DecodeGeneral(b)
             form(y, z) == [g EXCEPT !.is64 = y,
                                     !.reg = IF IsSimplePushPop(b) THEN z % 8
                                             ELSE IF IsSimpleIncDec(b) THEN @ % 8 ELSE @]
  <2> SUFFICES ASSUME Result, Decoded, IsFast(b), ~BaseR12R13(code), code.opcode.map # Two
               PROVE  insn = form(v, code.opcode.op)
    BY Zenon DEF FastPathsAgree, Two
  <2>1. insn = DecodeFast(b) /\ code \in Instructions
    BY DEF Result, Decoded, Decode
  <2>2. b \in Seq(Octets)
    BY <2>1, BytesAre
  <2>3. ~LeaR12R13(b) /\ Op(b) # \h0F
    BY <2>1, FastComparable
  <2>4. insn = form(w, Op(b))
    <3>1. DecodeFast(b) = FastForm(b, g)
      BY <2>2, <2>3, FastIsGeneral
    <3> QED BY <2>1, <3>1 DEF FastForm
  <2>5. w = v /\ (IsSimplePushPop(b) => Op(b) = code.opcode.op)
    BY <2>1, FastParts
  <2> HIDE DEF b, w, v, g
  <2> QED BY <2>4, <2>5
<1> QED BY <1>1, ResultHolds, PTL

(* How far what is decoded can reach. *)
LEMMA DecodedWithin ==
  ASSUME NEW i \in Instructions
  PROVE  Decode(BytesOf(i)).length \in 0 .. Len(BytesOf(i))
<1> DEFINE b == BytesOf(i)
           f == Len(Front(i))
           l == Len(i.opcode.map)
           k == Prefixes(b)
<1> SUFFICES Decode(b).length \in 0 .. Len(b)
  OBVIOUS
<1>1. /\ b \in Seq(Octets) /\ Len(b) = f + l + 18
      /\ \A j \in Nat : At(b, f + j) = At(Body(i), j)
  BY BytesAre
<1>2. f \in Nat /\ l \in 0 .. 3 /\ At(Body(i), l + 3) = \h90
  <2>1. Front(i) \in Seq(Octets)
    BY FrontIs
  <2>2. l \in 0 .. 3 /\ At(Body(i), l + 3) = \h90
    BY BodyIs
  <2> QED BY <2>1, <2>2
<1>3. k \in 0 .. Len(b) /\ IsFirst(b, k)
  BY <1>1, PrefixesEnd
<1>4. k <= f + l + 3
  <2> HIDE DEF b, f, l, k
  <2> SUFFICES ASSUME f + l + 3 < k PROVE FALSE
    BY <1>1, <1>2, <1>3
  <2>0. l + 3 \in Nat /\ f + (l + 3) = f + l + 3
    BY <1>2
  <2>1. f + l + 3 \in 0 .. k - 1 /\ At(b, f + l + 3) = \h90
    <3>1. At(b, f + (l + 3)) = \h90
      BY <1>1, <1>2, <2>0
    <3> QED BY <1>2, <1>3, <2>0, <3>1
  <2>2. IsPrefix(\h90)
    BY <1>3, <2>1 DEF IsFirst
  <2> QED BY <2>2 DEF IsPrefix, IsRex
<1>5. DecodeGeneral(b).length \in 0 .. k + 14
  <2> DEFINE o == Opcode(b)
             s == AddressSize(At(b, o.next))
             imm == ImmSize(o, Rex(b))
             has == HasModRM(o)
             n == DecodeGeneral(b).length
  <2>1. /\ n = o.next + (IF has THEN s ELSE 0) + imm
        /\ o.next \in Nat /\ s \in 1 .. 6 /\ imm \in {0, 1, 2, 4, 8}
    BY <1>1, GeneralIs
  <2>2. o.next \in k + 1 .. k + 4 /\ o.op \in Octets
    BY <1>1, OpcodeType
  <2>3. has => imm \in {0, 1, 2, 4}
    <3> SUFFICES ASSUME has, o.op \in \hB8 .. \hBF PROVE imm \in {0, 1, 2, 4}
      BY <2>2, ImmSizes
    <3>1. o.op \notin ModRMLookup
      BY DEF ModRMLookup
    <3>2. o.op2 # 0
      BY <3>1 DEF HasModRM
    <3>3. o.op = 0
      BY <3>2 DEF Opcode, Codes
    <3> QED BY <3>3
  <2>4. k \in Nat
    BY <1>1, <1>3
  <2> DEFINE next == o.next
  <2>5. next \in k + 1 .. k + 4
    BY <2>2
  <2>6. (has => n = next + s + imm) /\ (~has => n = next + 0 + imm)
    BY <2>1, Zenon
  <2> HIDE DEF o, s, imm, has, n, next, k, b, f, l
  <2>7. CASE has
    <3>1. s \in 1 .. 6 /\ imm \in 0 .. 4 /\ n = next + s + imm
      BY <2>1, <2>3, <2>6, <2>7
    <3> QED BY <2>4, <2>5, <3>1 DEF n
  <2>8. CASE ~has
    <3>1. imm \in 0 .. 8 /\ n = next + 0 + imm
      BY <2>1, <2>6, <2>8
    <3> QED BY <2>4, <2>5, <3>1 DEF n
  <2> QED BY <2>7, <2>8
<1>6. CASE IsFast(b)
  <2>1. Skip(b) \in {0, 1} /\ Decode(b) = DecodeFast(b)
    BY <1>1, <1>6, SkipType DEF Decode
  <2> DEFINE n == DecodeFast(b).length
  <2>2. n \in {1, 2, 3, 5, 6} \/ n = Skip(b) + 2 \/ n \in Skip(b) + 2 .. Skip(b) + 7
    BY <1>1, <1>6, FastLength DEF IsFast
  <2>3. Decode(b).length = n
    BY <2>1
  <2> DEFINE s == Skip(b)
  <2>4. s \in {0, 1}
    BY <2>1
  <2> HIDE DEF n, s
  <2>5. n \in 0 .. 8
    BY <2>2, <2>4 DEF s
  <2> HIDE DEF b, f, l, k
  <2>6. Len(b) \in Nat /\ Len(b) >= 18
    BY <1>1, <1>2
  <2> QED BY <2>3, <2>5, <2>6
<1>7. CASE ~IsFast(b)
  <2> DEFINE n == DecodeGeneral(b).length
  <2>1. Decode(b).length = n
    BY <1>7 DEF Decode
  <2>2. n \in 0 .. k + 14
    BY <1>5
  <2> HIDE DEF b, f, l, k, n
  <2>3. n \in 0 .. Len(b)
    BY <1>1, <1>2, <1>3, <1>4, <2>2
  <2> QED BY <2>1, <2>3
<1> QED BY <1>6, <1>7

(* The decoder of rosetta_x86_decode.c looks at the bytes of the            *)
(* instruction and at none behind it, for all prefixes, ModR/M and SIB      *)
(* bytes.                                                                   *)
THEOREM NoByteBehind == CheckSpec => []LooksNoFurther
<1>1. Result => LooksNoFurther
  <2> SUFFICES ASSUME Result, Decoded
               PROVE  insn = Decode(SubSeq(BytesOf(code), 1, insn.length) \o <<\hFF, \hFF, \hFF>>)
    BY DEF LooksNoFurther
  <2> DEFINE b == BytesOf(code)
             n == insn.length
             h == SubSeq(b, 1, n)
             t == <<\hFF, \hFF, \hFF>>
  <2>1. insn = Decode(b) /\ code \in Instructions
    BY DEF Result, Decoded
  <2>2. b \in Seq(Octets) /\ n \in 0 .. Len(b)
    BY <2>1, BytesAre, DecodedWithin
  <2>3. t \in Seq(Octets)
    BY DEF Octets
  <2> HIDE DEF b, n, t
  <2>4. h \in Seq(Octets) /\ Len(h) = n /\ \A j \in 1 .. n : h[j] = b[j]
    BY <2>2
  <2> HIDE DEF h
  <2>5. /\ h \o t \in Seq(Octets)
        /\ \A j \in Nat : At(h \o t, j) = IF j < Len(h) THEN At(h, j) ELSE At(t, j - Len(h))
    BY <2>3, <2>4, ConcatIs
  <2>6. Agree(b, h \o t, n)
    <3> SUFFICES ASSUME NEW j \in Nat, j < n PROVE At(b, j) = At(h \o t, j)
      BY DEF Agree
    <3>1. At(h \o t, j) = At(h, j)
      BY <2>4, <2>5
    <3>2. j < Len(b) /\ j < Len(h) /\ h[j + 1] = b[j + 1]
      BY <2>2, <2>4
    <3> QED BY <3>1, <3>2 DEF At
  <2>7. Decode(h \o t) = Decode(b)
    BY <2>1, <2>2, <2>5, <2>6, DecodingIsLocal DEF n
  <2> QED BY <2>1, <2>7 DEF b, n, h, t
<1> QED BY <1>1, ResultHolds, PTL

-----------------------------------------------------------------------------
(* The decoder in a memory.                                                 *)
From(m, n, a) == [j \in 1 .. n - a |-> m[a + j - 1]]
Held(m, n, a) == a .. a + Decode(From(m, n, a)).length - 1

(* What the cache of rosetta_insn_cache.c needs of a decoder, DecodeIsLocal *)
(* of InsnCache, holds of the one in rosetta_x86_decode.c: a write behind   *)
(* or in front of an instruction changes neither what it is decoded to nor  *)
(* which bytes it holds.                                                    *)
THEOREM WritesElsewhere ==
  ASSUME NEW n \in Nat, NEW m \in [0 .. n - 1 -> Octets],
         NEW a \in 0 .. n - 1, NEW h \in 0 .. n - 1, NEW v \in Octets, h \notin Held(m, n, a)
  PROVE  LET new == [m EXCEPT ![h] = v] IN
         /\ Decode(From(new, n, a)) = Decode(From(m, n, a))
         /\ Held(new, n, a) = Held(m, n, a)
<1> DEFINE new == [m EXCEPT ![h] = v]
           b == From(m, n, a)
           c == From(new, n, a)
<1>1. new \in [0 .. n - 1 -> Octets]
  OBVIOUS
<1>2. ASSUME NEW f \in [0 .. n - 1 -> Octets]
      PROVE  /\ From(f, n, a) \in Seq(Octets)
             /\ \A j \in Nat : At(From(f, n, a), j) = IF a + j < n THEN f[a + j] ELSE 0
  <2> DEFINE s == From(f, n, a)
  <2>1. s \in Seq(Octets) /\ Len(s) = n - a /\ \A j \in 1 .. n - a : s[j] = f[a + j - 1]
    BY DEF From
  <2> HIDE DEF s
  <2>2. \A j \in Nat : At(s, j) = IF a + j < n THEN f[a + j] ELSE 0
    BY <2>1 DEF At
  <2> QED BY <2>1, <2>2 DEF s
<1>3. b \in Seq(Octets) /\ \A j \in Nat : At(b, j) = IF a + j < n THEN m[a + j] ELSE 0
  BY <1>2
<1>4. c \in Seq(Octets) /\ \A j \in Nat : At(c, j) = IF a + j < n THEN new[a + j] ELSE 0
  BY <1>1, <1>2
<1> DEFINE l == Decode(b).length
<1>5. Decode(c) = Decode(b)
  <2>1. \A j \in Nat : j < l => a + j # h
    <3>1. l \in Int
      BY <1>3, DecodedLength
    <3>2. h \notin a .. a + l - 1
      BY DEF Held
    <3> HIDE DEF l
    <3> QED BY <3>1, <3>2
  <2>2. Agree(b, c, l)
    <3> HIDE DEF b, c, l
    <3> SUFFICES ASSUME NEW j \in Nat, j < l PROVE At(b, j) = At(c, j)
      BY DEF Agree
    <3>1. a + j # h
      BY <2>1
    <3>2. a + j < n => new[a + j] = m[a + j]
      BY <3>1
    <3> QED BY <1>3, <1>4, <3>2
  <2> QED BY <1>3, <1>4, <2>2, DecodingIsLocal
<1>6. Held(new, n, a) = Held(m, n, a)
  BY <1>5 DEF Held
<1> QED BY <1>5, <1>6

-----------------------------------------------------------------------------
(* The lengths.  What the tables of the decoder and the opcode maps of the  *)
(* manual make of an opcode is written as a choice in a fixed order, so     *)
(* that the two can be compared opcode by opcode.                           *)
LEMMA ImmSizeIs ==
  ASSUME NEW x \in Octets, NEW rex, NEW n
  PROVE  ImmSize(Codes(x, 0, 0, n), rex) =
           IF x \in \hB8 .. \hBF THEN IF Bit(rex, 3) = 1 THEN 8 ELSE 4
           ELSE IF IsEaxImm(x) THEN IF x % 2 = 1 THEN 4 ELSE 1
           ELSE IF x \in Imm32Ops THEN 4
           ELSE IF x \in Imm8Ops THEN 1
           ELSE IF x \in {\hC2, \hCA} THEN 2
           ELSE IF x \in \hB0 .. \hB7 THEN IF Bit(rex, 3) = 1 THEN 0 ELSE 1
           ELSE 0
<1> DEFINE c == Codes(x, 0, 0, n)
<1>1. c.op = x /\ c.op2 = 0 /\ c.op3 = 0
  BY DEF Codes
<1>2. x \in Int /\ 0 <= x
  BY DEF Octets
<1>3. /\ x \in \hB8 .. \hBF => ~IsEaxImm(x) /\ x \notin Imm32Ops /\ x \notin Imm8Ops
                               /\ x \notin {\hC2, \hCA} /\ x \notin \hB0 .. \hB7
      /\ IsEaxImm(x) => x \notin Imm32Ops /\ x \notin Imm8Ops
                        /\ x \notin {\hC2, \hCA} /\ x \notin \hB0 .. \hB7
      /\ x \in Imm32Ops => x \notin Imm8Ops /\ x \notin {\hC2, \hCA} /\ x \notin \hB0 .. \hB7
      /\ x \in Imm8Ops => x \notin {\hC2, \hCA} /\ x \notin \hB0 .. \hB7
      /\ x \in {\hC2, \hCA} => x \notin \hB0 .. \hB7
  BY <1>2 DEF IsEaxImm, Imm32Ops, Imm8Ops
<1>4. 0 \notin Imm8Ops2
  BY DEF Imm8Ops2
<1> HIDE DEF c
<1>5. ImmSize(c, rex) =
           IF x \in \hB8 .. \hBF THEN IF Bit(rex, 3) = 1 THEN 8 ELSE 4
           ELSE IF IsEaxImm(x) THEN IF x % 2 = 1 THEN 4 ELSE 1
           ELSE IF x \in Imm32Ops THEN 4
           ELSE IF x \in Imm8Ops THEN 1
           ELSE IF x \in {\hC2, \hCA} THEN 2
           ELSE IF x \in \hB0 .. \hB7 THEN IF Bit(rex, 3) = 1 THEN 0 ELSE 1
           ELSE 0
  BY <1>1, <1>3, <1>4 DEF ImmSize
<1> QED BY <1>5 DEF c

(* The immediate of an opcode of several bytes.                             *)
LEMMA ImmSize2 ==
  ASSUME NEW y, NEW z, NEW rex, NEW n
  PROVE  ImmSize(Codes(0, y, z, n), rex) =
           IF y \in Imm8Ops2 \/ (y = \h3A /\ z # 0) THEN 1 ELSE 0
<1> DEFINE c == Codes(0, y, z, n)
<1>1. c.op = 0 /\ c.op2 = y /\ c.op3 = z
  BY DEF Codes
<1>2. 0 \notin \hB8 .. \hBF /\ 0 \notin Imm32Ops /\ 0 \notin Imm8Ops /\ 0 \notin {\hC2, \hCA}
      /\ 0 \notin \hB0 .. \hB7
  BY DEF Imm32Ops, Imm8Ops
<1>3. ~IsEaxImm(0)
  BY Bits DEF IsEaxImm, Octets
<1> HIDE DEF c
<1>4. ImmSize(c, rex) = IF y \in Imm8Ops2 \/ (y = \h3A /\ z # 0) THEN 1 ELSE 0
  BY <1>1, <1>2, <1>3 DEF ImmSize
<1> QED BY <1>4 DEF c

(* The manual, by opcode map. *)
OneImmediate(x, z, wide, reg) ==
  IF x <= \h3F THEN IF x % 8 = 4 THEN 1 ELSE IF x % 8 = 5 THEN z ELSE 0
  ELSE IF x \in {\h68, \h69, \h81, \hA9, \hC7} THEN z
  ELSE IF x \in {\h6A, \h6B, \h80, \h83, \hA8, \hC0, \hC1, \hC6, \hCD, \hEB} THEN 1
  ELSE IF x \in (\h70 .. \h7F) \union (\hB0 .. \hB7) \union (\hE0 .. \hE7) THEN 1
  ELSE IF x \in \hA0 .. \hA3 THEN 8
  ELSE IF x \in \hB8 .. \hBF THEN IF wide THEN 8 ELSE z
  ELSE IF x \in {\hC2, \hCA} THEN 2
  ELSE IF x = \hC8 THEN 3
  ELSE IF x \in {\hE8, \hE9} THEN 4
  ELSE IF x = \hF6 /\ reg < 2 THEN 1
  ELSE IF x = \hF7 /\ reg < 2 THEN z
  ELSE 0

(* The immediate the manual gives an opcode of one byte, as that choice.    *)
LEMMA ImmediateOne ==
  ASSUME NEW i, i.opcode.map = One, i.opcode.op \in Octets
  PROVE  Immediate(i) = OneImmediate(i.opcode.op, Z(i), Wide(i), Reg(i.modrm))
<1> DEFINE x == i.opcode.op
           z == Z(i)
           w == Wide(i)
           r == Reg(i.modrm)
<1>1. Immediate(i) =
      (CASE x <= \h3F -> IF x % 8 = 4 THEN 1 ELSE IF x % 8 = 5 THEN z ELSE 0
         [] x \in {\h68, \h69, \h81, \hA9, \hC7} -> z
         [] x \in {\h6A, \h6B, \h80, \h83, \hA8, \hC0, \hC1, \hC6, \hCD, \hEB} -> 1
         [] x \in (\h70 .. \h7F) \union (\hB0 .. \hB7) \union (\hE0 .. \hE7) -> 1
         [] x \in \hA0 .. \hA3 -> 8
         [] x \in \hB8 .. \hBF -> IF w THEN 8 ELSE z
         [] x \in {\hC2, \hCA} -> 2
         [] x = \hC8 -> 3
         [] x \in {\hE8, \hE9} -> 4
         [] x = \hF6 /\ r < 2 -> 1
         [] x = \hF7 /\ r < 2 -> z
         [] OTHER -> 0)
  BY MapBytes DEF Immediate, One
<1>2. x \in Int
  BY OctetIsInt
<1> HIDE DEF x, z, w, r
<1>3. Immediate(i) = OneImmediate(x, z, w, r)
  BY <1>1, <1>2 DEF OneImmediate
<1> QED BY <1>3 DEF x, z, w, r

(* The ModR/M byte the manual gives an opcode, by map.                      *)
LEMMA NeedsModRMIs ==
  ASSUME NEW i
  PROVE  LET x == i.opcode.op IN
         /\ i.opcode.map = One =>
              (NeedsModRM(i) <=>
                 \/ (x <= \h3F /\ x % 8 < 4)
                 \/ x \in (\h80 .. \h8F) \union (\hD0 .. \hD3) \union (\hD8 .. \hDF)
                 \/ x \in {\h63, \h69, \h6B, \hC0, \hC1, \hC6, \hC7, \hF6, \hF7, \hFE, \hFF})
         /\ i.opcode.map = Two =>
              (NeedsModRM(i) <=>
                 x \notin (\h05 .. \h0B) \union (\h30 .. \h37) \union (\h80 .. \h8F)
                  \union (\hA0 .. \hA2) \union (\hA8 .. \hAA) \union (\hC8 .. \hCF) \union {\h77})
         /\ i.opcode.map \notin {One, Two} =>
              (NeedsModRM(i) <=> ~(i.opcode.map[1] = \hC5 /\ x = \h77))
<1>1. One # Two
  BY MapsApart
<1> DEFINE x == i.opcode.op
           m == i.opcode.map
           A == \/ (x <= \h3F /\ x % 8 < 4)
                \/ x \in (\h80 .. \h8F) \union (\hD0 .. \hD3) \union (\hD8 .. \hDF)
                \/ x \in {\h63, \h69, \h6B, \hC0, \hC1, \hC6, \hC7, \hF6, \hF7, \hFE, \hFF}
           B == x \notin (\h05 .. \h0B) \union (\h30 .. \h37) \union (\h80 .. \h8F)
                  \union (\hA0 .. \hA2) \union (\hA8 .. \hAA) \union (\hC8 .. \hCF) \union {\h77}
           C == ~(m[1] = \hC5 /\ x = \h77)
<1>2. NeedsModRM(i) = CASE m = One -> A [] m = Two -> B [] OTHER -> C
  BY DEF NeedsModRM, One, Two
<1> HIDE DEF x, m, A, B, C
<1>3. (m = One => NeedsModRM(i) = A) /\ (m = Two => NeedsModRM(i) = B)
      /\ (m \notin {One, Two} => NeedsModRM(i) = C)
  BY <1>1, <1>2, Zenon
<1>4. m = One => (NeedsModRM(i) <=> A)
  BY <1>3
<1>5. m = Two => (NeedsModRM(i) <=> B)
  BY <1>3
<1>6. m \notin {One, Two} => (NeedsModRM(i) <=> C)
  BY <1>3
<1>7. i.opcode.map = One =>
        (NeedsModRM(i) <=>
           \/ (x <= \h3F /\ x % 8 < 4)
           \/ x \in (\h80 .. \h8F) \union (\hD0 .. \hD3) \union (\hD8 .. \hDF)
           \/ x \in {\h63, \h69, \h6B, \hC0, \hC1, \hC6, \hC7, \hF6, \hF7, \hFE, \hFF})
  BY <1>4, Zenon DEF m, A
<1>8. i.opcode.map = Two =>
        (NeedsModRM(i) <=>
           x \notin (\h05 .. \h0B) \union (\h30 .. \h37) \union (\h80 .. \h8F)
            \union (\hA0 .. \hA2) \union (\hA8 .. \hAA) \union (\hC8 .. \hCF) \union {\h77})
  BY <1>5, Zenon DEF m, B
<1>9. i.opcode.map \notin {One, Two} =>
        (NeedsModRM(i) <=> ~(i.opcode.map[1] = \hC5 /\ x = \h77))
  BY <1>6, Zenon DEF m, C
<1> QED BY <1>7, <1>8, <1>9, ZenonT(40) DEF x

(* The prefixes of an instruction end where its opcode begins.              *)
LEMMA PrefixesRight ==
  ASSUME NEW i \in Instructions, ~IsPrefix(At(Body(i), 0))
  PROVE  /\ Prefixes(BytesOf(i)) = Len(Front(i)) /\ Len(Front(i)) \in Nat
         /\ Wide(i) <=> Bit(Rex(BytesOf(i)), 3) = 1
<1> DEFINE b == BytesOf(i)
           f == Len(Front(i))
           l == Len(i.legacy)
<1>1. /\ b \in Seq(Octets) /\ Len(b) = f + Len(i.opcode.map) + 18
      /\ \A j \in 0 .. f - 1 : At(b, j) = At(Front(i), j)
      /\ \A j \in Nat : At(b, f + j) = At(Body(i), j)
  BY BytesAre
<1>2. Front(i) \in Seq(Octets) /\ f = l + Len(i.rex)
  BY FrontIs
<1>3. f \in Nat
  <2> DEFINE s == Front(i)
  <2>1. s \in Seq(Octets)
    BY <1>2
  <2> HIDE DEF s
  <2>2. Len(s) \in Nat
    BY <2>1
  <2> QED BY <2>2 DEF s
<1>4. \A j \in 0 .. f - 1 : IsPrefix(At(Front(i), j))
  BY FrontIs
<1>5. Len(i.opcode.map) \in 0 .. 3
  BY BodyIs
<1>6. Prefixes(b) = f
  <2> DEFINE ll == Len(i.opcode.map)
  <2>1. At(b, f + 0) = At(Body(i), 0)
    BY <1>1
  <2> HIDE DEF b, f, ll
  <2>2. f \in 0 .. Len(b) /\ f + 0 = f
    <3>1. ll \in 0 .. 3 /\ Len(b) = f + ll + 18
      BY <1>1, <1>5 DEF ll
    <3> QED BY <1>3, <3>1
  <2>3. IsFirst(b, f)
    BY <1>1, <1>4, <2>1, <2>2 DEF IsFirst
  <2> QED BY <1>1, <2>2, <2>3, PrefixesAre
<1>7. Wide(i) <=> Bit(Rex(b), 3) = 1
  <2> DEFINE R == {j \in 0 .. f - 1 : IsRex(At(b, j))}
  <2>1. Rex(b) = IF R = {} THEN 0 ELSE At(b, CHOOSE j \in R : \A h \in R : j <= h)
    BY <1>6 DEF Rex
  <2>2. i.legacy \in Seq(LegacyBytes) /\ i.rex \in {<<>>} \union {<<x>> : x \in \h40 .. \h4F}
    BY Parts
  <2>3. /\ i.legacy \in Seq(Octets) /\ i.rex \in Seq(Octets) /\ l \in Nat
        /\ i.rex # <<>> => Len(i.rex) = 1 /\ IsRex(i.rex[1])
        /\ i.rex = <<>> => Len(i.rex) = 0
    BY <2>2, FrontParts
  <2>4. \A j \in Nat : At(Front(i), j) = IF j < l THEN At(i.legacy, j) ELSE At(i.rex, j - l)
    BY <2>3, ConcatIs DEF Front
  <2>5. \A j \in Nat : j < l => ~IsRex(At(i.legacy, j))
    <3> DEFINE s == i.legacy
    <3> SUFFICES ASSUME NEW j \in Nat, j < Len(s) PROVE ~IsRex(At(s, j))
      OBVIOUS
    <3>1. s \in Seq(LegacyBytes)
      BY <2>2
    <3> HIDE DEF s
    <3>2. j + 1 \in 1 .. Len(s)
      BY <3>1
    <3>3. s[j + 1] \in LegacyBytes
      BY <3>1, <3>2, ElementOfSeq
    <3>4. At(s, j) \in LegacyBytes
      BY <3>3 DEF At
    <3>5. \A y \in LegacyBytes : ~IsRex(y)
      BY DEF LegacyBytes, IsRex
    <3> QED BY <3>4, <3>5
  <2>6. CASE i.rex = <<>>
    <3>1. ~Wide(i)
      BY <2>6 DEF Wide
    <3>2. Len(i.rex) = 0
      BY <2>3, <2>6
    <3> DEFINE lr == Len(i.rex)
    <3> HIDE DEF l, f, b, lr
    <3>3. f = l
      BY <1>2, <2>3, <3>2 DEF lr
    <3>4. R = {}
      <4> SUFFICES ASSUME NEW j \in 0 .. f - 1 PROVE ~IsRex(At(b, j))
        OBVIOUS
      <4>1. j \in Nat /\ j < l
        BY <1>3, <3>3
      <4>2. At(b, j) = At(i.legacy, j)
        BY <1>1, <2>4, <4>1
      <4> QED BY <2>5, <4>1, <4>2
    <3>5. Rex(b) = 0
      BY <2>1, <3>4
    <3>6. Bit(0, 3) = 0
      BY Bits DEF Octets
    <3> QED BY <3>1, <3>5, <3>6 DEF b
  <2>7. CASE i.rex # <<>>
    <3>1. Len(i.rex) = 1 /\ IsRex(i.rex[1])
      BY <2>3, <2>7
    <3> DEFINE lr == Len(i.rex)
               r == i.rex[1]
    <3>2. Wide(i) <=> Bit(r, 3) = 1
      BY <2>7 DEF Wide
    <3>3. At(i.rex, 0) = r
      BY <3>1 DEF At
    <3> HIDE DEF l, f, b, lr, r
    <3>4. f = l + 1
      BY <1>2, <2>3, <3>1 DEF lr
    <3>5. At(b, l) = r
      <4>1. l \in 0 .. f - 1 /\ l \in Nat /\ ~(l < l) /\ l - l = 0
        BY <2>3, <3>4
      <4>2. At(b, l) = At(Front(i), l)
        BY <1>1, <4>1
      <4>3. At(Front(i), l) = At(i.rex, l - l)
        BY <2>4, <4>1
      <4> QED BY <3>3, <4>1, <4>2, <4>3
    <3>6. R = {l}
      <4>1. l \in R
        BY <2>3, <3>1, <3>4, <3>5 DEF r
      <4>2. ASSUME NEW j \in R PROVE j = l
        <5> SUFFICES ASSUME j # l PROVE FALSE
          OBVIOUS
        <5>1. j \in Nat /\ j < l /\ j \in 0 .. f - 1 /\ IsRex(At(b, j))
          BY <2>3, <3>4
        <5>2. At(b, j) = At(i.legacy, j)
          BY <1>1, <2>4, <5>1
        <5> QED BY <2>5, <5>1, <5>2
      <4> QED BY <4>1, <4>2
    <3>7. (CHOOSE j \in {l} : \A h \in {l} : j <= h) = l
      BY <2>3
    <3>8. Rex(b) = r
      BY <2>1, <3>5, <3>6, <3>7
    <3> QED BY <3>2, <3>8 DEF b
  <2> QED BY <2>6, <2>7
<1> QED BY <1>3, <1>6, <1>7

(* The instructions whose opcode the decoder finds. *)
Found(i) == i.opcode.map # Vex3 /\ ~(i.opcode.map = One /\ i.opcode.op = \h63)

(* opcode, opcode2 and opcode3 of an instruction, by its map. *)
CodesOf(i, n) ==
  LET m == i.opcode.map
      x == i.opcode.op
  IN  IF m = One THEN Codes(x, 0, 0, n)
      ELSE IF m = Three8 THEN Codes(0, \h38, x, n)
      ELSE IF m = ThreeA THEN Codes(0, \h3A, x, n)
      ELSE Codes(0, x, 0, n)

(* The opcode is found, and the ModR/M byte behind it.                      *)
LEMMA OpcodeRight ==
  ASSUME NEW i \in Instructions, Found(i)
  PROVE  LET b == BytesOf(i)
             n == Len(Front(i)) + Len(i.opcode.map) + 1
         IN  /\ Opcode(b) = CodesOf(i, n)
             /\ At(b, n) = i.modrm
             /\ Wide(i) <=> Bit(Rex(b), 3) = 1
<1> DEFINE b == BytesOf(i)
           f == Len(Front(i))
           m == i.opcode.map
           x == i.opcode.op
<1>1. \A j \in Nat : At(b, f + j) = At(Body(i), j)
  BY BytesAre
<1>2. Len(m) \in 0 .. 3 /\ \A j \in 0 .. Len(m) - 1 : At(Body(i), j) = m[j + 1]
  BY BodyIs
<1>3. At(Body(i), Len(m)) = x /\ At(Body(i), Len(m) + 1) = i.modrm
  BY BodyIs
<1>4. Listed(m, x) /\ m \in Maps /\ x \in Octets
  BY Parts, OpcodesAre DEF Listed
<1>5. /\ m = One => At(Body(i), 0) = x
      /\ m # One => At(Body(i), 0) = m[1]
  BY FirstByte
<1>6. m = One => x \notin {\h0F, \hC4, \hC5} /\ ~IsPrefix(x)
  <2> SUFFICES ASSUME m = One PROVE x \notin {\h0F, \hC4, \hC5} /\ ~IsPrefix(x)
    OBVIOUS
  <2>1. x \in OneByte /\ x # \h63
    BY <1>4 DEF Listed, Found
  <2> HIDE DEF x
  <2> QED BY <2>1 DEF OneByte, IsPrefix, IsRex
<1>7. ~IsPrefix(At(Body(i), 0))
  <2>1. CASE m = One
    BY <1>5, <1>6, <2>1
  <2>2. CASE m # One
    <3>1. m[1] \in {\h0F, \hC4, \hC5}
      BY <1>4, <2>2, MapFirst
    <3>2. ~IsPrefix(\h0F) /\ ~IsPrefix(\hC4) /\ ~IsPrefix(\hC5)
      BY DEF IsPrefix, IsRex
    <3> QED BY <1>5, <2>2, <3>1, <3>2
  <2> QED BY <2>1, <2>2
<1>8. Prefixes(b) = f /\ f \in Nat /\ (Wide(i) <=> Bit(Rex(b), 3) = 1)
  BY <1>7, PrefixesRight
<1>9. At(b, f + Len(m) + 1) = i.modrm
  <2> DEFINE l == Len(m)
  <2>1. At(b, f + (l + 1)) = At(Body(i), l + 1)
    <3>1. l + 1 \in Nat
      BY <1>2
    <3> QED BY <1>1, <3>1
  <2>2. l \in 0 .. 3
    BY <1>2
  <2> HIDE DEF l, f, b
  <2>3. f + (l + 1) = f + l + 1
    BY <1>8, <2>2
  <2> QED BY <1>3, <2>1, <2>3 DEF l
<1> DEFINE q == [j \in 0 .. 3 |-> At(Body(i), j)]
<1>10. At(b, f) = q[0] /\ At(b, f + 1) = q[1] /\ At(b, f + 2) = q[2] /\ At(b, f + 3) = q[3]
  <2> HIDE DEF b, f
  <2>1. At(b, f + 0) = At(Body(i), 0) /\ At(b, f + 1) = At(Body(i), 1)
        /\ At(b, f + 2) = At(Body(i), 2) /\ At(b, f + 3) = At(Body(i), 3)
    BY <1>1
  <2>2. f + 0 = f
    BY <1>8
  <2> QED BY <2>1, <2>2
<1>11. /\ \A j \in 0 .. Len(m) - 1 : q[j] = m[j + 1]
       /\ q[Len(m)] = x
  <2> DEFINE l == Len(m)
  <2>1. l \in 0 .. 3 /\ (\A j \in 0 .. l - 1 : At(Body(i), j) = m[j + 1]) /\ At(Body(i), l) = x
    BY <1>2, <1>3
  <2>2. \A j \in 0 .. 3 : q[j] = At(Body(i), j)
    OBVIOUS
  <2> HIDE DEF l, q, m, x
  <2>3. \A j \in 0 .. l - 1 : j \in 0 .. 3
    BY <2>1
  <2>4. (\A j \in 0 .. l - 1 : q[j] = m[j + 1]) /\ q[l] = x
    BY <2>1, <2>2, <2>3
  <2> QED BY <2>4 DEF l
<1> HIDE DEF q
<1>12. Opcode(b) =
         CASE q[0] = \hC5 -> Codes(0, q[2], 0, f + 3)
           [] q[0] = \hC4 -> IF q[1] % 32 \in 1 .. 3 THEN Codes(0, q[3], 0, f + 4)
                             ELSE Codes(q[3], 0, 0, f + 4)
           [] q[0] = \h0F -> IF q[1] \in {\h38, \h3A} THEN Codes(0, q[1], q[2], f + 3)
                             ELSE Codes(0, q[1], 0, f + 2)
           [] OTHER -> Codes(q[0], 0, 0, f + 1)
  BY <1>8, <1>10, ZenonT(40) DEF Opcode
<1> HIDE DEF b, f, x
<1> SUFFICES Opcode(b) = CodesOf(i, f + Len(m) + 1)
  BY <1>8, <1>9 DEF b, f
<1>13. CodesOf(i, f + Len(m) + 1) =
         IF m = One THEN Codes(x, 0, 0, f + Len(m) + 1)
         ELSE IF m = Three8 THEN Codes(0, \h38, x, f + Len(m) + 1)
         ELSE IF m = ThreeA THEN Codes(0, \h3A, x, f + Len(m) + 1)
         ELSE Codes(0, x, 0, f + Len(m) + 1)
  BY DEF CodesOf, x
<1> HIDE DEF m
<1>14. CASE m = One
  <2>1. q[0] = x /\ f + Len(m) + 1 = f + 1
    BY <1>8, <1>11, <1>14, MapBytes
  <2> QED BY <1>6, <1>12, <1>13, <1>14, <2>1
<1>15. CASE m = Two
  <2>1. q[0] = \h0F /\ q[1] = x /\ f + Len(m) + 1 = f + 2
    BY <1>8, <1>11, <1>15, MapBytes
  <2>2. x \notin {\h38, \h3A}
    <3>1. x \in TwoByte
      BY <1>4, <1>15 DEF Listed
    <3> QED BY <3>1 DEF TwoByte
  <2> QED BY <1>12, <1>13, <1>15, <2>1, <2>2, MapsApart
<1>16. CASE m = Three8
  <2>1. q[0] = \h0F /\ q[1] = \h38 /\ q[2] = x /\ f + Len(m) + 1 = f + 3
    BY <1>8, <1>11, <1>16, MapBytes
  <2> QED BY <1>12, <1>13, <1>16, <2>1, MapsApart
<1>17. CASE m = ThreeA
  <2>1. q[0] = \h0F /\ q[1] = \h3A /\ q[2] = x /\ f + Len(m) + 1 = f + 3
    BY <1>8, <1>11, <1>17, MapBytes
  <2> QED BY <1>12, <1>13, <1>17, <2>1, MapsApart
<1>18. CASE m = Vex5
  <2>1. q[0] = \hC5 /\ q[2] = x /\ f + Len(m) + 1 = f + 3
    BY <1>8, <1>11, <1>18, MapBytes
  <2> QED BY <1>12, <1>13, <1>18, <2>1, MapsApart
<1>19. CASE m \in {Vex1, Vex2}
  <2>0. Len(m) = 3 /\ m[1] = \hC4 /\ m[2] \in {\hE1, \hE2}
    <3>1. CASE m = Vex1
      BY <3>1, MapBytes
    <3>2. CASE m = Vex2
      BY <3>2, MapBytes
    <3> QED BY <1>19, <3>1, <3>2
  <2>1. q[0] = \hC4 /\ q[1] \in {\hE1, \hE2} /\ q[3] = x /\ f + Len(m) + 1 = f + 4
    BY <1>8, <1>11, <2>0
  <2>2. q[1] % 32 \in 1 .. 3
    BY <2>1
  <2> QED BY <1>12, <1>13, <1>19, <2>1, <2>2, MapsApart
<1>20. m # Vex3
  BY DEF Found, m
<1> QED BY <1>4, <1>14, <1>15, <1>16, <1>17, <1>18, <1>19, <1>20 DEF Maps

(* ModR/M byte, SIB byte and displacement are as long as AddressSize has    *)
(* it, unless there is a SIB byte without base.                             *)
LEMMA OperandRight ==
  ASSUME NEW i, i.modrm \in Octets, ~(Mod(i.modrm) = 0 /\ HasSib(i) /\ i.sib % 8 = 5)
  PROVE  Operand(i) = AddressSize(i.modrm)
<1> DEFINE m == i.modrm
           md == Mod(m)
           rm == Rm(m)
           nobase == i.sib % 8 = 5
<1>1. md \in 0 .. 3 /\ rm \in 0 .. 7
  BY Fields3
<1>2. HasSib(i) <=> md # 3 /\ rm = 4
  BY DEF HasSib
<1>3. Operand(i) =
        1 + (IF HasSib(i) THEN 1 ELSE 0)
          + (IF md = 1 THEN 1
             ELSE IF \/ md = 2
                     \/ md = 0 /\ rm = 5
                     \/ md = 0 /\ HasSib(i) /\ nobase
                  THEN 4 ELSE 0)
  BY DEF Operand
<1>4. AddressSize(m) =
        1 + (IF md # 3 /\ rm = 4 THEN 1 ELSE 0)
          + CASE md = 0 -> IF rm = 5 THEN 4 ELSE 0
              [] md = 1 -> 1
              [] md = 2 -> 4
              [] md = 3 -> 0
  BY DEF AddressSize
<1>5. ~(md = 0 /\ HasSib(i) /\ nobase)
  OBVIOUS
<1> HIDE DEF m, md, rm, nobase
<1>6. Operand(i) = AddressSize(m)
  <2>1. CASE md = 0
    <3>1. AddressSize(m) = 1 + (IF rm = 4 THEN 1 ELSE 0) + (IF rm = 5 THEN 4 ELSE 0)
      BY <1>4, <2>1
    <3>2. Operand(i) = 1 + (IF rm = 4 THEN 1 ELSE 0) + (IF rm = 5 THEN 4 ELSE 0)
      BY <1>1, <1>2, <1>3, <1>5, <2>1
    <3> QED BY <3>1, <3>2
  <2>2. CASE md = 1
    <3>1. AddressSize(m) = 1 + (IF rm = 4 THEN 1 ELSE 0) + 1
      BY <1>4, <2>2
    <3> QED BY <1>1, <1>2, <1>3, <2>2, <3>1
  <2>3. CASE md = 2
    <3>1. AddressSize(m) = 1 + (IF rm = 4 THEN 1 ELSE 0) + 4
      BY <1>4, <2>3
    <3> QED BY <1>1, <1>2, <1>3, <2>3, <3>1
  <2>4. CASE md = 3
    <3>1. AddressSize(m) = 1 + 0 + 0
      BY <1>4, <2>4
    <3> QED BY <1>1, <1>2, <1>3, <2>4, <3>1
  <2> QED BY <1>1, <2>1, <2>2, <2>3, <2>4
<1> QED BY <1>6 DEF m

(* What is not mishandled, by map. *)
LEMMA NotMishandled ==
  ASSUME NEW i, ~Mishandled(i)
  PROVE  LET x == i.opcode.op
             m == i.opcode.map
         IN  /\ NeedsModRM(i) => ~(Mod(i.modrm) = 0 /\ HasSib(i) /\ i.sib % 8 = 5)
             /\ ~BaseR12R13(i)
             /\ m = One =>
                  /\ ~(x <= \h3F /\ x % 8 \in {4, 5}) /\ x \notin {\hD7, \hF1, \hF4, \hF5}
                  /\ x \notin {\h63, \h6B, \hFE} \union (\hD8 .. \hDF)
                  /\ x \notin {\h80, \hA8, \hC6, \hC7, \hC8} \union (\hA0 .. \hA3)
                  /\ ~(x \in {\hF6, \hF7} /\ Reg(i.modrm) < 2)
                  /\ ~(x \in \hB0 .. \hB7 /\ Wide(i))
                  /\ ~(x \in {\h68, \h69, \h81, \hA9} \union (\hB8 .. \hBF) /\ Z(i) = 2)
             /\ m = Two =>
                  /\ x \notin (\h01 .. \h03) \union {\h0D} /\ x \notin ShiftedOut
                  /\ x \notin {\hA0, \hA8, \hA9, \h77} \union (\hC8 .. \hCF)
                  /\ x \notin {\hA4, \hAC} \union (\h71 .. \h73)
                  /\ x \in \h80 .. \h8F => i.legacy = <<>> /\ i.rex = <<>>
             /\ m = Vex5 => x # \h77
             /\ m = Vex2 => x # \h0C
             /\ m # Vex3
<1> DEFINE x == i.opcode.op
           m == i.opcode.map
           A == NeedsModRM(i) /\ Mod(i.modrm) = 0 /\ HasSib(i) /\ i.sib % 8 = 5
           A1 == x <= \h3F /\ x % 8 \in {4, 5}
           A2 == x \in {\hD7, \hF1, \hF4, \hF5}
           A3 == x \in {\h63, \h6B, \hFE} \union (\hD8 .. \hDF)
           A4 == x \in {\h80, \hA8, \hC6, \hC7, \hC8} \union (\hA0 .. \hA3)
           A5 == x \in {\hF6, \hF7} /\ Reg(i.modrm) < 2
           A6 == x \in \hB0 .. \hB7 /\ Wide(i)
           A7 == x \in {\h68, \h69, \h81, \hA9} \union (\hB8 .. \hBF) /\ Z(i) = 2
           B1 == x \in (\h01 .. \h03) \union {\h0D}
           B2 == x \in ShiftedOut
           B3 == x \in {\hA0, \hA8, \hA9, \h77} \union (\hC8 .. \hCF)
           B4 == x \in {\hA4, \hAC} \union (\h71 .. \h73)
           B5 == x \in \h80 .. \h8F /\ (i.legacy # <<>> \/ i.rex # <<>>)
<1>1. Mishandled(i) <=>
        \/ A
        \/ BaseR12R13(i)
        \/ m = One /\ (A1 \/ A2 \/ A3 \/ A4 \/ A5 \/ A6 \/ A7)
        \/ m = Two /\ (B1 \/ B2 \/ B3 \/ B4 \/ B5)
        \/ m = Vex5 /\ x = \h77
        \/ m = Vex2 /\ x = \h0C
        \/ m = Vex3
  <2>1. Mishandled(i) =
        (\/ A
         \/ BaseR12R13(i)
         \/ m = One /\ ((A1 \/ A2) \/ A3 \/ A4 \/ A5 \/ A6 \/ A7)
         \/ m = Two /\ (B1 \/ B2 \/ B3 \/ B4 \/ B5)
         \/ m = Vex5 /\ x = \h77
         \/ m = Vex2 /\ x = \h0C
         \/ m = Vex3)
    BY DEF Mishandled, One, Two, Vex5, Vex2, Vex3
  <2> HIDE DEF x, m, A, A1, A2, A3, A4, A5, A6, A7, B1, B2, B3, B4, B5
  <2> QED BY <2>1
<1>2. /\ ~A /\ ~BaseR12R13(i)
      /\ m = One => ~A1 /\ ~A2 /\ ~A3 /\ ~A4 /\ ~A5 /\ ~A6 /\ ~A7
      /\ m = Two => ~B1 /\ ~B2 /\ ~B3 /\ ~B4 /\ ~B5
      /\ m = Vex5 => x # \h77
      /\ m = Vex2 => x # \h0C
      /\ m # Vex3
  <2> HIDE DEF x, m, A, A1, A2, A3, A4, A5, A6, A7, B1, B2, B3, B4, B5
  <2> QED BY <1>1
<1>3. NeedsModRM(i) => ~(Mod(i.modrm) = 0 /\ HasSib(i) /\ i.sib % 8 = 5)
  BY <1>2
<1>4. m = One =>
        /\ ~(x <= \h3F /\ x % 8 \in {4, 5}) /\ x \notin {\hD7, \hF1, \hF4, \hF5}
        /\ x \notin {\h63, \h6B, \hFE} \union (\hD8 .. \hDF)
        /\ x \notin {\h80, \hA8, \hC6, \hC7, \hC8} \union (\hA0 .. \hA3)
        /\ ~(x \in {\hF6, \hF7} /\ Reg(i.modrm) < 2)
        /\ ~(x \in \hB0 .. \hB7 /\ Wide(i))
        /\ ~(x \in {\h68, \h69, \h81, \hA9} \union (\hB8 .. \hBF) /\ Z(i) = 2)
  <2> SUFFICES ASSUME m = One
               PROVE  ~A1 /\ ~A2 /\ ~A3 /\ ~A4 /\ ~A5 /\ ~A6 /\ ~A7
    <3> HIDE DEF x, m
    <3> QED OBVIOUS
  <2> QED BY <1>2
<1>5. m = Two =>
        /\ x \notin (\h01 .. \h03) \union {\h0D} /\ x \notin ShiftedOut
        /\ x \notin {\hA0, \hA8, \hA9, \h77} \union (\hC8 .. \hCF)
        /\ x \notin {\hA4, \hAC} \union (\h71 .. \h73)
        /\ x \in \h80 .. \h8F => i.legacy = <<>> /\ i.rex = <<>>
  <2> SUFFICES ASSUME m = Two
               PROVE  ~B1 /\ ~B2 /\ ~B3 /\ ~B4 /\ ~B5
    <3> HIDE DEF x, m
    <3> QED OBVIOUS
  <2> QED BY <1>2
<1> QED BY <1>2, <1>3, <1>4, <1>5

(* The tables of the decoder know for every opcode that is not mishandled   *)
(* whether a ModR/M byte follows.                                           *)
LEMMA ModRMRight ==
  ASSUME NEW i \in Instructions, ~Mishandled(i), ~(i.opcode.map = Two /\ i.opcode.op \in \h80 .. \h8F),
         NEW n
  PROVE  HasModRM(CodesOf(i, n)) <=> NeedsModRM(i)
<1> DEFINE x == i.opcode.op
           m == i.opcode.map
           c == CodesOf(i, n)
<1>1. Listed(m, x) /\ m \in Maps /\ x \in Octets
  BY Parts, OpcodesAre DEF Listed
<1>2. x \in Int /\ 0 <= x /\ x <= 255
  <2> HIDE DEF x
  <2> QED BY <1>1 DEF Octets
<1>3. /\ m = One => c.op = x /\ c.op2 = 0
      /\ m = Three8 => c.op2 = \h38
      /\ m = ThreeA => c.op2 = \h3A
      /\ m \notin {One, Three8, ThreeA} => c.op = 0 /\ c.op2 = x
  BY MapsApart DEF CodesOf, Codes
<1>4. HasModRM(c) <=> IF c.op2 = 0 THEN c.op \in ModRMLookup ELSE c.op2 \in ModRM0FLookup
  BY DEF HasModRM
<1>5. CASE m = One
  <2>1. HasModRM(c) <=> x \in ModRMLookup
    BY <1>3, <1>4, <1>5
  <2>2. NeedsModRM(i) <=>
          \/ (x <= \h3F /\ x % 8 < 4)
          \/ x \in (\h80 .. \h8F) \union (\hD0 .. \hD3) \union (\hD8 .. \hDF)
          \/ x \in {\h63, \h69, \h6B, \hC0, \hC1, \hC6, \hC7, \hF6, \hF7, \hFE, \hFF}
    BY <1>5, NeedsModRMIs
  <2>3. /\ ~(x <= \h3F /\ x % 8 \in {4, 5}) /\ x \notin {\hD7, \hF1, \hF4, \hF5}
        /\ x \notin {\h63, \h6B, \hFE} \union (\hD8 .. \hDF)
        /\ x \notin {\h80, \hA8, \hC6, \hC7, \hC8} \union (\hA0 .. \hA3)
    BY <1>5, NotMishandled
  <2>4. x \in OneByte
    BY <1>1, <1>5 DEF Listed
  <2> SUFFICES HasModRM(c) <=> NeedsModRM(i)
    OBVIOUS
  <2> DEFINE h == HasModRM(c)
             nd == NeedsModRM(i)
  <2> SUFFICES h <=> nd
    OBVIOUS
  <2> HIDE DEF x, m, c
  <2>5. /\ x <= \h3F => x % 8 < 6
        /\ x \notin (\h40 .. \h4F) \union (\h60 .. \h62) \union (\h64 .. \h67)
        /\ x \notin {\h82, \h9A, \hC4, \hC5, \hCE, \hD4, \hD5, \hD6, \hEA, \hF0, \hF2, \hF3}
    BY <2>4 DEF OneByte
  <2>6. x <= \h3F => x % 8 \in 0 .. 7
    BY <1>2
  <2>7. CASE x <= \h3F
    <3>1. x % 8 < 4 /\ x \in ModRMLookup
      BY <1>2, <2>3, <2>5, <2>6, <2>7 DEF ModRMLookup
    <3> QED BY <2>1, <2>2, <2>7, <3>1
  <2>8. CASE x > \h3F
    <3>1. x \in ModRMLookup <=>
            \/ x \in (\h80 .. \h8F) \union (\hD0 .. \hD3) \union (\hD8 .. \hDF)
            \/ x \in {\h63, \h69, \h6B, \hC0, \hC1, \hC6, \hC7, \hF6, \hF7, \hFE, \hFF}
      BY <1>2, <2>3, <2>5, <2>8 DEF ModRMLookup
    <3>2. ~(x <= \h3F)
      BY <1>2, <2>8
    <3> QED BY <2>1, <2>2, <3>1, <3>2
  <2> QED BY <1>2, <2>7, <2>8
<1>6. CASE m = Two
  <2>1. HasModRM(c) <=> IF x = 0 THEN 0 \in ModRMLookup ELSE x \in ModRM0FLookup
    <3>1. c.op = 0 /\ c.op2 = x
      BY <1>3, <1>6, MapsApart
    <3> QED BY <1>4, <3>1
  <2>2. NeedsModRM(i) <=>
          x \notin (\h05 .. \h0B) \union (\h30 .. \h37) \union (\h80 .. \h8F)
            \union (\hA0 .. \hA2) \union (\hA8 .. \hAA) \union (\hC8 .. \hCF) \union {\h77}
    BY <1>6, NeedsModRMIs
  <2>3. /\ x \notin (\h01 .. \h03) \union {\h0D} /\ x \notin ShiftedOut
        /\ x \notin {\hA0, \hA8, \hA9, \h77} \union (\hC8 .. \hCF)
        /\ x \notin {\hA4, \hAC} \union (\h71 .. \h73)
    BY <1>6, NotMishandled
  <2>4. x \in TwoByte /\ x \notin \h80 .. \h8F
    BY <1>1, <1>6 DEF Listed
  <2> HIDE DEF x, m, c
  <2>5. x \notin ({\h04, \h0A, \h0C, \h0E, \h0F, \h36, \h78, \h79, \h7A, \h7B, \hA6, \hA7, \hFF}
                 \union (\h20 .. \h27) \union (\h38 .. \h3F))
    BY <2>4 DEF TwoByte
  <2> QED BY <1>2, <2>1, <2>2, <2>3, <2>4, <2>5 DEF ModRMLookup, ModRM0FLookup, ShiftedOut, c
<1>7. CASE m \notin {One, Two}
  <2>1. NeedsModRM(i) <=> ~(m[1] = \hC5 /\ x = \h77)
    BY <1>7, NeedsModRMIs
  <2>2. m = Vex5 => x # \h77
    BY NotMishandled
  <2>3. m # Vex3 /\ (m = Vex2 => x # \h0C)
    BY NotMishandled
  <2> HIDE DEF x, m, c
  <2>4. m[1] = \hC5 => m = Vex5
    <3> SUFFICES ASSUME m # Vex5 PROVE m[1] # \hC5
      OBVIOUS
    <3>1. CASE m = Three8
      BY <3>1, MapBytes
    <3>2. CASE m = ThreeA
      BY <3>2, MapBytes
    <3>3. CASE m = Vex1
      BY <3>3, MapBytes
    <3>4. CASE m = Vex2
      BY <3>4, MapBytes
    <3>5. CASE m = Vex3
      BY <3>5, MapBytes
    <3> QED BY <1>1, <1>7, <3>1, <3>2, <3>3, <3>4, <3>5 DEF Maps
  <2>5. NeedsModRM(i)
    BY <2>1, <2>2, <2>4
  <2>6. 0 \in ModRMLookup /\ \h38 \in ModRM0FLookup /\ \h3A \in ModRM0FLookup
    BY DEF ModRMLookup, ModRM0FLookup
  <2>7. CASE m \in {Three8, ThreeA}
    BY <1>3, <1>4, <2>5, <2>6, <2>7 DEF c
  <2>8. CASE m \in {Vex5, Vex1, Vex2}
    <3>1. c.op = 0 /\ c.op2 = x
      BY <1>3, <2>8, MapsApart
    <3>2. x \in {0, \h10, \h18, \h58, \hC6, \hEF}
      BY <1>1, <2>2, <2>3, <2>8 DEF Listed
    <3>3. x # 0 => x \in ModRM0FLookup
      BY <3>2 DEF ModRM0FLookup
    <3> QED BY <1>4, <2>5, <2>6, <3>1, <3>3 DEF c
  <2> QED BY <1>1, <1>7, <2>3, <2>7, <2>8 DEF Maps
<1> QED BY <1>5, <1>6, <1>7

(* The immediate of every opcode that is not mishandled is as long as the   *)
(* opcode maps have it.                                                     *)
LEMMA ImmOne ==
  ASSUME NEW x \in OneByte, NEW z \in {2, 4}, NEW wide \in BOOLEAN, NEW reg, NEW rex, NEW n,
         wide <=> Bit(rex, 3) = 1,
         ~(x <= \h3F /\ x % 8 \in {4, 5}),
         x \notin {\h80, \hA8, \hC6, \hC7, \hC8} \union (\hA0 .. \hA3), x # \h6B,
         ~(x \in {\hF6, \hF7} /\ reg < 2),
         ~(x \in \hB0 .. \hB7 /\ wide),
         ~(x \in {\h68, \h69, \h81, \hA9} \union (\hB8 .. \hBF) /\ z = 2)
  PROVE  ImmSize(Codes(x, 0, 0, n), rex) = OneImmediate(x, z, wide, reg)
<1> DEFINE w == Bit(rex, 3) = 1
<1>1. x \in Octets /\ x \in Int /\ 0 <= x /\ x <= 255
  BY DEF OneByte, Octets
<1>2. /\ x <= \h3F => x % 8 < 6
      /\ x \notin {\h82, \hD4, \hD5}
  BY DEF OneByte
<1>3. IsEaxImm(x) => x <= \h3F /\ x % 8 \in 4 .. 7
  BY <1>1, Bits DEF IsEaxImm
<1>4. ~IsEaxImm(x)
  BY <1>1, <1>2, <1>3
<1>5. ImmSize(Codes(x, 0, 0, n), rex) =
        IF x \in \hB8 .. \hBF THEN IF w THEN 8 ELSE 4
        ELSE IF x \in Imm32Ops THEN 4
        ELSE IF x \in Imm8Ops THEN 1
        ELSE IF x \in {\hC2, \hCA} THEN 2
        ELSE IF x \in \hB0 .. \hB7 THEN IF w THEN 0 ELSE 1
        ELSE 0
  BY <1>1, <1>4, ImmSizeIs
<1>6. wide <=> w
  OBVIOUS
<1> DEFINE s == ImmSize(Codes(x, 0, 0, n), rex)
<1> SUFFICES s = OneImmediate(x, z, wide, reg)
  OBVIOUS
<1> HIDE DEF w, s
<1>7. CASE x <= \h3F
  <2>1. s = 0
    BY <1>1, <1>5, <1>7 DEF Imm32Ops, Imm8Ops, s
  <2>2. x % 8 \notin {4, 5}
    BY <1>7
  <2> QED BY <1>7, <2>1, <2>2 DEF OneImmediate
<1>8. CASE x \in \hB8 .. \hBF
  <2>1. s = IF wide THEN 8 ELSE 4
    BY <1>5, <1>6, <1>8 DEF s
  <2>2. z = 4
    BY <1>8
  <2>3. OneImmediate(x, z, wide, reg) = IF wide THEN 8 ELSE z
    BY <1>1, <1>8 DEF OneImmediate
  <2> QED BY <2>1, <2>2, <2>3
<1>9. CASE x \in \hB0 .. \hB7
  <2>1. ~wide
    BY <1>9
  <2>2. s = 1
    BY <1>1, <1>5, <1>6, <1>9, <2>1 DEF Imm32Ops, Imm8Ops, s
  <2> QED BY <1>1, <1>9, <2>2 DEF OneImmediate
<1>10. CASE x \in {\hF6, \hF7}
  <2>1. ~(reg < 2)
    BY <1>10
  <2>2. s = 0
    BY <1>1, <1>5, <1>10 DEF Imm32Ops, Imm8Ops, s
  <2> QED BY <1>1, <1>10, <2>1, <2>2 DEF OneImmediate
<1>11. CASE x > \h3F /\ x \notin \hB0 .. \hBF /\ x \notin {\hF6, \hF7}
  <2>1. x \in {\h68, \h69, \h81, \hA9} => z = 4
    OBVIOUS
  <2>2. s = IF x \in {\h68, \h69, \h81, \hA9} THEN 4
            ELSE IF x \in {\hE8, \hE9} THEN 4
            ELSE IF x \in {\h6A, \h83, \hC0, \hC1, \hCD, \hEB} \union (\h70 .. \h7F) \union (\hE0 .. \hE7)
            THEN 1
            ELSE IF x \in {\hC2, \hCA} THEN 2
            ELSE 0
    BY <1>1, <1>2, <1>5, <1>11 DEF Imm32Ops, Imm8Ops, s
  <2>3. OneImmediate(x, z, wide, reg) =
            IF x \in {\h68, \h69, \h81, \hA9} THEN z
            ELSE IF x \in {\hE8, \hE9} THEN 4
            ELSE IF x \in {\h6A, \h83, \hC0, \hC1, \hCD, \hEB} \union (\h70 .. \h7F) \union (\hE0 .. \hE7)
            THEN 1
            ELSE IF x \in {\hC2, \hCA} THEN 2
            ELSE 0
    BY <1>1, <1>11 DEF OneImmediate
  <2> QED BY <2>1, <2>2, <2>3
<1> QED BY <1>1, <1>7, <1>8, <1>9, <1>10, <1>11

(* The same for all maps.                                                   *)
LEMMA ImmRight ==
  ASSUME NEW i \in Instructions, ~Mishandled(i), ~(i.opcode.map = Two /\ i.opcode.op \in \h80 .. \h8F),
         NEW n, NEW rex, Wide(i) <=> Bit(rex, 3) = 1
  PROVE  ImmSize(CodesOf(i, n), rex) = Immediate(i)
<1> DEFINE x == i.opcode.op
           m == i.opcode.map
           s == ImmSize(CodesOf(i, n), rex)
<1>1. Listed(m, x) /\ m \in Maps /\ x \in Octets
  BY Parts, OpcodesAre DEF Listed
<1> SUFFICES s = Immediate(i)
  OBVIOUS
<1>2. CASE m = One
  <2>1. s = ImmSize(Codes(x, 0, 0, n), rex)
    BY <1>2 DEF CodesOf
  <2>2. /\ ~(x <= \h3F /\ x % 8 \in {4, 5})
        /\ x \notin {\h80, \hA8, \hC6, \hC7, \hC8} \union (\hA0 .. \hA3) /\ x # \h6B
        /\ ~(x \in {\hF6, \hF7} /\ Reg(i.modrm) < 2)
        /\ ~(x \in \hB0 .. \hB7 /\ Wide(i))
        /\ ~(x \in {\h68, \h69, \h81, \hA9} \union (\hB8 .. \hBF) /\ Z(i) = 2)
    BY <1>2, NotMishandled
  <2>3. x \in OneByte
    BY <1>1, <1>2 DEF Listed
  <2>4. Z(i) \in {2, 4} /\ Wide(i) \in BOOLEAN
    BY DEF Z, Wide
  <2>5. ImmSize(Codes(x, 0, 0, n), rex) = OneImmediate(x, Z(i), Wide(i), Reg(i.modrm))
    <3> DEFINE zz == Z(i)
               ww == Wide(i)
               rr == Reg(i.modrm)
    <3> HIDE DEF x, zz, ww, rr
    <3> SUFFICES ImmSize(Codes(x, 0, 0, n), rex) = OneImmediate(x, zz, ww, rr)
      BY DEF zz, ww, rr
    <3>1. (ww <=> Bit(rex, 3) = 1) /\ zz \in {2, 4} /\ ww \in BOOLEAN
      BY <2>4 DEF ww, zz
    <3>2. /\ ~(x \in {\hF6, \hF7} /\ rr < 2)
          /\ ~(x \in \hB0 .. \hB7 /\ ww)
          /\ ~(x \in {\h68, \h69, \h81, \hA9} \union (\hB8 .. \hBF) /\ zz = 2)
      BY <2>2 DEF rr, ww, zz
    <3> QED BY <2>2, <2>3, <3>1, <3>2, ImmOne
  <2>6. Immediate(i) = OneImmediate(x, Z(i), Wide(i), Reg(i.modrm))
    BY <1>1, <1>2, ImmediateOne
  <2> QED BY <2>1, <2>5, <2>6
<1>3. CASE m = Two
  <2>1. s = ImmSize(Codes(0, x, 0, n), rex)
    BY <1>3, MapsApart DEF CodesOf
  <2>2. s = IF x \in Imm8Ops2 \/ (x = \h3A /\ 0 # 0) THEN 1 ELSE 0
    BY <2>1, ImmSize2
  <2>3. /\ x \notin (\h01 .. \h03) \union {\h0D}
        /\ x \notin {\hA4, \hAC} \union (\h71 .. \h73)
    BY <1>3, NotMishandled
  <2>4. Immediate(i) =
          IF x \in \h80 .. \h8F THEN 4
          ELSE IF x \in (\h70 .. \h73) \union {\hA4, \hAC, \hBA, \hC2, \hC4, \hC5, \hC6} THEN 1 ELSE 0
    <3>1. m # <<>> /\ m[1] = \h0F /\ Len(m) = 1 /\ m \notin {ThreeA, Vex3}
      BY <1>3, MapBytes, MapsApart DEF One
    <3> DEFINE A == CASE x <= \h3F -> IF x % 8 = 4 THEN 1 ELSE IF x % 8 = 5 THEN Z(i) ELSE 0
                      [] x \in {\h68, \h69, \h81, \hA9, \hC7} -> Z(i)
                      [] x \in {\h6A, \h6B, \h80, \h83, \hA8, \hC0, \hC1, \hC6, \hCD, \hEB} -> 1
                      [] x \in (\h70 .. \h7F) \union (\hB0 .. \hB7) \union (\hE0 .. \hE7) -> 1
                      [] x \in \hA0 .. \hA3 -> 8
                      [] x \in \hB8 .. \hBF -> IF Wide(i) THEN 8 ELSE Z(i)
                      [] x \in {\hC2, \hCA} -> 2
                      [] x = \hC8 -> 3
                      [] x \in {\hE8, \hE9} -> 4
                      [] x = \hF6 /\ Reg(i.modrm) < 2 -> 1
                      [] x = \hF7 /\ Reg(i.modrm) < 2 -> Z(i)
                      [] OTHER -> 0
               B == IF x \in \h80 .. \h8F THEN 4
                    ELSE IF x \in (\h70 .. \h73) \union {\hA4, \hAC, \hBA, \hC2, \hC4, \hC5, \hC6}
                         THEN 1 ELSE 0
               C == IF x = \hC6 THEN 1 ELSE 0
    <3>2. Immediate(i) = CASE m = <<>> -> A
                           [] m[1] = \h0F /\ Len(m) = 1 -> B
                           [] m \in {ThreeA, Vex3} -> 1
                           [] OTHER -> C
      BY DEF Immediate, ThreeA, Vex3
    <3> HIDE DEF A, C
    <3> SUFFICES Immediate(i) = B
      OBVIOUS
    <3> HIDE DEF B, m, x
    <3> QED BY <3>1, <3>2
  <2>5. x \notin \h80 .. \h8F
    BY <1>3
  <2> HIDE DEF x, s
  <2>6. s = IF x \in Imm8Ops2 THEN 1 ELSE 0
    BY <2>2
  <2>7. x \in Imm8Ops2 <=> x \in (\h70 .. \h73) \union {\hA4, \hAC, \hBA, \hC2, \hC4, \hC5, \hC6}
    BY <1>1, <2>3, <2>5 DEF Imm8Ops2, Octets
  <2> QED BY <2>4, <2>5, <2>6, <2>7
<1>4. CASE m = Three8
  <2>1. s = ImmSize(Codes(0, \h38, x, n), rex)
    BY <1>4, MapsApart DEF CodesOf
  <2>2. s = 0
    <3>1. \h38 \notin Imm8Ops2 /\ \h38 # \h3A
      BY DEF Imm8Ops2
    <3> QED BY <2>1, <3>1, ImmSize2
  <2>3. x # \hC6
    BY <1>1, <1>4 DEF Listed
  <2>4. m # <<>> /\ ~(m[1] = \h0F /\ Len(m) = 1) /\ m \notin {ThreeA, Vex3}
    BY <1>4, MapBytes, MapsApart DEF One
  <2>5. Immediate(i) = IF x = \hC6 THEN 1 ELSE 0
    BY <2>4 DEF Immediate, ThreeA, Vex3
  <2> QED BY <2>2, <2>3, <2>5
<1>5. CASE m = ThreeA
  <2>1. s = ImmSize(Codes(0, \h3A, x, n), rex)
    BY <1>5, MapsApart DEF CodesOf
  <2>2. x # 0
    BY <1>1, <1>5 DEF Listed
  <2>3. s = 1
    BY <2>1, <2>2, ImmSize2
  <2>4. m # <<>> /\ ~(m[1] = \h0F /\ Len(m) = 1) /\ m \in {ThreeA, Vex3}
    BY <1>5, MapBytes, MapsApart DEF One
  <2>5. Immediate(i) = 1
    BY <2>4 DEF Immediate, ThreeA, Vex3
  <2> QED BY <2>3, <2>5
<1>6. CASE m \in {Vex5, Vex1, Vex2}
  <2>1. s = ImmSize(Codes(0, x, 0, n), rex)
    BY <1>6, MapsApart DEF CodesOf
  <2>2. x \in {\h00, \h0C, \h10, \h18, \h58, \h77, \hC6, \hEF}
    BY <1>1, <1>6 DEF Listed
  <2>3. s = IF x \in Imm8Ops2 \/ (x = \h3A /\ 0 # 0) THEN 1 ELSE 0
    BY <2>1, ImmSize2
  <2>4. m # <<>> /\ ~(m[1] = \h0F /\ Len(m) = 1) /\ m \notin {ThreeA, Vex3}
    <3>1. Len(m) # 1
      <4>1. Len(Vex5) # 1 /\ Len(Vex1) # 1 /\ Len(Vex2) # 1
        BY MapBytes
      <4> HIDE DEF m
      <4> QED BY <1>6, <4>1
    <3> QED BY <1>6, <3>1, MapsApart DEF One
  <2>5. Immediate(i) = IF x = \hC6 THEN 1 ELSE 0
    BY <2>4 DEF Immediate, ThreeA, Vex3
  <2> HIDE DEF x, s
  <2>6. x \in Imm8Ops2 <=> x = \hC6
    BY <2>2 DEF Imm8Ops2
  <2> QED BY <2>3, <2>5, <2>6
<1>7. m # Vex3
  BY NotMishandled
<1> QED BY <1>1, <1>2, <1>3, <1>4, <1>5, <1>6, <1>7 DEF Maps

(* The general path, on what is not mishandled.                             *)
LEMMA GeneralLength ==
  ASSUME NEW i \in Instructions, ~Mishandled(i), ~(i.opcode.map = Two /\ i.opcode.op \in \h80 .. \h8F)
  PROVE  DecodeGeneral(BytesOf(i)).length = Size(i)
<1> DEFINE b == BytesOf(i)
           n == Len(Front(i)) + Len(i.opcode.map) + 1
           c == CodesOf(i, n)
           h == HasModRM(c)
           m == i.modrm
           imm == ImmSize(c, Rex(b))
           size == AddressSize(m)
<1>1. Found(i)
  <2>1. i.opcode.map = One => i.opcode.op \notin {\h63, \h6B, \hFE} \union (\hD8 .. \hDF)
    BY NotMishandled
  <2>2. i.opcode.map # Vex3
    BY NotMishandled
  <2> QED BY <2>1, <2>2 DEF Found
<1>2. Opcode(b) = c /\ At(b, n) = m /\ (Wide(i) <=> Bit(Rex(b), 3) = 1)
  BY <1>1, OpcodeRight
<1>3. c.next = n
  BY DEF CodesOf, Codes
<1>4. b \in Seq(Octets)
  BY BytesAre
<1>5. DecodeGeneral(b).length = n + (IF h THEN size ELSE 0) + imm
  BY <1>2, <1>3, <1>4, GeneralIs
<1>6. imm = Immediate(i)
  BY <1>2, ImmRight
<1>7. h <=> NeedsModRM(i)
  BY ModRMRight
<1>8. NeedsModRM(i) => Operand(i) = size
  <2>1. m \in Octets
    BY Parts
  <2>2. NeedsModRM(i) => ~(Mod(i.modrm) = 0 /\ HasSib(i) /\ i.sib % 8 = 5)
    BY NotMishandled
  <2> QED BY <2>1, <2>2, OperandRight
<1>9. Len(Front(i)) = Len(i.legacy) + Len(i.rex)
  BY FrontIs
<1>10. Size(i) = n + (IF NeedsModRM(i) THEN Operand(i) ELSE 0) + Immediate(i)
  BY <1>9 DEF Size
<1> HIDE DEF b, n, h, imm, size
<1> QED BY <1>5, <1>6, <1>7, <1>8, <1>10 DEF b

(* A near conditional jump without prefix goes through its fast path.       *)
LEMMA NearJump ==
  ASSUME NEW i \in Instructions, i.opcode.map = Two, i.opcode.op \in \h80 .. \h8F,
         i.legacy = <<>>, i.rex = <<>>
  PROVE  Decode(BytesOf(i)).length = Size(i)
<1> DEFINE b == BytesOf(i)
           x == i.opcode.op
<1>1. b \in Seq(Octets) /\ \A j \in Nat : At(b, Len(Front(i)) + j) = At(Body(i), j)
  BY BytesAre
<1>2. Len(Front(i)) = 0
  <2>1. Len(Front(i)) = Len(i.legacy) + Len(i.rex)
    BY FrontIs
  <2> QED BY <2>1
<1>3. At(b, 0) = \h0F /\ At(b, 1) = x
  <2>1. At(Body(i), 0) = \h0F /\ At(Body(i), 1) = x
    <3> DEFINE m == i.opcode.map
    <3>1. m # One => At(Body(i), 0) = m[1]
      BY FirstByte
    <3>2. At(Body(i), 1) = x
      BY FirstByte
    <3>3. m = Two
      OBVIOUS
    <3>4. Two # One /\ Two[1] = \h0F
      BY MapsApart, MapBytes
    <3> HIDE DEF m, x
    <3> QED BY <3>1, <3>2, <3>3, <3>4
  <2>2. At(b, 0 + 0) = At(Body(i), 0) /\ At(b, 0 + 1) = At(Body(i), 1)
    BY <1>1, <1>2
  <2> QED BY <2>1, <2>2
<1>4. IsSimpleJcc(b)
  <2> HIDE DEF b
  <2>1. At(b, 1) \in \h80 .. \h8F
    BY <1>3, Zenon
  <2> QED BY <1>3, <2>1, Zenon DEF IsSimpleJcc
<1>5. DecodeFast(b).length = 6
  <2>1. DecodeFast(b) = IF Op(b) = \h0F THEN NoOperand(6, Op(b), At(b, 1))
                        ELSE NoOperand(2, Op(b), 0)
    BY <1>1, <1>4, FastDecoded
  <2>2. Op(b) = \h0F
    <3> HIDE DEF b
    <3> QED BY <1>3 DEF Op, Skip, IsRex
  <2>3. DecodeFast(b) = NoOperand(6, \h0F, At(b, 1))
    BY <2>1, <2>2
  <2> QED BY <2>3 DEF NoOperand, Insn
<1>6. Decode(b).length = 6
  BY <1>4, <1>5 DEF Decode, IsFast
<1>7. ~NeedsModRM(i)
  BY NeedsModRMIs
<1>8. Immediate(i) = 4
  <2>1. i.opcode.map # <<>> /\ i.opcode.map[1] = \h0F /\ Len(i.opcode.map) = 1
    BY MapBytes, MapsApart DEF One
  <2> QED BY <2>1 DEF Immediate
<1>9. Size(i) = 6
  <2>1. Len(i.legacy) = 0 /\ Len(i.rex) = 0 /\ Len(i.opcode.map) = 1
    BY MapBytes
  <2> QED BY <1>7, <1>8, <2>1 DEF Size
<1> QED BY <1>6, <1>9

(* decode_x86_insn returns the length of every instruction that is not      *)
(* among the ones Mishandled lists, for all prefixes, ModR/M and SIB bytes. *)
THEOREM LengthsAreRight == CheckSpec => []LengthsRight
<1>1. Result => LengthsRight
  <2> SUFFICES ASSUME Result, Decoded, ~Mishandled(code)
               PROVE  insn.length = Size(code)
    BY DEF LengthsRight
  <2> DEFINE b == BytesOf(code)
  <2>1. insn = Decode(b) /\ code \in Instructions
    BY DEF Result, Decoded
  <2>2. CASE code.opcode.map = Two /\ code.opcode.op \in \h80 .. \h8F
    <3>1. code.legacy = <<>> /\ code.rex = <<>>
      BY <2>2, NotMishandled
    <3> QED BY <2>1, <2>2, <3>1, NearJump
  <2>3. CASE ~(code.opcode.map = Two /\ code.opcode.op \in \h80 .. \h8F)
    <3>1. DecodeGeneral(b).length = Size(code)
      BY <2>1, <2>3, GeneralLength
    <3>2. CASE IsFast(b)
      <4>1. ~BaseR12R13(code)
        BY NotMishandled
      <4>2. ~LeaR12R13(b) /\ Op(b) # \h0F /\ b \in Seq(Octets)
        BY <2>1, <2>3, <3>2, <4>1, FastComparable, BytesAre
      <4>3. DecodeFast(b).length = DecodeGeneral(b).length
        <5>1. DecodeFast(b) = FastForm(b, DecodeGeneral(b))
          BY <3>2, <4>2, FastIsGeneral
        <5>2. \E l, o, o2, mod, reg, rm : DecodeGeneral(b) = Insn(l, o, o2, mod, reg, rm)
          BY Zenon DEF DecodeGeneral, NoOperand
        <5> HIDE DEF b
        <5> QED BY <5>1, <5>2 DEF FastForm, Insn
      <4> QED BY <2>1, <3>1, <3>2, <4>3 DEF Decode
    <3>3. CASE ~IsFast(b)
      BY <2>1, <3>1, <3>3 DEF Decode
    <3> QED BY <3>2, <3>3
  <2> QED BY <2>2, <2>3
<1> QED BY <1>1, ResultHolds, PTL
=============================================================================

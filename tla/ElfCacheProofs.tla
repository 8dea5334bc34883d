--------------------------- MODULE ElfCacheProofs ---------------------------
(***************************************************************************)
(* Loading through the binary cache is safe for any number of clients,     *)
(* files, binaries and cache entries, as long as no file is loaded twice at *)
(* a time and only an empty cache is switched, and it implements opening a  *)
(* file.                                                                    *)
(***************************************************************************)
EXTENDS ElfCache, TLAPS

(* A client whose load has not returned has nothing loaded, and the stamp   *)
(* it took is not newer than the file.                                      *)
CallSane ==
  call # None => held[call.client] = None /\ call.stamp <= disk[call.file]

(* A binary is never newer than its file. *)
ImagesPast == \A b \in live : image[b].version <= disk[image[b].file]

(* A cache that is off lists nothing. *)
Switched == enabled \/ \A e \in Entries : entries[e] = None

(* No binary is loaded by two clients. *)
SoleHolder ==
  \A c, d \in Clients : c # d /\ held[c] # None => held[c] # held[d]

(* An unloaded binary leaves the heap only if no entry lists it (CachedLive *)
(* survives) and its only holder just gave it up (HeldLive survives, by     *)
(* SoleHolder); ImagesPast turns an equal stamp into an equal version.      *)
Inv ==
  /\ TypeOK /\ Switched
  /\ HeldLive /\ CachedLive /\ EntriesDistinct
  /\ CallSane /\ ImagesPast /\ SoleHolder

USE DEF Entries

(* An entry gives way without anything being freed: its binary is still in  *)
(* the cache when it is unloaded.                                           *)
LEMMA EvictionFreesNothing ==
  ASSUME NEW s \in Entries, enabled = TRUE
  PROVE  Evicted(s) = {}
BY DEF Evicted, FreedByUnload, Cached

(* Unloading frees at most the binary itself, and only an uncached one. *)
LEMMA UnloadFrees ==
  ASSUME NEW b, Switched
  PROVE  FreedByUnload(b) \subseteq {b} /\ (Cached(b) => FreedByUnload(b) = {})
BY DEF FreedByUnload, Cached, Switched

(* Nothing is loaded or cached at first. *)
LEMMA InitInv == Init => Inv
<1> SUFFICES ASSUME Init PROVE Inv
  OBVIOUS
<1>1. TypeOK
  BY ElfCacheAssumption DEF Init, TypeOK, Image
<1> QED BY <1>1 DEF Init, Inv, HeldLive, CachedLive, EntriesDistinct,
       CallSane, ImagesPast, SoleHolder, Switched

(* A new version on disk only makes files newer. *)
LEMMA ReplaceInv ==
  ASSUME NEW f \in Files, Inv, Replace(f)
  PROVE  Inv'
<1> USE ElfCacheAssumption DEF Inv, Replace
<1>1. TypeOK'
  BY DEF TypeOK
<1>2. disk[f] \in Nat /\ \A g \in Files : disk[g] \in Nat /\ disk[g] <= disk'[g]
  BY DEF TypeOK
<1>3. HeldLive' /\ EntriesDistinct' /\ SoleHolder' /\ CachedLive'
  BY DEF HeldLive, EntriesDistinct, SoleHolder, CachedLive, Matches
<1>6. Switched'
  BY DEF Switched
<1>4. CallSane'
  BY <1>2 DEF CallSane, TypeOK, Call
<1>5. ImagesPast'
  BY <1>2 DEF ImagesPast, TypeOK, Image
<1> QED BY <1>1, <1>3, <1>4, <1>5, <1>6

(* A hit hands out a cached binary, which is allocated; the client is the   *)
(* only one that has it, for nobody had its file.                           *)
LEMMA LoadHitInv ==
  ASSUME NEW c \in Clients, NEW f \in Files, Inv, ~Loaded(f), LoadHit(c, f)
  PROVE  Inv'
<1> USE ElfCacheAssumption DEF Inv, LoadHit
<1>1. PICK e \in Entries : Hit(e, f) /\ held' = [held EXCEPT ![c] = entries[e].binary]
  OBVIOUS
<1>2. entries[e] \in CacheEntry /\ entries[e].file = f
  BY <1>1 DEF Hit, Matches, TypeOK
<1>3. entries[e].binary \in live /\ image[entries[e].binary].file = f
  BY <1>1, <1>2 DEF CachedLive, Hit, Matches
<1>4. \A d \in Clients : held[d] # entries[e].binary
  BY <1>2, <1>3 DEF Loaded, CacheEntry
<1>5. TypeOK'
  BY <1>1, <1>2 DEF TypeOK, CacheEntry
<1>6. HeldLive'
  BY <1>1, <1>3 DEF HeldLive, TypeOK
<1>7. SoleHolder'
  BY <1>1, <1>4 DEF SoleHolder, TypeOK
<1>8. EntriesDistinct' /\ CachedLive' /\ ImagesPast' /\ CallSane' /\ Switched'
  BY DEF Switched, EntriesDistinct, CachedLive, ImagesPast, CallSane
<1> QED BY <1>5, <1>6, <1>7, <1>8

LEMMA LoadMissInv ==
  ASSUME NEW c \in Clients, NEW f \in Files, Inv, LoadMiss(c, f)
  PROVE  Inv'
<1> USE ElfCacheAssumption DEF Inv, LoadMiss
<1>1. disk[f] \in Nat
  BY DEF TypeOK
<1>2. TypeOK'
  BY <1>1 DEF TypeOK, Call
<1>3. CallSane'
  BY <1>1 DEF CallSane
<1>4. /\ HeldLive' /\ SoleHolder' /\ EntriesDistinct' /\ CachedLive' /\ ImagesPast'
      /\ Switched'
  BY DEF Switched, HeldLive, SoleHolder, EntriesDistinct, CachedLive, ImagesPast
<1> QED BY <1>2, <1>3, <1>4

(* The new binary is nowhere yet, and it is at least as new as its stamp.   *)
LEMMA LoadDoneInv ==
  ASSUME NEW b \in Binaries, Inv, LoadDone(b)
  PROVE  Inv'
<1> USE ElfCacheAssumption DEF Inv, LoadDone
<1> DEFINE entry == [file |-> call.file, stamp |-> call.stamp, binary |-> b]
           loaded == [file |-> call.file, version |-> disk[call.file]]
<1>1. /\ call \in Call /\ disk[call.file] \in Nat /\ disk[call.file] > 0
      /\ call.stamp <= disk[call.file]
      /\ b \notin live
  BY DEF TypeOK, Call, CallSane
<1>2. /\ live' = live \union {b}
      /\ \/ \E s \in Entries : entries' = [entries EXCEPT ![s] = entry] /\ enabled
         \/ entries' = entries
      /\ image' = [image EXCEPT ![b] = loaded]
      /\ held' = [held EXCEPT ![call.client] = b]
      /\ call' = None /\ UNCHANGED <<disk, enabled>>
  BY EvictionFreesNothing DEF CacheAdd
<1>4. entry \in CacheEntry /\ loaded \in Image
  BY <1>1 DEF CacheEntry, Image, Call
<1>5. /\ entry.binary = b /\ entry.file = call.file /\ entry.stamp = call.stamp
      /\ loaded.file = call.file /\ loaded.version = disk[call.file]
  OBVIOUS
<1> HIDE DEF LoadDone, entry, loaded
<1>3. \A e \in Entries : entries'[e] = entries[e] \/ (entries'[e] = entry /\ enabled)
  BY <1>2 DEF TypeOK
<1>6. \A e \in Entries : entries[e] # None => entries[e].binary # b
  BY <1>1 DEF CachedLive
<1>7. \A c \in Clients : held[c] # b
  BY <1>1 DEF HeldLive
<1>8. image'[b] = loaded /\ \A x \in live : image'[x] = image[x]
  BY <1>1, <1>2 DEF TypeOK
<1>9. TypeOK'
  BY <1>1, <1>2, <1>4, <1>5, <1>8 DEF TypeOK, Call
<1>10. HeldLive'
  BY <1>1, <1>2 DEF HeldLive, TypeOK, Call
<1>11. SoleHolder'
  BY <1>1, <1>2, <1>7 DEF SoleHolder, TypeOK, Call
<1>12. CachedLive'
  <2> SUFFICES ASSUME NEW e \in Entries, entries'[e] # None
               PROVE  /\ entries'[e].binary \in live'
                      /\ image'[entries'[e].binary].file = entries'[e].file
                      /\ entries'[e].stamp <= image'[entries'[e].binary].version
    BY DEF CachedLive
  <2>1. CASE entries'[e] = entry
    BY <2>1, <1>1, <1>2, <1>5, <1>8
  <2>2. CASE entries'[e] = entries[e]
    BY <2>2, <1>2, <1>8 DEF CachedLive
  <2> QED BY <1>3, <2>1, <2>2
<1>13. EntriesDistinct'
  <2>1. CASE entries' = entries
    BY <2>1 DEF EntriesDistinct
  <2>2. CASE \E s \in Entries : entries' = [entries EXCEPT ![s] = entry]
    BY <2>2, <1>5, <1>6 DEF EntriesDistinct, TypeOK
  <2> QED BY <1>2, <2>1, <2>2
<1>14. CallSane'
  BY <1>2 DEF CallSane
<1>15. ImagesPast'
  BY <1>1, <1>2, <1>5, <1>8 DEF ImagesPast
<1>16. Switched'
  BY <1>2, <1>3 DEF Switched
<1> QED BY <1>9, <1>10, <1>11, <1>12, <1>13, <1>14, <1>15, <1>16

LEMMA LoadFailInv ==
  ASSUME Inv, LoadFail
  PROVE  Inv'
BY DEF Inv, LoadFail, TypeOK, HeldLive, CachedLive, EntriesDistinct, CallSane,
       ImagesPast, SoleHolder, Switched

(* What unloading frees nobody else has and no entry lists. *)
LEMMA UnloadInv ==
  ASSUME NEW c \in Clients, Inv, Unload(c)
  PROVE  Inv'
<1> USE ElfCacheAssumption DEF Inv, Unload
<1>1. /\ live' \subseteq live
      /\ \A b \in live : b # held[c] \/ Cached(b) => b \in live'
  BY UnloadFrees
<1>2. TypeOK'
  BY <1>1 DEF TypeOK
<1>3. HeldLive'
  BY <1>1 DEF HeldLive, SoleHolder, TypeOK
<1>4. CachedLive'
  BY <1>1 DEF CachedLive, Cached
<1>5. EntriesDistinct' /\ SoleHolder' /\ CallSane' /\ ImagesPast' /\ Switched'
  BY <1>1 DEF Switched, EntriesDistinct, SoleHolder, CallSane, ImagesPast, TypeOK
<1> QED BY <1>2, <1>3, <1>4, <1>5

(* Cleanup unloads cached binaries only, and so frees nothing. *)
LEMMA CleanupInv ==
  ASSUME Inv, CacheCleanup \/ CacheInit
  PROVE  Inv'
<1> USE ElfCacheAssumption DEF Inv, CacheCleanup, CacheInit
<1>1. live' = live
  <2>1. \A e \in Entries :
          entries[e] # None => FreedByUnload(entries[e].binary) = {}
    BY DEF FreedByUnload, Cached, Switched
  <2> DEFINE freed == {FreedByUnload(entries[e].binary) :
                         e \in {i \in Entries : entries[i] # None}}
  <2>2. \A F \in freed : F = {}
    BY <2>1
  <2>3. live \ UNION freed = live
    <3> HIDE DEF freed
    <3> QED BY <2>2
  <2> QED BY <2>3
<1>2. TypeOK'
  BY <1>1 DEF TypeOK
<1> QED BY <1>1, <1>2 DEF HeldLive, CachedLive, EntriesDistinct, SoleHolder,
       CallSane, ImagesPast, Switched

(* Only an empty cache is switched off. *)
LEMMA SwitchInv ==
  ASSUME Inv, NEW on \in BOOLEAN, SetEnabled(on), \A e \in Entries : entries[e] = None
  PROVE  Inv'
BY DEF Inv, SetEnabled, TypeOK, HeldLive, CachedLive, EntriesDistinct, CallSane,
       ImagesPast, SoleHolder, Switched

(* Every reachable state satisfies the invariant. *)
THEOREM ElfInvHolds == Spec => []Inv
<1>1. Inv /\ [Next]_vars => Inv'
  <2> SUFFICES ASSUME Inv, [Next]_vars PROVE Inv'
    OBVIOUS
  <2>1. CASE \E f \in Files : Replace(f)
    BY <2>1, ReplaceInv
  <2>2. CASE \E c \in Clients, f \in Files :
               ~Loaded(f) /\ (LoadHit(c, f) \/ LoadMiss(c, f))
    BY <2>2, LoadHitInv, LoadMissInv
  <2>3. CASE \E b \in Binaries : LoadDone(b)
    BY <2>3, LoadDoneInv
  <2>4. CASE LoadFail
    BY <2>4, LoadFailInv
  <2>5. CASE \E c \in Clients : Unload(c)
    BY <2>5, UnloadInv
  <2>6. CASE CacheCleanup \/ CacheInit
    BY <2>6, CleanupInv
  <2>7. CASE \E on \in BOOLEAN :
               SetEnabled(on) /\ \A e \in Entries : entries[e] = None
    BY <2>7, SwitchInv
  <2>8. CASE UNCHANGED vars
    BY <2>8 DEF vars, Inv, TypeOK, HeldLive, CachedLive, EntriesDistinct,
         CallSane, ImagesPast, SoleHolder, Switched
  <2> QED BY <2>1, <2>2, <2>3, <2>4, <2>5, <2>6, <2>7, <2>8 DEF Next
<1> QED BY InitInv, <1>1, PTL DEF Spec

(* A binary that a client has loaded is allocated, whatever is evicted,     *)
(* unloaded or cleaned up meanwhile.                                        *)
THEOREM LoadedIsLive == Spec => []HeldLive
<1>1. Inv => HeldLive
  BY DEF Inv
<1> QED BY <1>1, ElfInvHolds, PTL

(* What the cache lists is allocated, is of the file it is listed under and *)
(* is no older than its stamp.                                              *)
THEOREM CachedIsLive == Spec => []CachedLive
<1>1. Inv => CachedLive
  BY DEF Inv
<1> QED BY <1>1, ElfInvHolds, PTL

(* The initial states are initial states of FileHandles. *)
LEMMA InitRefines == Init => Abstract!Init
BY DEF Init, Abstract!Init, Handle

(* A hit is an open: equal stamps mean equal versions. *)
LEMMA LoadHitRefines ==
  ASSUME NEW c \in Clients, NEW f \in Files, Inv, LoadHit(c, f)
  PROVE  Abstract!Open(c, f)
<1> USE ElfCacheAssumption DEF Inv, LoadHit
<1>1. PICK e \in Entries : Hit(e, f) /\ held' = [held EXCEPT ![c] = entries[e].binary]
  OBVIOUS
<1> DEFINE b == entries[e].binary
<1>2. entries[e] \in CacheEntry /\ entries[e].file = f /\ entries[e].stamp = disk[f]
  BY <1>1 DEF Hit, Matches, TypeOK
<1>3. b \in live /\ b \in Binaries /\ image[b] \in Image
  BY <1>1, <1>2 DEF CachedLive, Hit, Matches, TypeOK, CacheEntry
<1>4. image[b].file = f /\ entries[e].stamp <= image[b].version
  BY <1>1, <1>2 DEF CachedLive, Hit, Matches
<1>5. image[b].version = disk[f]
  <2>1. image[b].version <= disk[f]
    BY <1>3, <1>4 DEF ImagesPast
  <2>2. image[b].version \in Nat /\ disk[f] \in Nat
    BY <1>3 DEF Image, TypeOK
  <2> QED BY <2>1, <2>2, <1>2, <1>4
<1>6. image[b] = [file |-> f, version |-> disk[f]]
  BY <1>3, <1>4, <1>5 DEF Image
<1> HIDE DEF b
<1>7. Handle' = [Handle EXCEPT ![c] = [file |-> f, version |-> disk[f]]]
  BY <1>1, <1>3, <1>6 DEF Handle, TypeOK, b
<1> QED BY <1>1, <1>7 DEF Abstract!Open, Handle, Hit

(* The end of a load that missed is an open, too, and the images that other *)
(* clients hold stay: the new binary is in none of their hands.             *)
LEMMA LoadDoneRefines ==
  ASSUME NEW b \in Binaries, Inv, LoadDone(b)
  PROVE  \E c \in Clients, f \in Files : Abstract!Open(c, f)
<1> USE ElfCacheAssumption DEF Inv, LoadDone
<1> DEFINE loaded == [file |-> call.file, version |-> disk[call.file]]
<1>1. call.client \in Clients /\ call.file \in Files /\ held[call.client] = None
  BY DEF TypeOK, Call, CallSane
<1>2. \A d \in Clients : held[d] # b
  BY DEF HeldLive
<1>3. /\ held' = [held EXCEPT ![call.client] = b]
      /\ image' = [image EXCEPT ![b] = loaded]
  OBVIOUS
<1>4. held'[call.client] = b /\ image'[b] = loaded
  BY <1>1, <1>3 DEF TypeOK
<1>5. \A d \in Clients : d # call.client =>
        held'[d] = held[d] /\ (held[d] # None => image'[held[d]] = image[held[d]])
  BY <1>1, <1>2, <1>3 DEF TypeOK
<1> HIDE DEF loaded
<1>6. Handle' = [Handle EXCEPT ![call.client] = loaded]
  <2>1. b # None
    OBVIOUS
  <2>2. \A d \in Clients :
          (IF held'[d] = None THEN None ELSE image'[held'[d]])
            = (IF d = call.client THEN loaded
               ELSE IF held[d] = None THEN None ELSE image[held[d]])
    BY <2>1, <1>4, <1>5
  <2> HIDE DEF LoadDone
  <2> QED BY <2>2, <1>1 DEF Handle
<1>7. Abstract!Open(call.client, call.file)
  BY <1>1, <1>6 DEF Abstract!Open, Handle, loaded
<1> QED BY <1>1, <1>7

LEMMA UnloadRefines ==
  ASSUME NEW c \in Clients, Inv, Unload(c)
  PROVE  Abstract!Close(c)
BY DEF Inv, TypeOK, Unload, Handle, Abstract!Close

(* Loading through the cache implements opening files: hits give the file   *)
(* as it is, and what a client holds never changes under it.                *)
THEOREM CacheRefinesFileHandles == Spec => RefinesFileHandles
<1>1. Inv /\ [Next]_vars => [Abstract!Next]_<<disk, Handle>>
  <2> SUFFICES ASSUME Inv, [Next]_vars
               PROVE  [Abstract!Next]_<<disk, Handle>>
    OBVIOUS
  <2>1. CASE \E f \in Files : Replace(f)
    BY <2>1 DEF Replace, Abstract!Next, Abstract!Replace, Handle
  <2>2. CASE \E c \in Clients, f \in Files : LoadHit(c, f)
    BY <2>2, LoadHitRefines DEF Abstract!Next
  <2>3. CASE \E b \in Binaries : LoadDone(b)
    BY <2>3, LoadDoneRefines DEF Abstract!Next
  <2>4. CASE \E c \in Clients : Unload(c)
    BY <2>4, UnloadRefines DEF Abstract!Next
  <2>5. CASE \/ \E c \in Clients, f \in Files : LoadMiss(c, f)
             \/ LoadFail \/ CacheCleanup \/ CacheInit
             \/ \E on \in BOOLEAN : SetEnabled(on)
             \/ UNCHANGED vars
    BY <2>5 DEF LoadMiss, LoadFail, CacheCleanup, CacheInit, SetEnabled, vars, Handle
  <2> QED BY <2>1, <2>2, <2>3, <2>4, <2>5 DEF Next
<1> QED BY InitRefines, ElfInvHolds, <1>1, PTL
     DEF Spec, RefinesFileHandles, Abstract!Spec

(* Types, and no binary that is loaded lacks a version. *)
THEOREM TypeCorrect == Spec => []TypeOK
<1>1. Inv => TypeOK
  BY DEF Inv
<1> QED BY <1>1, ElfInvHolds, PTL

(* No two entries of the cache hand out one binary. *)
THEOREM EntriesAreDistinct == Spec => []EntriesDistinct
<1>1. Inv => EntriesDistinct
  BY DEF Inv
<1> QED BY <1>1, ElfInvHolds, PTL
=============================================================================

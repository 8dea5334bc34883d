------------------------------ MODULE ElfCache ------------------------------
(***************************************************************************)
(* Loading and unloading of ELF binaries through the binary cache of       *)
(* rosetta_elf_loader.c.  A binary is the address of its structure, which   *)
(* malloc may hand out again once it is freed.  The program is sequential;  *)
(* what interleaves with a load are the replacements of files on disk.      *)
(***************************************************************************)
EXTENDS Integers, FiniteSets

CONSTANTS
  Clients,       \* holders of loaded binaries: runners and tests
  Files,         \* file names
  Binaries,      \* addresses of binary structures
  CacheEntries,  \* entries of the cache (8)
  None,          \* no binary, no cache entry, no load in progress
  MaxVersion     \* bound on how often a file is replaced

Entries == 1 .. CacheEntries

ASSUME ElfCacheAssumption ==
  /\ Files # {} /\ None \notin Binaries
  /\ None \notin [file : Files, stamp : Nat, binary : Binaries]
  /\ None \notin [client : Clients, file : Files, stamp : Nat]
  /\ None \notin [file : Files, version : Nat]
  /\ CacheEntries \in Nat \ {0} /\ MaxVersion \in Nat \ {0}

VARIABLES
  disk,     \* the version of each file, which size and mtime tell; 0: no file
  entries,  \* elf_cache.entries
  enabled,  \* elf_cache.enabled
  live,     \* the binaries that are allocated
  image,    \* what each binary was loaded from
  held,     \* the binary each client has loaded
  call      \* the rosetta_elf_load that missed and has not returned

vars == <<disk, entries, enabled, live, image, held, call>>

CacheEntry == [file : Files, stamp : Nat, binary : Binaries]
Call == [client : Clients, file : Files, stamp : Nat]
Image == [file : Files, version : Nat]

Init ==
  /\ disk \in [Files -> {0, 1}]
  /\ entries = [e \in Entries |-> None]
  /\ enabled = TRUE
  /\ live = {}
  /\ image = [b \in Binaries |-> [file |-> CHOOSE f \in Files : TRUE, version |-> 0]]
  /\ held = [c \in Clients |-> None]
  /\ call = None

(* External: somebody installs a new version of the file; its modification  *)
(* time is new.                                                             *)
Replace(f) ==
  /\ disk[f] < MaxVersion
  /\ disk' = [disk EXCEPT ![f] = @ + 1]
  /\ UNCHANGED <<entries, enabled, live, image, held, call>>

Cached(b) == \E e \in Entries : entries[e] # None /\ entries[e].binary = b

(* Mutant: the binary is freed though the cache keeps it. *)
FreedByUnloadAlways(b) == {b}

(* Mutant: the search for the binary stops at the first entry. *)
FreedByUnloadFirstOnly(b) ==
  IF enabled /\ entries[1] # None /\ entries[1].binary = b THEN {} ELSE {b}

(* rosetta_elf_unload: what it frees. *)
FreedByUnload(b) == IF enabled /\ Cached(b) THEN {} ELSE {b}

Matches(e, f) == entries[e] # None /\ entries[e].file = f

(* Mutant: the modification time is not compared. *)
HitUnvalidated(e, f) ==
  /\ enabled
  /\ Matches(e, f)
  /\ \A i \in Entries : i < e => ~Matches(i, f)

(* cache_find returns the first entry of the name; cache_validate compares  *)
(* the stamp of that entry with the file.                                   *)
Hit(e, f) ==
  /\ enabled
  /\ Matches(e, f)
  /\ \A i \in Entries : i < e => ~Matches(i, f)
  /\ disk[f] > 0 /\ entries[e].stamp = disk[f]

LoadHit(c, f) ==
  /\ call = None /\ held[c] = None
  /\ \E e \in Entries :
       /\ Hit(e, f)
       /\ held' = [held EXCEPT ![c] = entries[e].binary]
  /\ UNCHANGED <<disk, entries, enabled, live, image, call>>

(* The file is stat'ed before it is mapped; the stamp of a file that is not *)
(* there is zero.                                                           *)
LoadMiss(c, f) ==
  /\ call = None /\ held[c] = None
  /\ \A e \in Entries : ~Hit(e, f)
  /\ call' = [client |-> c, file |-> f, stamp |-> disk[f]]
  /\ UNCHANGED <<disk, entries, enabled, live, image, held>>

(* The entry that cache_add fills: the first free one, or else the first.   *)
AddsTo(s) ==
  IF \E e \in Entries : entries[e] = None
    THEN entries[s] = None /\ \A e \in Entries : e < s => entries[e] # None
    ELSE s = 1

(* What cache_add unloads to make room in s; the entry is still in the      *)
(* cache when it does.                                                      *)
Evicted(s) == IF entries[s] = None THEN {} ELSE FreedByUnload(entries[s].binary)

CacheAdd(s, b) ==
  /\ AddsTo(s)
  /\ live' = (live \ Evicted(s)) \union {b}
  /\ entries' = [entries EXCEPT ![s] =
       [file |-> call.file, stamp |-> call.stamp, binary |-> b]]

(* Mutant: the file is stat'ed after it was mapped. *)
LoadDoneStatAfter(b) ==
  /\ call # None /\ disk[call.file] > 0
  /\ b \notin live
  /\ \E s \in Entries, later \in disk[call.file] .. MaxVersion :
       /\ AddsTo(s)
       /\ disk' = [disk EXCEPT ![call.file] = later]
       /\ entries' = [entries EXCEPT ![s] =
                        [file |-> call.file, stamp |-> later, binary |-> b]]
       /\ live' = (live \ Evicted(s)) \union {b}
  /\ image' = [image EXCEPT ![b] =
                 [file |-> call.file, version |-> disk[call.file]]]
  /\ held' = [held EXCEPT ![call.client] = b]
  /\ call' = None
  /\ UNCHANGED enabled

(* Mutant: a file that cannot be mapped is not noticed. *)
LoadDoneUnmapped(b) ==
  /\ call # None
  /\ b \notin live
  /\ \E s \in Entries : CacheAdd(s, b)
  /\ image' = [image EXCEPT ![b] =
                 [file |-> call.file, version |-> disk[call.file]]]
  /\ held' = [held EXCEPT ![call.client] = b]
  /\ call' = None
  /\ UNCHANGED <<disk, enabled>>

(* The rest of rosetta_elf_load after a miss: the file is mapped and parsed *)
(* and the binary goes to the cache and to the client.                      *)
LoadDone(b) ==
  /\ call # None /\ disk[call.file] > 0
  /\ b \notin live
  /\ IF enabled THEN \E s \in Entries : CacheAdd(s, b)
                ELSE live' = live \union {b} /\ UNCHANGED entries
  /\ image' = [image EXCEPT ![b] =
                 [file |-> call.file, version |-> disk[call.file]]]
  /\ held' = [held EXCEPT ![call.client] = b]
  /\ call' = None
  /\ UNCHANGED <<disk, enabled>>

(* The file cannot be mapped or is no x86_64 ELF file, or memory is short:  *)
(* whatever was allocated is freed again.                                   *)
LoadFail ==
  /\ call # None
  /\ call' = None
  /\ UNCHANGED <<disk, entries, enabled, live, image, held>>

Unload(c) ==
  /\ call = None /\ held[c] # None
  /\ live' = live \ FreedByUnload(held[c])
  /\ held' = [held EXCEPT ![c] = None]
  /\ UNCHANGED <<disk, entries, enabled, image, call>>

(* rosetta_elf_cache_cleanup and _clear: every cached binary is unloaded    *)
(* while its entry is still valid, then the entry is dropped.               *)
CacheCleanup ==
  /\ call = None
  /\ live' = live \ UNION {FreedByUnload(entries[e].binary) :
                             e \in {i \in Entries : entries[i] # None}}
  /\ entries' = [e \in Entries |-> None]
  /\ UNCHANGED <<disk, enabled, image, held, call>>

(* rosetta_elf_cache_init: memset, and the cache is on. *)
CacheInit ==
  /\ call = None
  /\ entries' = [e \in Entries |-> None]
  /\ enabled' = TRUE
  /\ UNCHANGED <<disk, live, image, held, call>>

(* rosetta_elf_cache_set_enabled *)
SetEnabled(on) ==
  /\ call = None
  /\ enabled' = on
  /\ UNCHANGED <<disk, entries, live, image, held, call>>

-----------------------------------------------------------------------------
(* Careful clients: nobody loads a file that another client has loaded, and *)
(* the cache is empty when it is turned off or on.                          *)
Loaded(f) == \E c \in Clients : held[c] # None /\ image[held[c]].file = f

Next ==
  \/ \E f \in Files : Replace(f)
  \/ \E c \in Clients, f \in Files :
       ~Loaded(f) /\ (LoadHit(c, f) \/ LoadMiss(c, f))
  \/ \E b \in Binaries : LoadDone(b)
  \/ LoadFail
  \/ \E c \in Clients : Unload(c)
  \/ CacheCleanup
  \/ CacheInit
  \/ \E on \in BOOLEAN :
       SetEnabled(on) /\ \A e \in Entries : entries[e] = None

Spec == Init /\ [][Next]_vars

(* Clients that share a file. *)
SharedNext ==
  \/ Next
  \/ \E c \in Clients, f \in Files : LoadHit(c, f) \/ LoadMiss(c, f)

SharedSpec == Init /\ [][SharedNext]_vars

-----------------------------------------------------------------------------
(* Every variable holds a value of the program's type, and what is           *)
(* allocated was loaded from a file that was there.                          *)
TypeOK ==
  /\ disk \in [Files -> 0 .. MaxVersion]
  /\ entries \in [Entries -> CacheEntry \union {None}]
  /\ enabled \in BOOLEAN
  /\ live \subseteq Binaries
  /\ image \in [Binaries -> Image]
  /\ \A b \in live : image[b].version > 0
  /\ held \in [Clients -> Binaries \union {None}]
  /\ call \in Call \union {None}

(* A binary stays allocated while a client has it loaded: unloading,        *)
(* eviction and cleanup free nothing that is in use.                        *)
HeldLive == \A c \in Clients : held[c] # None => held[c] \in live

(* What the cache would hand out is allocated and was loaded from the file  *)
(* the entry names, in the version it names or a later one: stat comes      *)
(* before the mapping.                                                      *)
CachedLive ==
  \A e \in Entries : entries[e] # None =>
    /\ entries[e].binary \in live
    /\ image[entries[e].binary].file = entries[e].file
    /\ entries[e].stamp <= image[entries[e].binary].version

(* No binary has two entries, so what one eviction forgets no other entry   *)
(* still hands out.                                                         *)
EntriesDistinct ==
  \A e, i \in Entries :
    e # i /\ entries[e] # None /\ entries[i] # None
      => entries[e].binary # entries[i].binary

(* Loading behaves like opening a file: a hit, too, gives the client the    *)
(* file as it is now, and what a client holds does not change.              *)
Handle == [c \in Clients |-> IF held[c] = None THEN None ELSE image[held[c]]]
Abstract == INSTANCE FileHandles WITH handle <- Handle
RefinesFileHandles == Abstract!Spec
=============================================================================

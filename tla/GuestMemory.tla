---------------------------- MODULE GuestMemory -----------------------------
(***************************************************************************)
(* The guest memory manager, rosetta_memmgr.c: one rosetta_memmgr_t whose  *)
(* guest addresses 0 .. Total-1 are host memory, the list of regions it     *)
(* handed out, and what its memory holds, under the loop in                 *)
(* rosetta_runner_execute that maps the segments of a binary in the order   *)
(* of its program headers.  Addresses and sizes count cells; PageSize cells *)
(* are a page and Word stands for 2^64.                                     *)
(***************************************************************************)
EXTENDS Integers, Sequences

CONSTANTS
  Total,       \* total_size
  PageSize,    \* ROSETTA_PAGE_SIZE
  Word,        \* 2^64: size_t and uint64_t wrap there
  Addrs,       \* guest addresses clients ask for
  Sizes,       \* sizes clients ask for
  Segments,    \* addr and file size of each loadable segment, in file order
  MaxRegions   \* bound on the number of regions

Interval == [addr : Nat, size : Nat \ {0}]

ASSUME GuestMemoryAssumption ==
  /\ PageSize \in Nat \ {0} /\ Total \in Nat \ {0} /\ Word \in Nat
  /\ Total < Word
  /\ Addrs \subseteq 0 .. Word - 1 /\ Sizes \subseteq 1 .. Word - 1
  /\ Segments \in Seq(Interval)
  /\ MaxRegions \in Nat

(* The ELF format puts loadable segments in ascending order of address, and *)
(* they do not overlap.                                                     *)
ASSUME SegmentsAscend ==
  \A i, j \in 1 .. Len(Segments) :
    i < j => Segments[i].addr + Segments[i].size <= Segments[j].addr

VARIABLES
  regions,   \* mgr->regions, newest first
  used,      \* mgr->used_size
  memory,    \* what each cell holds: Zero, Data or the number of a segment
  loaded,    \* how many segments the loading loop has copied
  ret        \* what the last call returned

vars == <<regions, used, memory, loaded, ret>>

Cells == 0 .. Total - 1
Zero == 0                     \* memory nobody wrote to
Data == Len(Segments) + 1     \* what memmgr_write leaves

Within(addr, size) == {c \in Cells : addr <= c /\ c < addr + size}

(* Sizes are rounded up to pages, in size_t. *)
RoundUp(size) ==
  LET n == (size + PageSize - 1) % Word
  IN  n - (n % PageSize)

(* Mutant: only the start of the interval is checked. *)
FitsStart(addr, size) == addr < Total

(* The two checks of every access; the sum is taken in uint64_t. *)
Fits(addr, size) == addr < Total /\ (addr + size) % Word <= Total

Init ==
  /\ regions = <<>> /\ used = 0
  /\ memory = [c \in Cells |-> Zero]
  /\ loaded = 0
  /\ ret = 0

(* Mutant: used_size is not advanced. *)
AddRegionUncounted(addr, size, chosen) ==
  /\ Len(regions) < MaxRegions
  /\ regions' = <<[addr |-> addr, size |-> size, chosen |-> chosen]>> \o regions
  /\ used' = used

(* add_region compares the new region with none of the old ones.  chosen is *)
(* history: the address was left to the manager.                            *)
AddRegion(addr, size, chosen) ==
  /\ Len(regions) < MaxRegions
  /\ regions' = <<[addr |-> addr, size |-> size, chosen |-> chosen]>> \o regions
  /\ used' = (used + size) % Word

(* A bad argument, no room, or calloc failed. *)
Refuse(code) ==
  /\ ret' = code
  /\ UNCHANGED <<regions, used, memory, loaded>>

(* Asking for address 0 means any address: the one after used_size bytes. *)
Where(addr) == IF addr = 0 THEN used ELSE addr

(* rosetta_memmgr_alloc; what memory holds is not touched. *)
Alloc(addr, n) ==
  \/ /\ Fits(Where(addr), RoundUp(n))
     /\ AddRegion(Where(addr), RoundUp(n), addr = 0)
     /\ ret' = Where(addr)
     /\ UNCHANGED <<memory, loaded>>
  \/ Refuse(0)

(* Mutant: the address of the stack is a signed difference. *)
AllocStackSigned(n) ==
  LET size == RoundUp(n)
      at   == Where(Total - size)
  IN  \/ /\ Fits(at, size)
         /\ AddRegion(at, size, (Total - size) % Word = 0)
         /\ ret' = IF at = 0 THEN 0 ELSE (at + size) % Word
         /\ UNCHANGED <<memory, loaded>>
      \/ Refuse(0)

(* rosetta_memmgr_alloc_stack allocates at the top.  Rounding the address   *)
(* down to 16 bytes changes nothing: it is a multiple of the page size.     *)
AllocStack(n) ==
  LET size == RoundUp(n)
      at   == Where((Total - size) % Word)
  IN  \/ /\ Fits(at, size)
         /\ AddRegion(at, size, (Total - size) % Word = 0)
         /\ ret' = IF at = 0 THEN 0 ELSE (at + size) % Word
         /\ UNCHANGED <<memory, loaded>>
      \/ Refuse(0)

(* Mutant: the padding is zeroed from one cell too early. *)
FilledEarly(k) ==
  LET s == Segments[k]
  IN  [c \in Cells |->
         IF c \in Within(s.addr, s.size - 1) THEN k
         ELSE IF c \in Within(s.addr, RoundUp(s.size)) THEN Zero ELSE memory[c]]

(* A segment's bytes, and zeroes up to the rounded size. *)
Filled(k) ==
  LET s == Segments[k]
  IN  [c \in Cells |->
         IF c \in Within(s.addr, s.size) THEN k
         ELSE IF c \in Within(s.addr, RoundUp(s.size)) THEN Zero ELSE memory[c]]

(* rosetta_memmgr_map_segment for the next segment.  The bytes are copied   *)
(* before the region is added, and stay there when calloc fails.            *)
MapSegment(k) ==
  LET s == Segments[k]
  IN  /\ k = loaded + 1
      /\ \/ /\ Fits(s.addr, RoundUp(s.size))
            /\ memory' = Filled(k)
            /\ loaded' = k
            /\ \/ AddRegion(s.addr, RoundUp(s.size), FALSE) /\ ret' = s.addr
               \/ UNCHANGED <<regions, used>> /\ ret' = 0
         \/ Refuse(0)

(* rosetta_runner_execute maps the segments from the first one again, into  *)
(* the memory the last execution left.                                      *)
Reload ==
  /\ loaded' = 0
  /\ UNCHANGED <<regions, used, memory, ret>>

(* rosetta_memmgr_write, of data that is no segment's. *)
Write(addr, n) ==
  \/ /\ Fits(addr, n)
     /\ memory' = [c \in Cells |-> IF c \in Within(addr, n) THEN Data ELSE memory[c]]
     /\ ret' = n
     /\ UNCHANGED <<regions, used, loaded>>
  \/ ~Fits(addr, n) /\ Refuse(-1)

(* rosetta_memmgr_read *)
Read(addr, n) == Refuse(IF Fits(addr, n) THEN n ELSE -1)

(* rosetta_memmgr_destroy and rosetta_memmgr_create *)
Recreate ==
  /\ regions' = <<>> /\ used' = 0
  /\ memory' = [c \in Cells |-> Zero]
  /\ loaded' = 0
  /\ ret' = 0

Next ==
  \/ \E a \in Addrs, n \in Sizes : Alloc(a, n) \/ Write(a, n) \/ Read(a, n)
  \/ \E n \in Sizes : AllocStack(n)
  \/ \E k \in 1 .. Len(Segments) : MapSegment(k)
  \/ Reload
  \/ Recreate

Spec == Init /\ [][Next]_vars

(* No sum of an address, a size and a page reaches 2^64. *)
NoWrap ==
  /\ \A n \in Sizes : Total + n + PageSize <= Word
  /\ \A k \in 1 .. Len(Segments) : Total + Segments[k].size + PageSize <= Word

-----------------------------------------------------------------------------
Region == [addr : Cells, size : 0 .. Word - 1, chosen : BOOLEAN]

TypeOK ==
  /\ regions \in Seq(Region)
  /\ used \in 0 .. Word - 1
  /\ memory \in [Cells -> 0 .. Data]
  /\ loaded \in 0 .. Len(Segments)
  /\ ret \in -1 .. Word - 1

(* Every region handed out lies in the memory there is: what is fetched or  *)
(* written through a region never leaves the mapping.                       *)
RegionsInside ==
  \A i \in 1 .. Len(regions) : regions[i].addr + regions[i].size <= Total

(* While the segments of a binary are being mapped, the ones already there  *)
(* keep their bytes, whatever the padding of the later ones and whatever an *)
(* earlier execution left, unless the guest wrote over them; the padding of *)
(* a segment holds nothing of an earlier execution.                         *)
ImageLoaded ==
  \A k \in 1 .. loaded :
    LET s == Segments[k]
    IN  /\ s.addr + s.size <= Total
        /\ \A c \in Within(s.addr, s.size) : memory[c] \in {k, Data}
        /\ \A c \in Within(s.addr, RoundUp(s.size)) \ Within(s.addr, s.size) :
             memory[c] \in {Zero, Data} \union (k + 1 .. loaded)

(* As long as every address was left to the manager, regions follow each    *)
(* other without a gap or an overlap, and used_size is where the next one   *)
(* starts.                                                                  *)
ChosenFrom(i) == \A j \in i .. Len(regions) : regions[j].chosen
Tiled ==
  /\ \A i \in 1 .. Len(regions) :
       ChosenFrom(i) =>
         regions[i].addr =
           IF i = Len(regions) THEN 0 ELSE regions[i + 1].addr + regions[i + 1].size
  /\ ChosenFrom(1) =>
       used = IF regions = <<>> THEN 0 ELSE regions[1].addr + regions[1].size

-----------------------------------------------------------------------------
(* Claims of comments that the code does not keep.                          *)

(* An address the manager chose was available.                              *)
ChosenIsFree ==
  [][\A n \in Sizes : Alloc(0, n) /\ Len(regions') > Len(regions) =>
       \A i \in 1 .. Len(regions) :
         Within(used, RoundUp(n)) \cap Within(regions[i].addr, regions[i].size) = {}]_vars
=============================================================================

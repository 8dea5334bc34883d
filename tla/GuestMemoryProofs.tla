-------------------------- MODULE GuestMemoryProofs -------------------------
(***************************************************************************)
(* Regions stay inside the memory, a loaded image stays whole, and regions *)
(* at addresses the manager chose tile the memory, for every memory size,   *)
(* page size and binary, as long as no sum reaches 2^64.                    *)
(***************************************************************************)
EXTENDS GuestMemory, TLAPS

(* What clients ask for: a size given by them or by a segment. *)
Size == Sizes \union {Segments[k].size : k \in 1 .. Len(Segments)}

USE GuestMemoryAssumption

(* A size that does not wrap is rounded up by less than a page. *)
LEMMA RoundUpBounds ==
  ASSUME NoWrap, NEW n \in Size
  PROVE  /\ n \in Nat \ {0}
         /\ RoundUp(n) \in Nat /\ n <= RoundUp(n) /\ Total + RoundUp(n) < Word
<1>1. n \in Nat \ {0} /\ Total + n + PageSize <= Word
  <2>1. CASE n \in Sizes
    BY <2>1 DEF NoWrap
  <2>2. CASE n \notin Sizes
    <3>1. PICK k \in 1 .. Len(Segments) : n = Segments[k].size
      BY <2>2 DEF Size
    <3>2. Segments[k] \in Interval
      BY <3>1
    <3> QED BY <3>1, <3>2 DEF NoWrap, Interval
  <2> QED BY <2>1, <2>2
<1> DEFINE m == n + PageSize - 1
<1>2. m \in 0 .. Word - 1
  BY <1>1
<1>3. m % Word = m
  BY <1>2
<1>4. RoundUp(n) = m - (m % PageSize)
  BY <1>3 DEF RoundUp
<1>5. m % PageSize \in 0 .. PageSize - 1
  BY <1>2
<1> QED BY <1>1, <1>2, <1>4, <1>5

(* The checks of an access keep it inside the memory. *)
LEMMA FitsInside ==
  ASSUME NoWrap, NEW a \in Nat, NEW n \in Nat, Total + n < Word, Fits(a, n)
  PROVE  a \in Cells /\ a + n <= Total
<1>1. a \in Cells /\ a + n \in 0 .. Word - 1
  BY DEF Fits, Cells
<1>2. (a + n) % Word = a + n
  BY <1>1
<1> QED BY <1>1, <1>2 DEF Fits

(* RegionsInside is inductive with the types alone; ImageLoaded needs the   *)
(* segments to ascend, so that padding only reaches later segments.         *)
Inv == TypeOK /\ RegionsInside /\ ImageLoaded

(* A region that passed the checks keeps the list sane. *)
LEMMA AddRegionInv ==
  ASSUME Inv, NEW a \in Cells, NEW n \in Nat, a + n <= Total,
         NEW ch \in BOOLEAN, AddRegion(a, n, ch)
  PROVE  /\ regions' \in Seq(Region) /\ used' \in 0 .. Word - 1
         /\ RegionsInside'
<1> DEFINE r == [addr |-> a, size |-> n, chosen |-> ch]
<1>1. n \in 0 .. Word - 1
  BY DEF Cells
<1>2. r \in Region
  BY <1>1 DEF Region
<1>3. regions \in Seq(Region) /\ used \in 0 .. Word - 1
  BY DEF Inv, TypeOK
<1>4. regions' = <<r>> \o regions
  BY DEF AddRegion
<1>5. regions' \in Seq(Region)
  BY <1>2, <1>3, <1>4
<1>6. used' \in 0 .. Word - 1
  <2>1. used + n \in Nat /\ used' = (used + n) % Word
    BY <1>3 DEF AddRegion
  <2> QED BY <2>1
<1>7. ASSUME NEW i \in 1 .. Len(regions') PROVE regions'[i].addr + regions'[i].size <= Total
  <2>1. CASE i = 1
    BY <1>2, <1>3, <1>4, <2>1 DEF Region
  <2>2. CASE i # 1
    <3>1. i - 1 \in 1 .. Len(regions) /\ regions'[i] = regions[i - 1]
      BY <1>2, <1>3, <1>4, <2>2
    <3> QED BY <3>1 DEF Inv, RegionsInside
  <2> QED BY <2>1, <2>2
<1> QED BY <1>5, <1>6, <1>7 DEF RegionsInside

(* What is in memory is decided by memory and loaded alone. *)
LEMMA SameImage ==
  ASSUME ImageLoaded, UNCHANGED <<memory, loaded>>
  PROVE  ImageLoaded'
BY DEF ImageLoaded

(* A refused call changes nothing but its result. *)
LEMMA RefuseInv ==
  ASSUME Inv, NEW code \in -1 .. Word - 1, Refuse(code)
  PROVE  Inv'
<1>1. ImageLoaded'
  BY SameImage DEF Inv, Refuse
<1>2. TypeOK' /\ RegionsInside'
  BY DEF Inv, Refuse, TypeOK, RegionsInside
<1> QED BY <1>1, <1>2 DEF Inv

LEMMA InitInv == Init => Inv
<1> SUFFICES ASSUME Init PROVE Inv
  OBVIOUS
<1>1. regions = <<>> /\ used = 0 /\ loaded = 0 /\ ret = 0
  BY DEF Init
<1>2. memory \in [Cells -> 0 .. Data]
  BY DEF Init, Data, Zero
<1>3. TypeOK
  BY <1>1, <1>2 DEF TypeOK
<1>4. RegionsInside /\ ImageLoaded
  BY <1>1 DEF RegionsInside, ImageLoaded
<1> QED BY <1>3, <1>4 DEF Inv

(* Allocation at a given or a chosen address. *)
LEMMA AllocInv ==
  ASSUME NoWrap, Inv, NEW a \in Addrs, NEW n \in Sizes, Alloc(a, n)
  PROVE  Inv'
<1>1. CASE Refuse(0)
  BY <1>1, RefuseInv
<1>2. CASE /\ Fits(Where(a), RoundUp(n))
           /\ AddRegion(Where(a), RoundUp(n), a = 0)
           /\ ret' = Where(a)
           /\ UNCHANGED <<memory, loaded>>
  <2>1. Where(a) \in Nat
    BY DEF Where, Inv, TypeOK
  <2>2. RoundUp(n) \in Nat /\ Total + RoundUp(n) < Word
    BY RoundUpBounds DEF Size
  <2>3. Where(a) \in Cells /\ Where(a) + RoundUp(n) <= Total
    BY <1>2, <2>1, <2>2, FitsInside
  <2>4. /\ regions' \in Seq(Region) /\ used' \in 0 .. Word - 1
        /\ RegionsInside'
    BY <1>2, <2>2, <2>3, AddRegionInv
  <2>5. ret' \in -1 .. Word - 1
    BY <1>2, <2>3 DEF Cells
  <2>6. ImageLoaded'
    BY <1>2, SameImage DEF Inv
  <2>7. TypeOK'
    BY <1>2, <2>4, <2>5 DEF Inv, TypeOK
  <2> QED BY <2>4, <2>6, <2>7 DEF Inv
<1> QED BY <1>1, <1>2 DEF Alloc

(* The stack, when it fills the memory, is placed like any allocation. *)
LEMMA AllocStackInv ==
  ASSUME NoWrap, Inv, NEW n \in Sizes, AllocStack(n)
  PROVE  Inv'
<1> DEFINE size == RoundUp(n)
           at   == Where((Total - size) % Word)
<1>1. CASE Refuse(0)
  BY <1>1, RefuseInv
<1>2. CASE /\ Fits(at, size)
           /\ AddRegion(at, size, (Total - size) % Word = 0)
           /\ ret' = IF at = 0 THEN 0 ELSE (at + size) % Word
           /\ UNCHANGED <<memory, loaded>>
  <2>1. size \in Nat /\ Total + size < Word
    BY RoundUpBounds DEF Size
  <2>2. (Total - size) % Word \in Nat
    BY <2>1
  <2>3. at \in Nat
    BY <2>2 DEF Where, Inv, TypeOK
  <2> HIDE DEF size, at
  <2>4. at \in Cells /\ at + size <= Total
    BY <1>2, <2>1, <2>3, FitsInside
  <2>5. /\ regions' \in Seq(Region) /\ used' \in 0 .. Word - 1
        /\ RegionsInside'
    BY <1>2, <2>1, <2>4, AddRegionInv
  <2>6. at + size \in 0 .. Word - 1
    BY <2>1, <2>4 DEF Cells
  <2>7. ret' \in -1 .. Word - 1
    BY <1>2, <2>6
  <2>8. ImageLoaded'
    BY <1>2, SameImage DEF Inv
  <2>9. TypeOK'
    BY <1>2, <2>5, <2>7 DEF Inv, TypeOK
  <2> QED BY <2>5, <2>8, <2>9 DEF Inv
<1> QED BY <1>1, <1>2 DEF AllocStack

(* Writing leaves its mark on whatever it covers and nothing else. *)
LEMMA WriteInv ==
  ASSUME NoWrap, Inv, NEW a \in Addrs, NEW n \in Sizes, Write(a, n)
  PROVE  Inv'
<1>1. CASE Refuse(-1)
  BY <1>1, RefuseInv
<1>2. CASE /\ memory' = [c \in Cells |-> IF c \in Within(a, n) THEN Data ELSE memory[c]]
           /\ ret' = n
           /\ UNCHANGED <<regions, used, loaded>>
  <2>1. memory' \in [Cells -> 0 .. Data]
    BY <1>2 DEF Inv, TypeOK, Data
  <2>2. TypeOK' /\ RegionsInside'
    BY <1>2, <2>1 DEF Inv, TypeOK, RegionsInside
  <2>3. \A c \in Cells : memory'[c] = Data \/ memory'[c] = memory[c]
    BY <1>2
  <2>4. \A x, y : Within(x, y) \subseteq Cells
    BY DEF Within
  <2>5. ImageLoaded'
    BY <1>2, <2>3, <2>4 DEF Inv, ImageLoaded
  <2> QED BY <2>2, <2>5 DEF Inv
<1> QED BY <1>1, <1>2 DEF Write

(* Copying a segment touches none of the segments before it: they end where *)
(* it starts or earlier.                                                    *)
LEMMA MapSegmentInv ==
  ASSUME NoWrap, Inv, NEW k \in 1 .. Len(Segments), MapSegment(k)
  PROVE  Inv'
<1> DEFINE s == Segments[k]
           size == RoundUp(s.size)
<1>1. CASE Refuse(0)
  BY <1>1, RefuseInv
<1>2. CASE /\ Fits(s.addr, size)
           /\ memory' = Filled(k)
           /\ loaded' = k
           /\ \/ AddRegion(s.addr, size, FALSE) /\ ret' = s.addr
              \/ UNCHANGED <<regions, used>> /\ ret' = 0
  <2>1. s \in Interval
    OBVIOUS
  <2>2. /\ s.size \in Nat \ {0} /\ size \in Nat /\ s.size <= size
        /\ Total + size < Word
    BY RoundUpBounds DEF Size
  <2>3. s.addr \in Cells /\ s.addr + size <= Total
    BY <1>2, <2>1, <2>2, FitsInside DEF Interval
  <2>4. /\ regions' \in Seq(Region) /\ used' \in 0 .. Word - 1
        /\ RegionsInside'
    <3>1. CASE AddRegion(s.addr, size, FALSE)
      BY <2>2, <2>3, <3>1, AddRegionInv
    <3>2. CASE UNCHANGED <<regions, used>>
      BY <3>2 DEF Inv, TypeOK, RegionsInside
    <3> QED BY <1>2, <3>1, <3>2
  <2>5. ret' \in -1 .. Word - 1 /\ loaded' \in 0 .. Len(Segments)
    <3>1. ret' \in {0, s.addr}
      BY <1>2
    <3>2. loaded' = k
      BY <1>2
    <3> QED BY <2>3, <3>1, <3>2 DEF Cells
  <2>6. memory' \in [Cells -> 0 .. Data]
    BY <1>2 DEF Filled, Inv, TypeOK, Data, Zero
  <2>7. ImageLoaded'
    <3> DEFINE t(j) == Segments[j]
    <3>1. SUFFICES ASSUME NEW j \in 1 .. k
                   PROVE  /\ t(j).addr + t(j).size <= Total
                          /\ \A c \in Within(t(j).addr, t(j).size) : memory'[c] \in {j, Data}
                          /\ \A c \in Within(t(j).addr, RoundUp(t(j).size))
                                     \ Within(t(j).addr, t(j).size) :
                               memory'[c] \in {Zero, Data} \union (j + 1 .. k)
      BY <1>2 DEF ImageLoaded
    <3>2. \A c \in Cells : memory'[c] = IF c \in Within(s.addr, s.size) THEN k
                           ELSE IF c \in Within(s.addr, size) THEN Zero ELSE memory[c]
      BY <1>2 DEF Filled
    <3>3. CASE j = k
      BY <2>2, <2>3, <3>2, <3>3 DEF Within, Cells
    <3>4. CASE j < k
      <4>1. j \in 1 .. loaded /\ loaded = k - 1
        BY <3>4 DEF MapSegment, Inv, TypeOK
      <4>2. /\ t(j).addr + t(j).size <= Total
            /\ \A c \in Within(t(j).addr, t(j).size) : memory[c] \in {j, Data}
            /\ \A c \in Within(t(j).addr, RoundUp(t(j).size))
                       \ Within(t(j).addr, t(j).size) :
                 memory[c] \in {Zero, Data} \union (j + 1 .. loaded)
        BY <4>1 DEF Inv, ImageLoaded
      <4>3. t(j) \in Interval /\ t(j).addr + t(j).size <= s.addr
        BY <3>4, SegmentsAscend
      <4>4. \A c \in Within(t(j).addr, t(j).size) : memory'[c] = memory[c]
        <5> SUFFICES ASSUME NEW c \in Within(t(j).addr, t(j).size)
                     PROVE  memory'[c] = memory[c]
          OBVIOUS
        <5>1. c \in Cells /\ c < t(j).addr + t(j).size
          BY DEF Within
        <5>2. c < s.addr
          BY <2>1, <4>3, <5>1 DEF Cells, Interval
        <5>3. c \notin Within(s.addr, s.size) /\ c \notin Within(s.addr, size)
          BY <2>3, <5>1, <5>2 DEF Within, Cells
        <5> QED BY <3>2, <5>1, <5>3
      <4>5. \A c \in Cells : memory'[c] \in {k, Zero, memory[c]}
        BY <3>2
      <4>6. j + 1 .. loaded \subseteq j + 1 .. k /\ k \in j + 1 .. k
        BY <3>4, <4>1
      <4>7. Within(t(j).addr, RoundUp(t(j).size)) \subseteq Cells
        BY DEF Within
      <4> QED BY <4>2, <4>4, <4>5, <4>6, <4>7
    <3> QED BY <3>3, <3>4
  <2>8. TypeOK'
    BY <2>4, <2>5, <2>6 DEF TypeOK
  <2> QED BY <2>4, <2>7, <2>8 DEF Inv
<1> QED BY <1>1, <1>2 DEF MapSegment

(* A second execution starts copying from the first segment again. *)
LEMMA ReloadInv == Inv /\ Reload => Inv'
BY DEF Inv, Reload, TypeOK, RegionsInside, ImageLoaded

LEMMA RecreateInv == Inv /\ Recreate => Inv'
<1> SUFFICES ASSUME Inv, Recreate PROVE Inv'
  OBVIOUS
<1>1. memory' \in [Cells -> 0 .. Data]
  BY DEF Recreate, Data, Zero
<1>2. regions' = <<>> /\ used' = 0 /\ loaded' = 0 /\ ret' = 0
  BY DEF Recreate
<1>3. TypeOK'
  BY <1>1, <1>2 DEF TypeOK
<1>4. RegionsInside' /\ ImageLoaded'
  BY <1>2 DEF RegionsInside, ImageLoaded
<1> QED BY <1>3, <1>4 DEF Inv

LEMMA ReadInv ==
  ASSUME Inv, NEW a \in Addrs, NEW n \in Sizes, Read(a, n)
  PROVE  Inv'
<1>1. CASE Fits(a, n)
  BY <1>1, RefuseInv DEF Read
<1>2. CASE ~Fits(a, n)
  BY <1>2, RefuseInv DEF Read
<1> QED BY <1>1, <1>2

LEMMA NextInv ==
  ASSUME NoWrap, Inv, [Next]_vars
  PROVE  Inv'
<1>1. CASE \E a \in Addrs, n \in Sizes : Alloc(a, n) \/ Write(a, n) \/ Read(a, n)
  BY <1>1, AllocInv, WriteInv, ReadInv
<1>2. CASE \E n \in Sizes : AllocStack(n)
  BY <1>2, AllocStackInv
<1>3. CASE \E k \in 1 .. Len(Segments) : MapSegment(k)
  BY <1>3, MapSegmentInv
<1>4. CASE Reload
  BY <1>4, ReloadInv
<1>5. CASE Recreate
  BY <1>5, RecreateInv
<1>6. CASE UNCHANGED vars
  BY <1>6 DEF vars, Inv, TypeOK, RegionsInside, ImageLoaded
<1> QED BY <1>1, <1>2, <1>3, <1>4, <1>5, <1>6 DEF Next

(* The inductive invariant of the memory manager and the loading loop.      *)
THEOREM MemInvHolds == ASSUME NoWrap PROVE Spec => []Inv
<1>1. Inv /\ [Next]_vars => Inv'
  BY NextInv
<1> QED BY InitInv, <1>1, PTL DEF Spec

(* rosetta_memmgr_alloc, rosetta_memmgr_map_segment and                     *)
(* rosetta_memmgr_alloc_stack hand out no region that leaves the memory.    *)
THEOREM RegionsStayInside == ASSUME NoWrap PROVE Spec => []RegionsInside
<1>1. Inv => RegionsInside
  BY DEF Inv
<1> QED BY MemInvHolds, <1>1, PTL

(* The loading loop of rosetta_runner_execute never damages what it loaded. *)
THEOREM ImageStaysLoaded == ASSUME NoWrap PROVE Spec => []ImageLoaded
<1>1. Inv => ImageLoaded
  BY DEF Inv
<1> QED BY MemInvHolds, <1>1, PTL

-----------------------------------------------------------------------------
(* A chosen address is the end of the newest region, and the first one is 0. *)
LEMMA AddRegionTiles ==
  ASSUME Inv, Tiled, NEW a \in Cells, NEW n \in Nat, a + n <= Total,
         NEW ch \in BOOLEAN, ch => a = used, AddRegion(a, n, ch)
  PROVE  Tiled'
<1> DEFINE r == [addr |-> a, size |-> n, chosen |-> ch]
<1>1. regions' = <<r>> \o regions /\ used' = (used + n) % Word
  BY DEF AddRegion
<1>2. regions \in Seq(Region) /\ used \in 0 .. Word - 1
  BY DEF Inv, TypeOK
<1>3. ch => used' = used + n
  <2>1. \A x \in 0 .. Word - 1 : x % Word = x
    OBVIOUS
  <2>2. a + n \in 0 .. Word - 1
    BY DEF Cells
  <2> QED BY <1>1, <2>1, <2>2
<1>4. Len(regions') = Len(regions) + 1 /\ regions'[1] = r
  BY <1>1, <1>2
<1>5. \A i \in 2 .. Len(regions') : i - 1 \in 1 .. Len(regions) /\ regions'[i] = regions[i - 1]
  BY <1>1, <1>2, <1>4
<1>6. regions' # <<>>
  BY <1>2, <1>4
<1>7. ASSUME NEW i \in 2 .. Len(regions'), ChosenFrom(i)'
      PROVE  ChosenFrom(i - 1)
  <2> SUFFICES ASSUME NEW j \in i - 1 .. Len(regions) PROVE regions[j].chosen
    BY DEF ChosenFrom
  <2>1. j + 1 \in i .. Len(regions') /\ j + 1 \in 2 .. Len(regions')
    BY <1>2, <1>4
  <2>2. regions'[j + 1].chosen /\ regions'[j + 1] = regions[(j + 1) - 1]
    BY <1>5, <1>7, <2>1 DEF ChosenFrom
  <2> QED BY <2>2
<1>8. ASSUME ChosenFrom(1)'
      PROVE  ch /\ ChosenFrom(1)
  <2>1. \A j \in 1 .. Len(regions') : regions'[j].chosen
    BY <1>8 DEF ChosenFrom
  <2>2. ch
    BY <1>2, <1>4, <2>1
  <2>3. ChosenFrom(1)
    <3>1. CASE regions = <<>>
      BY <3>1 DEF ChosenFrom
    <3>2. CASE regions # <<>>
      <4>1. 2 \in 2 .. Len(regions')
        BY <1>2, <1>4, <3>2
      <4>2. ChosenFrom(2)'
        BY <2>1, <4>1 DEF ChosenFrom
      <4> QED BY <1>7, <4>1, <4>2
    <3> QED BY <3>1, <3>2
  <2> QED BY <2>2, <2>3
<1>9. ASSUME NEW i \in 1 .. Len(regions'), ChosenFrom(i)'
      PROVE  regions'[i].addr =
               IF i = Len(regions') THEN 0 ELSE regions'[i + 1].addr + regions'[i + 1].size
  <2>1. CASE i = 1
    <3>1. a = used /\ ChosenFrom(1)
      BY <1>8, <1>9, <2>1
    <3>2. CASE regions = <<>>
      BY <1>2, <1>4, <2>1, <3>1, <3>2 DEF Tiled
    <3>3. CASE regions # <<>>
      <4>1. Len(regions) # 0 /\ used = regions[1].addr + regions[1].size
        BY <1>2, <3>1, <3>3 DEF Tiled
      <4>2. regions'[2] = regions[1]
        BY <1>2, <1>4, <1>5, <4>1
      <4> QED BY <1>2, <1>4, <2>1, <3>1, <4>1, <4>2
    <3> QED BY <3>2, <3>3
  <2>2. CASE i # 1
    <3>1. i - 1 \in 1 .. Len(regions) /\ regions'[i] = regions[i - 1] /\ ChosenFrom(i - 1)
      BY <1>5, <1>7, <1>9, <2>2
    <3>2. i # Len(regions') => regions'[i + 1] = regions[i]
      BY <1>2, <1>4, <1>5, <2>2
    <3>3. regions[i - 1].addr =
            IF i - 1 = Len(regions) THEN 0 ELSE regions[i].addr + regions[i].size
      BY <3>1 DEF Tiled
    <3> QED BY <1>2, <1>4, <3>1, <3>2, <3>3
  <2> QED BY <2>1, <2>2
<1>10. ASSUME ChosenFrom(1)' PROVE used' = regions'[1].addr + regions'[1].size
  BY <1>3, <1>4, <1>8, <1>10
<1> QED BY <1>6, <1>9, <1>10 DEF Tiled

(* A segment and the stack have addresses of their own, unless the stack    *)
(* fills the memory.                                                        *)
LEMMA NextTiles ==
  ASSUME NoWrap, Inv, Tiled, [Next]_vars
  PROVE  Tiled'
<1>1. ASSUME NEW a \in Nat, NEW n \in Size, NEW ch \in BOOLEAN, ch => a = used,
             Fits(a, RoundUp(n)), AddRegion(a, RoundUp(n), ch)
      PROVE  Tiled'
  <2>1. RoundUp(n) \in Nat /\ Total + RoundUp(n) < Word
    BY RoundUpBounds
  <2>2. a \in Cells /\ a + RoundUp(n) <= Total
    BY <1>1, <2>1, FitsInside
  <2> QED BY <1>1, <2>1, <2>2, AddRegionTiles
<1>2. UNCHANGED <<regions, used>> => Tiled'
  BY DEF Tiled, ChosenFrom
<1>3. ASSUME NEW a \in Addrs, NEW n \in Sizes, Alloc(a, n) PROVE Tiled'
  <2>1. Where(a) \in Nat /\ n \in Size /\ (a = 0 => Where(a) = used)
    BY DEF Where, Inv, TypeOK, Size
  <2>2. CASE Fits(Where(a), RoundUp(n)) /\ AddRegion(Where(a), RoundUp(n), a = 0)
    BY <1>1, <2>1, <2>2
  <2>3. CASE Refuse(0)
    BY <1>2, <2>3 DEF Refuse
  <2> QED BY <1>3, <2>2, <2>3 DEF Alloc
<1>4. ASSUME NEW n \in Sizes, AllocStack(n) PROVE Tiled'
  <2> DEFINE low == (Total - RoundUp(n)) % Word
  <2>1. RoundUp(n) \in Nat /\ n \in Size
    BY RoundUpBounds DEF Size
  <2>2. low \in Nat
    BY <2>1
  <2>3. Where(low) \in Nat /\ (low = 0 => Where(low) = used)
    BY <2>2 DEF Where, Inv, TypeOK
  <2>4. CASE Fits(Where(low), RoundUp(n)) /\ AddRegion(Where(low), RoundUp(n), low = 0)
    <3> HIDE DEF low
    <3> QED BY <1>1, <2>1, <2>3, <2>4
  <2>5. CASE Refuse(0)
    BY <1>2, <2>5 DEF Refuse
  <2> QED BY <1>4, <2>4, <2>5 DEF AllocStack
<1>5. ASSUME NEW k \in 1 .. Len(Segments), MapSegment(k) PROVE Tiled'
  <2> DEFINE s == Segments[k]
  <2>1. s \in Interval /\ s.size \in Size
    BY DEF Size
  <2>2. s.addr \in Nat
    BY <2>1 DEF Interval
  <2>3. CASE Fits(s.addr, RoundUp(s.size)) /\ AddRegion(s.addr, RoundUp(s.size), FALSE)
    BY <1>1, <2>1, <2>2, <2>3
  <2>4. CASE UNCHANGED <<regions, used>>
    BY <1>2, <2>4
  <2> QED BY <1>5, <2>3, <2>4 DEF MapSegment, Refuse
<1>6. CASE \E a \in Addrs, n \in Sizes : Write(a, n) \/ Read(a, n)
  BY <1>2, <1>6 DEF Write, Read, Refuse
<1>7. CASE Recreate
  BY <1>7 DEF Recreate, Tiled
<1>8. CASE Reload
  BY <1>2, <1>8 DEF Reload
<1>9. CASE UNCHANGED vars
  BY <1>2, <1>9 DEF vars
<1> QED BY <1>3, <1>4, <1>5, <1>6, <1>7, <1>8, <1>9 DEF Next

(* As long as nobody asks for an address, rosetta_memmgr_alloc never gives  *)
(* out the same memory twice.                                               *)
THEOREM ChosenRegionsTile == ASSUME NoWrap PROVE Spec => []Tiled
<1>1. Init => Inv /\ Tiled
  BY InitInv DEF Init, Tiled
<1>2. Inv /\ Tiled /\ [Next]_vars => (Inv /\ Tiled)'
  BY NextInv, NextTiles
<1> QED BY <1>1, <1>2, PTL DEF Spec

(* Types, with 64-bit sums that stay below 2^64. *)
THEOREM TypeCorrect == ASSUME NoWrap PROVE Spec => []TypeOK
<1>1. Inv => TypeOK
  BY DEF Inv
<1> QED BY <1>1, MemInvHolds, PTL
=============================================================================

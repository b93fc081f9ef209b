---------------------------- MODULE Memory_proofs ----------------------------
(***************************************************************************)
(* The regions of a process and the pages behind them keep in step, for    *)
(* any page size, region ids and sizes below 2^31 (IntAssumption), and     *)
(* whatever the other processes do to RAM and swap.  While no memmap of a  *)
(* program's own has overlapped another call or stored in RAM: what a READ *)
(* delivers while a frame is free, and that a byte reads back until a page *)
(* is evicted.                                                             *)
(***************************************************************************)
EXTENDS Memory, Regions_proofs

(* What is proved of page tables, lists and frames whoever uses them. *)
PP == INSTANCE Paging_proofs

(* The break of the region book-keeping is where the pages end. *)
BreaksAgree == brk[Self] \in Nat /\ sbrk = brk[Self] * PageSize

StepInv == RegionInv /\ brk \in [Process -> Nat] /\ BreaksAgree

LEMMA WholePagesAligned ==
    ASSUME NEW size \in Size
    PROVE  PagesFor(size) \in Nat /\ Aligned(size) = PagesFor(size) * PageSize
<1>1. PICK k \in Nat : Aligned(size) = k * PageSize
  BY AlignedUp, RegionsAssumption DEF Addr
<1>2. PageSize \in Nat \ {0}
  BY RegionsAssumption
<1>3. (k * PageSize) \div PageSize = k
  BY <1>2, SMT
<1>4. QED
  BY <1>1, <1>3 DEF PagesFor

(* A growth moves the page break; nothing else in Paging does. *)
LEMMA PagingBrk ==
    ASSUME StepInv, NEW p \in Process, NEW n \in Nat
    PROVE  /\ P!Grow(p, n) \/ P!GrowShort(p, n) => brk' = [brk EXCEPT ![p] = @ + n]
           /\ P!Read(p, n) \/ P!FaultFails(p, n) => brk' = brk
           /\ \A o \in Offset, v \in Value : P!Write(p, n, o, v) => brk' = brk
BY DEF P!Grow, P!GrowShort, P!Read, P!Write, P!FaultFails, P!FaultNoVictim,
       P!FaultNoSwap, P!pagingVars

LEMMA AllocKeeps ==
    ASSUME StepInv, NEW r \in Rgid, NEW size \in Size, Alloc(r, size)
    PROVE  StepInv'
<1>1. PageSize \in Nat /\ Self \in Process /\ Narrow
  BY RegionsAssumption, MemoryAssumption, IntAssumption
<1>2. CASE AllocFromList(r, size) /\ UNCHANGED backing
  <2>1. RegionInv'
    BY <1>1, <1>2, AllocFromListSound DEF StepInv
  <2>2. QED
    BY <1>2, <2>1 DEF AllocFromList, StepInv, BreaksAgree, backing
<1>3. CASE AllocAtBrk(r, size)
           /\ (P!Grow(Self, PagesFor(size)) \/ P!GrowShort(Self, PagesFor(size)))
  <2>1. RegionInv'
    BY <1>1, <1>3, AllocAtBrkSound DEF StepInv
  <2>2. PICK n \in Nat : n = PagesFor(size) /\ Aligned(size) = n * PageSize
    BY <1>1, WholePagesAligned
  <2>0. sbrk \in Nat /\ sbrk < IntRange \div 2
    BY <1>1, BreakNat, RegionsAssumption DEF StepInv, RegionInv, TypeOK, Narrow
  <2>8. sbrk' = sbrk + Aligned(size)
    BY <1>1, <1>3, <2>0, NarrowGrowth DEF AllocAtBrk
  <2>3. brk' = [brk EXCEPT ![Self] = @ + n] /\ sbrk' = sbrk + n * PageSize
    BY <1>1, <1>3, <2>2, <2>8, PagingBrk
  <2>4. PICK b \in Nat : b = brk[Self] /\ sbrk = b * PageSize
    BY DEF StepInv, BreaksAgree
  <2>5. (b * PageSize) + (n * PageSize) = (b + n) * PageSize /\ b + n \in Nat
    BY <1>1, SMT
  <2>6. brk' \in [Process -> Nat] /\ brk'[Self] = b + n /\ sbrk' = (b + n) * PageSize
    BY <1>1, <2>3, <2>4, <2>5 DEF StepInv
  <2>7. QED
    BY <2>1, <2>5, <2>6 DEF StepInv, BreaksAgree
<1>4. QED
  BY <1>2, <1>3 DEF Alloc

LEMMA MemoryStarts == MemoryInit => StepInv
<1> SUFFICES ASSUME MemoryInit PROVE StepInv
  OBVIOUS
<1>1. RegionInv
  BY RegionInit DEF MemoryInit, RegionInv
<1>2. sbrk = 0 /\ brk = [p \in Process |-> 0]
  BY DEF MemoryInit, Init, P!Init
<1>3. 0 * PageSize = 0
  BY RegionsAssumption
<1>4. QED
  BY <1>1, <1>2, <1>3, MemoryAssumption DEF StepInv, BreaksAgree

LEMMA AccessKeeps ==
    ASSUME StepInv, NEW r \in Rgid, NEW offset \in Address,
           ReadByte(r, offset) \/ \E v \in Mine : WriteByte(r, offset, v)
    PROVE  StepInv'
<1>1. UNCHANGED vars /\ brk' = brk
  BY DEF ReadByte, WriteByte, P!Read, P!Write, P!FaultFails, P!FaultNoVictim,
         P!FaultNoSwap, P!pagingVars
<1>2. RegionInv'
  BY <1>1, RegionInductive, IntAssumption DEF StepInv
<1>3. QED
  BY <1>1, <1>2 DEF StepInv, BreaksAgree, vars

LEMMA OtherKeeps ==
    ASSUME StepInv, NEW q \in Process \ {Self}, OtherProcess(q)
    PROVE  StepInv'
<1>1. UNCHANGED vars
  BY DEF OtherProcess
<1>2. RegionInv'
  BY <1>1, RegionInductive, IntAssumption DEF StepInv
<1>3. brk' = brk \/ \E n \in 0 .. MaxPages \cup 0 .. 1 : brk' = [brk EXCEPT ![q] = @ + n]
  <2>1. ASSUME Call(q)
        PROVE  brk' = brk \/ \E n \in 1 .. MaxPages : brk' = [brk EXCEPT ![q] = @ + n]
    BY <2>1 DEF Call, P!Grow, P!GrowShort, P!MapDummy, P!Read, P!Write,
       P!FaultFails, P!FaultNoVictim, P!FaultNoSwap, P!pagingVars
  <2>2. ASSUME OwnTake(q) PROVE \E n \in 0 .. 1 : brk' = [brk EXCEPT ![q] = @ + n]
    BY <2>2 DEF OwnTake, P!MapAtBrk
  <2>3. 1 .. MaxPages \subseteq 0 .. MaxPages
    BY PagesAssumption
  <2>4. QED
    BY <2>1, <2>2, <2>3 DEF OtherProcess, OwnLook, OwnWrite, backing
<1>4. brk' \in [Process -> Nat] /\ brk'[Self] = brk[Self]
  <2>1. 0 .. MaxPages \cup 0 .. 1 \subseteq Nat
    BY PagesAssumption
  <2>2. QED
    BY <1>3, <2>1, MemoryAssumption DEF StepInv
<1>5. QED
  BY <1>1, <1>2, <1>4 DEF StepInv, BreaksAgree, vars

LEMMA MemoryKeeps == StepInv /\ [MemoryNext]_memoryVars => StepInv'
<1> SUFFICES ASSUME StepInv, [MemoryNext]_memoryVars PROVE StepInv'
  OBVIOUS
<1>1. CASE UNCHANGED memoryVars
  <2>1. UNCHANGED vars /\ brk' = brk
    BY <1>1 DEF memoryVars, backing
  <2>2. RegionInv'
    BY <2>1, RegionInductive, IntAssumption DEF StepInv
  <2>3. QED
    BY <2>1, <2>2 DEF StepInv, BreaksAgree, vars
<1>2. ASSUME NEW r \in Rgid, FreeRegion(r)
      PROVE  StepInv'
  <2>1. RegionInv'
    BY <1>2, FreeSound DEF FreeRegion, StepInv
  <2>2. QED
    BY <1>2, <2>1 DEF FreeRegion, Free, StepInv, BreaksAgree, backing
<1>3. QED
  BY <1>1, <1>2, AllocKeeps, AccessKeeps, OtherKeeps DEF MemoryNext

LEMMA InvShowsPages == StepInv => RegionsHavePages
<1> SUFFICES ASSUME StepInv, NEW a \in Address, NEW r \in Rgid,
                    symrgtbl[r].rg_start <= a, a < symrgtbl[r].rg_end
             PROVE  PageOf(a) < brk[Self]
  BY DEF RegionsHavePages, Live
<1>1. PICK b \in Nat : b = brk[Self] /\ sbrk = b * PageSize
  BY DEF StepInv, BreaksAgree
<1>2. symrgtbl[r].rg_end \in Nat /\ symrgtbl[r].rg_end <= b * PageSize
  BY <1>1, Widths
     DEF StepInv, RegionInv, RegionsSound, AllInBrk, LiveInBrk, InBrk, TypeOK, Region, Addr
<1>3. PageSize \in Nat \ {0} /\ a \in Nat /\ b * PageSize \in Nat
  BY RegionsAssumption DEF Address
<1>4. a < b * PageSize
  BY <1>2, <1>3
<1>5. a \div PageSize < b
  BY <1>3, <1>4, SMTT(60)
<1>6. QED
  BY <1>1, <1>5 DEF PageOf

(* Every byte of a live region lies on a page of the process's area, if no *)
(* ALLOC asks for 2^31 bytes and no area reaches that size: IntAssumption, *)
(* without which __alloc's `int old_sbrk' puts a region outside the area.  *)
THEOREM AlwaysRegionsHavePages == MemorySpec => []RegionsHavePages
BY MemoryStarts, MemoryKeeps, InvShowsPages, PTL DEF MemorySpec
-----------------------------------------------------------------------------
(* What is proved of Paging is proved of the pages here. *)
LEMMA PageAssumptions == PP!FramePoolAssumption /\ PP!PagingAssumption /\ PP!PteHoldsFrames
BY MemoryAssumption, PagesAssumption
   DEF PP!FramePoolAssumption, PP!PagingAssumption, PP!PteHoldsFrames, Value,
       P!FpnRange, P!SwpRange, P!SwpUnit, PP!FpnRange, PP!SwpRange, PP!SwpUnit

LEMMA SamePlaces ==
    /\ P!Frame = PP!Frame /\ P!Page = PP!Page /\ P!Slot = PP!Slot
    /\ \A n : P!Index(n) = PP!Index(n)
    /\ \A e : P!Fpn(e) = PP!Fpn(e)
    /\ \A p, n : P!EntryOf(p, n) = PP!EntryOf(p, n)
    /\ \A p : P!FitsTable(p) <=> PP!FitsTable(p)
BY DEF P!Frame, PP!Frame, P!Page, PP!Page, P!Slot, PP!Slot, P!Index, PP!Index, P!Fpn,
       PP!Fpn, P!FpnRange, PP!FpnRange, P!EntryOf, PP!EntryOf, P!FitsTable, PP!FitsTable

LEMMA SameType == P!TypeOK <=> PP!TypeOK
<1>1. P!Entries = PP!Entries
  <2>1. P!SwpRange = PP!SwpRange
    BY SMT DEF P!SwpRange, PP!SwpRange
  <2>2. QED
    BY <2>1 DEF P!Entries, PP!Entries
<1>2. QED
  BY <1>1 DEF P!TypeOK, PP!TypeOK, P!Frame, PP!Frame, P!SwapSlot, PP!SwapSlot, P!Slot,
     PP!Slot, P!Page, PP!Page

LEMMA SameInit == P!Init <=> PP!Init
BY DEF P!Init, PP!Init, P!ListsInit, PP!ListsInit, P!Frame, PP!Frame, P!Slot, PP!Slot,
       P!Page, PP!Page, P!EmptyPte, PP!EmptyPte

LEMMA SameGrow == ASSUME NEW p, NEW n PROVE P!Grow(p, n) <=> PP!Grow(p, n)
BY DEF P!Grow, PP!Grow, P!TakeRam, PP!TakeRam, P!Mapped, PP!Mapped, P!NewPages,
       PP!NewPages, P!Index, PP!Index, P!Slot, PP!Slot, P!FrameFor, PP!FrameFor,
       P!PteSetFpn, PP!PteSetFpn, P!Fpn, PP!Fpn, P!FpnRange, PP!FpnRange, P!Listed,
       PP!Listed, P!LastOn, PP!LastOn

LEMMA SameGrowShort == ASSUME NEW p, NEW n PROVE P!GrowShort(p, n) <=> PP!GrowShort(p, n)
BY DEF P!GrowShort, PP!GrowShort, P!TakeRamShort, PP!TakeRamShort

LEMMA SameGetPage == ASSUME NEW p, NEW n PROVE P!GetPage(p, n) <=> PP!GetPage(p, n)
BY DEF P!GetPage, PP!GetPage, P!PageHit, PP!PageHit, P!EntryOf, PP!EntryOf, P!Index,
       PP!Index, P!FaultFreeFrame, PP!FaultFreeFrame, P!TakeRam, PP!TakeRam,
       P!SwapReleased, PP!SwapReleased, P!Swp, PP!Swp, P!SwpUnit, PP!SwpUnit,
       P!PteSetFpn, PP!PteSetFpn, P!Fpn, PP!Fpn, P!FpnRange, PP!FpnRange, P!Push,
       PP!Push, P!FaultEvict, PP!FaultEvict, P!TakeSlot, PP!TakeSlot, P!Victim,
       PP!Victim, P!WithoutVictim, PP!WithoutVictim, P!PteSetSwap, PP!PteSetSwap,
       P!SwpRange, PP!SwpRange

LEMMA SameRead == ASSUME NEW p, NEW n PROVE P!Read(p, n) <=> PP!Read(p, n)
BY SameGetPage DEF P!Read, PP!Read, P!InArea, PP!InArea

LEMMA SameWrite ==
    ASSUME NEW p, NEW n, NEW o, NEW v PROVE P!Write(p, n, o, v) <=> PP!Write(p, n, o, v)
BY SameGetPage DEF P!Write, PP!Write, P!InArea, PP!InArea, P!Fpn, PP!Fpn, P!FpnRange,
       PP!FpnRange, P!Index, PP!Index, P!Frame, PP!Frame

LEMMA SameFails == ASSUME NEW p, NEW n PROVE P!FaultFails(p, n) <=> PP!FaultFails(p, n)
BY DEF P!FaultFails, PP!FaultFails, P!FaultNoVictim, PP!FaultNoVictim, P!FaultNoSwap,
       PP!FaultNoSwap, P!InArea, PP!InArea, P!EntryOf, PP!EntryOf, P!Index, PP!Index,
       P!WithoutVictim, PP!WithoutVictim, P!pagingVars, PP!pagingVars

LEMMA SameMemmap ==
    ASSUME NEW p, NEW n, NEW k, NEW list
    PROVE  /\ P!MapAtBrk(p, list, n) <=> PP!MapAtBrk(p, list, n)
           /\ P!MapDummy(p, n, k) <=> PP!MapDummy(p, n, k)
BY DEF P!MapAtBrk, PP!MapAtBrk, P!PteSetFpn,
       PP!PteSetFpn, P!Fpn, PP!Fpn, P!FpnRange, PP!FpnRange, P!Index, PP!Index, P!Push,
       PP!Push, P!MapDummy, PP!MapDummy, P!Slot, PP!Slot, P!DummyPte, PP!DummyPte
-----------------------------------------------------------------------------
(* The steps of Self and of the others, as steps of Paging with their      *)
(* effect on the history.  A memmap that overlaps another call, or stores  *)
(* in RAM, is no step of Paging.                                           *)
SelfGrows ==
    \E n \in 1 .. MaxPages : (PP!Grow(Self, n) \/ PP!GrowShort(Self, n)) /\ UNCHANGED stored

SelfReads == \E n \in PP!Page : PP!Read(Self, n) /\ UNCHANGED stored

SelfWrites ==
    \E a \in Address, v \in Mine :
        PP!Write(Self, PageOf(a), OffsetOf(a), v) /\ stored' = [stored EXCEPT ![a] = v]

SelfFails ==
    \E a \in Address :
        /\ PP!FaultFails(Self, PageOf(a))
        /\ UNCHANGED stored \/ \E v \in Mine : stored' = [stored EXCEPT ![a] = v]

OtherPages(q) ==
    \/ \E n \in 1 .. MaxPages : PP!Grow(q, n) \/ PP!GrowShort(q, n)
    \/ \E n \in 0 .. 1 : PP!MapAtBrk(q, freeRam, n)
    \/ \E n \in PP!Page : PP!MapDummy(q, n, MaxPages)
    \/ \E n \in PP!Page :
          \/ PP!Read(q, n)
          \/ \E o \in Offset, v \in Value : PP!Write(q, n, o, v)
          \/ PP!FaultFails(q, n)

OthersStep == \E q \in Process \ {Self} : OtherPages(q) /\ UNCHANGED stored

PageStep == SelfGrows \/ SelfReads \/ SelfWrites \/ SelfFails \/ OthersStep

StaleTake ==
    \E q \in Process \ {Self}, n \in 0 .. 1 :
        PP!MapAtBrk(q, seen[q], n) /\ overlap' = TRUE

AstrayStep == (StaleTake \/ OwnWrite) /\ UNCHANGED stored

ListsInv == StepInv /\ freerg # <<>>

LEMMA StartsListed == MemoryInit => ListsInv
<1>1. ASSUME MemoryInit PROVE Len(freerg) = 1
  BY <1>1 DEF MemoryInit, Init
<1>2. ASSUME MemoryInit PROVE freerg # <<>>
  BY <1>1, <1>2
<1>3. QED
  BY <1>2, MemoryStarts DEF ListsInv

LEMMA StepListed == ListsInv /\ [MemoryNext]_memoryVars => ListsInv'
<1> SUFFICES ASSUME ListsInv, [MemoryNext]_memoryVars PROVE freerg' # <<>>
  BY MemoryKeeps DEF ListsInv
<1>1. [Next]_vars
  BY DEF MemoryNext, memoryVars, vars, Alloc, FreeRegion, ReadByte, WriteByte, OtherProcess, Next
<1>2. QED
  BY <1>1, FreeListNeverEmpty DEF ListsInv, StepInv, RegionInv

LEMMA AddressTyped ==
    ASSUME NEW a \in Address
    PROVE  a \in Nat /\ PageOf(a) \in PP!Page /\ OffsetOf(a) \in Offset
<1>1. /\ a \in Nat /\ PageSize \in Nat \ {0} /\ MaxPages \in Nat
      /\ a < MaxPages * PageSize /\ OffsetRange \in Nat \ {0}
  BY RegionsAssumption, MemoryAssumption, PagesAssumption DEF Address
<1>2. a \div PageSize \in Nat /\ a \div PageSize < MaxPages
  BY <1>1, SMTT(60)
<1>3. a % OffsetRange \in Nat /\ a % OffsetRange < OffsetRange
  BY <1>1, SMTT(30)
<1>4. QED
  BY <1>1, <1>2, <1>3 DEF PageOf, OffsetOf, PP!Page, Offset

(* A byte of a live region lies below the break. *)
LEMMA RegionTyped ==
    ASSUME StepInv, brk[Self] <= MaxPages, NEW r \in Rgid, NEW offset \in Address, InRegion(r, offset)
    PROVE  AddressOf(r, offset) \in Address
<1>1. /\ symrgtbl[r].rg_start \in Nat /\ symrgtbl[r].rg_end \in Nat
      /\ symrgtbl[r].rg_end <= sbrk
  BY Widths
     DEF StepInv, RegionInv, RegionsSound, AllInBrk, LiveInBrk, InBrk, TypeOK, Region, Addr
<1>2. PICK b \in Nat : b = brk[Self] /\ sbrk = b * PageSize /\ b <= MaxPages
  BY DEF StepInv, BreaksAgree
<1>3. PageSize \in Nat /\ MaxPages \in Nat /\ MaxBrk = MaxPages * PageSize
  BY RegionsAssumption, MemoryAssumption, PagesAssumption
<1>4. b * PageSize <= MaxPages * PageSize
  BY <1>2, <1>3, SMT
<1>5. QED
  BY <1>1, <1>2, <1>3, <1>4 DEF InRegion, AddressOf, Address

(* A growth asks for at least one page. *)
LEMMA AllocPages ==
    ASSUME ListsInv, NEW r \in Rgid, NEW size \in Size, AllocAtBrk(r, size),
           brk[Self] + PagesFor(size) <= MaxPages
    PROVE  PagesFor(size) \in 1 .. MaxPages
<1>1. /\ size \in Addr /\ size \in Nat /\ size < IntRange \div 2
      /\ PageSize \in Nat \ {0} /\ MaxPages \in Nat /\ brk[Self] \in Nat
  BY RegionsAssumption, PagesAssumption, IntAssumption, Widths
     DEF ListsInv, StepInv, BreaksAgree, Narrow, Addr
<1>2. PICK n \in Nat : n = PagesFor(size) /\ Aligned(size) = n * PageSize
  BY WholePagesAligned
<1>3. size # 0
  BY NothingFromList, IntAssumption DEF ListsInv, StepInv
<1>4. Aligned(size) >= size
  BY <1>1, AlignedUp
<1>5. n # 0
  BY <1>1, <1>2, <1>3, <1>4
<1>6. QED
  BY <1>1, <1>2, <1>5

LEMMA MemoryKinds ==
    ASSUME ListsInv, PP!PageInv, MemoryNext
    PROVE  UNCHANGED <<backing, stored>> \/ PageStep \/ AstrayStep
<1>1. brk[Self] \in Nat /\ brk[Self] <= MaxPages /\ MaxPages \in Nat
  BY MemoryAssumption, PagesAssumption DEF PP!PageInv, PP!TypeOK
<1>2. ASSUME NEW r \in Rgid, NEW size \in Size, Alloc(r, size)
      PROVE  UNCHANGED <<backing, stored>> \/ SelfGrows
  <2>1. CASE UNCHANGED backing
    BY <1>2, <2>1 DEF Alloc
  <2>2. CASE AllocAtBrk(r, size) /\ P!Grow(Self, PagesFor(size))
    <3>1. PagesFor(size) \in 1 .. MaxPages
      BY <2>2, AllocPages DEF P!Grow
    <3>2. PP!Grow(Self, PagesFor(size)) /\ UNCHANGED stored
      BY <1>2, <2>2, SameGrow DEF Alloc
    <3>3. QED
      BY <3>1, <3>2 DEF SelfGrows
  <2>3. CASE AllocAtBrk(r, size) /\ P!GrowShort(Self, PagesFor(size))
    <3>1. PagesFor(size) \in 1 .. MaxPages
      BY <2>3, AllocPages DEF P!GrowShort
    <3>2. PP!GrowShort(Self, PagesFor(size)) /\ UNCHANGED stored
      BY <1>2, <2>3, SameGrowShort DEF Alloc
    <3>3. QED
      BY <3>1, <3>2 DEF SelfGrows
  <2>4. QED
    BY <1>2, <2>1, <2>2, <2>3 DEF Alloc
<1>3. ASSUME NEW r \in Rgid, NEW offset \in Address, ReadByte(r, offset)
      PROVE  SelfReads \/ SelfFails
  <2>1. PICK a \in Address : a = AddressOf(r, offset)
    BY <1>1, <1>3, RegionTyped DEF ReadByte, ListsInv
  <2>2. PageOf(a) \in PP!Page
    BY AddressTyped
  <2>3. UNCHANGED stored /\ (PP!Read(Self, PageOf(a)) \/ PP!FaultFails(Self, PageOf(a)))
    BY <1>3, <2>1, SameRead, SameFails DEF ReadByte
  <2>4. QED
    BY <2>2, <2>3 DEF SelfReads, SelfFails
<1>4. ASSUME NEW r \in Rgid, NEW offset \in Address, NEW v \in Mine, WriteByte(r, offset, v)
      PROVE  SelfWrites \/ SelfFails
  <2>1. PICK a \in Address : a = AddressOf(r, offset)
    BY <1>1, <1>4, RegionTyped DEF WriteByte, ListsInv
  <2>2. /\ stored' = [stored EXCEPT ![a] = v]
        /\ PP!Write(Self, PageOf(a), OffsetOf(a), v) \/ PP!FaultFails(Self, PageOf(a))
    BY <1>4, <2>1, SameWrite, SameFails DEF WriteByte
  <2>3. QED
    BY <2>2 DEF SelfWrites, SelfFails
<1>5. ASSUME NEW q \in Process \ {Self}, OtherProcess(q)
      PROVE  UNCHANGED <<backing, stored>> \/ OthersStep \/ AstrayStep
  <2>1. CASE Call(q)
    <3>1. OtherPages(q)
      BY <2>1, SameGrow, SameGrowShort, SameMemmap, SameRead, SameWrite, SameFails,
         SamePlaces DEF Call, OtherPages, Value
    <3>2. QED
      BY <1>5, <3>1 DEF OthersStep, OtherProcess
  <2>2. CASE OwnTake(q)
    <3>1. PICK n \in 0 .. 1 : PP!MapAtBrk(q, seen[q], n)
      BY <2>2, SameMemmap DEF OwnTake
    <3>2. CASE seen[q] = freeRam
      BY <1>5, <3>1, <3>2 DEF OtherPages, OthersStep, OtherProcess
    <3>3. CASE seen[q] # freeRam
      BY <1>5, <2>2, <3>1, <3>3 DEF OwnTake, StaleTake, AstrayStep, OtherProcess
    <3>4. QED
      BY <3>2, <3>3
  <2>3. CASE OwnLook(q) \/ OwnWrite
    BY <1>5, <2>3 DEF OwnLook, AstrayStep, OtherProcess
  <2>4. QED
    BY <1>5, <2>1, <2>2, <2>3 DEF OtherProcess
<1>6. ASSUME NEW r \in Rgid, FreeRegion(r)
      PROVE  UNCHANGED <<backing, stored>>
  BY <1>6 DEF FreeRegion
<1>7. QED
  BY <1>2, <1>3, <1>4, <1>5, <1>6 DEF MemoryNext, PageStep

LEMMA PageStepsArePaging ==
    ASSUME PageStep
    PROVE  PP!NextWithMemmap
<1>1. Self \in Process /\ Mine \subseteq Value /\ MaxPages \in Nat
      /\ \A n \in PP!Page : n \in Nat
  BY MemoryAssumption, PagesAssumption DEF Value, PP!Page
<1>2. CASE SelfGrows \/ SelfReads \/ SelfWrites \/ SelfFails
  BY <1>1, <1>2, AddressTyped DEF SelfGrows, SelfReads, SelfWrites, SelfFails,
     PP!NextWithMemmap, PP!Next
<1>3. CASE OthersStep
  BY <1>1, <1>3 DEF OthersStep, OtherPages, PP!NextWithMemmap, PP!Next
<1>4. QED
  BY <1>2, <1>3 DEF PageStep
-----------------------------------------------------------------------------
(* What the instructions deliver, whatever the other processes map.        *)
HistoryTyped ==
    /\ stored \in [Address -> Mine \cup {Unwritten}]
    /\ delivered \in 0 .. RegisterRange - 1 \cup {Unwritten, Undefined}

OwnTyped ==
    /\ seen \in [Process -> Seq(PP!Frame)]
    /\ overlap \in BOOLEAN
    /\ direct \in BOOLEAN

(* While RAM lasts, every entry of Self names a frame of RAM. *)
SelfInRam ==
    freeRam # <<>> =>
        \A i \in PP!Slot :
            pte[Self][i].present => PP!InRam(Self, i) /\ PP!Fpn(pte[Self][i]) \in PP!Frame

BackingInv ==
    /\ ListsInv
    /\ PP!PageInv
    /\ HistoryTyped
    /\ OwnTyped
    /\ ~ overlap => PP!MappedWhileFree /\ SelfInRam
    /\ UndefinedOnlyWhenFull

LEMMA WidenedTyped ==
    /\ \A v \in Value : Widened(v) \in 0 .. RegisterRange - 1
    /\ Widened(Undefined) = Undefined
<1>1. /\ ByteRange \in Nat \ {0} /\ RegisterRange \in Nat /\ RegisterRange >= ByteRange
      /\ Undefined \notin 0 .. RegisterRange - 1
  BY MemoryAssumption
<1>2. ByteRange \div 2 \in Nat
  BY <1>1
<1>3. \A v \in Value : v \in Nat /\ v < ByteRange
  BY <1>1, MemoryAssumption DEF Value
<1>4. ASSUME NEW v \in Value PROVE Widened(v) \in 0 .. RegisterRange - 1
  BY <1>1, <1>2, <1>3 DEF Widened
<1>5. Undefined \notin ByteRange \div 2 .. ByteRange - 1
  BY <1>1, <1>2
<1>6. QED
  BY <1>4, <1>5 DEF Widened

(* A read fills the register from the frame the page's entry names. *)
LEMMA ReadDelivers ==
    ASSUME ListsInv, PP!PageInv, PP!PageInv', NEW r \in Rgid, NEW offset \in Address,
           ReadByte(r, offset)
    PROVE  \E n \in PP!Page :
              \/ /\ PP!Read(Self, n)
                 /\ \/ delivered' \in 0 .. RegisterRange - 1
                    \/ delivered' = Undefined /\ PP!Fpn(PP!EntryOf(Self, n))' \notin PP!Frame
              \/ PP!FaultFails(Self, n) /\ delivered' = Undefined
<1>1. PICK a \in Address : a = AddressOf(r, offset)
  BY RegionTyped, MemoryAssumption, PagesAssumption
     DEF ReadByte, ListsInv, PP!PageInv, PP!TypeOK
<1>2. PageOf(a) \in PP!Page /\ OffsetOf(a) \in Offset
  BY AddressTyped
<1>3. AddressOf(r, offset)' = a
  BY <1>1 DEF ReadByte, vars, AddressOf
<1>0. FrameOf(a)' = PP!Fpn(PP!EntryOf(Self, PageOf(a)))' /\ P!Frame = PP!Frame
  BY SamePlaces DEF FrameOf, P!EntryOf, PP!EntryOf
<1>4. CASE PP!Read(Self, PageOf(a)) /\ delivered' = Widened(ByteAt(AddressOf(r, offset)))'
  <2>1. delivered' = Widened(ByteAt(a)')
    BY <1>3, <1>4
  <2>2. CASE PP!Fpn(PP!EntryOf(Self, PageOf(a)))' \in PP!Frame
    <3>1. ByteAt(a)' = mem'[FrameOf(a)'][OffsetOf(a)] /\ FrameOf(a)' \in PP!Frame
      BY <1>0, <2>2 DEF ByteAt
    <3>2. ByteAt(a)' \in Value
      BY <1>2, <3>1 DEF PP!PageInv, PP!TypeOK
    <3>3. QED
      BY <1>2, <1>4, <2>1, <3>2, WidenedTyped
  <2>3. CASE PP!Fpn(PP!EntryOf(Self, PageOf(a)))' \notin PP!Frame
    <3>1. ByteAt(a)' = Undefined
      BY <1>0, <2>3 DEF ByteAt
    <3>2. QED
      BY <1>2, <1>4, <2>1, <2>3, <3>1, WidenedTyped
  <2>4. QED
    BY <2>2, <2>3
<1>5. CASE PP!FaultFails(Self, PageOf(a)) /\ delivered' = Undefined
  BY <1>2, <1>5
<1>6. QED
  BY <1>1, <1>4, <1>5, SameRead, SameFails DEF ReadByte

LEMMA StepHistory ==
    ASSUME BackingInv, PP!PageInv', MemoryNext
    PROVE  HistoryTyped'
<1>1. /\ stored \in [Address -> Mine \cup {Unwritten}]
      /\ brk[Self] \in Nat /\ brk[Self] <= MaxPages
  BY MemoryAssumption, PagesAssumption DEF BackingInv, HistoryTyped, PP!PageInv, PP!TypeOK
<1>2. ASSUME NEW r \in Rgid, NEW offset \in Address, ReadByte(r, offset)
      PROVE  HistoryTyped'
  BY <1>1, <1>2, ReadDelivers DEF BackingInv, HistoryTyped, ReadByte
<1>3. ASSUME NEW r \in Rgid, NEW offset \in Address, NEW v \in Mine, WriteByte(r, offset, v)
      PROVE  HistoryTyped'
  <2>1. PICK a \in Address : a = AddressOf(r, offset)
    BY <1>1, <1>3, RegionTyped DEF WriteByte, ListsInv, BackingInv
  <2>2. QED
    BY <1>1, <1>3, <2>1 DEF HistoryTyped, WriteByte
<1>4. ASSUME UNCHANGED stored, delivered' = Unwritten
      PROVE  HistoryTyped'
  BY <1>1, <1>4 DEF HistoryTyped
<1>5. QED
  BY <1>2, <1>3, <1>4 DEF MemoryNext, Alloc, FreeRegion, OtherProcess

(* What was overlapped or stored in RAM stays so marked. *)
LEMMA StepOwn ==
    ASSUME PP!PageInv, OwnTyped, [MemoryNext]_memoryVars
    PROVE  OwnTyped' /\ (overlap => overlap') /\ (direct => direct')
<1>1. CASE UNCHANGED own
  BY <1>1 DEF own, OwnTyped
<1>2. ASSUME NEW q \in Process \ {Self}, OwnLook(q)
      PROVE  OwnTyped' /\ (overlap => overlap') /\ (direct => direct')
  BY <1>2 DEF OwnLook, OwnTyped, PP!PageInv, PP!TypeOK
<1>3. ASSUME NEW q \in Process \ {Self}, OwnTake(q)
      PROVE  OwnTyped' /\ (overlap => overlap') /\ (direct => direct')
  <2>1. <<>> \in Seq(PP!Frame)
    OBVIOUS
  <2>2. seen' \in [Process -> Seq(PP!Frame)]
    BY <1>3, <2>1 DEF OwnTake, OwnTyped
  <2>3. overlap' \in BOOLEAN /\ (overlap => overlap') /\ direct' = direct
    BY <1>3 DEF OwnTake
  <2>4. QED
    BY <2>2, <2>3 DEF OwnTyped
<1>4. CASE OwnWrite
  BY <1>4 DEF OwnWrite, OwnTyped
<1>5. QED
  BY <1>1, <1>2, <1>3, <1>4 DEF MemoryNext, memoryVars, Alloc, FreeRegion, ReadByte,
     WriteByte, OtherProcess, Call

(* A frame taken from an old list is a frame, and a byte stored in RAM is  *)
(* a byte.                                                                 *)
LEMMA AstrayTyped ==
    ASSUME PP!PageInv, OwnTyped, AstrayStep
    PROVE  PP!PageInv'
<1>1. CASE StaleTake
  BY <1>1, PageAssumptions, PP!MapAtBrkTyped DEF StaleTake, OwnTyped
<1>2. CASE OwnWrite
  <2>1. PICK f \in PP!Frame, o \in Offset, v \in Value : mem' = [mem EXCEPT ![f][o] = v]
    BY <1>2, SamePlaces DEF OwnWrite, Value
  <2>2. mem' \in [PP!Frame -> [Offset -> Value]]
    BY <2>1 DEF PP!PageInv, PP!TypeOK
  <2>3. QED
    BY <1>2, <2>2 DEF OwnWrite, PP!PageInv, PP!TypeOK, PP!EmptyUntilPresent
<1>3. QED
  BY <1>1, <1>2 DEF AstrayStep

(* A byte stored in RAM changes no list and no table. *)
LEMMA AstrayMapped ==
    ASSUME AstrayStep, ~ overlap', PP!MappedWhileFree, SelfInRam
    PROVE  PP!MappedWhileFree' /\ SelfInRam'
<1>1. OwnWrite
  BY DEF AstrayStep, StaleTake
<1>2. QED
  BY <1>1 DEF OwnWrite, PP!MappedWhileFree, SelfInRam, PP!EntryOf, PP!InRam

(* Another process has no way to Self's page table. *)
LEMMA OthersLeaveSelf ==
    ASSUME PP!PageInv, OthersStep
    PROVE  pte'[Self] = pte[Self] /\ brk'[Self] = brk[Self] /\ stored' = stored
<1>1. PICK q \in Process \ {Self} : OtherPages(q) /\ UNCHANGED stored
  BY DEF OthersStep
<1>2. /\ pte \in [Process -> [PP!Slot -> PP!Entries]] /\ brk \in [Process -> 0 .. MaxPages]
      /\ Self \in Process
  BY MemoryAssumption DEF PP!PageInv, PP!TypeOK
<1>3. pte'[Self] = pte[Self]
  BY <1>1, <1>2 DEF OtherPages, PP!Grow, PP!GrowShort, PP!MapAtBrk, PP!MapDummy,
     PP!Read, PP!Write, PP!GetPage, PP!PageHit, PP!FaultFreeFrame, PP!FaultEvict,
     PP!FaultFails, PP!FaultNoVictim, PP!FaultNoSwap, PP!pagingVars
<1>4. brk'[Self] = brk[Self]
  BY <1>1, <1>2 DEF OtherPages, PP!Grow, PP!GrowShort, PP!MapAtBrk, PP!MapDummy,
     PP!Read, PP!Write, PP!FaultFails, PP!FaultNoVictim, PP!FaultNoSwap, PP!pagingVars
<1>5. QED
  BY <1>1, <1>3, <1>4

(* While RAM lasts an access finds its page in the table. *)
LEMMA AccessWhileFree ==
    ASSUME PP!PageInv, PP!MappedWhileFree, NEW p \in Process, NEW n \in PP!Page, freeRam' # <<>>
    PROVE  /\ PP!InArea(p, n) /\ PP!GetPage(p, n) => PP!PageHit(p, n) /\ freeRam # <<>>
           /\ ~ PP!FaultFails(p, n)
<1>1. freeRam # <<>> /\ PP!InArea(p, n) => PP!EntryOf(p, n).present
  BY DEF PP!MappedWhileFree, PP!InArea
<1>2. ASSUME PP!InArea(p, n), PP!GetPage(p, n)
      PROVE  PP!PageHit(p, n) /\ freeRam # <<>>
  <2>1. ~ PP!FaultFreeFrame(p, n)
    BY <1>2, PageAssumptions, PP!NoFreeFault
  <2>2. CASE PP!PageHit(p, n)
    BY <2>2 DEF PP!PageHit
  <2>3. CASE PP!FaultEvict(p, n)
    BY <1>1, <1>2, <2>3 DEF PP!FaultEvict
  <2>4. QED
    BY <1>2, <2>1, <2>2, <2>3 DEF PP!GetPage
<1>3. ~ PP!FaultFails(p, n)
  BY DEF PP!FaultFails, PP!FaultNoVictim, PP!FaultNoSwap, PP!pagingVars
<1>4. QED
  BY <1>2, <1>3

LEMMA StepInRam ==
    ASSUME PP!PageInv, PP!MappedWhileFree, SelfInRam, PageStep
    PROVE  SelfInRam'
<1> SUFFICES ASSUME freeRam' # <<>>, NEW i \in PP!Slot, pte'[Self][i].present
             PROVE  PP!InRamNext(Self, i) /\ PP!Fpn(pte'[Self][i]) \in PP!Frame
  BY DEF SelfInRam, PP!InRam, PP!InRamNext
<1>1. freeRam # <<>> /\ Self \in Process
  BY PageAssumptions, PageStepsArePaging, PP!FreeRamShrinks, MemoryAssumption
<1>2. pte[Self][i].present => PP!InRam(Self, i) /\ PP!Fpn(pte[Self][i]) \in PP!Frame
  BY <1>1 DEF SelfInRam
<1>3. CASE pte'[Self] = pte[Self]
  BY <1>2, <1>3 DEF PP!InRam, PP!InRamNext
<1>4. ASSUME NEW n \in 1 .. MaxPages, PP!Grow(Self, n)
      PROVE  PP!InRamNext(Self, i) /\ PP!Fpn(pte'[Self][i]) \in PP!Frame
  <2>1. CASE i \in PP!Remapped(Self, n)
    BY <1>1, <1>4, <2>1, PageAssumptions, PP!GrowMaps
  <2>2. CASE i \notin PP!Remapped(Self, n)
    <3>1. pte'[Self][i] = pte[Self][i]
      BY <1>1, <1>4, <2>2, PageAssumptions, PP!GrowMaps
    <3>2. QED
      BY <1>2, <3>1 DEF PP!InRam, PP!InRamNext
  <2>3. QED
    BY <2>1, <2>2
<1>5. CASE SelfGrows
  BY <1>3, <1>4, <1>5 DEF SelfGrows, PP!GrowShort, PP!TakeRamShort
<1>6. ASSUME NEW n \in PP!Page,
             (PP!InArea(Self, n) /\ PP!GetPage(Self, n)) \/ PP!FaultFails(Self, n)
      PROVE  pte'[Self] = pte[Self]
  BY <1>1, <1>6, AccessWhileFree DEF PP!PageHit
<1>7. CASE SelfReads \/ SelfWrites \/ SelfFails
  BY <1>3, <1>6, <1>7, AddressTyped DEF SelfReads, SelfWrites, SelfFails, PP!Read, PP!Write
<1>8. CASE OthersStep
  BY <1>3, <1>8, OthersLeaveSelf
<1>9. QED
  BY <1>5, <1>7, <1>8 DEF PageStep

LEMMA StepUndefined ==
    ASSUME BackingInv, PP!PageInv', MemoryNext
    PROVE  UndefinedOnlyWhenFull'
<1> SUFFICES ASSUME freeRam' # <<>>, ~ overlap', delivered' = Undefined PROVE FALSE
  BY DEF UndefinedOnlyWhenFull
<1>1. Undefined # Unwritten /\ Undefined \notin 0 .. RegisterRange - 1 /\ Self \in Process
  BY MemoryAssumption
<1>2. PICK r \in Rgid, offset \in Address : ReadByte(r, offset)
  BY <1>1 DEF MemoryNext, Alloc, FreeRegion, WriteByte, OtherProcess
<1>0. PP!MappedWhileFree /\ SelfInRam
  BY <1>2 DEF ReadByte, own, BackingInv
<1>3. PICK n \in PP!Page :
          \/ PP!Read(Self, n) /\ PP!Fpn(PP!EntryOf(Self, n))' \notin PP!Frame
          \/ PP!FaultFails(Self, n)
  BY <1>1, <1>2, ReadDelivers DEF BackingInv
<1>4. PP!PageHit(Self, n) /\ freeRam # <<>> /\ PP!Fpn(PP!EntryOf(Self, n))' \notin PP!Frame
  BY <1>0, <1>1, <1>3, AccessWhileFree DEF BackingInv, PP!Read
<1>5. PP!Index(n) \in PP!Slot
  BY PageAssumptions, PP!IndexTyped DEF PP!Page
<1>6. PP!Fpn(PP!EntryOf(Self, n)) \in PP!Frame
  BY <1>0, <1>4, <1>5 DEF SelfInRam, PP!PageHit, PP!EntryOf
<1>7. PP!EntryOf(Self, n)' = PP!EntryOf(Self, n)
  BY <1>4 DEF PP!PageHit, PP!EntryOf
<1>8. QED
  BY <1>4, <1>6, <1>7

LEMMA BackingStarts == MemoryInit => BackingInv
<1> SUFFICES ASSUME MemoryInit PROVE BackingInv
  OBVIOUS
<1>1. ListsInv /\ PP!Init
  BY StartsListed, SameInit DEF MemoryInit
<1>2. PP!PageInv /\ PP!MappedWhileFree
  BY <1>1, PageAssumptions, PP!StartsQuiet DEF PP!QuietInv
<1>3. \A i \in PP!Slot : ~ pte[Self][i].present
  BY <1>1, MemoryAssumption DEF PP!Init, PP!EmptyPte
<1>4. Unwritten # Undefined
  BY MemoryAssumption
<1>5. HistoryTyped /\ UndefinedOnlyWhenFull
  BY <1>4 DEF HistoryTyped, UndefinedOnlyWhenFull, MemoryInit
<1>6. OwnTyped
  <2>1. <<>> \in Seq(PP!Frame)
    OBVIOUS
  <2>2. QED
    BY <2>1 DEF OwnTyped, MemoryInit
<1>7. QED
  BY <1>1, <1>2, <1>3, <1>5, <1>6 DEF BackingInv, SelfInRam

LEMMA BackingKeeps == BackingInv /\ [MemoryNext]_memoryVars => BackingInv'
<1> SUFFICES ASSUME BackingInv, [MemoryNext]_memoryVars PROVE BackingInv'
  OBVIOUS
<1>1. ListsInv'
  BY StepListed DEF BackingInv
<1>2. OwnTyped' /\ (overlap => overlap')
  BY StepOwn DEF BackingInv
<1>3. UNCHANGED backing \/ (MemoryNext /\ (PageStep \/ AstrayStep))
  BY MemoryKinds DEF BackingInv, memoryVars
<1>4. PP!PageInv'
  <2>1. CASE UNCHANGED backing
    BY <2>1, PageAssumptions, PP!WiderTyped DEF BackingInv, backing, PP!pagingVars
  <2>2. CASE PageStep
    BY <2>2, PageStepsArePaging, PageAssumptions, PP!WiderTyped DEF BackingInv
  <2>3. CASE AstrayStep
    BY <2>3, AstrayTyped DEF BackingInv
  <2>4. QED
    BY <1>3, <2>1, <2>2, <2>3
<1>5. ASSUME ~ overlap' PROVE PP!MappedWhileFree' /\ SelfInRam'
  <2>1. PP!PageInv /\ PP!MappedWhileFree /\ SelfInRam
    BY <1>2, <1>5 DEF BackingInv
  <2>2. CASE UNCHANGED backing
    BY <2>1, <2>2 DEF backing, PP!MappedWhileFree, SelfInRam, PP!EntryOf, PP!InRam
  <2>3. CASE PageStep
    BY <2>1, <2>3, PageStepsArePaging, PageAssumptions, PP!WiderMapped, StepInRam
  <2>4. CASE AstrayStep
    BY <1>5, <2>1, <2>4, AstrayMapped
  <2>5. QED
    BY <1>3, <2>2, <2>3, <2>4
<1>6. HistoryTyped' /\ UndefinedOnlyWhenFull'
  <2>1. CASE MemoryNext
    BY <1>4, <2>1, StepHistory, StepUndefined
  <2>2. CASE UNCHANGED memoryVars
    BY <2>2 DEF BackingInv, memoryVars, backing, own, HistoryTyped, UndefinedOnlyWhenFull
  <2>3. QED
    BY <2>1, <2>2
<1>7. QED
  BY <1>1, <1>2, <1>4, <1>5, <1>6 DEF BackingInv

LEMMA BackingShows == BackingInv => MemoryTypeOK /\ UndefinedOnlyWhenFull
BY SameType, SamePlaces DEF BackingInv, HistoryTyped, OwnTyped, MemoryTypeOK, PP!PageInv

(* Whatever Self allocates and the others do, overlapping it or not, a     *)
(* stored byte is a byte and a register gets a number of its range or the  *)
(* uninitialised variable.                                                 *)
THEOREM MemoryTyped == MemorySpec => []MemoryTypeOK
BY BackingStarts, BackingKeeps, BackingShows, PTL DEF MemorySpec

(* While a frame of RAM is free, a READ of a live byte delivers what a     *)
(* frame holds: pg_getval cannot fail, so the result libread does not      *)
(* initialise is not seen, however the areas fold into their tables.  This *)
(* is said of a program that makes no memmap of its own, until another's   *)
(* takes a frame from a list that has changed since it was read.           *)
THEOREM AlwaysUndefinedOnlyWhenFull == MemorySpec => []UndefinedOnlyWhenFull
BY BackingStarts, BackingKeeps, BackingShows, PTL DEF MemorySpec
-----------------------------------------------------------------------------
(* What Self's pages hold, as long as nothing is evicted and its area fits *)
(* its table: page n then has entry n.                                     *)
Alone(a) == \A b \in Address \ {a} : SameCell(a, b) => stored[b] = Unwritten

Content(a) ==
    /\ PageOf(a) < brk[Self]
    /\ pte[Self][PageOf(a)].present
    /\ Alone(a)
    => mem[PP!Fpn(pte[Self][PageOf(a)])][OffsetOf(a)] = Expected(a)

(* A byte is stored below the break, if only in the history. *)
StoredInArea == \A a \in Address : stored[a] # Unwritten => PageOf(a) < brk[Self]

SelfBytes ==
    PP!NoEviction /\ PP!FitsTable(Self) =>
        /\ \A i \in PP!Slot : ~ pte[Self][i].swapped
        /\ \A i \in PP!Slot : i >= brk[Self] => pte[Self][i] = PP!EmptyPte
        /\ \A a \in Address : Content(a)

BytesHold == PP!QuietInv /\ StoredInArea /\ SelfBytes

ByteInv == BackingInv /\ (Orderly => BytesHold)

(* A page of a fitting area has an entry of its own number. *)
LEMMA OwnEntry ==
    ASSUME PP!PageInv, PP!FitsTable(Self), NEW a \in Address, PageOf(a) < brk[Self]
    PROVE  /\ PageOf(a) \in PP!Slot /\ PP!Index(PageOf(a)) = PageOf(a)
           /\ PP!EntryOf(Self, PageOf(a)) = pte[Self][PageOf(a)]
<1>1. PageOf(a) \in Nat /\ Self \in Process
  BY AddressTyped, MemoryAssumption DEF PP!Page
<1>2. PageOf(a) \in PP!Slot /\ PP!Index(PageOf(a)) = PageOf(a)
  BY <1>1, PageAssumptions, PP!IndexFitsOne
<1>3. QED
  BY <1>2 DEF PP!EntryOf

LEMMA SelfBrkGrows ==
    ASSUME PP!PageInv, PageStep
    PROVE  /\ brk[Self] \in Nat /\ brk'[Self] \in Nat /\ brk[Self] <= brk'[Self]
           /\ PP!FitsTable(Self)' => PP!FitsTable(Self)
           /\ ~ SelfGrows => brk'[Self] = brk[Self]
<1>1. brk \in [Process -> Nat] /\ Self \in Process /\ MaxPages \in Nat /\ TableSize \in Nat
  BY MemoryAssumption, PagesAssumption DEF PP!PageInv, PP!TypeOK
<1>2. CASE SelfGrows
  <2>1. PICK n \in 1 .. MaxPages : brk' = [brk EXCEPT ![Self] = @ + n]
    BY <1>2 DEF SelfGrows, PP!Grow, PP!GrowShort
  <2>2. brk'[Self] = brk[Self] + n
    BY <1>1, <2>1
  <2>3. QED
    BY <1>1, <1>2, <2>2 DEF PP!FitsTable
<1>3. CASE SelfReads \/ SelfWrites \/ SelfFails \/ OthersStep
  <2>1. brk'[Self] = brk[Self]
    BY <1>3, OthersLeaveSelf DEF SelfReads, SelfWrites, SelfFails, PP!Read, PP!Write,
       PP!FaultFails, PP!FaultNoVictim, PP!FaultNoSwap, PP!pagingVars
  <2>2. QED
    BY <1>1, <2>1 DEF PP!FitsTable
<1>4. QED
  BY <1>2, <1>3 DEF PageStep

(* Where nothing is evicted, an access finds its page in the table. *)
LEMMA HitOnly ==
    ASSUME PP!QuietInv, PP!NextWithMemmap, PP!NoEviction', NEW p \in Process,
           NEW n \in PP!Page, PP!InArea(p, n), PP!GetPage(p, n)
    PROVE  PP!PageHit(p, n)
<1>1. ~ PP!FaultFreeFrame(p, n)
  BY PageAssumptions, PP!NoFreeFault DEF PP!QuietInv
<1>2. ~ PP!FaultEvict(p, n)
  BY PageAssumptions, PP!EvictionsCounted DEF PP!QuietInv
<1>3. QED
  BY <1>1, <1>2 DEF PP!GetPage

LEMMA StepStored ==
    ASSUME BackingInv, StoredInArea, PageStep
    PROVE  StoredInArea'
<1>1. /\ brk[Self] \in Nat /\ brk'[Self] \in Nat /\ brk[Self] <= brk'[Self]
      /\ \A a \in Address : PageOf(a) \in Nat
  BY SelfBrkGrows, AddressTyped DEF BackingInv, PP!Page
<1>2. stored \in [Address -> Mine \cup {Unwritten}]
  BY DEF BackingInv, HistoryTyped
<1>3. CASE UNCHANGED stored
  BY <1>1, <1>3 DEF StoredInArea
<1>4. ASSUME NEW a \in Address, NEW v \in Mine, stored' = [stored EXCEPT ![a] = v],
             PageOf(a) < brk[Self]
      PROVE  StoredInArea'
  BY <1>1, <1>2, <1>4 DEF StoredInArea
<1>5. CASE SelfWrites \/ SelfFails
  BY <1>3, <1>4, <1>5 DEF SelfWrites, SelfFails, PP!Write, PP!InArea, PP!FaultFails,
     PP!FaultNoVictim, PP!FaultNoSwap
<1>6. QED
  BY <1>3, <1>5, OthersLeaveSelf DEF BackingInv, PageStep, SelfGrows, SelfReads

(* Self's bytes stay when its entries and the history do and its frames    *)
(* are not stored to.                                                      *)
LEMMA ContentKept ==
    ASSUME PP!PageInv, PP!NoEviction, PP!FitsTable(Self), SelfBytes,
           pte'[Self] = pte[Self], brk'[Self] = brk[Self], stored' = stored,
           \A i \in PP!Slot, o \in Offset :
               PP!InRam(Self, i) =>
                   mem'[PP!Fpn(pte[Self][i])][o] = mem[PP!Fpn(pte[Self][i])][o]
    PROVE  SelfBytes'
<1>1. \A i \in PP!Slot : ~ pte[Self][i].swapped
  BY DEF SelfBytes
<1>2. ASSUME NEW a \in Address PROVE Content(a)'
  <2> SUFFICES ASSUME PageOf(a) < brk[Self], pte[Self][PageOf(a)].present, Alone(a)
               PROVE  mem'[PP!Fpn(pte[Self][PageOf(a)])][OffsetOf(a)] = Expected(a)
    BY DEF Content, Alone, Expected
  <2>1. PageOf(a) \in PP!Slot /\ OffsetOf(a) \in Offset
    BY OwnEntry, AddressTyped
  <2>2. PP!InRam(Self, PageOf(a))
    BY <1>1, <2>1 DEF PP!InRam
  <2>3. mem[PP!Fpn(pte[Self][PageOf(a)])][OffsetOf(a)] = Expected(a)
    BY DEF SelfBytes, Content
  <2>4. QED
    BY <2>1, <2>2, <2>3
<1>3. \A i \in PP!Slot : i >= brk'[Self] => pte'[Self][i] = PP!EmptyPte
  BY DEF SelfBytes
<1>4. QED
  BY <1>1, <1>2, <1>3 DEF SelfBytes

LEMMA OthersContent ==
    ASSUME PP!DummyOutside, PP!QuietInv, SelfBytes, OthersStep, PP!NextWithMemmap,
           PP!NoEviction, PP!NoEviction', PP!FitsTable(Self)
    PROVE  SelfBytes'
<1>1. PICK q \in Process \ {Self} : OtherPages(q)
  BY DEF OthersStep
<1>2. pte'[Self] = pte[Self] /\ brk'[Self] = brk[Self] /\ stored' = stored /\ PP!PageInv
  BY OthersLeaveSelf DEF PP!QuietInv
<1>3. CASE UNCHANGED mem
  BY <1>2, <1>3, ContentKept
<1>4. ASSUME NEW n \in PP!Page, NEW o \in Offset, NEW v \in Value, PP!Write(q, n, o, v),
             mem' # mem
      PROVE  SelfBytes'
  <2>1. PP!PageHit(q, n) /\ q \in Process
    BY <1>4, HitOnly DEF PP!Write
  <2>2. PP!Stores(q, n)
    BY <1>4 DEF PP!Write, PP!Stores
  <2>3. PP!RamOwned /\ PP!OnlyDummies
    BY DEF PP!QuietInv
  <2>4. \A i \in PP!Slot, x \in Offset :
            PP!InRam(Self, i) => mem'[PP!Fpn(pte[Self][i])][x] = mem[PP!Fpn(pte[Self][i])][x]
    BY <1>2, <2>1, <2>2, <2>3, PageAssumptions, PP!StoresAside, MemoryAssumption
  <2>5. QED
    BY <1>2, <2>4, ContentKept
<1>5. QED
  BY <1>1, <1>3, <1>4 DEF OtherPages, PP!Grow, PP!GrowShort, PP!MapAtBrk, PP!MapDummy,
     PP!Read, PP!FaultFails, PP!FaultNoVictim, PP!FaultNoSwap, PP!pagingVars

(* New pages are empty: their frames have not been stored to. *)
LEMMA GrowContent ==
    ASSUME BackingInv, PP!QuietInv, StoredInArea, SelfBytes, PP!NoEviction,
           PP!FitsTable(Self), PP!FitsTable(Self)', NEW n \in 1 .. MaxPages,
           PP!Grow(Self, n), UNCHANGED stored
    PROVE  SelfBytes'
<1>1. /\ PP!PageInv /\ PP!RamOwned /\ PP!FreshFrames /\ Self \in Process
      /\ n \in Nat /\ brk[Self] \in Nat /\ brk'[Self] = brk[Self] + n /\ mem' = mem
      /\ freeRam \in Seq(PP!Frame) /\ n <= Len(freeRam)
  <2>1. PP!PageInv /\ PP!RamOwned /\ PP!FreshFrames /\ PP!TypeOK
    BY DEF PP!QuietInv, PP!PageInv
  <2>2. Self \in Process /\ n \in Nat
    BY MemoryAssumption, PagesAssumption
  <2>3. brk \in [Process -> 0 .. MaxPages] /\ freeRam \in Seq(PP!Frame)
    BY <2>1 DEF PP!TypeOK
  <2>4. /\ brk' = [brk EXCEPT ![Self] = @ + n] /\ mem' = mem
        /\ n <= Len(freeRam)
    BY <2>2, <2>3 DEF PP!Grow, PP!TakeRam
  <2>5. brk[Self] \in Nat /\ brk'[Self] = brk[Self] + n
    BY <2>2, <2>3, <2>4, PagesAssumption
  <2>6. QED
    BY <2>1, <2>2, <2>3, <2>4, <2>5
<1>2. /\ PP!Remapped(Self, n) = brk[Self] .. brk[Self] + n - 1
      /\ brk[Self] + n <= TableSize
  BY <1>1, PageAssumptions, PP!GrowMapsFitting DEF PP!NewPages
<1>3. \A i \in PP!Slot : i \notin PP!Remapped(Self, n) => pte'[Self][i] = pte[Self][i]
  BY <1>1, PageAssumptions, PP!GrowMaps
<1>4. ASSUME NEW i \in PP!Remapped(Self, n)
      PROVE  PP!Fpn(pte'[Self][i]) \in PP!Elements(freeRam) /\ ~ pte'[Self][i].swapped
  <2>1. /\ PP!Place(Self, n, i) \in 1 .. n
        /\ PP!Fpn(pte'[Self][i]) = freeRam[PP!Place(Self, n, i)]
        /\ PP!InRamNext(Self, i)
    BY <1>1, PageAssumptions, PP!GrowMaps
  <2>2. PP!Place(Self, n, i) \in DOMAIN freeRam
    BY <1>1, <2>1
  <2>3. QED
    BY <2>1, <2>2 DEF PP!Elements, PP!InRamNext
<1>5. \A i \in PP!Slot : i \in Nat
  BY PagesAssumption DEF PP!Slot
<1>6. \A i \in PP!Slot : ~ pte'[Self][i].swapped
  BY <1>3, <1>4 DEF SelfBytes
<1>7. \A i \in PP!Slot : i >= brk'[Self] => pte'[Self][i] = PP!EmptyPte
  BY <1>1, <1>2, <1>3, <1>5 DEF SelfBytes
<1>8. ASSUME NEW a \in Address PROVE Content(a)'
  <2> SUFFICES ASSUME PageOf(a) < brk[Self] + n, pte'[Self][PageOf(a)].present, Alone(a)
               PROVE  mem[PP!Fpn(pte'[Self][PageOf(a)])][OffsetOf(a)] = Expected(a)
    BY <1>1 DEF Content, Alone, Expected
  <2>1. PageOf(a) \in Nat /\ OffsetOf(a) \in Offset
    BY AddressTyped DEF PP!Page
  <2>2. CASE PageOf(a) < brk[Self]
    <3>1. PageOf(a) \in PP!Slot /\ PageOf(a) \notin PP!Remapped(Self, n)
      BY <1>1, <1>2, <2>1, <2>2, OwnEntry
    <3>2. pte'[Self][PageOf(a)] = pte[Self][PageOf(a)]
      BY <1>3, <3>1
    <3>3. QED
      BY <2>2, <3>2 DEF SelfBytes, Content
  <2>3. CASE PageOf(a) >= brk[Self]
    <3>1. PageOf(a) \in PP!Remapped(Self, n)
      BY <1>1, <1>2, <2>1, <2>3
    <3>2. mem[PP!Fpn(pte'[Self][PageOf(a)])][OffsetOf(a)] = 0
      BY <1>1, <1>4, <2>1, <3>1 DEF PP!FreshFrames
    <3>3. stored[a] = Unwritten
      BY <1>1, <2>1, <2>3 DEF StoredInArea
    <3>4. QED
      BY <3>2, <3>3 DEF Expected
  <2>4. QED
    BY <1>1, <2>1, <2>2, <2>3
<1>9. QED
  BY <1>6, <1>7, <1>8 DEF SelfBytes

(* Pages that got no frame hold nothing. *)
LEMMA GrowShortContent ==
    ASSUME BackingInv, PP!QuietInv, SelfBytes, PP!NoEviction,
           PP!FitsTable(Self), PP!FitsTable(Self)', NEW n \in 1 .. MaxPages,
           PP!GrowShort(Self, n), UNCHANGED stored
    PROVE  SelfBytes'
<1>1. /\ PP!PageInv /\ Self \in Process /\ n \in Nat /\ TableSize \in Nat
      /\ brk[Self] \in Nat /\ brk'[Self] = brk[Self] + n /\ mem' = mem /\ pte' = pte
      /\ \A i \in PP!Slot : i \in Nat
  BY MemoryAssumption, PagesAssumption
     DEF PP!QuietInv, PP!PageInv, PP!TypeOK, PP!GrowShort, PP!Slot
<1>2. ASSUME NEW a \in Address PROVE Content(a)'
  <2> SUFFICES ASSUME PageOf(a) < brk[Self] + n, pte[Self][PageOf(a)].present, Alone(a)
               PROVE  mem[PP!Fpn(pte[Self][PageOf(a)])][OffsetOf(a)] = Expected(a)
    BY <1>1 DEF Content, Alone, Expected
  <2>1. PageOf(a) \in Nat /\ PageOf(a) < TableSize
    BY <1>1, AddressTyped DEF PP!Page, PP!FitsTable
  <2>2. PageOf(a) \in PP!Slot
    BY <1>1, <2>1 DEF PP!Slot
  <2>3. PageOf(a) < brk[Self]
    BY <1>1, <2>1, <2>2 DEF SelfBytes, PP!EmptyPte
  <2>4. QED
    BY <2>3 DEF SelfBytes, Content
<1>3. QED
  BY <1>1, <1>2 DEF SelfBytes

(* A stored byte reaches its own cell and no other. *)
LEMMA WriteContent ==
    ASSUME BackingInv, PP!QuietInv, SelfBytes, PP!NoEviction, PP!FitsTable(Self),
           NEW a \in Address, NEW v \in Mine, PP!Write(Self, PageOf(a), OffsetOf(a), v),
           PP!PageHit(Self, PageOf(a)), stored' = [stored EXCEPT ![a] = v]
    PROVE  SelfBytes'
<1>1. /\ PP!PageInv /\ PP!RamOwned /\ Self \in Process /\ v # Unwritten
      /\ stored \in [Address -> Mine \cup {Unwritten}]
      /\ mem \in [PP!Frame -> [Offset -> Value]]
      /\ pte' = pte /\ brk' = brk
  BY MemoryAssumption
     DEF BackingInv, HistoryTyped, PP!QuietInv, PP!PageInv, PP!TypeOK, PP!PageHit, PP!Write
<1>2. \A i \in PP!Slot : ~ pte[Self][i].swapped
  BY DEF SelfBytes
<1>3. PageOf(a) < brk[Self]
  BY DEF PP!Write, PP!InArea
<1>4. /\ PageOf(a) \in PP!Slot /\ PP!Index(PageOf(a)) = PageOf(a)
      /\ PP!InRam(Self, PageOf(a))
  BY <1>1, <1>2, <1>3, OwnEntry DEF PP!PageHit, PP!InRam
<1>5. PICK f \in PP!Frame : f = PP!Fpn(pte[Self][PageOf(a)])
  BY <1>1, <1>4 DEF PP!RamOwned
<1>6. mem' = [mem EXCEPT ![f][OffsetOf(a)] = v]
  BY <1>1, <1>4, <1>5 DEF PP!Write
<1>7. ASSUME NEW b \in Address PROVE Content(b)'
  <2> SUFFICES ASSUME PageOf(b) < brk[Self], pte[Self][PageOf(b)].present, Alone(b)'
               PROVE  mem'[PP!Fpn(pte[Self][PageOf(b)])][OffsetOf(b)] = Expected(b)'
    BY <1>1 DEF Content
  <2>1. PageOf(b) \in PP!Slot /\ OffsetOf(b) \in Offset /\ PP!InRam(Self, PageOf(b))
    BY <1>1, <1>2, OwnEntry, AddressTyped DEF PP!InRam
  <2>2. PICK g \in PP!Frame : g = PP!Fpn(pte[Self][PageOf(b)])
    BY <1>1, <2>1 DEF PP!RamOwned
  <2>3. g = f => PageOf(b) = PageOf(a)
    BY <1>1, <1>4, <1>5, <2>1, <2>2 DEF PP!RamOwned
  <2>4. CASE SameCell(b, a)
    <3>1. b = a
      BY <1>1, <2>4 DEF Alone
    <3>2. mem'[f][OffsetOf(a)] = v
      BY <1>1, <1>6, <2>1, <3>1
    <3>3. Expected(a)' = v
      BY <1>1 DEF Expected
    <3>4. QED
      BY <1>5, <3>1, <3>2, <3>3
  <2>5. CASE ~ SameCell(b, a)
    <3>1. b # a /\ (g # f \/ OffsetOf(b) # OffsetOf(a))
      BY <2>3, <2>5 DEF SameCell
    <3>2. mem'[g][OffsetOf(b)] = mem[g][OffsetOf(b)]
      BY <1>1, <1>5, <1>6, <2>1, <2>2, <3>1
    <3>3. \A c \in Address : c # a => stored'[c] = stored[c]
      BY <1>1
    <3>4. Alone(b)
      BY <2>5, <3>3 DEF Alone
    <3>5. Expected(b)' = Expected(b)
      BY <3>1, <3>3 DEF Expected
    <3>6. mem[g][OffsetOf(b)] = Expected(b)
      BY <2>2, <3>4 DEF SelfBytes, Content
    <3>7. QED
      BY <2>2, <3>2, <3>5, <3>6
  <2>6. QED
    BY <2>4, <2>5
<1>8. QED
  BY <1>1, <1>7 DEF SelfBytes

(* A byte that finds no frame is stored in the history only: its page      *)
(* stays without one.                                                      *)
LEMMA FailContent ==
    ASSUME BackingInv, PP!QuietInv, SelfBytes, PP!NoEviction, PP!FitsTable(Self),
           NEW a \in Address, NEW v \in Mine, PP!FaultFails(Self, PageOf(a)),
           stored' = [stored EXCEPT ![a] = v]
    PROVE  SelfBytes'
<1>1. /\ PP!PageInv /\ stored \in [Address -> Mine \cup {Unwritten}]
      /\ pte' = pte /\ brk' = brk /\ mem' = mem
  BY DEF BackingInv, HistoryTyped, PP!QuietInv, PP!FaultFails, PP!FaultNoVictim,
     PP!FaultNoSwap, PP!pagingVars
<1>2. PageOf(a) < brk[Self] /\ ~ pte[Self][PageOf(a)].present
  BY <1>1, OwnEntry DEF PP!FaultFails, PP!FaultNoVictim, PP!FaultNoSwap, PP!InArea
<1>3. ASSUME NEW b \in Address PROVE Content(b)'
  <2> SUFFICES ASSUME PageOf(b) < brk[Self], pte[Self][PageOf(b)].present, Alone(b)'
               PROVE  mem[PP!Fpn(pte[Self][PageOf(b)])][OffsetOf(b)] = Expected(b)'
    BY <1>1 DEF Content
  <2>1. PageOf(b) # PageOf(a) /\ \A c \in Address : c # a => stored'[c] = stored[c]
    BY <1>1, <1>2
  <2>2. Alone(b) /\ Expected(b)' = Expected(b)
    BY <2>1 DEF Alone, SameCell, Expected
  <2>3. QED
    BY <2>2 DEF SelfBytes, Content
<1>4. QED
  BY <1>1, <1>3 DEF SelfBytes

LEMMA StepSelfBytes ==
    ASSUME PP!DummyOutside, BackingInv, BytesHold, PageStep
    PROVE  SelfBytes'
<1> SUFFICES ASSUME PP!NoEviction', PP!FitsTable(Self)' PROVE SelfBytes'
  BY DEF SelfBytes
<1>1. /\ BackingInv /\ PP!QuietInv /\ StoredInArea /\ SelfBytes /\ PP!PageInv
      /\ PP!NextWithMemmap /\ Self \in Process
  BY PageStepsArePaging, MemoryAssumption DEF BytesHold, PP!QuietInv
<1>2. PP!NoEviction
  BY <1>1, PageAssumptions, PP!EvictionsCounted DEF PP!QuietInv
<1>3. PP!FitsTable(Self)
  BY <1>1, SelfBrkGrows
<1>4. CASE SelfGrows
  BY <1>1, <1>2, <1>3, <1>4, GrowContent, GrowShortContent DEF SelfGrows
<1>5. CASE UNCHANGED <<pte, brk, mem, stored>>
  BY <1>1, <1>2, <1>3, <1>5, ContentKept
<1>6. CASE SelfReads
  <2>1. PICK n \in PP!Page : PP!Read(Self, n) /\ UNCHANGED stored
    BY <1>6 DEF SelfReads
  <2>2. PP!PageHit(Self, n)
    BY <1>1, <2>1, HitOnly DEF PP!Read
  <2>3. QED
    BY <1>5, <2>1, <2>2 DEF PP!Read, PP!PageHit
<1>7. CASE SelfWrites
  <2>1. PICK a \in Address, v \in Mine :
            PP!Write(Self, PageOf(a), OffsetOf(a), v) /\ stored' = [stored EXCEPT ![a] = v]
    BY <1>7 DEF SelfWrites
  <2>2. PP!PageHit(Self, PageOf(a))
    BY <1>1, <2>1, HitOnly, AddressTyped DEF PP!Write
  <2>3. QED
    BY <1>1, <1>2, <1>3, <2>1, <2>2, WriteContent
<1>8. CASE SelfFails
  <2>1. PICK a \in Address :
            /\ PP!FaultFails(Self, PageOf(a))
            /\ UNCHANGED stored \/ \E v \in Mine : stored' = [stored EXCEPT ![a] = v]
    BY <1>8 DEF SelfFails
  <2>2. CASE UNCHANGED stored
    BY <1>5, <2>1, <2>2 DEF PP!FaultFails, PP!FaultNoVictim, PP!FaultNoSwap, PP!pagingVars
  <2>3. QED
    BY <1>1, <1>2, <1>3, <2>1, <2>2, FailContent
<1>9. CASE OthersStep
  BY <1>1, <1>2, <1>3, <1>9, OthersContent
<1>10. QED
  BY <1>4, <1>6, <1>7, <1>8, <1>9 DEF PageStep

LEMMA BytesStart == MemoryInit => ByteInv
<1> SUFFICES ASSUME MemoryInit PROVE ByteInv
  OBVIOUS
<1>1. BackingInv /\ PP!Init /\ stored = [a \in Address |-> Unwritten]
  BY BackingStarts, SameInit DEF MemoryInit
<1>2. PP!QuietInv
  BY <1>1, PageAssumptions, PP!StartsQuiet
<1>3. /\ \A i \in PP!Slot : pte[Self][i] = PP!EmptyPte
      /\ brk[Self] = 0 /\ \A a \in Address : PageOf(a) \in Nat /\ stored[a] = Unwritten
  BY <1>1, MemoryAssumption, AddressTyped DEF PP!Init, PP!Page
<1>4. ASSUME NEW a \in Address PROVE Content(a)
  BY <1>3 DEF Content
<1>5. QED
  BY <1>1, <1>2, <1>3, <1>4 DEF ByteInv, BytesHold, StoredInArea, SelfBytes, PP!EmptyPte

LEMMA BytesKeep ==
    ASSUME PP!DummyOutside
    PROVE  ByteInv /\ [MemoryNext]_memoryVars => ByteInv'
<1> SUFFICES ASSUME ByteInv, [MemoryNext]_memoryVars PROVE ByteInv'
  OBVIOUS
<1>1. BackingInv /\ BackingInv'
  BY BackingKeeps DEF ByteInv
<1> SUFFICES ASSUME Orderly' PROVE BytesHold'
  BY <1>1 DEF ByteInv
<1>2. BytesHold
  BY <1>1, StepOwn DEF ByteInv, BackingInv, Orderly
<1>3. UNCHANGED <<backing, stored>> \/ PageStep
  <2>1. ~ AstrayStep
    BY DEF AstrayStep, StaleTake, OwnWrite, Orderly
  <2>2. QED
    BY <1>1, <2>1, MemoryKinds DEF BackingInv, memoryVars
<1>4. CASE UNCHANGED <<backing, stored>>
  <2>1. PP!QuietInv'
    BY <1>2, <1>4, PageAssumptions, PP!WiderQuiet DEF BytesHold, backing, PP!pagingVars
  <2>2. StoredInArea'
    BY <1>2, <1>4 DEF BytesHold, StoredInArea, backing
  <2>3. SelfBytes'
    BY <1>2, <1>4 DEF BytesHold, SelfBytes, backing, PP!NoEviction, PP!FitsTable, Content,
       Alone, Expected
  <2>4. QED
    BY <2>1, <2>2, <2>3 DEF BytesHold
<1>5. CASE PageStep
  <2>1. PP!QuietInv'
    BY <1>2, <1>5, PageStepsArePaging, PageAssumptions, PP!WiderQuiet DEF BytesHold
  <2>2. StoredInArea' /\ SelfBytes'
    BY <1>1, <1>2, <1>5, StepStored, StepSelfBytes DEF BytesHold
  <2>3. QED
    BY <2>1, <2>2 DEF BytesHold
<1>6. QED
  BY <1>3, <1>4, <1>5

LEMMA BytesShow == ByteInv => ReadsAsStoredIfAlone
<1> SUFFICES ASSUME ByteInv, Undisturbed, NEW a \in Address, Backed(a), Alone(a)
             PROVE  ByteAt(a) = Expected(a)
  BY DEF ReadsAsStoredIfAlone, Alone
<1>0. BytesHold
  BY DEF ByteInv, Undisturbed
<1>1. PP!PageInv /\ PP!NoEviction /\ PP!FitsTable(Self) /\ Self \in Process
  BY <1>0, SamePlaces, MemoryAssumption
     DEF BytesHold, PP!QuietInv, Undisturbed, PP!NoEviction
<1>2. PageOf(a) < brk[Self]
  BY InvShowsPages DEF ByteInv, BackingInv, ListsInv, Backed, RegionsHavePages
<1>3. /\ PageOf(a) \in PP!Slot
      /\ P!EntryOf(Self, PageOf(a)) = pte[Self][PageOf(a)]
      /\ FrameOf(a) = PP!Fpn(pte[Self][PageOf(a)])
  BY <1>1, <1>2, OwnEntry, SamePlaces DEF FrameOf
<1>4. PP!InRam(Self, PageOf(a))
  BY <1>0, <1>1, <1>3 DEF BytesHold, SelfBytes, Backed, PP!InRam
<1>5. FrameOf(a) \in PP!Frame
  BY <1>0, <1>1, <1>3, <1>4 DEF BytesHold, PP!QuietInv, PP!RamOwned
<1>6. mem[FrameOf(a)][OffsetOf(a)] = Expected(a)
  BY <1>0, <1>1, <1>2, <1>3 DEF BytesHold, SelfBytes, Content, Backed
<1>7. QED
  BY <1>5, <1>6, SamePlaces DEF ByteAt

(* Frame 7919 is the one 0xdeadbeef names. *)
LEMMA DummyBeyond ==
    ASSUME RamFrames <= 7919
    PROVE  PP!DummyOutside
BY PagesAssumption, PageAssumptions, PP!DummyFrame DEF PP!DummyOutside, PP!Frame

(* Until a page is evicted or a memmap of a program's own overlaps another *)
(* call or stores in RAM, and while Self's area fits its table, a byte of  *)
(* a live region reads back what Self stored there last, or 0, unless      *)
(* another address shares its cell: through any allocations, splits and    *)
(* frees of Self and anything the other processes grow, store and map.     *)
(* The device may not reach the frame that the entry of SYSMEM_MAP_OP      *)
(* names: a process that maps it stores in the page of whoever owns it.    *)
THEOREM AlwaysReadsAsStoredIfAlone ==
    ASSUME RamFrames <= 7919
    PROVE  MemorySpec => []ReadsAsStoredIfAlone
<1>1. ByteInv /\ [MemoryNext]_memoryVars => ByteInv'
  BY BytesKeep, DummyBeyond
<1>2. QED
  BY <1>1, BytesStart, BytesShow, PTL DEF MemorySpec
=============================================================================

--------------------------- MODULE Paging_proofs ---------------------------
(***************************************************************************)
(* Every frame of RAM and of swap has one owner, for devices, tables and   *)
(* areas of any size, as long as no area outgrows its page table.          *)
(***************************************************************************)
EXTENDS Paging, SequenceTheorems, TLAPS

LEMMA Ranges == FpnRange \in Nat /\ SwpUnit \in Nat /\ SwpRange \in Nat \ {0}
BY SMT DEF FpnRange, SwpUnit, SwpRange

LEMMA LowBelow ==
    ASSUME NEW low \in Nat, low < SwpRange, NEW f \in Nat
    PROVE  /\ (low - (low % FpnRange)) + (f % FpnRange) \in Nat
           /\ (low - (low % FpnRange)) + (f % FpnRange) < SwpRange
           /\ ((low - (low % FpnRange)) + (f % FpnRange)) % FpnRange = f % FpnRange
           /\ f < FpnRange => f % FpnRange = f
           /\ low % FpnRange \in Nat
BY SMTT(60) DEF FpnRange, SwpRange

(* The field of a frame number is below the rest of the low bits. *)
LEMMA LowField ==
    ASSUME NEW low \in 0 .. SwpRange - 1, NEW f \in Nat
    PROVE  /\ (low - (low % FpnRange)) + (f % FpnRange) \in 0 .. SwpRange - 1
           /\ ((low - (low % FpnRange)) + (f % FpnRange)) % FpnRange = f % FpnRange
           /\ f < FpnRange => f % FpnRange = f
           /\ low % FpnRange \in Nat
<1> DEFINE l == (low - (low % FpnRange)) + (f % FpnRange)
<1>1. low \in Nat /\ low < SwpRange
  BY Ranges
<1>2. l \in Nat /\ l < SwpRange
  BY <1>1, LowBelow
<1>3. l \in 0 .. SwpRange - 1
  <2> HIDE DEF l
  <2>1. QED
    BY <1>2, Ranges
<1>4. QED
  BY <1>1, <1>3, LowBelow

LEMMA SwapBelow ==
    ASSUME NEW s \in Nat
    PROVE  /\ (s * SwpUnit) % SwpRange \in Nat
           /\ (s * SwpUnit) % SwpRange < SwpRange
           /\ s < SwpRange \div SwpUnit => ((s * SwpUnit) % SwpRange) \div SwpUnit = s
BY SMTT(60) DEF SwpRange, SwpUnit

LEMMA SwapField ==
    ASSUME NEW s \in Nat
    PROVE  /\ (s * SwpUnit) % SwpRange \in 0 .. SwpRange - 1
           /\ s < SwpRange \div SwpUnit => ((s * SwpUnit) % SwpRange) \div SwpUnit = s
<1> DEFINE l == (s * SwpUnit) % SwpRange
<1>1. l \in Nat /\ l < SwpRange
  BY SwapBelow
<1>2. l \in 0 .. SwpRange - 1
  <2> HIDE DEF l
  <2>1. QED
    BY <1>1, Ranges
<1>3. QED
  BY <1>2, SwapBelow

LEMMA FpnNat ==
    ASSUME NEW e \in Entries
    PROVE  Fpn(e) \in Nat
<1>1. e.low \in 0 .. SwpRange - 1
  BY DEF Entries
<1>2. QED
  BY <1>1, LowField DEF Fpn

LEMMA FpnSet ==
    ASSUME NEW e \in Entries, NEW f \in Nat
    PROVE  PteSetFpn(e, f) \in Entries /\ (f < FpnRange => Fpn(PteSetFpn(e, f)) = f)
<1>1. e.low \in 0 .. SwpRange - 1
  BY DEF Entries
<1>2. PteSetFpn(e, f) = [present |-> TRUE, swapped |-> FALSE,
                         low |-> (e.low - (e.low % FpnRange)) + (f % FpnRange)]
  BY DEF PteSetFpn, Fpn
<1>3. PteSetFpn(e, f) \in Entries
  BY <1>1, <1>2, LowField DEF Entries
<1>4. Fpn(PteSetFpn(e, f)) = ((e.low - (e.low % FpnRange)) + (f % FpnRange)) % FpnRange
  BY <1>2 DEF Fpn
<1>5. QED
  BY <1>1, <1>3, <1>4, LowField

LEMMA SwapSet ==
    ASSUME NEW e \in Entries, NEW s \in Nat
    PROVE  /\ PteSetSwap(e, s) \in Entries
           /\ s < SwpRange \div SwpUnit => Swp(PteSetSwap(e, s)) = s
<1>1. PteSetSwap(e, s) \in Entries
  BY SwapField DEF PteSetSwap, Entries
<1>2. Swp(PteSetSwap(e, s)) = ((s * SwpUnit) % SwpRange) \div SwpUnit
  BY DEF PteSetSwap, Swp
<1>3. QED
  BY <1>1, <1>2, SwapField

LEMMA EmptyTyped == EmptyPte \in Entries
<1>1. 0 \in 0 .. SwpRange - 1
  BY Ranges
<1>2. QED
  BY <1>1 DEF EmptyPte, Entries

LEMMA LastOnTyped ==
    ASSUME TableSize \in Nat \ {0}, NEW b \in Nat, NEW n \in Nat, NEW i \in Slot,
           NEW k \in b .. b + n - 1, k % TableSize = i
    PROVE  \E m \in b .. b + n - 1 : m % TableSize = i /\ m + TableSize \notin b .. b + n - 1
<1> DEFINE hi == (b + n) - 1
<1> DEFINE m == hi - ((hi - i) % TableSize)
<1>0. hi \in Nat /\ i \in Nat /\ i < TableSize /\ i <= k /\ k <= hi
  BY SMTT(30) DEF Slot
<1>1. m % TableSize = i
  BY <1>0, SMTT(60)
<1>2. m >= k
  <2> DEFINE T == TableSize
             x == (hi - i) \div T
             y == (k - i) \div T
  <2>1. hi - i = T * x + ((hi - i) % T) /\ k - i = T * y + ((k - i) % T) /\ x \in Nat /\ y \in Nat
    BY <1>0, SMTT(60)
  <2>2. QED
    BY <1>0, <2>1, SMTT(60)
<1>3. m <= hi /\ m + TableSize > hi /\ m \in Nat
  BY <1>0, SMTT(60)
<1>4. QED
  BY <1>1, <1>2, <1>3
-----------------------------------------------------------------------------
(* An entry is empty until the Present bit is set, which is never cleared. *)
EmptyUntilPresent ==
    \A p \in Process, i \in Slot : ~ pte[p][i].present => pte[p][i] = EmptyPte

PageInv == TypeOK /\ EmptyUntilPresent

LEMMA IndexTyped == \A n \in Nat : Index(n) \in Slot
BY PagingAssumption, SMTT(30) DEF Index, Slot

LEMMA FrameNat == Frame \subseteq Nat /\ SwapSlot \subseteq Nat
BY FramePoolAssumption DEF Frame, SwapSlot

LEMMA LastOnIn ==
    ASSUME TypeOK, NEW p \in Process, NEW n \in Nat, NEW i \in Slot,
           \E m \in NewPages(p, n) : Index(m) = i
    PROVE  LastOn(p, n, i) \in NewPages(p, n) /\ Index(LastOn(p, n, i)) = i
<1>1. brk[p] \in Nat
  BY PagingAssumption DEF TypeOK
<1>2. \E m \in NewPages(p, n) : Index(m) = i /\ m + TableSize \notin NewPages(p, n)
  BY <1>1, LastOnTyped, PagingAssumption DEF NewPages, Index
<1>3. QED
  BY <1>2 DEF LastOn

LEMMA MappedTyped ==
    ASSUME PageInv, NEW p \in Process, NEW n \in 1 .. MaxPages, n <= Len(freeRam)
    PROVE  /\ Mapped(p, n) \in [Slot -> Entries]
           /\ \A i \in Slot : ~ Mapped(p, n)[i].present => Mapped(p, n)[i] = EmptyPte
<1> SUFFICES ASSUME NEW i \in Slot
             PROVE  /\ Mapped(p, n)[i] \in Entries
                    /\ ~ Mapped(p, n)[i].present => Mapped(p, n)[i] = EmptyPte
  BY DEF Mapped
<1>1. CASE \E m \in NewPages(p, n) : Index(m) = i
  <2>1. LastOn(p, n, i) \in NewPages(p, n)
    BY <1>1, LastOnIn, PagingAssumption DEF PageInv
  <2>2. FrameFor(p, LastOn(p, n, i)) \in Frame
    BY <2>1, PagingAssumption DEF FrameFor, NewPages, PageInv, TypeOK
  <2>3. Mapped(p, n)[i] = PteSetFpn(pte[p][i], FrameFor(p, LastOn(p, n, i)))
    BY <1>1 DEF Mapped
  <2>4. Mapped(p, n)[i] \in Entries
    <3>1. pte[p][i] \in Entries /\ FrameFor(p, LastOn(p, n, i)) \in Nat
      BY <2>2, FrameNat DEF PageInv, TypeOK
    <3>2. QED
      BY <2>3, <3>1, FpnSet
  <2>5. Mapped(p, n)[i].present
    BY <2>3 DEF PteSetFpn
  <2>6. QED
    BY <2>4, <2>5
<1>2. CASE ~ \E m \in NewPages(p, n) : Index(m) = i
  BY <1>2 DEF Mapped, PageInv, TypeOK, EmptyUntilPresent
<1>3. QED
  BY <1>1, <1>2

LEMMA GrowTyped ==
    ASSUME PageInv, NEW p \in Process, NEW n \in 1 .. MaxPages, Grow(p, n)
    PROVE  PageInv'
<1>1. n <= Len(freeRam) /\ brk[p] + n <= MaxPages /\ brk[p] \in Nat
  BY PagingAssumption DEF Grow, TakeRam, PageInv, TypeOK
<1>2. freeRam' \in Seq(Frame)
  BY <1>1 DEF Grow, TakeRam, PageInv, TypeOK
<1>3. Listed(p, n) \in Seq(Page)
  BY <1>1, PagingAssumption DEF Listed, Page
<1>4. fifo' \in [Process -> Seq(Page)]
  BY <1>3, ConcatProperties DEF Grow, PageInv, TypeOK
<1>5. pte' \in [Process -> [Slot -> Entries]] /\ EmptyUntilPresent'
  BY <1>1, MappedTyped DEF Grow, PageInv, TypeOK, EmptyUntilPresent
<1>6. brk' \in [Process -> 0 .. MaxPages]
  BY <1>1, PagingAssumption DEF Grow, PageInv, TypeOK
<1>7. QED
  BY <1>2, <1>4, <1>5, <1>6 DEF Grow, PageInv, TypeOK

LEMMA GrowShortTyped ==
    ASSUME PageInv, NEW p \in Process, NEW n \in 1 .. MaxPages, GrowShort(p, n)
    PROVE  PageInv'
<1>1. brk' \in [Process -> 0 .. MaxPages]
  BY PagingAssumption DEF GrowShort, PageInv, TypeOK
<1>2. QED
  BY <1>1 DEF GrowShort, TakeRamShort, PageInv, TypeOK, EmptyUntilPresent

(* What pg_getpage may change, and what it leaves to its caller. *)
PagesTyped ==
    /\ freeRam \in Seq(Frame)
    /\ freeSwap \in Seq(SwapSlot)
    /\ pte \in [Process -> [Slot -> Entries]]
    /\ fifo \in [Process -> Seq(Page)]
    /\ EmptyUntilPresent

LEMMA PushTyped ==
    ASSUME NEW S, NEW s \in Seq(S), NEW e \in S
    PROVE  Push(s, e) \in Seq(S)
BY ConcatProperties DEF Push

LEMMA FaultFreeFrameTyped ==
    ASSUME PageInv, NEW p \in Process, NEW n \in Page, FaultFreeFrame(p, n)
    PROVE  PagesTyped'
<1>1. Index(n) \in Slot /\ ~ pte[p][Index(n)].swapped
  BY IndexTyped, PagingAssumption DEF Page, FaultFreeFrame, EntryOf, PageInv, EmptyUntilPresent, EmptyPte
<1>2. freeSwap' = freeSwap
  BY <1>1 DEF FaultFreeFrame, SwapReleased, EntryOf
<1>3. Head(freeRam) \in Frame /\ freeRam' \in Seq(Frame)
  BY DEF FaultFreeFrame, TakeRam, PageInv, TypeOK
<1>4. PteSetFpn(pte[p][Index(n)], Head(freeRam)) \in Entries
  BY <1>1, <1>3, FrameNat, FpnSet DEF PageInv, TypeOK
<1>5. pte' \in [Process -> [Slot -> Entries]] /\ EmptyUntilPresent'
  BY <1>1, <1>4 DEF FaultFreeFrame, PageInv, TypeOK, EmptyUntilPresent, PteSetFpn
<1>6. fifo' \in [Process -> Seq(Page)]
  BY PushTyped DEF FaultFreeFrame, PageInv, TypeOK
<1>7. QED
  BY <1>2, <1>3, <1>5, <1>6 DEF PagesTyped, PageInv, TypeOK

(* A page without the Present bit has an empty entry, so it never was in   *)
(* swap: an eviction takes a swap frame and gives none back.               *)
LEMMA EvictTakesHead ==
    ASSUME PageInv, NEW p \in Process, NEW n \in Page, FaultEvict(p, n)
    PROVE  freeRam = <<>> /\ freeSwap # <<>> /\ freeSwap' = Tail(freeSwap)
<1>1. Index(n) \in Slot /\ ~ pte[p][Index(n)].swapped
  BY IndexTyped, PagingAssumption DEF Page, FaultEvict, EntryOf, PageInv, EmptyUntilPresent, EmptyPte
<1>2. QED
  BY <1>1 DEF FaultEvict, TakeSlot, SwapReleased, EntryOf

LEMMA FaultEvictTyped ==
    ASSUME PageInv, NEW p \in Process, NEW n \in Page, FaultEvict(p, n)
    PROVE  PagesTyped'
<1> DEFINE v == Victim(p)
           f == Fpn(pte[p][Index(v)])
           s == Head(freeSwap)
           out == [pte EXCEPT ![p][Index(v)] = PteSetSwap(@, s)]
<1>1. v \in Page /\ WithoutVictim(p) \in Seq(Page)
  BY DEF FaultEvict, Victim, WithoutVictim, PageInv, TypeOK
<1>2. Index(n) \in Slot /\ Index(v) \in Slot
  BY <1>1, IndexTyped, PagingAssumption DEF Page
<1>3. s \in Nat /\ freeSwap' \in Seq(SwapSlot)
  <2>1. freeSwap \in Seq(SwapSlot) /\ freeSwap # <<>> /\ freeSwap' = Tail(freeSwap)
    BY EvictTakesHead DEF PageInv, TypeOK
  <2>2. QED
    BY <2>1, FrameNat, HeadTailProperties
<1>4. pte[p][Index(v)] \in Entries /\ f \in Nat
  BY <1>2, FpnNat DEF PageInv, TypeOK
<1>5. pte' = [out EXCEPT ![p][Index(n)] = PteSetFpn(@, f)]
  BY DEF FaultEvict, EntryOf
<1>6. fifo' \in [Process -> Seq(Page)]
  BY <1>1, PushTyped DEF FaultEvict, PageInv, TypeOK
<1> HIDE DEF v, f, s
<1>7. PteSetSwap(pte[p][Index(v)], s) \in Entries
  BY <1>3, <1>4, SwapSet
<1>8. out \in [Process -> [Slot -> Entries]]
      /\ \A q \in Process, i \in Slot : ~ out[q][i].present => out[q][i] = EmptyPte
  BY <1>2, <1>7 DEF PageInv, TypeOK, EmptyUntilPresent, PteSetSwap
<1> HIDE DEF out
<1>9. PteSetFpn(out[p][Index(n)], f) \in Entries
  BY <1>2, <1>4, <1>8, FpnSet
<1>10. pte' \in [Process -> [Slot -> Entries]] /\ EmptyUntilPresent'
  BY <1>2, <1>5, <1>8, <1>9 DEF EmptyUntilPresent, PteSetFpn
<1>11. QED
  BY <1>3, <1>6, <1>10 DEF FaultEvict, PagesTyped, PageInv, TypeOK

LEMMA GetPageTyped ==
    ASSUME PageInv, NEW p \in Process, NEW n \in Page, GetPage(p, n)
    PROVE  PagesTyped'
<1>1. CASE PageHit(p, n)
  BY <1>1 DEF PageHit, PagesTyped, PageInv, TypeOK, EmptyUntilPresent
<1>2. QED
  BY <1>1, FaultFreeFrameTyped, FaultEvictTyped DEF GetPage

LEMMA ReadTyped ==
    ASSUME PageInv, NEW p \in Process, NEW n \in Page, Read(p, n)
    PROVE  PageInv'
BY GetPageTyped DEF Read, PagesTyped, PageInv, TypeOK

LEMMA WriteTyped ==
    ASSUME PageInv, NEW p \in Process, NEW n \in Page, NEW o \in Offset,
           NEW v \in Value, Write(p, n, o, v)
    PROVE  PageInv'
<1>1. PagesTyped'
  BY GetPageTyped DEF Write
<1> DEFINE f == Fpn(pte'[p][Index(n)])
<1>2. \/ f \in Frame /\ mem' = [mem EXCEPT ![f][o] = v]
                     /\ written' = [written EXCEPT ![p][n][o] = v]
      \/ mem' = mem /\ written' = written
  BY DEF Write
<1> HIDE DEF f
<1>3. mem' \in [Frame -> [Offset -> Value]]
  <2>1. mem \in [Frame -> [Offset -> Value]]
    BY DEF PageInv, TypeOK
  <2>2. CASE f \in Frame /\ mem' = [mem EXCEPT ![f][o] = v]
    BY <2>1, <2>2
  <2>3. QED
    BY <1>2, <2>1, <2>2
<1>5. written' \in [Process -> [Page -> [Offset -> Value \cup {Unwritten}]]]
  <2> DEFINE Bytes == [Offset -> Value \cup {Unwritten}]
  <2>1. written \in [Process -> [Page -> Bytes]]
    BY DEF PageInv, TypeOK
  <2>2. [written[p][n] EXCEPT ![o] = v] \in Bytes
    BY <2>1
  <2>3. PICK place \in Bytes :
            written' = written \/ written' = [written EXCEPT ![p][n] = place]
    BY <1>2, <2>2
  <2> HIDE DEF Bytes
  <2>4. written' \in [Process -> [Page -> Bytes]]
    BY <2>1, <2>3
  <2>5. QED
    BY <2>4 DEF Bytes
<1>4. QED
  BY <1>1, <1>3, <1>5 DEF Write, PagesTyped, PageInv, TypeOK

LEMMA FaultFailsTyped ==
    ASSUME PageInv, NEW p \in Process, NEW n \in Page, FaultFails(p, n)
    PROVE  PageInv'
<1>1. WithoutVictim(p) \in Seq(Page)
  BY DEF WithoutVictim, PageInv, TypeOK
<1>2. QED
  BY <1>1 DEF FaultFails, FaultNoVictim, FaultNoSwap, pagingVars, PageInv, TypeOK,
              EmptyUntilPresent

LEMMA StartsTyped == Init => PageInv
<1> SUFFICES ASSUME Init PROVE PageInv
  OBVIOUS
<1>1. freeRam \in Seq(Frame) /\ freeSwap \in Seq(SwapSlot)
  BY FramePoolAssumption DEF Init, ListsInit, Frame, SwapSlot
<1>2. 0 \in 0 .. MaxPages
  BY PagingAssumption
<1>3. QED
  BY <1>1, <1>2, EmptyTyped, PagingAssumption DEF Init, PageInv, TypeOK, EmptyUntilPresent

LEMMA StepTyped == PageInv /\ [Next]_pagingVars => PageInv'
<1> SUFFICES ASSUME PageInv, [Next]_pagingVars PROVE PageInv'
  OBVIOUS
<1>1. CASE UNCHANGED pagingVars
  BY <1>1 DEF pagingVars, PageInv, TypeOK, EmptyUntilPresent
<1>2. CASE Next
  BY <1>2, GrowTyped, GrowShortTyped, ReadTyped, WriteTyped, FaultFailsTyped DEF Next
<1>3. QED
  BY <1>1, <1>2

(* Tables, lists and memory keep their types for devices, tables and areas *)
(* of any size, areas that outgrow their table included: whatever the page *)
(* numbers fold to, an entry gets a frame of RAM.                          *)
THEOREM PagingTyped == Spec => []TypeOK
<1>1. PageInv => TypeOK
  BY DEF PageInv
<1>2. QED
  BY StartsTyped, StepTyped, <1>1, PTL DEF Spec
-----------------------------------------------------------------------------
(* The properties entry by entry, for areas that fit their tables: there   *)
(* page n has entry n.                                                     *)
InRam(p, i) == pte[p][i].present /\ ~ pte[p][i].swapped
InSwap(p, i) == pte[p][i].swapped

(* The same of the next state. *)
InRamNext(p, i) == pte'[p][i].present /\ ~ pte'[p][i].swapped

RamOwned ==
    /\ NoRepeats(freeRam)
    /\ \A p \in Process, i \in Slot :
          InRam(p, i) => Fpn(pte[p][i]) \in Frame \ Elements(freeRam)
    /\ \A p, q \in Process, i, j \in Slot :
          InRam(p, i) /\ InRam(q, j) /\ Fpn(pte[p][i]) = Fpn(pte[q][j]) => p = q /\ i = j

SwapOwned ==
    /\ NoRepeats(freeSwap)
    /\ \A p \in Process, i \in Slot :
          InSwap(p, i) => Swp(pte[p][i]) \in SwapSlot \ Elements(freeSwap)
    /\ \A p, q \in Process, i, j \in Slot :
          InSwap(p, i) /\ InSwap(q, j) /\ Swp(pte[p][i]) = Swp(pte[q][j]) => p = q /\ i = j

(* A listed page lies in the area. *)
ListedInRam ==
    \A p \in Process :
        /\ NoRepeats(fifo[p])
        /\ \A n \in Elements(fifo[p]) : n < brk[p] /\ InRam(p, n)

(* No entry is used before the area reaches its page. *)
NothingAbove ==
    \A p \in Process, i \in Slot : i >= brk[p] => pte[p][i] = EmptyPte

Owned == RamOwned /\ SwapOwned /\ ListedInRam /\ NothingAbove

OwnersInv == PageInv /\ (AreasFit => Owned)

LEMMA IndexFits ==
    ASSUME PageInv, AreasFit, NEW p \in Process, NEW n \in Nat, n < brk[p]
    PROVE  n \in Slot /\ Index(n) = n
<1>1. brk[p] <= TableSize /\ brk[p] \in Nat /\ TableSize \in Nat
  BY PagingAssumption DEF AreasFit, FitsTable, PageInv, TypeOK
<1>2. n % TableSize = n
  BY <1>1, SMTT(30)
<1>3. QED
  BY <1>1, <1>2 DEF Slot, Index

LEMMA FrameBelow == \A f \in Frame : f \in Nat /\ f < FpnRange
BY SMT, PteHoldsFrames, FramePoolAssumption DEF Frame, FpnRange

LEMMA Fresh ==
    ASSUME NEW f \in Frame
    PROVE  Fpn(PteSetFpn(EmptyPte, f)) = f /\ PteSetFpn(EmptyPte, f).present
           /\ ~ PteSetFpn(EmptyPte, f).swapped
<1>1. f \in Nat /\ f < FpnRange
  BY FrameBelow
<1>2. PteSetFpn(EmptyPte, f).present /\ ~ PteSetFpn(EmptyPte, f).swapped
  BY DEF PteSetFpn
<1>3. QED
  BY <1>1, <1>2, FpnSet, EmptyTyped

LEMMA Evicted ==
    ASSUME NEW e \in Entries, NEW s \in SwapSlot
    PROVE  Swp(PteSetSwap(e, s)) = s /\ PteSetSwap(e, s).present /\ PteSetSwap(e, s).swapped
<1>1. s \in Nat /\ s < SwpRange \div SwpUnit
  BY SMT, PteHoldsFrames, FramePoolAssumption DEF SwapSlot, SwpRange, SwpUnit
<1>2. PteSetSwap(e, s).present /\ PteSetSwap(e, s).swapped
  BY DEF PteSetSwap
<1>3. QED
  BY <1>1, <1>2, SwapSet

LEMMA EmptyOwnsNothing == ~ EmptyPte.present /\ ~ EmptyPte.swapped
BY DEF EmptyPte

(* l is r, all below b, with n numbers counted down to b before it. *)
CountedDown(l, r, b, n) ==
    /\ DOMAIN l = 1 .. n + Len(r)
    /\ \A i \in 1 .. n : l[i] = (b + n) - i
    /\ \A i \in n + 1 .. n + Len(r) : l[i] = r[i - n]
    /\ \A i \in 1 .. Len(r) : r[i] < b
    /\ \A i, j \in 1 .. Len(r) : r[i] = r[j] => i = j

LEMMA ListedOnce ==
    ASSUME NEW b \in Nat, NEW n \in Nat, NEW r \in Seq(Nat), NEW l, CountedDown(l, r, b, n)
    PROVE  NoRepeats(l)
<1> USE DEF CountedDown
<1> DEFINE k == Len(r)
<1>1. k \in Nat /\ \A i \in 1 .. k : r[i] \in Nat
  OBVIOUS
<1>2. \A i \in n + 1 .. n + k : i - n \in 1 .. k
  BY <1>1
<1>3. \A i \in 1 .. n : l[i] \in Nat /\ l[i] >= b
  OBVIOUS
<1>4. \A i \in n + 1 .. n + k : l[i] \in Nat /\ l[i] < b
  BY <1>1, <1>2
<1>5. \A i, j \in 1 .. n : l[i] = l[j] => i = j
  OBVIOUS
<1>6. \A i, j \in n + 1 .. n + k : l[i] = l[j] => i = j
  <2>1. \A i, j \in n + 1 .. n + k : l[i] = l[j] => i - n = j - n
    BY <1>2
  <2>2. QED
    BY <1>1, <2>1
<1>7. \A i \in 1 .. n, j \in n + 1 .. n + k : l[i] # l[j]
  BY <1>3, <1>4
<1>8. \A i \in 1 .. n + k : i \in 1 .. n \/ i \in n + 1 .. n + k
  BY <1>1
<1>9. QED
  BY <1>5, <1>6, <1>7, <1>8 DEF NoRepeats

(* ListedInRam of the next state, index by index. *)
LEMMA ListedNextState ==
    ASSUME \A q \in Process : NoRepeats(fifo'[q]),
           \A q \in Process : \A i \in DOMAIN fifo'[q] :
               fifo'[q][i] < brk'[q] /\ InRamNext(q, fifo'[q][i])
    PROVE  ListedInRam'
<1>1. \A q \in Process : NoRepeats(fifo[q])'
  BY DEF NoRepeats
<1>2. QED
  BY <1>1 DEF ListedInRam, Elements, InRam, InRamNext

(* What is left of a list when its first n elements are dropped. *)
LEMMA DropFirst ==
    ASSUME NEW S, NEW s \in Seq(S), NEW n \in Nat, n <= Len(s),
           NEW t, t = SubSeq(s, n + 1, Len(s))
    PROVE  /\ t \in Seq(S) /\ Len(t) = Len(s) - n
           /\ \A j \in 1 .. Len(t) : t[j] = s[n + j]
<1>1. Len(s) \in Nat /\ \A i \in 1 .. Len(s) : s[i] \in S
  OBVIOUS
<1>2. Len(t) = Len(s) - n
  BY <1>1
<1>3. \A j \in 1 .. Len(t) : t[j] = s[n + j]
  BY <1>1, <1>2
<1>4. t \in Seq(S)
  BY <1>1
<1>5. QED
  BY <1>2, <1>3, <1>4

(* What is left of a list, and what is gone, when its first n are dropped. *)
LEMMA DropFirstOnce ==
    ASSUME NEW S, NEW s \in Seq(S), NoRepeats(s), NEW n \in Nat, n <= Len(s),
           NEW t \in Seq(S), Len(t) = Len(s) - n, \A j \in 1 .. Len(t) : t[j] = s[n + j]
    PROVE  /\ NoRepeats(t) /\ Elements(t) \subseteq Elements(s)
           /\ \A k \in 1 .. n : s[k] \in Elements(s) \ Elements(t)
           /\ \A e \in Elements(s) \ Elements(t) : \E k \in 1 .. n : e = s[k]
<1>1. Len(s) \in Nat
  OBVIOUS
<1>2. \A i, j \in DOMAIN s : s[i] = s[j] => i = j
  BY DEF NoRepeats
<1>3. /\ \A j \in DOMAIN t : j \in Nat /\ n + j \in DOMAIN s \ 1 .. n /\ t[j] = s[n + j]
      /\ 1 .. n \subseteq DOMAIN s
      /\ \A i \in DOMAIN s \ 1 .. n : i - n \in DOMAIN t /\ t[i - n] = s[i]
  <2> DEFINE l == Len(s)
             k == Len(t)
  <2>1. DOMAIN s = 1 .. l /\ DOMAIN t = 1 .. k /\ l \in Nat /\ k = l - n /\ n <= l
    OBVIOUS
  <2>2. \A j \in DOMAIN t : t[j] = s[n + j]
    BY <2>1
  <2> HIDE DEF l, k
  <2>3. \A j \in DOMAIN t : j \in Nat /\ n + j \in DOMAIN s \ 1 .. n
    BY <2>1
  <2>4. 1 .. n \subseteq DOMAIN s
    BY <2>1
  <2>5. \A i \in DOMAIN s \ 1 .. n : i - n \in DOMAIN t /\ i \in Nat
    BY <2>1
  <2>6. \A i \in DOMAIN s \ 1 .. n : t[i - n] = s[i]
    <3>1. \A i \in Nat : n + (i - n) = i
      OBVIOUS
    <3>2. QED
      BY <2>2, <2>5, <3>1
  <2>7. QED
    BY <2>2, <2>3, <2>4, <2>5, <2>6
<1>4. NoRepeats(t)
  <2>1. \A i, j \in DOMAIN t : t[i] = t[j] => n + i = n + j
    BY <1>2, <1>3
  <2>2. QED
    BY <1>3, <2>1 DEF NoRepeats
<1>5. Elements(t) \subseteq Elements(s)
  BY <1>3 DEF Elements
<1>6. \A k \in 1 .. n : s[k] \in Elements(s) \ Elements(t)
  <2>1. \A k \in 1 .. n : s[k] \in Elements(s)
    BY <1>3 DEF Elements
  <2>2. \A k \in 1 .. n, j \in DOMAIN t : s[k] # t[j]
    BY <1>2, <1>3
  <2>3. QED
    BY <2>1, <2>2 DEF Elements
<1>7. \A e \in Elements(s) \ Elements(t) : \E k \in 1 .. n : e = s[k]
  <2> SUFFICES ASSUME NEW i \in DOMAIN s, s[i] \notin Elements(t) PROVE i \in 1 .. n
    BY DEF Elements
  <2>1. QED
    BY <1>3 DEF Elements
<1>8. QED
  BY <1>1, <1>4, <1>5, <1>6, <1>7

(* The entries to which a growth gives a frame, and where on the free list *)
(* the frame of entry i stood.                                             *)
Remapped(p, n) == {i \in Slot : \E m \in NewPages(p, n) : Index(m) = i}
Place(p, n, i) == (LastOn(p, n, i) - brk[p]) + 1

(* Pages that share an entry leave it with one frame, which no other entry *)
(* gets, whether or not the area fits its table.                           *)
LEMMA GrowMaps ==
    ASSUME PageInv, NEW p \in Process, NEW n \in 1 .. MaxPages, Grow(p, n)
    PROVE  /\ \A q \in Process, i \in Slot :
                  q # p \/ i \notin Remapped(p, n) => pte'[q][i] = pte[q][i]
           /\ \A i \in Remapped(p, n) :
                  /\ Place(p, n, i) \in 1 .. n
                  /\ freeRam[Place(p, n, i)] \in Frame
                  /\ Fpn(pte'[p][i]) = freeRam[Place(p, n, i)]
                  /\ InRamNext(p, i)
           /\ \A i, j \in Remapped(p, n) : Place(p, n, i) = Place(p, n, j) => i = j
<1>1. /\ brk[p] \in Nat /\ n \in Nat /\ n <= Len(freeRam) /\ freeRam \in Seq(Frame)
      /\ pte \in [Process -> [Slot -> Entries]]
  BY PagingAssumption DEF Grow, TakeRam, PageInv, TypeOK
<1>2. \A i \in Remapped(p, n) : LastOn(p, n, i) \in NewPages(p, n) /\ Index(LastOn(p, n, i)) = i
  BY <1>1, LastOnIn DEF Remapped, PageInv
<1>3. \A i \in Remapped(p, n) : Place(p, n, i) \in 1 .. n
  BY <1>1, <1>2 DEF NewPages, Place
<1>4. \A i \in Remapped(p, n) : freeRam[Place(p, n, i)] \in Frame
  BY <1>1, <1>3
<1>5. /\ \A q \in Process, i \in Slot :
            q # p \/ i \notin Remapped(p, n) => pte'[q][i] = pte[q][i]
      /\ \A i \in Remapped(p, n) :
            pte'[p][i] = PteSetFpn(pte[p][i], freeRam[Place(p, n, i)])
  BY <1>1 DEF Grow, Mapped, Remapped, FrameFor, Place
<1>6. \A i \in Remapped(p, n) : Fpn(pte'[p][i]) = freeRam[Place(p, n, i)] /\ InRamNext(p, i)
  <2> SUFFICES ASSUME NEW i \in Remapped(p, n)
               PROVE  Fpn(pte'[p][i]) = freeRam[Place(p, n, i)] /\ InRamNext(p, i)
    OBVIOUS
  <2>1. PICK e \in Entries, f \in Frame : e = pte[p][i] /\ f = freeRam[Place(p, n, i)]
    BY <1>1, <1>4 DEF Remapped
  <2>2. Fpn(PteSetFpn(e, f)) = f
    BY FrameBelow, FpnSet
  <2>3. QED
    BY <1>5, <2>1, <2>2 DEF InRamNext, PteSetFpn
<1>7. \A i, j \in Remapped(p, n) : Place(p, n, i) = Place(p, n, j) => i = j
  <2>1. \A i, j \in Remapped(p, n) :
            Place(p, n, i) = Place(p, n, j) => LastOn(p, n, i) = LastOn(p, n, j)
    BY <1>1, <1>2 DEF NewPages, Place
  <2>2. QED
    BY <1>2, <2>1
<1>8. QED
  BY <1>3, <1>4, <1>5, <1>6, <1>7

(* While the area fits, the new pages are the entries, in their order. *)
LEMMA GrowMapsFitting ==
    ASSUME PageInv, NEW p \in Process, NEW n \in 1 .. MaxPages, Grow(p, n),
           FitsTable(p)'
    PROVE  /\ brk[p] + n <= TableSize
           /\ Remapped(p, n) = NewPages(p, n)
           /\ \A i \in NewPages(p, n) : Place(p, n, i) = (i - brk[p]) + 1
<1>1. brk[p] \in Nat /\ n \in Nat /\ brk[p] + n <= TableSize /\ TableSize \in Nat
  BY PagingAssumption DEF Grow, PageInv, TypeOK, FitsTable
<1>2. \A m \in NewPages(p, n) : m \in Slot
  BY <1>1 DEF NewPages, Slot
<1>3. \A m \in Slot : m % TableSize = m
  BY <1>1, SMTT(30) DEF Slot
<1>4. \A m \in NewPages(p, n) : Index(m) = m
  BY <1>2, <1>3 DEF Index
<1>5. Remapped(p, n) = NewPages(p, n)
  BY <1>2, <1>4 DEF Remapped
<1>6. \A i \in NewPages(p, n) : LastOn(p, n, i) = i
  BY <1>2, <1>4, LastOnIn, PagingAssumption DEF PageInv
<1>7. QED
  BY <1>1, <1>5, <1>6 DEF Place

LEMMA GrowRamOwned ==
    ASSUME PageInv, RamOwned, NEW p \in Process, NEW n \in 1 .. MaxPages, Grow(p, n)
    PROVE  RamOwned'
<1> DEFINE On == Remapped(p, n)
           At(i) == freeRam[Place(p, n, i)]
<1>1. /\ n \in Nat /\ n <= Len(freeRam) /\ freeRam \in Seq(Frame) /\ NoRepeats(freeRam)
      /\ freeRam' = SubSeq(freeRam, n + 1, Len(freeRam))
  BY PagingAssumption DEF Grow, TakeRam, PageInv, TypeOK, RamOwned
<1>2. /\ NoRepeats(freeRam') /\ Elements(freeRam') \subseteq Elements(freeRam)
      /\ \A k \in 1 .. n : freeRam[k] \in Elements(freeRam) \ Elements(freeRam')
  <2>1. /\ freeRam' \in Seq(Frame) /\ Len(freeRam') = Len(freeRam) - n
        /\ \A j \in 1 .. Len(freeRam') : freeRam'[j] = freeRam[n + j]
    BY <1>1, DropFirst
  <2>2. PICK s \in Seq(Frame), t \in Seq(Frame) : s = freeRam /\ t = freeRam'
    BY <1>1, <2>1
  <2>3. /\ NoRepeats(s) /\ n <= Len(s) /\ Len(t) = Len(s) - n
        /\ \A j \in 1 .. Len(t) : t[j] = s[n + j]
    BY <1>1, <2>1, <2>2
  <2>4. /\ NoRepeats(t) /\ Elements(t) \subseteq Elements(s)
        /\ \A k \in 1 .. n : s[k] \in Elements(s) \ Elements(t)
    BY <1>1, <2>3, DropFirstOnce
  <2>5. QED
    BY <2>2, <2>4
<1>3. /\ \A q \in Process, i \in Slot : q # p \/ i \notin On => pte'[q][i] = pte[q][i]
      /\ \A i \in On : /\ At(i) \in Frame /\ Fpn(pte'[p][i]) = At(i)
                       /\ At(i) \in Elements(freeRam) \ Elements(freeRam')
      /\ \A i, j \in On : At(i) = At(j) => i = j
  <2>1. \A k, l \in 1 .. n : freeRam[k] = freeRam[l] => k = l
    BY <1>1 DEF NoRepeats
  <2>2. QED
    BY <1>2, <2>1, GrowMaps
<1> HIDE DEF On, At
<1>4. \A q \in Process, i \in Slot :
          InRamNext(q, i) => Fpn(pte'[q][i]) \in Frame \ Elements(freeRam')
  BY <1>2, <1>3 DEF RamOwned, InRam, InRamNext
<1>5. \A q \in Process, i \in Slot, j \in On :
          InRamNext(q, i) /\ (q # p \/ i \notin On) => Fpn(pte'[q][i]) # Fpn(pte'[p][j])
  BY <1>3 DEF RamOwned, InRam, InRamNext
<1>6. \A q, r \in Process, i, j \in Slot :
          InRamNext(q, i) /\ InRamNext(r, j) /\ Fpn(pte'[q][i]) = Fpn(pte'[r][j])
          => q = r /\ i = j
  BY <1>3, <1>5 DEF RamOwned, InRam, InRamNext
<1>7. QED
  BY <1>2, <1>4, <1>6 DEF RamOwned, InRam, InRamNext, NoRepeats, Elements

LEMMA InSeq ==
    ASSUME NEW S, NEW s \in Seq(S), NEW i \in DOMAIN s
    PROVE  s[i] \in S
OBVIOUS

LEMMA GrowOwned ==
    ASSUME PageInv, AreasFit, AreasFit', Owned,
           NEW p \in Process, NEW n \in 1 .. MaxPages, Grow(p, n)
    PROVE  Owned'
<1> DEFINE b == brk[p]
           New == b .. b + n - 1
<1>1. b \in Nat /\ n \in Nat \ {0} /\ brk' = [brk EXCEPT ![p] = b + n] /\ b + n <= TableSize
      /\ TableSize \in Nat
  BY PagingAssumption DEF Grow, PageInv, TypeOK, AreasFit, FitsTable
<1>2. Remapped(p, n) = New
  BY GrowMapsFitting, PagingAssumption DEF AreasFit, NewPages
<1> HIDE DEF b, New
<1>3. \A q \in Process, i \in Slot : q # p \/ i \notin New => pte'[q][i] = pte[q][i]
  BY <1>2, GrowMaps
<1>4. \A i \in New : pte'[p][i].present /\ ~ pte'[p][i].swapped
  BY <1>2, GrowMaps DEF InRamNext
<1>5. RamOwned'
  BY GrowRamOwned DEF Owned
<1>6. SwapOwned'
  <2>1. freeSwap' = freeSwap
    BY DEF Grow
  <2>2. \A q \in Process, i \in Slot :
            pte'[q][i].swapped => pte'[q][i] = pte[q][i]
    BY <1>3, <1>4
  <2>3. QED
    BY <2>1, <2>2 DEF Owned, SwapOwned, InSwap, Elements
<1>7. ListedInRam'
  <2>1. Listed(p, n) \in Seq(Nat) /\ Len(Listed(p, n)) = n
        /\ \A i \in 1 .. n : Listed(p, n)[i] = (b + n) - i
    BY <1>1 DEF Listed, b
  <2>2. fifo[p] \in Seq(Nat)
    BY PagingAssumption DEF PageInv, TypeOK, Page
  <2>3. /\ fifo'[p] = Listed(p, n) \o fifo[p]
        /\ \A q \in Process \ {p} : fifo'[q] = fifo[q] /\ brk'[q] = brk[q]
        /\ brk'[p] = b + n
    BY <1>1 DEF Grow, PageInv, TypeOK
  <2>4. /\ Len(fifo'[p]) = n + Len(fifo[p])
        /\ \A i \in 1 .. n : fifo'[p][i] = (b + n) - i
        /\ \A i \in n + 1 .. n + Len(fifo[p]) : fifo'[p][i] = fifo[p][i - n]
    <3> DEFINE l == Listed(p, n)
               r == fifo[p]
    <3>1. l \in Seq(Nat) /\ r \in Seq(Nat) /\ Len(l) = n /\ fifo'[p] = l \o r
      BY <2>1, <2>2, <2>3
    <3> HIDE DEF l, r
    <3>2. /\ Len(l \o r) = n + Len(r)
          /\ \A i \in 1 .. n + Len(r) : (l \o r)[i] = IF i <= n THEN l[i] ELSE r[i - n]
      BY <3>1, ConcatProperties
    <3>3. Len(r) \in Nat
      BY <3>1
    <3>4. /\ \A i \in 1 .. n : (l \o r)[i] = l[i]
          /\ \A i \in n + 1 .. n + Len(r) : (l \o r)[i] = r[i - n]
      BY <1>1, <3>2, <3>3
    <3>5. QED
      BY <2>1, <3>1, <3>2, <3>4 DEF l, r
  <2>5. \A i \in 1 .. Len(fifo[p]) : fifo[p][i] < b /\ fifo[p][i] \in Nat /\ InRam(p, fifo[p][i])
    BY <2>2 DEF Owned, ListedInRam, Elements, b
  <2>6. \A i, j \in 1 .. Len(fifo[p]) : fifo[p][i] = fifo[p][j] => i = j
    BY <2>2 DEF Owned, ListedInRam, NoRepeats
  <2>7. DOMAIN fifo'[p] = 1 .. n + Len(fifo[p])
    BY <1>1, <2>1, <2>2, <2>3, <2>4, ConcatProperties
  <2>8. NoRepeats(fifo'[p])
    <3>1. PICK k \in Nat, r \in Seq(Nat), l \in {fifo'[p]} : k = b /\ r = fifo[p] /\ l = fifo'[p]
      BY <1>1, <2>2
    <3>2. CountedDown(l, r, k, n) /\ n \in Nat
      BY <1>1, <2>4, <2>5, <2>6, <2>7, <3>1 DEF CountedDown
    <3>3. NoRepeats(l)
      BY <3>2, ListedOnce
    <3>4. QED
      BY <3>1, <3>3
  <2>9. \A i \in 1 .. n : (b + n) - i \in New
    BY <1>1 DEF New
  <2>10. \A i \in DOMAIN fifo'[p] : fifo'[p][i] < b + n /\ InRamNext(p, fifo'[p][i])
    <3> SUFFICES ASSUME NEW i \in DOMAIN fifo'[p]
                 PROVE  fifo'[p][i] < b + n /\ InRamNext(p, fifo'[p][i])
      OBVIOUS
    <3>1. CASE i \in 1 .. n
      <4> DEFINE m == (b + n) - i
      <4>1. m \in New /\ m < b + n /\ fifo'[p][i] = m
        BY <1>1, <2>4, <2>9, <3>1
      <4> HIDE DEF m
      <4>2. QED
        BY <1>4, <4>1 DEF InRamNext
    <3>2. CASE i \in n + 1 .. n + Len(fifo[p])
      <4>1. i - n \in 1 .. Len(fifo[p])
        BY <1>1, <2>2, <3>2
      <4> DEFINE m == fifo[p][i - n]
      <4>2. m \in Nat /\ m < b /\ InRam(p, m) /\ fifo'[p][i] = m
        BY <2>4, <2>5, <3>2, <4>1
      <4>3. m \notin New /\ m \in Slot
        BY <1>1, <4>2 DEF New, Slot
      <4>4. pte'[p][m] = pte[p][m]
        BY <1>3, <4>3
      <4> HIDE DEF m
      <4>5. QED
        BY <1>1, <4>2, <4>4 DEF InRam, InRamNext
    <3>3. QED
      BY <1>1, <2>2, <2>7, <3>1, <3>2
  <2>11. \A q \in Process \ {p} : \A i \in DOMAIN fifo'[q] :
            fifo'[q][i] < brk'[q] /\ InRamNext(q, fifo'[q][i])
    <3> SUFFICES ASSUME NEW q \in Process \ {p}, NEW i \in DOMAIN fifo'[q]
                 PROVE  fifo'[q][i] < brk'[q] /\ InRamNext(q, fifo'[q][i])
      OBVIOUS
    <3>a. fifo'[q] = fifo[q] /\ brk'[q] = brk[q] /\ i \in DOMAIN fifo[q]
      BY <2>3
    <3>b. fifo[q] \in Seq(Page) /\ Page \subseteq Nat
      BY PagingAssumption DEF PageInv, TypeOK, Page
    <3>c. fifo[q][i] \in Elements(fifo[q])
      BY <3>a, Zenon DEF Elements
    <3>d. fifo[q][i] \in Nat
      BY <3>a, <3>b, InSeq
    <3>1. fifo'[q][i] < brk[q] /\ InRam(q, fifo'[q][i]) /\ fifo'[q][i] \in Nat
      BY <3>a, <3>c, <3>d DEF Owned, ListedInRam
    <3>2. fifo'[q][i] \in Slot
      BY <3>1, IndexFits
    <3>3. QED
      BY <1>3, <2>3, <3>1, <3>2 DEF InRam, InRamNext
  <2>12. \A q \in Process : NoRepeats(fifo'[q])
    BY <2>3, <2>8 DEF Owned, ListedInRam
  <2>13. \A q \in Process : \A i \in DOMAIN fifo'[q] :
            fifo'[q][i] < brk'[q] /\ InRamNext(q, fifo'[q][i])
    BY <2>3, <2>10, <2>11
  <2>14. QED
    BY <2>12, <2>13, ListedNextState
<1>8. NothingAbove'
  <2>1. brk \in [Process -> Nat]
    BY PagingAssumption DEF PageInv, TypeOK
  <2>2. \A q \in Process, i \in Slot :
            i >= brk'[q] => i >= brk[q] /\ (q # p \/ i \notin New)
    BY <1>1, <2>1 DEF New, Slot, b
  <2>3. \A q \in Process, i \in Slot : i >= brk[q] => pte[q][i] = EmptyPte
    BY DEF NothingAbove, Owned
  <2>4. QED
    BY <1>3, <2>2, <2>3 DEF NothingAbove
<1>9. QED
  BY <1>5, <1>6, <1>7, <1>8 DEF Owned

LEMMA GrowShortOwned ==
    ASSUME PageInv, AreasFit, Owned, NEW p \in Process, NEW n \in 1 .. MaxPages,
           GrowShort(p, n)
    PROVE  Owned'
<1>1. /\ UNCHANGED <<freeSwap, mem, pte, fifo>> /\ freeRam' = <<>>
      /\ \A q \in Process : brk[q] \in Nat /\ brk'[q] \in Nat /\ brk[q] <= brk'[q]
  BY PagingAssumption DEF GrowShort, TakeRamShort, PageInv, TypeOK
<1>2. RamOwned' /\ SwapOwned'
  BY <1>1 DEF Owned, RamOwned, SwapOwned, InRam, InSwap, NoRepeats, Elements
<1>3. \A q \in Process : \A m \in Elements(fifo[q]) : m \in Nat /\ m < brk'[q]
  <2> SUFFICES ASSUME NEW q \in Process, NEW i \in DOMAIN fifo[q]
               PROVE  fifo[q][i] \in Nat /\ fifo[q][i] < brk'[q]
    BY DEF Elements
  <2>1. fifo[q][i] \in Nat
    BY PagingAssumption DEF PageInv, TypeOK, Page
  <2>2. fifo[q][i] < brk[q]
    BY DEF Owned, ListedInRam, Elements
  <2>3. QED
    BY <1>1, <2>1, <2>2
<1>4. ListedInRam'
  BY <1>1, <1>3 DEF Owned, ListedInRam, NoRepeats, Elements, InRam
<1>5. NothingAbove'
  BY <1>1 DEF Owned, NothingAbove, Slot
<1>6. QED
  BY <1>2, <1>4, <1>5 DEF Owned

(* In front of a list of other pages, a page makes a list of pages. *)
LEMMA PushOnce ==
    ASSUME NEW S, NEW s \in Seq(S), NEW e \in S, NoRepeats(s), e \notin Elements(s)
    PROVE  NoRepeats(Push(s, e)) /\ Elements(Push(s, e)) = {e} \cup Elements(s)
<1> DEFINE t == Push(s, e)
<1>1. /\ t \in Seq(S) /\ Len(t) = Len(s) + 1 /\ t[1] = e /\ Len(s) \in Nat
      /\ \A i \in 2 .. Len(t) : t[i] = s[i - 1]
  BY ConcatProperties DEF Push
<1>2. \A i \in 1 .. Len(s) : t[i + 1] = s[i]
  BY <1>1
<1> HIDE DEF t
<1>3. \A i \in 2 .. Len(t) : i - 1 \in 1 .. Len(s) /\ t[i] # e
  BY <1>1 DEF Elements
<1>4. \A i, j \in 2 .. Len(t) : t[i] = t[j] => i = j
  <2>1. \A i, j \in 2 .. Len(t) : t[i] = t[j] => i - 1 = j - 1
    BY <1>1, <1>3 DEF NoRepeats
  <2>2. QED
    BY <1>1, <2>1
<1>5. \A i \in DOMAIN t : i = 1 \/ i \in 2 .. Len(t)
  BY <1>1
<1>6. NoRepeats(t)
  BY <1>1, <1>3, <1>4, <1>5 DEF NoRepeats
<1>7. Elements(t) \subseteq {e} \cup Elements(s)
  BY <1>1, <1>3, <1>5 DEF Elements
<1>8. 1 \in DOMAIN t /\ \A i \in DOMAIN s : i + 1 \in DOMAIN t
  BY <1>1
<1>9. {e} \cup Elements(s) \subseteq Elements(t)
  BY <1>1, <1>2, <1>8 DEF Elements
<1>10. QED
  BY <1>6, <1>7, <1>9 DEF t

(* The head of a list without repetition is not in its tail. *)
LEMMA TailOnce ==
    ASSUME NEW S, NEW s \in Seq(S), s # <<>>, NoRepeats(s)
    PROVE  /\ NoRepeats(Tail(s)) /\ Head(s) \in Elements(s)
           /\ Elements(Tail(s)) = Elements(s) \ {Head(s)}
<1> DEFINE t == Tail(s)
<1>1. /\ t \in Seq(S) /\ Len(t) = Len(s) - 1 /\ Len(s) \in Nat \ {0} /\ Head(s) = s[1]
      /\ \A i \in 1 .. Len(t) : t[i] = s[i + 1]
  BY HeadTailProperties, EmptySeq
<1> HIDE DEF t
<1>2. \A i \in DOMAIN t : i \in Nat /\ i + 1 \in DOMAIN s /\ t[i] = s[i + 1] /\ i + 1 # 1
  BY <1>1
<1>3. NoRepeats(t)
  <2>1. \A i, j \in DOMAIN t : t[i] = t[j] => i + 1 = j + 1
    BY <1>2 DEF NoRepeats
  <2>2. QED
    BY <1>2, <2>1 DEF NoRepeats
<1>4. 1 \in DOMAIN s /\ \A i \in DOMAIN s \ {1} : i - 1 \in DOMAIN t /\ t[i - 1] = s[i]
  BY <1>1
<1>5. Elements(t) \subseteq Elements(s) \ {s[1]}
  BY <1>2, <1>4 DEF NoRepeats, Elements
<1>6. Elements(s) \ {s[1]} \subseteq Elements(t)
  BY <1>4 DEF Elements
<1>7. QED
  BY <1>1, <1>3, <1>4, <1>5, <1>6 DEF t, Elements

(* The same at the other end: the victim leaves the list. *)
LEMMA VictimLeaves ==
    ASSUME PageInv, NEW p \in Process, fifo[p] # <<>>, NoRepeats(fifo[p])
    PROVE  /\ Victim(p) \in Elements(fifo[p])
           /\ WithoutVictim(p) \in Seq(Page) /\ NoRepeats(WithoutVictim(p))
           /\ Elements(WithoutVictim(p)) = Elements(fifo[p]) \ {Victim(p)}
<1>1. PICK s \in Seq(Page), t \in {WithoutVictim(p)} : s = fifo[p] /\ t = WithoutVictim(p)
  BY DEF PageInv, TypeOK
<1>2. /\ t \in Seq(Page) /\ Len(t) = Len(s) - 1 /\ Len(s) \in Nat \ {0}
      /\ \A i \in 1 .. Len(t) : t[i] = s[i]
  BY <1>1 DEF WithoutVictim
<1>3. /\ \A i \in DOMAIN t : i \in DOMAIN s \ {Len(s)} /\ t[i] = s[i]
      /\ \A i \in DOMAIN s \ {Len(s)} : i \in DOMAIN t
      /\ Len(s) \in DOMAIN s
  BY <1>2
<1>4. NoRepeats(s) /\ Victim(p) = s[Len(s)]
  BY <1>1 DEF Victim
<1>5. NoRepeats(t)
  BY <1>3, <1>4 DEF NoRepeats
<1>6. Elements(t) = Elements(s) \ {s[Len(s)]}
  BY <1>3, <1>4 DEF NoRepeats, Elements
<1>7. s[Len(s)] \in Elements(s)
  BY <1>3 DEF Elements
<1>8. QED
  BY <1>1, <1>2, <1>4, <1>5, <1>6, <1>7

LEMMA FaultFailsOwned ==
    ASSUME PageInv, AreasFit, Owned, NEW p \in Process, NEW n \in Page, FaultFails(p, n)
    PROVE  Owned'
<1>1. CASE FaultNoVictim(p, n)
  BY <1>1 DEF FaultNoVictim, pagingVars, Owned, RamOwned, SwapOwned, ListedInRam,
              NothingAbove, InRam, InSwap, NoRepeats, Elements
<1>2. CASE FaultNoSwap(p, n)
  <2>1. /\ UNCHANGED <<freeRam, freeSwap, mem, brk, pte>> /\ fifo[p] # <<>>
        /\ fifo'[p] = WithoutVictim(p) /\ \A q \in Process \ {p} : fifo'[q] = fifo[q]
    BY <1>2 DEF FaultNoSwap, PageInv, TypeOK
  <2>2. RamOwned' /\ SwapOwned' /\ NothingAbove'
    BY <2>1 DEF Owned, RamOwned, SwapOwned, NothingAbove, InRam, InSwap, NoRepeats, Elements
  <2>3. NoRepeats(fifo'[p]) /\ Elements(fifo'[p]) \subseteq Elements(fifo[p])
    BY <2>1, VictimLeaves DEF Owned, ListedInRam
  <2>4. \A q \in Process : \A i \in DOMAIN fifo'[q] : fifo'[q][i] \in Elements(fifo[q])
    BY <2>1, <2>3 DEF Elements
  <2>5. ListedInRam'
    BY <2>1, <2>3, <2>4, ListedNextState DEF Owned, ListedInRam, InRam, InRamNext
  <2>6. QED
    BY <2>2, <2>5 DEF Owned
<1>3. QED
  BY <1>1, <1>2 DEF FaultFails

LEMMA FaultFreeFrameOwned ==
    ASSUME PageInv, AreasFit, Owned, NEW p \in Process, NEW n \in Page, n < brk[p],
           brk' = brk, FaultFreeFrame(p, n)
    PROVE  Owned'
<1>1. n \in Slot /\ Index(n) = n /\ pte[p][n] = EmptyPte
  BY IndexFits, PagingAssumption DEF Page, FaultFreeFrame, EntryOf, PageInv, EmptyUntilPresent
<1>2. PICK f \in Frame : f = Head(freeRam)
  BY DEF FaultFreeFrame, TakeRam, PageInv, TypeOK
<1>3. freeRam # <<>> /\ freeRam' = Tail(freeRam) /\ freeSwap' = freeSwap
  BY <1>1, EmptyOwnsNothing DEF FaultFreeFrame, TakeRam, SwapReleased, EntryOf, PageInv, TypeOK
<1>4. /\ pte'[p][n] = PteSetFpn(EmptyPte, f)
      /\ \A q \in Process, i \in Slot : q # p \/ i # n => pte'[q][i] = pte[q][i]
  BY <1>1, <1>2 DEF FaultFreeFrame, PageInv, TypeOK
<1>5. Fpn(pte'[p][n]) = f /\ pte'[p][n].present /\ ~ pte'[p][n].swapped
  BY <1>4, Fresh
<1>6. /\ NoRepeats(freeRam') /\ f \in Elements(freeRam)
      /\ Elements(freeRam') = Elements(freeRam) \ {f}
  BY <1>2, <1>3, TailOnce DEF PageInv, TypeOK, Owned, RamOwned
<1>7. RamOwned'
  <2>1. \A q \in Process, i \in Slot :
            InRamNext(q, i) => Fpn(pte'[q][i]) \in Frame \ Elements(freeRam')
    BY <1>4, <1>5, <1>6 DEF Owned, RamOwned, InRam, InRamNext
  <2>2. \A q \in Process, i \in Slot :
            InRamNext(q, i) /\ (q # p \/ i # n) => Fpn(pte'[q][i]) # f
    BY <1>4, <1>6 DEF Owned, RamOwned, InRam, InRamNext
  <2>3. \A q, r \in Process, i, j \in Slot :
            InRamNext(q, i) /\ InRamNext(r, j) /\ Fpn(pte'[q][i]) = Fpn(pte'[r][j])
            => q = r /\ i = j
    BY <1>4, <1>5, <2>2 DEF Owned, RamOwned, InRam, InRamNext
  <2>4. NoRepeats(freeRam)'
    BY <1>6 DEF NoRepeats
  <2>5. QED
    BY <2>1, <2>3, <2>4 DEF RamOwned, InRam, InRamNext, Elements
<1>8. SwapOwned'
  BY <1>3, <1>4, <1>5 DEF Owned, SwapOwned, InSwap, NoRepeats, Elements
<1>9. ListedInRam'
  <2>1. /\ fifo'[p] = Push(fifo[p], n) /\ fifo[p] \in Seq(Page)
        /\ \A q \in Process \ {p} : fifo'[q] = fifo[q]
    BY DEF FaultFreeFrame, PageInv, TypeOK
  <2>2. NoRepeats(fifo[p]) /\ n \notin Elements(fifo[p])
    BY <1>1, EmptyOwnsNothing DEF Owned, ListedInRam, InRam
  <2>3. NoRepeats(fifo'[p]) /\ Elements(fifo'[p]) = {n} \cup Elements(fifo[p])
    BY <2>1, <2>2, PushOnce
  <2>4. \A q \in Process : \A i \in DOMAIN fifo'[q] :
            fifo'[q][i] \in Elements(fifo[q]) \/ (q = p /\ fifo'[q][i] = n)
    BY <2>1, <2>3 DEF Elements
  <2>5. \A q \in Process : \A m \in Elements(fifo[q]) : m < brk[q] /\ InRamNext(q, m)
    <3> SUFFICES ASSUME NEW q \in Process, NEW m \in Elements(fifo[q])
                 PROVE  m < brk[q] /\ InRamNext(q, m)
      OBVIOUS
    <3>1. m < brk[q] /\ InRam(q, m) /\ m \in Page
      BY DEF Owned, ListedInRam, Elements, PageInv, TypeOK
    <3>2. m \in Slot
      BY <3>1, IndexFits, PagingAssumption DEF Page
    <3>3. q # p \/ m # n
      BY <2>2
    <3>4. QED
      BY <1>4, <3>1, <3>2, <3>3 DEF InRam, InRamNext
  <2>6. \A q \in Process : NoRepeats(fifo'[q])
    BY <2>1, <2>3 DEF Owned, ListedInRam
  <2>7. \A q \in Process : \A i \in DOMAIN fifo'[q] :
            fifo'[q][i] < brk'[q] /\ InRamNext(q, fifo'[q][i])
    BY <1>5, <2>4, <2>5 DEF InRamNext
  <2>8. QED
    BY <2>6, <2>7, ListedNextState
<1>10. NothingAbove'
  <2>1. ~ (n >= brk[p])
    BY PagingAssumption DEF PageInv, TypeOK, Page
  <2>2. QED
    BY <1>4, <2>1 DEF Owned, NothingAbove
<1>11. QED
  BY <1>7, <1>8, <1>9, <1>10 DEF Owned

LEMMA FaultEvictOwned ==
    ASSUME PageInv, AreasFit, Owned, NEW p \in Process, NEW n \in Page, n < brk[p],
           brk' = brk, FaultEvict(p, n)
    PROVE  Owned'
<1>1. n \in Slot /\ Index(n) = n /\ pte[p][n] = EmptyPte
  BY IndexFits, PagingAssumption DEF Page, FaultEvict, EntryOf, PageInv, EmptyUntilPresent
<1>2. PICK v \in Page : v = Victim(p)
  BY DEF FaultEvict, Victim, PageInv, TypeOK
<1>3. /\ v \in Elements(fifo[p]) /\ NoRepeats(WithoutVictim(p))
      /\ WithoutVictim(p) \in Seq(Page)
      /\ Elements(WithoutVictim(p)) = Elements(fifo[p]) \ {v}
  BY <1>2, VictimLeaves DEF FaultEvict, Owned, ListedInRam
<1>4. v < brk[p] /\ InRam(p, v)
  BY <1>3 DEF Owned, ListedInRam
<1>5. v \in Slot /\ Index(v) = v /\ v # n
  BY <1>1, <1>4, IndexFits, PagingAssumption, EmptyOwnsNothing DEF Page, InRam
<1>6. PICK f \in Frame : f = Fpn(pte[p][v])
  BY <1>4, <1>5 DEF Owned, RamOwned
<1>7. PICK s \in SwapSlot : s = Head(freeSwap)
  BY EvictTakesHead DEF PageInv, TypeOK
<1>8. /\ freeSwap # <<>> /\ freeSwap' = Tail(freeSwap)
      /\ freeRam = <<>> /\ freeRam' = freeRam
  BY EvictTakesHead DEF FaultEvict
<1>9. pte[p][v] \in Entries
  BY <1>5 DEF PageInv, TypeOK
<1>10. /\ pte'[p][v] = PteSetSwap(pte[p][v], s)
       /\ pte'[p][n] = PteSetFpn(EmptyPte, f)
       /\ \A q \in Process, i \in Slot : q # p \/ i \notin {n, v} => pte'[q][i] = pte[q][i]
  BY <1>1, <1>2, <1>5, <1>6, <1>7 DEF FaultEvict, EntryOf, PageInv, TypeOK
<1>a. /\ Fpn(pte'[p][n]) = f /\ pte'[p][n].present /\ ~ pte'[p][n].swapped
      /\ Swp(pte'[p][v]) = s /\ pte'[p][v].swapped
  BY <1>9, <1>10, Fresh, Evicted
<1>b. /\ NoRepeats(freeSwap') /\ s \in Elements(freeSwap)
      /\ Elements(freeSwap') = Elements(freeSwap) \ {s}
  BY <1>7, <1>8, TailOnce DEF PageInv, TypeOK, Owned, SwapOwned
<1>c. RamOwned'
  <2>1. f \notin Elements(freeRam')
    BY <1>4, <1>5, <1>6, <1>8 DEF Owned, RamOwned, Elements
  <2>2. \A q \in Process, i \in Slot :
            InRamNext(q, i) /\ (q # p \/ i # n) =>
                /\ q # p \/ i # v
                /\ InRam(q, i) /\ pte'[q][i] = pte[q][i]
    BY <1>10, <1>a DEF InRam, InRamNext
  <2>3. \A q \in Process, i \in Slot :
            InRamNext(q, i) /\ (q # p \/ i # n) => Fpn(pte'[q][i]) # f
    BY <1>4, <1>5, <1>6, <2>2 DEF Owned, RamOwned
  <2>4. \A q \in Process, i \in Slot :
            InRamNext(q, i) => Fpn(pte'[q][i]) \in Frame \ Elements(freeRam')
    BY <1>8, <1>a, <2>1, <2>2 DEF Owned, RamOwned
  <2>5. \A q, r \in Process, i, j \in Slot :
            InRamNext(q, i) /\ InRamNext(r, j) /\ Fpn(pte'[q][i]) = Fpn(pte'[r][j])
            => q = r /\ i = j
    BY <1>a, <2>2, <2>3 DEF Owned, RamOwned
  <2>6. NoRepeats(freeRam)'
    BY <1>8 DEF NoRepeats, Owned, RamOwned
  <2>7. QED
    BY <2>4, <2>5, <2>6 DEF RamOwned, InRam, InRamNext, Elements
<1>d. SwapOwned'
  <2> DEFINE Out(q, i) == pte'[q][i].swapped
  <2>1. \A q \in Process, i \in Slot :
            Out(q, i) /\ (q # p \/ i # v) => InSwap(q, i) /\ pte'[q][i] = pte[q][i]
    BY <1>10, <1>a DEF InSwap
  <2>2. \A q \in Process, i \in Slot :
            Out(q, i) => Swp(pte'[q][i]) \in SwapSlot \ Elements(freeSwap')
    BY <1>a, <1>b, <2>1 DEF Owned, SwapOwned
  <2>3. \A q \in Process, i \in Slot :
            Out(q, i) /\ (q # p \/ i # v) => Swp(pte'[q][i]) # s
    BY <1>b, <2>1 DEF Owned, SwapOwned
  <2>4. \A q, r \in Process, i, j \in Slot :
            Out(q, i) /\ Out(r, j) /\ Swp(pte'[q][i]) = Swp(pte'[r][j]) => q = r /\ i = j
    BY <1>a, <2>1, <2>3 DEF Owned, SwapOwned
  <2>5. NoRepeats(freeSwap)'
    BY <1>b DEF NoRepeats
  <2>6. QED
    BY <2>2, <2>4, <2>5 DEF SwapOwned, InSwap, Elements
<1>e. ListedInRam'
  <2>1. /\ fifo'[p] = Push(WithoutVictim(p), n)
        /\ \A q \in Process \ {p} : fifo'[q] = fifo[q]
    BY DEF FaultEvict, PageInv, TypeOK
  <2>2. n \notin Elements(fifo[p])
    BY <1>1, EmptyOwnsNothing DEF Owned, ListedInRam, InRam
  <2>3. NoRepeats(fifo'[p]) /\ Elements(fifo'[p]) = {n} \cup (Elements(fifo[p]) \ {v})
    BY <1>3, <2>1, <2>2, PushOnce
  <2>4. \A q \in Process : \A i \in DOMAIN fifo'[q] :
            \/ fifo'[q][i] \in Elements(fifo[q]) /\ (q # p \/ fifo'[q][i] # v)
            \/ q = p /\ fifo'[q][i] = n
    BY <2>1, <2>3 DEF Elements
  <2>5. \A q \in Process : \A m \in Elements(fifo[q]) :
            q # p \/ m # v => m < brk[q] /\ InRamNext(q, m)
    <3> SUFFICES ASSUME NEW q \in Process, NEW m \in Elements(fifo[q]), q # p \/ m # v
                 PROVE  m < brk[q] /\ InRamNext(q, m)
      OBVIOUS
    <3>1. m < brk[q] /\ InRam(q, m) /\ m \in Page
      BY DEF Owned, ListedInRam, Elements, PageInv, TypeOK
    <3>2. m \in Slot
      BY <3>1, IndexFits, PagingAssumption DEF Page
    <3>3. q # p \/ m # n
      BY <2>2
    <3>4. QED
      BY <1>10, <3>1, <3>2, <3>3 DEF InRam, InRamNext
  <2>6. \A q \in Process : NoRepeats(fifo'[q])
    BY <2>1, <2>3 DEF Owned, ListedInRam
  <2>7. \A q \in Process : \A i \in DOMAIN fifo'[q] :
            fifo'[q][i] < brk'[q] /\ InRamNext(q, fifo'[q][i])
    BY <1>a, <2>4, <2>5 DEF InRamNext
  <2>8. QED
    BY <2>6, <2>7, ListedNextState
<1>f. NothingAbove'
  <2>1. ~ (n >= brk[p]) /\ ~ (v >= brk[p])
    BY <1>4, PagingAssumption DEF PageInv, TypeOK, Page
  <2>2. QED
    BY <1>10, <2>1 DEF Owned, NothingAbove
<1>g. QED
  BY <1>c, <1>d, <1>e, <1>f DEF Owned

LEMMA GetPageOwned ==
    ASSUME PageInv, AreasFit, Owned, NEW p \in Process, NEW n \in Page, InArea(p, n),
           brk' = brk, GetPage(p, n)
    PROVE  Owned'
<1>1. CASE PageHit(p, n)
  BY <1>1 DEF PageHit, Owned, RamOwned, SwapOwned, ListedInRam, NothingAbove, InRam,
              InSwap, NoRepeats, Elements
<1>2. QED
  BY <1>1, FaultFreeFrameOwned, FaultEvictOwned DEF GetPage, InArea

LEMMA StartsOwned == Init => OwnersInv
<1> SUFFICES ASSUME Init PROVE Owned
  BY StartsTyped DEF OwnersInv
<1>1. NoRepeats(freeRam) /\ NoRepeats(freeSwap)
  BY FramePoolAssumption DEF Init, ListsInit, NoRepeats
<1>2. \A p \in Process, i \in Slot : ~ InRam(p, i) /\ ~ InSwap(p, i)
  BY EmptyOwnsNothing DEF Init, InRam, InSwap
<1>3. QED
  BY <1>1, <1>2 DEF Init, Owned, RamOwned, SwapOwned, ListedInRam, NothingAbove,
                    NoRepeats, Elements

(* A step is a growth, or an access to a page of an area. *)
LEMMA NextMoves ==
    ASSUME Next
    PROVE  \E p \in Process :
               \/ \E n \in 1 .. MaxPages : Grow(p, n) \/ GrowShort(p, n)
               \/ \E n \in Page :
                     /\ brk' = brk
                     /\ InArea(p, n)
                     /\ GetPage(p, n) \/ FaultFails(p, n)
<1>1. PICK p \in Process :
          \/ \E n \in 1 .. MaxPages : Grow(p, n) \/ GrowShort(p, n)
          \/ \E n \in Page :
                \/ Read(p, n)
                \/ \E o \in Offset, v \in Value : Write(p, n, o, v)
                \/ FaultFails(p, n)
  BY DEF Next
<1>2. ASSUME NEW n \in Page,
             Read(p, n) \/ (\E o \in Offset, v \in Value : Write(p, n, o, v))
      PROVE  brk' = brk /\ InArea(p, n) /\ GetPage(p, n)
  BY <1>2 DEF Read, Write
<1>3. ASSUME NEW n \in Page, FaultFails(p, n)
      PROVE  brk' = brk /\ InArea(p, n)
  BY <1>3 DEF FaultFails, FaultNoVictim, FaultNoSwap, pagingVars
<1>4. QED
  BY <1>1, <1>2, <1>3

LEMMA StepOwned == OwnersInv /\ [Next]_pagingVars => OwnersInv'
<1> SUFFICES ASSUME OwnersInv, [Next]_pagingVars, AreasFit' PROVE Owned'
  BY StepTyped DEF OwnersInv
<1>1. CASE UNCHANGED pagingVars
  BY <1>1 DEF pagingVars, OwnersInv, AreasFit, FitsTable, Owned, RamOwned, SwapOwned,
              ListedInRam, NothingAbove, InRam, InSwap, NoRepeats, Elements
<1>2. CASE Next
  <2>1. PICK p \in Process :
            \/ \E n \in 1 .. MaxPages : Grow(p, n) \/ GrowShort(p, n)
            \/ \E n \in Page :
                  /\ brk' = brk
                  /\ InArea(p, n)
                  /\ GetPage(p, n) \/ FaultFails(p, n)
    BY <1>2, NextMoves
  <2>2. AreasFit
    <3>1. \A q \in Process : brk[q] \in Nat /\ brk'[q] \in Nat /\ brk[q] <= brk'[q]
      BY <2>1, PagingAssumption DEF Grow, GrowShort, OwnersInv, PageInv, TypeOK
    <3>2. QED
      BY <3>1, PagingAssumption DEF AreasFit, FitsTable
  <2>3. QED
    BY <2>1, <2>2, GrowOwned, GrowShortOwned, GetPageOwned, FaultFailsOwned DEF OwnersInv
<1>3. QED
  BY <1>1, <1>2

LEMMA OwnedShows == OwnersInv => FramesExclusive /\ SwapExclusive /\ FifoResident
<1> SUFFICES ASSUME OwnersInv, AreasFit
             PROVE  FramesExclusive /\ SwapExclusive /\ FifoResident
  BY DEF FramesExclusive, SwapExclusive, FifoResident
<1>1. \A x \in Entry : x = <<x[1], x[2]>> /\ x[1] \in Process /\ x[2] \in Slot
  BY DEF Entry
<1>2. /\ \A x \in Resident : x \in Entry /\ InRam(x[1], x[2])
      /\ \A x \in SwappedOut : x \in Entry /\ InSwap(x[1], x[2])
  BY DEF Resident, SwappedOut, InRam, InSwap, PteOf
<1>3. FramesExclusive
  BY <1>1, <1>2 DEF OwnersInv, Owned, RamOwned, FramesExclusive, PteOf
<1>4. SwapExclusive
  BY <1>1, <1>2 DEF OwnersInv, Owned, SwapOwned, SwapExclusive, PteOf
<1>5. \A p \in Process, n \in Slot : InRam(p, n) => <<p, n>> \in Resident
  BY DEF Resident, Entry, PteOf, InRam
<1>6. FifoResident
  <2> SUFFICES ASSUME NEW p \in Process, NEW n \in Elements(fifo[p])
               PROVE  <<p, Index(n)>> \in Resident
    BY DEF FifoResident, OwnersInv, Owned, ListedInRam
  <2>1. n \in Nat /\ n < brk[p] /\ InRam(p, n)
    BY PagingAssumption DEF OwnersInv, Owned, ListedInRam, PageInv, TypeOK, Page, Elements
  <2>2. n \in Slot /\ Index(n) = n
    BY <2>1, IndexFits DEF OwnersInv
  <2>3. QED
    BY <1>5, <2>1, <2>2
<1>7. QED
  BY <1>3, <1>4, <1>6

(* A RAM frame backs at most one page of one process, and none while it is *)
(* free, however growth, faults and evictions follow each other.           *)
THEOREM AlwaysFramesExclusive == Spec => []FramesExclusive
BY StartsOwned, StepOwned, OwnedShows, PTL DEF Spec

(* A swap frame holds at most one evicted page, and none while it is free. *)
THEOREM AlwaysSwapExclusive == Spec => []SwapExclusive
BY StartsOwned, StepOwned, OwnedShows, PTL DEF Spec

(* A victim always is a page in RAM: it has a frame to give.               *)
THEOREM AlwaysFifoResident == Spec => []FifoResident
BY StartsOwned, StepOwned, OwnedShows, PTL DEF Spec
-----------------------------------------------------------------------------
(* While RAM lasts, no page of an area is without a frame.                 *)
MappedWhileFree ==
    freeRam # <<>> => \A p \in Process, n \in Page : n < brk[p] => EntryOf(p, n).present

(* A frame that is neither free nor in a table would be lost. *)
FramesKept ==
    (freeRam # <<>> /\ AreasFit) =>
        \A f \in Frame \ Elements(freeRam) :
            \E p \in Process, i \in Slot : InRam(p, i) /\ Fpn(pte[p][i]) = f

AccountInv == OwnersInv /\ MappedWhileFree /\ FramesKept

(* The branch of pg_getpage that takes a free frame is dead code. *)
LEMMA NoFreeFault ==
    ASSUME PageInv, MappedWhileFree, NEW p \in Process, NEW n \in Page, InArea(p, n),
           FaultFreeFrame(p, n)
    PROVE  FALSE
<1>1. Len(freeRam) >= 1 /\ freeRam \in Seq(Frame)
  BY DEF FaultFreeFrame, TakeRam, PageInv, TypeOK
<1>2. freeRam # <<>>
  BY <1>1
<1>3. QED
  BY <1>2 DEF MappedWhileFree, InArea, FaultFreeFrame

(* A step that finds frames on the list is a growth or leaves the lists    *)
(* and the tables alone.                                                   *)
LEMMA StepWhileFree ==
    ASSUME PageInv, MappedWhileFree, Next, freeRam' # <<>>
    PROVE  /\ freeRam # <<>>
           /\ \/ \E p \in Process, n \in 1 .. MaxPages : Grow(p, n)
              \/ UNCHANGED <<freeRam, freeSwap, brk, pte, fifo>>
<1>1. CASE \E p \in Process, n \in 1 .. MaxPages : Grow(p, n)
  <2>1. PICK p \in Process, n \in 1 .. MaxPages : Grow(p, n)
    BY <1>1
  <2>2. n \in Nat \ {0} /\ n <= Len(freeRam) /\ freeRam \in Seq(Frame)
    BY <2>1, PagingAssumption DEF Grow, TakeRam, PageInv, TypeOK
  <2>3. freeRam # <<>>
    BY <2>2
  <2>4. QED
    BY <2>1, <2>3
<1>2. ASSUME NEW p \in Process, NEW n \in 1 .. MaxPages, GrowShort(p, n)
      PROVE  FALSE
  BY <1>2 DEF GrowShort, TakeRamShort
<1>3. ASSUME NEW p \in Process, NEW n \in Page,
             InArea(p, n) /\ brk' = brk /\ (GetPage(p, n) \/ FaultFails(p, n))
      PROVE  freeRam # <<>> /\ UNCHANGED <<freeRam, freeSwap, brk, pte, fifo>>
  <2>1. CASE PageHit(p, n)
    BY <1>3, <2>1 DEF PageHit
  <2>2. CASE FaultFreeFrame(p, n)
    BY <1>3, <2>2, NoFreeFault
  <2>3. CASE FaultEvict(p, n) \/ FaultFails(p, n)
    BY <2>3 DEF FaultEvict, TakeSlot, FaultFails, FaultNoVictim, FaultNoSwap, pagingVars
  <2>4. QED
    BY <1>3, <2>1, <2>2, <2>3 DEF GetPage
<1>4. \/ \E p \in Process, n \in 1 .. MaxPages : Grow(p, n) \/ GrowShort(p, n)
      \/ \E p \in Process, n \in Page :
            InArea(p, n) /\ brk' = brk /\ (GetPage(p, n) \/ FaultFails(p, n))
  BY DEF Next, Read, Write, FaultFails, FaultNoVictim, FaultNoSwap, pagingVars
<1>5. QED
  BY <1>1, <1>2, <1>3, <1>4

(* A growth that succeeds maps every page it adds. *)
LEMMA GrowMapped ==
    ASSUME PageInv, NEW p \in Process, NEW n \in 1 .. MaxPages, Grow(p, n),
           \A q \in Process, m \in Page : m < brk[q] => EntryOf(q, m).present
    PROVE  \A q \in Process, m \in Page : m < brk'[q] => EntryOf(q, m)'.present
<1> SUFFICES ASSUME NEW q \in Process, NEW m \in Page, m < brk'[q]
             PROVE  pte'[q][Index(m)].present
  BY DEF EntryOf
<1>1. /\ brk \in [Process -> Nat] /\ n \in Nat /\ m \in Nat
      /\ brk' = [brk EXCEPT ![p] = @ + n]
  BY PagingAssumption DEF Grow, PageInv, TypeOK, Page
<1>2. Index(m) \in Slot
  BY <1>1, IndexTyped
<1>3. CASE q = p /\ Index(m) \in Remapped(p, n)
  BY <1>3, GrowMaps DEF InRamNext
<1>4. CASE q # p \/ Index(m) \notin Remapped(p, n)
  <2>1. m < brk[q]
    <3>1. CASE q # p
      BY <1>1, <3>1
    <3>2. CASE q = p /\ m >= brk[p]
      <4>1. m \in NewPages(p, n)
        BY <1>1, <3>2 DEF NewPages
      <4>2. QED
        BY <1>2, <1>4, <3>2, <4>1 DEF Remapped
    <3>3. QED
      BY <1>1, <3>1, <3>2
  <2>2. pte[q][Index(m)].present
    BY <2>1 DEF EntryOf
  <2>3. QED
    BY <1>2, <1>4, <2>2, GrowMaps
<1>5. QED
  BY <1>3, <1>4

(* The frames it takes from the list end up in the table. *)
LEMMA GrowKeepsFrames ==
    ASSUME OwnersInv, FramesKept, freeRam # <<>>, AreasFit, AreasFit',
           NEW p \in Process, NEW n \in 1 .. MaxPages, Grow(p, n)
    PROVE  \A f \in Frame \ Elements(freeRam)' :
               \E q \in Process, i \in Slot : InRamNext(q, i) /\ Fpn(pte'[q][i]) = f
<1> SUFFICES ASSUME NEW f \in Frame \ Elements(freeRam)'
             PROVE  \E q \in Process, i \in Slot : InRamNext(q, i) /\ Fpn(pte'[q][i]) = f
  OBVIOUS
<1>1. /\ PageInv /\ Owned /\ brk[p] \in Nat /\ n \in Nat /\ FitsTable(p)'
      /\ freeRam \in Seq(Frame) /\ n <= Len(freeRam)
      /\ freeRam' = SubSeq(freeRam, n + 1, Len(freeRam))
  BY PagingAssumption DEF OwnersInv, PageInv, TypeOK, AreasFit, Grow, TakeRam
<1>2. CASE f \in Elements(freeRam)
  <2>1. PICK k \in DOMAIN freeRam : f = freeRam[k]
    BY <1>2 DEF Elements
  <2>2. k \in 1 .. n
    <3>1. \A j \in 1 .. Len(freeRam') : freeRam'[j] = freeRam[n + j]
      BY <1>1, DropFirst
    <3>2. Len(freeRam') = Len(freeRam) - n
      BY <1>1, DropFirst
    <3>3. CASE k > n
      <4>1. k - n \in DOMAIN freeRam' /\ freeRam'[k - n] = freeRam[k]
        BY <1>1, <2>1, <3>1, <3>2, <3>3
      <4>2. QED
        BY <2>1, <4>1 DEF Elements
    <3>4. QED
      BY <1>1, <2>1, <3>3
  <2>3. PICK m \in Nat : m = (brk[p] + k) - 1
    BY <1>1, <2>2
  <2>4. m \in NewPages(p, n) /\ (m - brk[p]) + 1 = k
    BY <1>1, <2>2, <2>3 DEF NewPages
  <2>5. m \in Remapped(p, n) /\ Place(p, n, m) = k
    BY <1>1, <2>4, GrowMapsFitting
  <2>6. m \in Slot /\ InRamNext(p, m) /\ Fpn(pte'[p][m]) = f
    BY <1>1, <2>1, <2>5, GrowMaps DEF Remapped
  <2>7. QED
    BY <2>6
<1>3. CASE f \notin Elements(freeRam)
  <2>1. PICK q \in Process, i \in Slot : InRam(q, i) /\ Fpn(pte[q][i]) = f
    BY <1>3 DEF FramesKept
  <2>2. q # p \/ i \notin Remapped(p, n)
    <3>1. \A j \in NewPages(p, n) : j >= brk[p]
      BY <1>1 DEF NewPages
    <3>2. \A j \in Remapped(p, n) : pte[p][j] = EmptyPte
      BY <1>1, <3>1, GrowMapsFitting DEF Owned, NothingAbove, Remapped
    <3>3. QED
      BY <2>1, <3>2, EmptyOwnsNothing DEF InRam
  <2>3. pte'[q][i] = pte[q][i]
    BY <1>1, <2>2, GrowMaps
  <2>4. QED
    BY <2>1, <2>3 DEF InRam, InRamNext
<1>4. QED
  BY <1>2, <1>3

LEMMA StartsAccounted == Init => AccountInv
<1> SUFFICES ASSUME Init PROVE MappedWhileFree /\ FramesKept
  BY StartsOwned DEF AccountInv
<1>1. \A p \in Process, n \in Page : ~ (n < brk[p])
  BY PagingAssumption DEF Init, Page
<1>2. Frame \subseteq Elements(freeRam)
  <2>1. freeRam = [i \in 1 .. RamFrames |-> i - 1]
    BY DEF Init, ListsInit
  <2>2. \A f \in Frame : f + 1 \in DOMAIN freeRam /\ freeRam[f + 1] = f
    BY <2>1, FramePoolAssumption DEF Frame
  <2>3. QED
    BY <2>2 DEF Elements
<1>3. QED
  BY <1>1, <1>2 DEF MappedWhileFree, FramesKept

LEMMA StepAccounted == AccountInv /\ [Next]_pagingVars => AccountInv'
<1> SUFFICES ASSUME AccountInv, [Next]_pagingVars PROVE AccountInv'
  OBVIOUS
<1>1. OwnersInv' /\ OwnersInv /\ PageInv
  BY StepOwned DEF AccountInv, OwnersInv
<1>2. CASE UNCHANGED <<freeRam, freeSwap, brk, pte, fifo>>
  <2>1. Elements(freeRam)' = Elements(freeRam) /\ (AreasFit' <=> AreasFit)
    BY <1>2 DEF Elements, AreasFit, FitsTable
  <2>2. QED
    BY <1>1, <1>2, <2>1 DEF AccountInv, MappedWhileFree, FramesKept, EntryOf, InRam
<1>3. CASE freeRam' = <<>>
  BY <1>1, <1>3 DEF AccountInv, MappedWhileFree, FramesKept
<1>4. ASSUME freeRam # <<>>, NEW p \in Process, NEW n \in 1 .. MaxPages, Grow(p, n)
      PROVE  AccountInv'
  <2>1. MappedWhileFree'
    BY <1>1, <1>4, GrowMapped DEF AccountInv, MappedWhileFree
  <2>2. AreasFit' => AreasFit
    <3>1. \A q \in Process : brk[q] \in Nat /\ brk'[q] \in Nat /\ brk[q] <= brk'[q]
      BY <1>1, <1>4, PagingAssumption DEF Grow, PageInv, TypeOK
    <3>2. QED
      BY <3>1, PagingAssumption DEF AreasFit, FitsTable
  <2>3. FramesKept'
    BY <1>1, <1>4, <2>2, GrowKeepsFrames DEF AccountInv, FramesKept, InRam, InRamNext
  <2>4. QED
    BY <1>1, <2>1, <2>3 DEF AccountInv
<1>5. CASE Next /\ freeRam' # <<>>
  BY <1>1, <1>2, <1>4, <1>5, StepWhileFree DEF AccountInv
<1>6. QED
  BY <1>2, <1>3, <1>5 DEF pagingVars

LEMMA AccountShows == AccountInv => RamAccountedFor
<1> SUFFICES ASSUME AccountInv, freeRam # <<>>
             PROVE  /\ AreaIsMapped
                    /\ AreasFit => Frame \subseteq Elements(freeRam)
                                       \cup {Fpn(PteOf(x)) : x \in Resident}
  BY DEF RamAccountedFor
<1>1. AreaIsMapped
  BY EmptyOwnsNothing DEF AccountInv, MappedWhileFree, AreaIsMapped, InArea
<1>2. ASSUME AreasFit, NEW f \in Frame \ Elements(freeRam)
      PROVE  \E x \in Resident : f = Fpn(PteOf(x))
  <2>1. PICK p \in Process, i \in Slot : InRam(p, i) /\ Fpn(pte[p][i]) = f
    BY <1>2 DEF AccountInv, FramesKept
  <2>2. <<p, i>> \in Resident /\ PteOf(<<p, i>>) = pte[p][i]
    BY <2>1 DEF Resident, Entry, PteOf, InRam
  <2>3. QED
    BY <2>1, <2>2
<1>3. QED
  BY <1>1, <1>2

(* Before RAM has run out every page of every area has its frame and, if   *)
(* no area outgrows its table, every frame has its page or is free: growth *)
(* loses none, and no access faults.                                       *)
THEOREM AlwaysRamAccountedFor == Spec => []RamAccountedFor
BY StartsAccounted, StepAccounted, AccountShows, PTL DEF Spec
-----------------------------------------------------------------------------
(* The list of free RAM frames never gets longer than the device. *)
ListBounded == Len(freeRam) <= RamFrames

LEMMA GrowPool ==
    ASSUME PageInv, ListBounded, NEW p \in Process, NEW n \in 1 .. MaxPages,
           Grow(p, n) \/ GrowShort(p, n)
    PROVE  ListsNext /\ ListBounded'
<1>1. /\ freeRam \in Seq(Frame) /\ Len(freeRam) \in Nat /\ Len(freeRam) <= RamFrames
      /\ n \in Nat \ {0} /\ RamFrames \in Nat
  BY PagingAssumption, FramePoolAssumption DEF PageInv, TypeOK, ListBounded
<1>2. CASE Grow(p, n)
  <2>1. TakeRam(n) /\ UNCHANGED freeSwap /\ n <= Len(freeRam)
        /\ freeRam' = SubSeq(freeRam, n + 1, Len(freeRam))
    BY <1>2 DEF Grow, TakeRam
  <2>2. n \in 1 .. RamFrames + 1
    BY <1>1, <2>1
  <2>3. Len(freeRam') = Len(freeRam) - n
    BY <1>1, <2>1
  <2>4. Len(freeRam') <= RamFrames
    BY <1>1, <2>3
  <2>5. QED
    BY <2>1, <2>2, <2>4 DEF ListsNext, ListBounded
<1>3. CASE GrowShort(p, n)
  <2>1. Len(freeRam) < n /\ freeRam' = <<>> /\ UNCHANGED freeSwap
    BY <1>3 DEF GrowShort, TakeRamShort
  <2>2. Len(freeRam) + 1 \in 1 .. RamFrames + 1
    BY <1>1
  <2>3. TakeRamShort(Len(freeRam) + 1)
    BY <1>1, <2>1 DEF TakeRamShort
  <2>4. Len(<<>>) = 0
    OBVIOUS
  <2>5. ListBounded'
    BY <1>1, <2>1, <2>4 DEF ListBounded
  <2>6. QED
    BY <2>1, <2>2, <2>3, <2>5 DEF ListsNext
<1>4. QED
  BY <1>2, <1>3

LEMMA StepPool ==
    ASSUME AccountInv, ListBounded, [Next]_pagingVars
    PROVE  [ListsNext]_listVars /\ ListBounded'
<1>1. PageInv
  BY DEF AccountInv, OwnersInv
<1>2. CASE UNCHANGED <<freeRam, freeSwap>>
  BY <1>2 DEF listVars, ListBounded
<1>3. CASE \E p \in Process, n \in 1 .. MaxPages : Grow(p, n) \/ GrowShort(p, n)
  BY <1>1, <1>3, GrowPool
<1>4. CASE \E p \in Process, n \in Page :
              InArea(p, n) /\ (GetPage(p, n) \/ FaultFails(p, n))
  <2>1. PICK p \in Process, n \in Page : InArea(p, n) /\ (GetPage(p, n) \/ FaultFails(p, n))
    BY <1>4
  <2>2. CASE FaultEvict(p, n)
    BY <1>1, <2>1, <2>2, EvictTakesHead DEF FaultEvict, ListsNext, ListBounded, TakeSlot
  <2>3. CASE FaultFreeFrame(p, n)
    BY <1>1, <2>1, <2>3, NoFreeFault DEF AccountInv
  <2>4. CASE PageHit(p, n) \/ FaultFails(p, n)
    BY <1>2, <2>4 DEF PageHit, FaultFails, FaultNoVictim, FaultNoSwap, pagingVars
  <2>5. QED
    BY <2>1, <2>2, <2>3, <2>4 DEF GetPage
<1>5. QED
  BY <1>2, <1>3, <1>4 DEF Next, Read, Write, FaultFails, FaultNoVictim, FaultNoSwap, pagingVars

(* liballoc, libread and libwrite ask nothing of the free lists but what    *)
(* FramePool offers: each call takes n frames for a growth, or one swap     *)
(* frame once RAM has run out.  FrameLists is the code that offers it.      *)
THEOREM PagingUsesThePool == Spec => ListsSpec
<1>1. Init => AccountInv /\ ListBounded
  <2>1. Init => Len(freeRam) = RamFrames
    BY FramePoolAssumption DEF Init, ListsInit
  <2>2. QED
    BY <2>1, StartsAccounted, FramePoolAssumption DEF ListBounded
<1>2. Init => ListsInit
  BY DEF Init
<1>3. QED
  BY <1>1, <1>2, StepAccounted, StepPool, PTL DEF Spec, ListsSpec
-----------------------------------------------------------------------------
(* A listed page lies in the area and has been mapped, whatever the pages  *)
(* fold to.                                                                *)
ListedMapped ==
    \A p \in Process : \A n \in Elements(fifo[p]) : n < brk[p] /\ EntryOf(p, n).present

WrittenInArea ==
    \A p \in Process, n \in Page, o \in Offset : written[p][n][o] # Unwritten => n < brk[p]

(* NothingAbove for one process, whatever the others have grown to. *)
NothingAboveFitting ==
    \A p \in Process : FitsTable(p) => \A i \in Slot : i >= brk[p] => pte[p][i] = EmptyPte

NoneOut == \A p \in Process, i \in Slot : ~ InSwap(p, i)

IsolationInv ==
    /\ AccountInv
    /\ ListedMapped
    /\ WrittenInArea
    /\ NothingAboveFitting
    /\ NoneOut \/ freeRam = <<>>
    /\ NoneOut => RamOwned /\ \A p \in Process : FitsTable(p) => KeepsBytes(p)

(* What an access may do to memory once the page is there. *)
Stores(p, n) ==
    \E o \in Offset, v \in Value :
        /\ Fpn(pte'[p][Index(n)]) \in Frame
        /\ mem' = [mem EXCEPT ![Fpn(pte'[p][Index(n)])][o] = v]
        /\ written' = [written EXCEPT ![p][n][o] = v]

Accesses(p, n) ==
    /\ InArea(p, n)
    /\ PageHit(p, n) \/ FaultEvict(p, n)
    /\ UNCHANGED <<mem, written>> \/ Stores(p, n)
    /\ UNCHANGED brk

LEMMA StepKinds ==
    ASSUME PageInv, MappedWhileFree, Next
    PROVE  \/ \E p \in Process, n \in 1 .. MaxPages : Grow(p, n) \/ GrowShort(p, n)
           \/ \E p \in Process, n \in Page : Accesses(p, n) \/ FaultFails(p, n)
<1>1. ASSUME NEW p \in Process, NEW n \in Page, Read(p, n)
      PROVE  Accesses(p, n)
  BY <1>1, NoFreeFault DEF Read, GetPage, Accesses
<1>2. ASSUME NEW p \in Process, NEW n \in Page, NEW o \in Offset, NEW v \in Value,
             Write(p, n, o, v)
      PROVE  Accesses(p, n)
  <2>1. UNCHANGED <<mem, written>> \/ Stores(p, n)
    BY <1>2 DEF Write, Stores
  <2>2. QED
    BY <1>2, <2>1, NoFreeFault DEF Write, GetPage, Accesses
<1>3. QED
  BY <1>1, <1>2 DEF Next

(* Areas never shrink. *)
LEMMA BrkGrows ==
    ASSUME PageInv, Next
    PROVE  \A p \in Process : brk[p] \in Nat /\ brk'[p] \in Nat /\ brk[p] <= brk'[p]
<1>1. brk \in [Process -> Nat]
  BY PagingAssumption DEF PageInv, TypeOK
<1>2. brk' = brk \/ \E p \in Process, n \in 1 .. MaxPages : brk' = [brk EXCEPT ![p] = @ + n]
  BY NextMoves DEF Grow, GrowShort
<1>3. QED
  BY <1>1, <1>2, PagingAssumption

LEMMA IndexFitsOne ==
    ASSUME PageInv, NEW p \in Process, FitsTable(p), NEW n \in Nat, n < brk[p]
    PROVE  n \in Slot /\ Index(n) = n
<1>1. brk[p] <= TableSize /\ brk[p] \in Nat /\ TableSize \in Nat
  BY PagingAssumption DEF FitsTable, PageInv, TypeOK
<1>2. n % TableSize = n
  BY <1>1, SMTT(30)
<1>3. QED
  BY <1>1, <1>2 DEF Slot, Index

(* The victim of an eviction is mapped, so it is not the page that faults. *)
LEMMA EvictChanges ==
    ASSUME PageInv, ListedMapped, NEW p \in Process, NEW n \in Page, FaultEvict(p, n)
    PROVE  \E v \in Page :
              /\ v = Victim(p) /\ v \in Elements(fifo[p]) /\ v < brk[p]
              /\ Index(v) \in Slot /\ Index(n) \in Slot /\ Index(v) # Index(n)
              /\ pte'[p][Index(n)].present
              /\ pte'[p][Index(v)].present /\ pte'[p][Index(v)].swapped
              /\ \A q \in Process, i \in Slot :
                    q # p \/ i \notin {Index(n), Index(v)} => pte'[q][i] = pte[q][i]
<1>1. PICK v \in Page : v = Victim(p) /\ v \in Elements(fifo[p])
  BY DEF FaultEvict, Victim, Elements, PageInv, TypeOK
<1>2. v < brk[p] /\ EntryOf(p, v).present /\ ~ EntryOf(p, n).present
  BY <1>1 DEF ListedMapped, FaultEvict
<1>3. Index(v) \in Slot /\ Index(n) \in Slot /\ Index(v) # Index(n)
  BY <1>2, IndexTyped, PagingAssumption DEF Page, EntryOf
<1>4. /\ pte'[p][Index(n)].present
      /\ pte'[p][Index(v)].present /\ pte'[p][Index(v)].swapped
      /\ \A q \in Process, i \in Slot :
            q # p \/ i \notin {Index(n), Index(v)} => pte'[q][i] = pte[q][i]
  <2> DEFINE s == Head(freeSwap)
             g == Fpn(EntryOf(p, v))
  <2>1. pte' = [[pte EXCEPT ![p][Index(v)] = PteSetSwap(@, s)]
                    EXCEPT ![p][Index(n)] = PteSetFpn(@, g)]
    BY <1>1 DEF FaultEvict
  <2> HIDE DEF s, g
  <2>2. pte \in [Process -> [Slot -> Entries]]
    BY DEF PageInv, TypeOK
  <2>3. QED
    BY <1>3, <2>1, <2>2 DEF PteSetSwap, PteSetFpn
<1>5. QED
  BY <1>1, <1>2, <1>3, <1>4

LEMMA ListedPages ==
    ASSUME NEW b \in Nat, NEW n \in Nat, NEW r \in Seq(Nat),
           NEW l \in Seq(Nat), Len(l) = n, \A i \in 1 .. n : l[i] = (b + n) - i
    PROVE  \A m \in Elements(l \o r) : m \in b .. b + n - 1 \/ m \in Elements(r)
<1> DEFINE t == l \o r
<1>1. /\ Len(t) = n + Len(r) /\ t \in Seq(Nat)
      /\ \A i \in 1 .. n + Len(r) : t[i] = IF i <= n THEN l[i] ELSE r[i - n]
  BY ConcatProperties
<1>a. Len(r) \in Nat
  OBVIOUS
<1> HIDE DEF t
<1> SUFFICES ASSUME NEW i \in 1 .. n + Len(r), i \in DOMAIN t
             PROVE  t[i] \in b .. b + n - 1 \/ t[i] \in Elements(r)
  BY <1>1 DEF t, Elements
<1>2. CASE i <= n
  <2>1. i \in 1 .. n /\ i \in Nat
    BY <1>a, <1>2
  <2>2. t[i] = (b + n) - i
    BY <1>1, <1>2, <2>1
  <2>3. (b + n) - i \in b .. b + n - 1
    BY <2>1
  <2>4. QED
    BY <2>2, <2>3
<1>3. CASE i > n
  <2>1. i - n \in DOMAIN r /\ t[i] = r[i - n]
    BY <1>1, <1>a, <1>3
  <2>2. QED
    BY <2>1 DEF Elements
<1>4. QED
  BY <1>a, <1>2, <1>3

LEMMA GrowListed ==
    ASSUME PageInv, ListedMapped, NEW p \in Process, NEW n \in 1 .. MaxPages, Grow(p, n)
    PROVE  ListedMapped'
<1>1. brk[p] \in Nat /\ n \in Nat /\ fifo[p] \in Seq(Nat)
  BY PagingAssumption DEF PageInv, TypeOK, Page
<1>2. /\ fifo'[p] = Listed(p, n) \o fifo[p] /\ brk'[p] = brk[p] + n
      /\ \A q \in Process \ {p} : fifo'[q] = fifo[q] /\ brk'[q] = brk[q]
  BY DEF Grow, PageInv, TypeOK
<1>3. Listed(p, n) \in Seq(Nat) /\ Len(Listed(p, n)) = n
      /\ \A i \in 1 .. n : Listed(p, n)[i] = (brk[p] + n) - i
  BY <1>1 DEF Listed
<1>4. \A m \in Elements(fifo'[p]) : m \in NewPages(p, n) \/ m \in Elements(fifo[p])
  BY <1>1, <1>2, <1>3, ListedPages DEF NewPages
<1>5. \A q \in Process, i \in Slot : pte[q][i].present => pte'[q][i].present
  BY GrowMaps DEF InRamNext
<1>6. \A m \in NewPages(p, n) : m \in Nat /\ m < brk'[p] /\ pte'[p][Index(m)].present
  <2> SUFFICES ASSUME NEW m \in NewPages(p, n)
               PROVE  m \in Nat /\ m < brk'[p] /\ pte'[p][Index(m)].present
    OBVIOUS
  <2>1. m \in Nat /\ m < brk'[p]
    BY <1>1, <1>2 DEF NewPages
  <2>2. Index(m) \in Remapped(p, n)
    BY <2>1, IndexTyped DEF Remapped
  <2>3. QED
    BY <2>1, <2>2, GrowMaps DEF InRamNext
<1>7. \A q \in Process : \A m \in Elements(fifo[q]) :
          m < brk'[q] /\ pte'[q][Index(m)].present
  <2> SUFFICES ASSUME NEW q \in Process, NEW m \in Elements(fifo[q])
               PROVE  m < brk'[q] /\ pte'[q][Index(m)].present
    OBVIOUS
  <2>1. m < brk[q] /\ pte[q][Index(m)].present /\ m \in Nat
    BY PagingAssumption DEF ListedMapped, EntryOf, Elements, PageInv, TypeOK, Page
  <2>2. Index(m) \in Slot
    BY <2>1, IndexTyped
  <2>3. brk[q] \in Nat /\ (brk'[q] = brk[q] \/ brk'[q] = brk[q] + n)
    BY <1>2, PagingAssumption DEF PageInv, TypeOK
  <2>4. QED
    BY <1>1, <1>5, <2>1, <2>2, <2>3
<1>8. \A q \in Process : \A m \in Elements(fifo'[q]) :
          m < brk'[q] /\ pte'[q][Index(m)].present
  BY <1>2, <1>4, <1>6, <1>7
<1>9. QED
  BY <1>8 DEF ListedMapped, EntryOf, Elements

(* The same of lists that lost their victims and gained the page that      *)
(* faulted.                                                                *)
LEMMA AccessListed ==
    ASSUME PageInv, ListedMapped, brk' = brk, NEW p \in Process, NEW n \in Page,
           Accesses(p, n) \/ FaultFails(p, n)
    PROVE  ListedMapped'
<1>1. fifo[p] \in Seq(Page)
  BY DEF PageInv, TypeOK
<1>2. CASE UNCHANGED <<fifo, pte>>
  BY <1>2 DEF ListedMapped, Elements, EntryOf
<1>3. CASE fifo[p] # <<>> /\ (FaultEvict(p, n) \/ FaultNoSwap(p, n))
  <2>1. PICK t \in {WithoutVictim(p)} : t \in Seq(Page)
    BY DEF WithoutVictim, PageInv, TypeOK
  <2>2. \A i \in DOMAIN t : t[i] \in Elements(fifo[p])
    BY <1>1, <2>1 DEF WithoutVictim, Elements
  <2>3. \A q \in Process \ {p} : fifo'[q] = fifo[q]
    BY <1>3 DEF FaultEvict, FaultNoSwap, PageInv, TypeOK
  <2>4. \A i \in DOMAIN fifo'[p] :
            \/ fifo'[p][i] \in Elements(fifo[p])
            \/ fifo'[p][i] = n /\ n < brk[p] /\ FaultEvict(p, n)
    <3>1. CASE FaultNoSwap(p, n)
      BY <2>1, <2>2, <3>1 DEF FaultNoSwap, PageInv, TypeOK
    <3>2. CASE FaultEvict(p, n) /\ InArea(p, n)
      <4>1. fifo'[p] = Push(t, n)
        BY <2>1, <3>2 DEF FaultEvict, PageInv, TypeOK
      <4>2. \A i \in DOMAIN Push(t, n) : Push(t, n)[i] = n \/ Push(t, n)[i] \in Elements(t)
        <5>1. /\ Len(Push(t, n)) = 1 + Len(t) /\ Len(t) \in Nat
              /\ \A i \in 1 .. 1 + Len(t) :
                    Push(t, n)[i] = IF i <= 1 THEN n ELSE t[i - 1]
          BY ConcatProperties DEF Push
        <5>2. \A i \in 2 .. 1 + Len(t) : i - 1 \in DOMAIN t
          BY <5>1
        <5>3. DOMAIN Push(t, n) = 1 .. 1 + Len(t)
          BY <5>1, ConcatProperties DEF Push
        <5>4. QED
          BY <5>1, <5>2, <5>3 DEF Elements
      <4>3. QED
        BY <2>2, <3>2, <4>1, <4>2 DEF Elements, InArea
    <3>3. QED
      BY <1>3, <3>1, <3>2 DEF Accesses, FaultFails, FaultNoVictim, FaultNoSwap, InArea, PageHit, FaultEvict
  <2>5. \A q \in Process, i \in Slot : pte[q][i].present => pte'[q][i].present
    <3>1. CASE FaultEvict(p, n)
      BY <3>1, EvictChanges
    <3>2. CASE FaultNoSwap(p, n)
      BY <3>2 DEF FaultNoSwap
    <3>3. QED
      BY <1>3, <3>1, <3>2
  <2>6. FaultEvict(p, n) => pte'[p][Index(n)].present
    BY EvictChanges
  <2>7. \A q \in Process : \A i \in DOMAIN fifo'[q] :
            fifo'[q][i] \in Elements(fifo[q]) \/
            (q = p /\ fifo'[q][i] = n /\ n < brk[p] /\ FaultEvict(p, n))
    BY <2>3, <2>4 DEF Elements
  <2>8. \A q \in Process : \A m \in Elements(fifo[q]) :
            m < brk[q] /\ pte'[q][Index(m)].present
    <3>1. \A q \in Process : \A m \in Elements(fifo[q]) : m \in Nat
      BY PagingAssumption DEF Elements, PageInv, TypeOK, Page
    <3>2. QED
      BY <2>5, <3>1, IndexTyped DEF ListedMapped, EntryOf
  <2>9. QED
    BY <2>6, <2>7, <2>8 DEF ListedMapped, EntryOf, Elements
<1>4. QED
  BY <1>2, <1>3 DEF Accesses, PageHit, FaultEvict, FaultFails, FaultNoVictim, FaultNoSwap, pagingVars

LEMMA StepWritten ==
    ASSUME PageInv, MappedWhileFree, WrittenInArea, Next
    PROVE  WrittenInArea'
<1>1. \A p \in Process : brk[p] \in Nat /\ brk'[p] \in Nat /\ brk[p] <= brk'[p]
  BY BrkGrows
<1>2. \A p \in Process, n \in Page, o \in Offset :
          written'[p][n][o] # written[p][n][o] => n < brk[p]
  <2>1. CASE written' = written
    BY <2>1
  <2>2. ASSUME NEW p \in Process, NEW n \in Page, n < brk[p], Stores(p, n),
               NEW q \in Process, NEW m \in Page, NEW o \in Offset,
               written'[q][m][o] # written[q][m][o]
        PROVE  m < brk[q]
    BY <2>2 DEF Stores, PageInv, TypeOK
  <2>3. QED
    BY <2>1, <2>2, StepKinds DEF Accesses, InArea, Grow, GrowShort, FaultFails,
                                 FaultNoVictim, FaultNoSwap, pagingVars
<1>3. \A p \in Process, n \in Page, o \in Offset :
          written'[p][n][o] # Unwritten => n < brk[p]
  BY <1>2 DEF WrittenInArea
<1>4. QED
  BY <1>1, <1>3, PagingAssumption DEF WrittenInArea, Page

LEMMA StepAbove ==
    ASSUME PageInv, MappedWhileFree, ListedMapped, NothingAboveFitting, Next
    PROVE  NothingAboveFitting'
<1> SUFFICES ASSUME NEW q \in Process, FitsTable(q)', NEW i \in Slot, i >= brk'[q]
             PROVE  pte'[q][i] = EmptyPte
  BY DEF NothingAboveFitting
<1>1. brk[q] \in Nat /\ brk'[q] \in Nat /\ brk[q] <= brk'[q] /\ i \in Nat
  BY BrkGrows DEF Slot
<1>2. FitsTable(q) /\ i >= brk[q] /\ pte[q][i] = EmptyPte
  BY <1>1, PagingAssumption DEF NothingAboveFitting, FitsTable
<1>3. ASSUME NEW p \in Process, NEW n \in 1 .. MaxPages, Grow(p, n)
      PROVE  pte'[q][i] = pte[q][i]
  <2>1. CASE q # p
    BY <1>3, <2>1, GrowMaps
  <2>2. CASE q = p
    <3>1. brk'[p] = brk[p] + n /\ n \in Nat
      BY <1>3, PagingAssumption DEF Grow, PageInv, TypeOK
    <3>2. i \notin NewPages(p, n)
      BY <1>1, <2>2, <3>1 DEF NewPages
    <3>3. QED
      BY <1>3, <2>2, <3>2, GrowMaps, GrowMapsFitting
  <2>3. QED
    BY <2>1, <2>2
<1>4. ASSUME NEW p \in Process, NEW n \in Page, InArea(p, n), FaultEvict(p, n)
      PROVE  pte'[q][i] = pte[q][i]
  <2>1. PICK v \in Page :
            /\ v < brk[p]
            /\ \A r \in Process, j \in Slot :
                  r # p \/ j \notin {Index(n), Index(v)} => pte'[r][j] = pte[r][j]
    BY <1>4, EvictChanges
  <2>2. CASE q = p
    <3>1. Index(n) = n /\ Index(v) = v
      BY <1>2, <1>4, <2>1, <2>2, IndexFitsOne, PagingAssumption DEF InArea, Page
    <3>2. i \notin {n, v}
      BY <1>1, <1>2, <1>4, <2>1, <2>2, PagingAssumption DEF InArea, Page
    <3>3. QED
      BY <2>1, <3>1, <3>2
  <2>3. QED
    BY <2>1, <2>2
<1>5. pte'[q][i] = pte[q][i]
  BY <1>3, <1>4, StepKinds DEF GrowShort, Accesses, PageHit, FaultFails, FaultNoVictim,
                               FaultNoSwap, pagingVars
<1>6. QED
  BY <1>2, <1>5

(* Bytes stay where they are when the tables and the memory do. *)
LEMMA KeepsUnmoved ==
    ASSUME PageInv, Next, UNCHANGED <<mem, written>>, NEW q \in Process,
           \A n \in Page : n < brk[q] => pte'[q][Index(n)] = pte[q][Index(n)],
           WrittenInArea, KeepsBytes(q)
    PROVE  KeepsBytes(q)'
<1> SUFFICES ASSUME NEW n \in Page, NEW o \in Offset PROVE KeepsByte(q, n, o)'
  BY DEF KeepsBytes
<1>1. CASE n < brk[q]
  BY <1>1 DEF KeepsBytes, KeepsByte, EntryOf
<1>2. CASE ~ (n < brk[q])
  BY <1>2 DEF WrittenInArea, KeepsByte
<1>3. QED
  BY <1>1, <1>2

LEMMA GrowIsolated ==
    ASSUME PageInv, WrittenInArea, Next, NEW q \in Process, FitsTable(q)', KeepsBytes(q),
           NEW p \in Process, NEW n \in 1 .. MaxPages, Grow(p, n)
    PROVE  KeepsBytes(q)'
<1>1. \A m \in Page : m < brk[q] => pte'[q][Index(m)] = pte[q][Index(m)]
  <2> SUFFICES ASSUME NEW m \in Page, m < brk[q]
               PROVE  pte'[q][Index(m)] = pte[q][Index(m)]
    OBVIOUS
  <2>1. Index(m) \in Slot
    BY IndexTyped, PagingAssumption DEF Page
  <2>2. CASE q # p
    BY <2>1, <2>2, GrowMaps
  <2>3. CASE q = p
    <3>1. brk[q] \in Nat /\ m \in Nat /\ FitsTable(q)
      BY BrkGrows, PagingAssumption DEF Page, FitsTable
    <3>2. Index(m) = m
      BY <3>1, IndexFitsOne
    <3>3. m \notin NewPages(p, n)
      BY <2>3, <3>1 DEF NewPages
    <3>4. QED
      BY <2>1, <2>3, <3>2, <3>3, GrowMaps, GrowMapsFitting
  <2>4. QED
    BY <2>2, <2>3
<1>2. UNCHANGED <<mem, written>>
  BY DEF Grow
<1>3. QED
  BY <1>1, <1>2, KeepsUnmoved

(* A byte stored through one entry reaches no other: every mapped entry is *)
(* in RAM and its frame is its own.                                        *)
LEMMA StoreIsolated ==
    ASSUME PageInv, NoneOut, RamOwned, WrittenInArea, NEW q \in Process, FitsTable(q),
           KeepsBytes(q), NEW p \in Process, NEW n \in Page, InArea(p, n),
           PageHit(p, n), Stores(p, n)
    PROVE  KeepsBytes(q)'
<1> SUFFICES ASSUME NEW m \in Page, NEW o \in Offset,
                    written'[q][m][o] # Unwritten, pte'[q][Index(m)].present
             PROVE  /\ Fpn(pte'[q][Index(m)]) \in Frame
                    /\ mem'[Fpn(pte'[q][Index(m)])][o] = written'[q][m][o]
  BY DEF KeepsBytes, KeepsByte, EntryOf
<1>1. pte' = pte /\ pte[p][Index(n)].present
  BY DEF PageHit, EntryOf
<1>2. PICK f \in Frame, u \in Offset, v \in Value :
          /\ f = Fpn(pte[p][Index(n)])
          /\ mem' = [mem EXCEPT ![f][u] = v]
          /\ written' = [written EXCEPT ![p][n][u] = v]
  <2> DEFINE g == Fpn(pte[p][Index(n)])
             next == Fpn(pte'[p][Index(n)])
  <2>1. next = g
    BY <1>1
  <2>2. \E u \in Offset, v \in Value :
            /\ next \in Frame
            /\ mem' = [mem EXCEPT ![next][u] = v]
            /\ written' = [written EXCEPT ![p][n][u] = v]
    BY DEF Stores
  <2> HIDE DEF g, next
  <2>3. PICK u \in Offset, v \in Value :
            /\ next \in Frame
            /\ mem' = [mem EXCEPT ![next][u] = v]
            /\ written' = [written EXCEPT ![p][n][u] = v]
    BY <2>2
  <2>4. PICK f \in Frame : f = g /\ f = next
    BY <2>1, <2>3
  <2>5. mem' = [mem EXCEPT ![f][u] = v]
    BY <2>3, <2>4
  <2>6. QED
    BY <2>3, <2>4, <2>5 DEF g
<1>3. /\ mem \in [Frame -> [Offset -> Value]]
      /\ written \in [Process -> [Page -> [Offset -> Value \cup {Unwritten}]]]
  BY DEF PageInv, TypeOK
<1>4. Index(n) \in Slot /\ Index(m) \in Slot
  BY IndexTyped, PagingAssumption DEF Page
<1>5. CASE <<q, m, o>> = <<p, n, u>>
  BY <1>1, <1>2, <1>3, <1>5
<1>6. CASE <<q, m, o>> # <<p, n, u>>
  <2>1. written'[q][m][o] = written[q][m][o]
    BY <1>2, <1>3, <1>6
  <2>2. /\ Fpn(pte[q][Index(m)]) \in Frame
        /\ mem[Fpn(pte[q][Index(m)])][o] = written[q][m][o]
    BY <1>1, <2>1 DEF KeepsBytes, KeepsByte, EntryOf
  <2>3. Fpn(pte[q][Index(m)]) # f \/ o # u
    <3>1. CASE Fpn(pte[q][Index(m)]) = f
      <4>1. InRam(q, Index(m)) /\ InRam(p, Index(n))
        BY <1>1, <1>4 DEF NoneOut, InRam, InSwap
      <4>2. q = p /\ Index(m) = Index(n)
        BY <1>2, <1>4, <3>1, <4>1 DEF RamOwned
      <4>3. m < brk[q]
        BY <2>1 DEF WrittenInArea
      <4>4. m = n
        BY <4>2, <4>3, IndexFitsOne, PagingAssumption DEF InArea, Page
      <4>5. QED
        BY <1>6, <4>2, <4>4
    <3>2. QED
      BY <3>1
  <2>4. mem'[Fpn(pte[q][Index(m)])][o] = mem[Fpn(pte[q][Index(m)])][o]
    BY <1>2, <1>3, <2>2, <2>3
  <2>5. QED
    BY <1>1, <2>1, <2>2, <2>4
<1>7. QED
  BY <1>5, <1>6

(* Pages out in swap are there for good, since no frame is left. *)
LEMMA StepOut ==
    ASSUME PageInv, MappedWhileFree, ListedMapped, NoneOut \/ freeRam = <<>>, Next
    PROVE  (NoneOut \/ freeRam = <<>>)' /\ (NoneOut' => NoneOut)
<1>1. ASSUME NEW p \in Process, NEW n \in 1 .. MaxPages, Grow(p, n)
      PROVE  NoneOut /\ NoneOut'
  <2>1. freeRam # <<>>
    <3>1. n \in Nat \ {0} /\ n <= Len(freeRam) /\ freeRam \in Seq(Frame)
      BY <1>1, PagingAssumption DEF Grow, TakeRam, PageInv, TypeOK
    <3>2. QED
      BY <3>1
  <2>2. NoneOut
    BY <2>1
  <2>3. \A q \in Process, i \in Slot : ~ pte'[q][i].swapped
    BY <1>1, <2>2, GrowMaps DEF NoneOut, InSwap, InRamNext
  <2>4. QED
    BY <2>2, <2>3 DEF NoneOut, InSwap
<1>2. ASSUME NEW p \in Process, NEW n \in Page, FaultEvict(p, n)
      PROVE  freeRam' = <<>> /\ ~ NoneOut'
  BY <1>2, EvictChanges DEF FaultEvict, TakeSlot, NoneOut, InSwap
<1>3. CASE UNCHANGED pte /\ (freeRam' = freeRam \/ freeRam' = <<>>)
  BY <1>3 DEF NoneOut, InSwap
<1>4. QED
  BY <1>1, <1>2, <1>3, StepKinds DEF GrowShort, TakeRamShort, Accesses, PageHit,
          FaultFails, FaultNoVictim, FaultNoSwap, pagingVars

LEMMA StepIsolated ==
    ASSUME IsolationInv, Next, NoneOut'
    PROVE  RamOwned' /\ \A q \in Process : FitsTable(q)' => KeepsBytes(q)'
<1> SUFFICES ASSUME NEW q \in Process
             PROVE  RamOwned' /\ (FitsTable(q)' => KeepsBytes(q)')
  BY DEF Next
<1>1. /\ PageInv /\ MappedWhileFree /\ ListedMapped /\ WrittenInArea
      /\ NoneOut /\ RamOwned /\ (FitsTable(q) => KeepsBytes(q))
  BY StepOut DEF IsolationInv, AccountInv, OwnersInv
<1>2. FitsTable(q)' => FitsTable(q)
  BY <1>1, BrkGrows, PagingAssumption DEF FitsTable
<1>3. ASSUME NEW p \in Process, NEW n \in 1 .. MaxPages, Grow(p, n)
      PROVE  RamOwned' /\ (FitsTable(q)' => KeepsBytes(q)')
  <2>1. RamOwned'
    BY <1>1, <1>3, GrowRamOwned
  <2>2. ASSUME FitsTable(q)' PROVE KeepsBytes(q)'
    BY <1>1, <1>2, <1>3, <2>2, GrowIsolated
  <2>3. QED
    BY <2>1, <2>2
<1>4. ASSUME UNCHANGED pte, freeRam' = freeRam \/ freeRam' = <<>>
      PROVE  RamOwned'
  <2>1. NoRepeats(freeRam') /\ Elements(freeRam') \subseteq Elements(freeRam)
    BY <1>1, <1>4 DEF RamOwned, NoRepeats, Elements
  <2>2. \A p \in Process, i \in Slot : InRamNext(p, i) <=> InRam(p, i)
    BY <1>4 DEF InRam, InRamNext
  <2>3. QED
    BY <1>1, <1>4, <2>1, <2>2 DEF RamOwned, InRam, InRamNext, NoRepeats, Elements
<1>5. ASSUME UNCHANGED pte, UNCHANGED <<mem, written>>
      PROVE  FitsTable(q)' => KeepsBytes(q)'
  <2>1. ASSUME FitsTable(q)' PROVE KeepsBytes(q)'
    <3>1. KeepsBytes(q) /\ \A n \in Page : pte'[q][Index(n)] = pte[q][Index(n)]
      BY <1>1, <1>2, <1>5, <2>1
    <3>2. QED
      BY <1>1, <1>5, <3>1, KeepsUnmoved
  <2>2. QED
    BY <2>1
<1>6. ASSUME NEW p \in Process, NEW n \in Page, Accesses(p, n)
      PROVE  RamOwned' /\ (FitsTable(q)' => KeepsBytes(q)')
  <2>1. PageHit(p, n)
    BY <1>1, <1>6, EvictChanges DEF Accesses, NoneOut, InSwap
  <2>2. RamOwned'
    BY <1>4, <2>1 DEF PageHit
  <2>3. CASE UNCHANGED <<mem, written>>
    BY <1>5, <2>1, <2>2, <2>3 DEF PageHit
  <2>4. CASE Stores(p, n)
    <3>1. ASSUME FitsTable(q)' PROVE KeepsBytes(q)'
      BY <1>1, <1>2, <1>6, <2>1, <2>4, <3>1, StoreIsolated DEF Accesses
    <3>2. QED
      BY <2>2, <3>1
  <2>5. QED
    BY <1>6, <2>3, <2>4 DEF Accesses
<1>7. ASSUME NEW p \in Process, NEW n \in Page, FaultFails(p, n)
      PROVE  RamOwned' /\ (FitsTable(q)' => KeepsBytes(q)')
  BY <1>4, <1>5, <1>7 DEF FaultFails, FaultNoVictim, FaultNoSwap, pagingVars
<1>8. ASSUME NEW p \in Process, NEW n \in 1 .. MaxPages, GrowShort(p, n)
      PROVE  RamOwned' /\ (FitsTable(q)' => KeepsBytes(q)')
  BY <1>4, <1>5, <1>8 DEF GrowShort, TakeRamShort
<1>9. QED
  BY <1>1, <1>3, <1>6, <1>7, <1>8, StepKinds

LEMMA StartsIsolation == Init => IsolationInv
<1> SUFFICES ASSUME Init PROVE IsolationInv
  OBVIOUS
<1>1. AccountInv
  BY StartsAccounted
<1>2. NoneOut
  BY EmptyOwnsNothing DEF Init, NoneOut, InSwap
<1>3. ListedMapped /\ WrittenInArea /\ NothingAboveFitting
  BY DEF Init, ListedMapped, Elements, WrittenInArea, NothingAboveFitting
<1>4. RamOwned
  <2>1. NoRepeats(freeRam)
    BY FramePoolAssumption DEF Init, ListsInit, NoRepeats
  <2>2. \A p \in Process, i \in Slot : ~ InRam(p, i)
    BY EmptyOwnsNothing DEF Init, InRam
  <2>3. QED
    BY <2>1, <2>2 DEF RamOwned
<1>5. \A p \in Process : KeepsBytes(p)
  BY DEF Init, KeepsBytes, KeepsByte
<1>6. QED
  BY <1>1, <1>2, <1>3, <1>4, <1>5 DEF IsolationInv

LEMMA StepIsolation == IsolationInv /\ [Next]_pagingVars => IsolationInv'
<1> SUFFICES ASSUME IsolationInv, [Next]_pagingVars PROVE IsolationInv'
  OBVIOUS
<1>1. AccountInv' /\ PageInv /\ MappedWhileFree /\ ListedMapped
  BY StepAccounted DEF IsolationInv, AccountInv, OwnersInv
<1>2. CASE UNCHANGED pagingVars
  <2>1. AccountInv'
    BY <1>1
  <2>2. ListedMapped' /\ WrittenInArea' /\ NothingAboveFitting'
    BY <1>2 DEF pagingVars, IsolationInv, ListedMapped, Elements, EntryOf, WrittenInArea,
                NothingAboveFitting, FitsTable
  <2>3. /\ NoneOut' <=> NoneOut
        /\ RamOwned' <=> RamOwned
        /\ \A p \in Process : (FitsTable(p)' <=> FitsTable(p)) /\ (KeepsBytes(p)' <=> KeepsBytes(p))
    BY <1>2 DEF pagingVars, NoneOut, InSwap, InRam, RamOwned, NoRepeats, Elements,
                FitsTable, KeepsBytes, KeepsByte, EntryOf
  <2>4. freeRam' = freeRam
    BY <1>2 DEF pagingVars
  <2>5. QED
    BY <2>1, <2>2, <2>3, <2>4 DEF IsolationInv
<1>3. CASE Next
  <2>1. ListedMapped'
    <3>1. ASSUME NEW p \in Process, NEW n \in 1 .. MaxPages, GrowShort(p, n)
          PROVE  ListedMapped'
      <4>1. UNCHANGED <<fifo, pte>> /\ \A q \in Process :
                brk[q] \in Nat /\ brk'[q] \in Nat /\ brk[q] <= brk'[q]
        BY <1>1, <1>3, <3>1, BrkGrows DEF GrowShort
      <4>2. \A q \in Process : \A m \in Elements(fifo[q]) : m \in Nat
        BY <1>1, PagingAssumption DEF Elements, PageInv, TypeOK, Page
      <4>3. \A q \in Process : \A m \in Elements(fifo[q]) : m < brk'[q]
        BY <1>1, <4>1, <4>2 DEF ListedMapped
      <4>4. QED
        BY <1>1, <4>1, <4>3 DEF ListedMapped, Elements, EntryOf
    <3>2. ASSUME NEW p \in Process, NEW n \in Page, Accesses(p, n) \/ FaultFails(p, n)
          PROVE  ListedMapped'
      <4>1. brk' = brk
        BY <3>2 DEF Accesses, FaultFails, FaultNoVictim, FaultNoSwap, pagingVars
      <4>2. QED
        BY <1>1, <3>2, <4>1, AccessListed
    <3>3. ASSUME NEW p \in Process, NEW n \in 1 .. MaxPages, Grow(p, n)
          PROVE  ListedMapped'
      BY <1>1, <3>3, GrowListed
    <3>4. QED
      BY <1>1, <1>3, <3>1, <3>2, <3>3, StepKinds
  <2>2. WrittenInArea' /\ NothingAboveFitting'
    BY <1>1, <1>3, StepWritten, StepAbove DEF IsolationInv
  <2>3. (NoneOut \/ freeRam = <<>>)'
    BY <1>1, <1>3, StepOut DEF IsolationInv
  <2>4. NoneOut' => RamOwned' /\ \A p \in Process : FitsTable(p)' => KeepsBytes(p)'
    BY <1>3, StepIsolated
  <2>5. QED
    BY <1>1, <2>1, <2>2, <2>3, <2>4 DEF IsolationInv
<1>4. QED
  BY <1>2, <1>3

LEMMA IsolationShows == IsolationInv => IsolatedUntilEviction
<1> SUFFICES ASSUME IsolationInv, SwappedOut = {}
             PROVE  \A p \in Process : FitsTable(p) => KeepsBytes(p)
  BY DEF IsolatedUntilEviction
<1>1. NoneOut
  <2> SUFFICES ASSUME NEW p \in Process, NEW i \in Slot, InSwap(p, i) PROVE FALSE
    BY DEF NoneOut
  <2>1. <<p, i>> \in SwappedOut
    BY DEF SwappedOut, Entry, PteOf, InSwap
  <2>2. QED
    BY <2>1
<1>2. QED
  BY <1>1 DEF IsolationInv

(* Until a page is evicted every process whose area fits its page table    *)
(* finds each byte it stored where it stored it, however the others grow,  *)
(* fault and outgrow their own tables.                                     *)
THEOREM AlwaysIsolatedUntilEviction == Spec => []IsolatedUntilEviction
BY StartsIsolation, StepIsolation, IsolationShows, PTL DEF Spec
-----------------------------------------------------------------------------
(* The same lists and tables when programs also call memmap themselves.    *)
NextWithMemmap ==
    \/ Next
    \/ \E p \in Process :
          \/ \E n \in 0 .. 1 : MapAtBrk(p, freeRam, n)
          \/ \E n \in Nat, k \in Nat : MapDummy(p, n, k)

LEMMA DummyTyped == DummyPte \in Entries
<1>1. 44941039 \in Nat /\ 44941039 < SwpRange
  BY SMT DEF SwpRange
<1>2. DummyPte.low \in 0 .. SwpRange - 1
  BY <1>1, Ranges, SMT DEF DummyPte
<1>3. QED
  BY <1>2 DEF DummyPte, Entries

(* The page at the break gets the first frame of the list. *)
LEMMA MapAtBrkMaps ==
    ASSUME PageInv, NEW p \in Process, NEW list \in Seq(Frame), NEW n \in 0 .. 1,
           MapAtBrk(p, list, n)
    PROVE  \E i \in Slot, f \in Frame, e \in Entries :
              /\ i = Index(brk[p])
              /\ f = Head(list) /\ list # <<>> /\ freeRam' = Tail(list)
              /\ pte' = [pte EXCEPT ![p][i] = e]
              /\ Fpn(e) = f /\ e.present /\ ~ e.swapped
<1>1. brk[p] \in Nat /\ list # <<>> /\ freeRam' = Tail(list)
  BY PagingAssumption DEF MapAtBrk, PageInv, TypeOK
<1>2. PICK i \in Slot : i = Index(brk[p])
  BY <1>1, IndexTyped
<1>3. PICK f \in Frame : f = Head(list)
  BY <1>1
<1>4. pte[p][i] \in Entries
  BY DEF PageInv, TypeOK
<1>5. PICK e \in Entries : e = PteSetFpn(pte[p][i], f)
  BY <1>4, FrameBelow, FpnSet
<1>6. Fpn(e) = f /\ e.present /\ ~ e.swapped
  BY <1>4, <1>5, FrameBelow, FpnSet DEF PteSetFpn
<1>7. pte' = [pte EXCEPT ![p][i] = e]
  BY <1>2, <1>3, <1>5 DEF MapAtBrk
<1>8. QED
  BY <1>1, <1>2, <1>3, <1>6, <1>7

LEMMA MapAtBrkTyped ==
    ASSUME PageInv, NEW p \in Process, NEW list \in Seq(Frame), NEW n \in 0 .. 1,
           MapAtBrk(p, list, n)
    PROVE  PageInv'
<1>1. PICK i \in Slot, e \in Entries :
          /\ list # <<>> /\ freeRam' = Tail(list)
          /\ pte' = [pte EXCEPT ![p][i] = e] /\ e.present
  BY MapAtBrkMaps
<1>2. brk[p] \in Page /\ brk' \in [Process -> 0 .. MaxPages]
  BY PagingAssumption DEF MapAtBrk, Page, PageInv, TypeOK
<1>3. pte' \in [Process -> [Slot -> Entries]] /\ EmptyUntilPresent'
  BY <1>1 DEF PageInv, TypeOK, EmptyUntilPresent
<1>4. freeRam' \in Seq(Frame)
  BY <1>1
<1>5. fifo' \in [Process -> Seq(Page)]
  BY <1>2, PushTyped DEF MapAtBrk, PageInv, TypeOK
<1>6. QED
  BY <1>2, <1>3, <1>4, <1>5 DEF MapAtBrk, PageInv, TypeOK

LEMMA MapDummyMaps ==
    ASSUME PageInv, NEW p \in Process, NEW n \in Nat, NEW k \in Nat, MapDummy(p, n, k)
    PROVE  /\ pte' \in [Process -> [Slot -> Entries]]
           /\ \A q \in Process, i \in Slot :
                 \/ pte'[q][i] = pte[q][i]
                 \/ q = p /\ pte'[q][i] = DummyPte
<1>1. pte \in [Process -> [Slot -> Entries]]
  BY DEF PageInv, TypeOK
<1>2. pte' = [pte EXCEPT ![p] = [i \in Slot |->
          IF \E m \in n .. n + k - 1 : Index(m) = i THEN DummyPte ELSE pte[p][i]]]
  BY <1>1 DEF MapDummy
<1>3. QED
  BY <1>1, <1>2, DummyTyped

LEMMA WiderTyped == PageInv /\ [NextWithMemmap]_pagingVars => PageInv'
<1>1. ASSUME PageInv, NEW p \in Process, NEW n \in Nat, NEW k \in Nat, MapDummy(p, n, k)
      PROVE  PageInv'
  <2>1. EmptyUntilPresent'
    BY <1>1, MapDummyMaps DEF PageInv, EmptyUntilPresent, DummyPte
  <2>2. pte' \in [Process -> [Slot -> Entries]]
    BY <1>1, MapDummyMaps
  <2>3. UNCHANGED <<freeRam, freeSwap, mem, brk, fifo, written>>
    BY <1>1 DEF MapDummy
  <2>4. QED
    BY <1>1, <2>1, <2>2, <2>3 DEF PageInv, TypeOK
<1>2. QED
  BY <1>1, StepTyped, MapAtBrkTyped DEF NextWithMemmap, PageInv, TypeOK

LEMMA WiderKinds ==
    ASSUME PageInv, MappedWhileFree, NextWithMemmap
    PROVE  \/ \E p \in Process, n \in 1 .. MaxPages : Grow(p, n) \/ GrowShort(p, n)
           \/ \E p \in Process, n \in Page : Accesses(p, n) \/ FaultFails(p, n)
           \/ \E p \in Process, n \in 0 .. 1 : MapAtBrk(p, freeRam, n)
           \/ \E p \in Process, n \in Nat, k \in Nat : MapDummy(p, n, k)
BY StepKinds DEF NextWithMemmap

(* No entry of a page table is ever emptied. *)
LEMMA PresentStays ==
    ASSUME PageInv, MappedWhileFree, NextWithMemmap
    PROVE  \A q \in Process, i \in Slot : pte[q][i].present => pte'[q][i].present
<1>1. ASSUME NEW p \in Process, NEW n \in 1 .. MaxPages, Grow(p, n)
      PROVE  \A q \in Process, i \in Slot : pte[q][i].present => pte'[q][i].present
  BY <1>1, GrowMaps DEF InRamNext
<1>2. ASSUME NEW p \in Process, NEW n \in Page, FaultEvict(p, n)
      PROVE  \A q \in Process, i \in Slot : pte[q][i].present => pte'[q][i].present
  <2> DEFINE v == Victim(p)
             s == Head(freeSwap)
             g == Fpn(EntryOf(p, v))
  <2>1. pte' = [[pte EXCEPT ![p][Index(v)] = PteSetSwap(@, s)]
                    EXCEPT ![p][Index(n)] = PteSetFpn(@, g)]
    BY <1>2 DEF FaultEvict
  <2>2. v \in Page
    BY <1>2 DEF FaultEvict, Victim, PageInv, TypeOK
  <2>3. Index(v) \in Slot /\ Index(n) \in Slot /\ pte \in [Process -> [Slot -> Entries]]
    BY <2>2, IndexTyped, PagingAssumption DEF Page, PageInv, TypeOK
  <2> HIDE DEF v, s, g
  <2>4. QED
    BY <2>1, <2>3 DEF PteSetSwap, PteSetFpn
<1>3. ASSUME NEW p \in Process, NEW n \in Nat, NEW k \in Nat, MapDummy(p, n, k)
      PROVE  \A q \in Process, i \in Slot : pte[q][i].present => pte'[q][i].present
  BY <1>3, MapDummyMaps DEF DummyPte
<1>4. ASSUME NEW p \in Process, NEW n \in 0 .. 1, MapAtBrk(p, freeRam, n)
      PROVE  \A q \in Process, i \in Slot : pte[q][i].present => pte'[q][i].present
  <2>1. PICK i \in Slot, e \in Entries : pte' = [pte EXCEPT ![p][i] = e] /\ e.present
    BY <1>4, MapAtBrkMaps DEF PageInv, TypeOK
  <2>2. QED
    BY <2>1 DEF PageInv, TypeOK
<1>5. CASE UNCHANGED pte
  BY <1>5
<1>6. QED
  BY <1>1, <1>2, <1>3, <1>4, <1>5, WiderKinds DEF GrowShort, Accesses, PageHit,
          FaultFails, FaultNoVictim, FaultNoSwap, pagingVars

(* RAM that has run out stays so. *)
LEMMA FreeRamShrinks ==
    ASSUME PageInv, MappedWhileFree, NextWithMemmap, freeRam' # <<>>
    PROVE  freeRam # <<>>
<1>1. ASSUME NEW p \in Process, NEW n \in 1 .. MaxPages, Grow(p, n)
      PROVE  freeRam # <<>>
  <2>1. n \in Nat \ {0} /\ n <= Len(freeRam) /\ freeRam \in Seq(Frame)
    BY <1>1, PagingAssumption DEF Grow, TakeRam, PageInv, TypeOK
  <2>2. QED
    BY <2>1
<1>2. ~ (\E p \in Process, n \in 1 .. MaxPages : GrowShort(p, n))
  BY DEF GrowShort, TakeRamShort
<1>3. ASSUME NEW p \in Process, NEW n \in 0 .. 1, MapAtBrk(p, freeRam, n)
      PROVE  freeRam # <<>>
  BY <1>3 DEF MapAtBrk
<1>4. ASSUME NEW p \in Process, NEW n \in Page, Accesses(p, n) \/ FaultFails(p, n)
      PROVE  freeRam # <<>>
  BY <1>4 DEF Accesses, PageHit, FaultEvict, TakeSlot, FaultFails, FaultNoVictim,
              FaultNoSwap, pagingVars
<1>5. ASSUME NEW p \in Process, NEW n \in Nat, NEW k \in Nat, MapDummy(p, n, k)
      PROVE  freeRam # <<>>
  BY <1>5 DEF MapDummy
<1>6. QED
  BY <1>1, <1>2, <1>3, <1>4, <1>5, WiderKinds

LEMMA WiderMapped ==
    ASSUME PageInv, MappedWhileFree, NextWithMemmap
    PROVE  MappedWhileFree'
<1> SUFFICES ASSUME freeRam' # <<>>
             PROVE  \A q \in Process, m \in Page : m < brk'[q] => pte'[q][Index(m)].present
  BY DEF MappedWhileFree, EntryOf
<1>1. freeRam # <<>>
  BY FreeRamShrinks
<1>2. CASE brk' = brk
  <2>1. \A m \in Page : Index(m) \in Slot
    BY IndexTyped, PagingAssumption DEF Page
  <2>2. QED
    BY <1>1, <1>2, <2>1, PresentStays DEF MappedWhileFree, EntryOf
<1>3. ASSUME NEW p \in Process, NEW n \in 1 .. MaxPages, Grow(p, n)
      PROVE  \A q \in Process, m \in Page : m < brk'[q] => pte'[q][Index(m)].present
  BY <1>1, <1>3, GrowMapped DEF MappedWhileFree, EntryOf
<1>4. ASSUME NEW p \in Process, NEW n \in 0 .. 1, MapAtBrk(p, freeRam, n)
      PROVE  \A q \in Process, m \in Page : m < brk'[q] => pte'[q][Index(m)].present
  <2>1. PICK i \in Slot, e \in Entries :
            i = Index(brk[p]) /\ pte' = [pte EXCEPT ![p][i] = e] /\ e.present
    BY <1>4, MapAtBrkMaps DEF PageInv, TypeOK
  <2>2. /\ brk \in [Process -> 0 .. MaxPages] /\ pte \in [Process -> [Slot -> Entries]]
        /\ brk' = [brk EXCEPT ![p] = @ + n] /\ n \in Nat /\ n <= 1
    BY <1>4 DEF MapAtBrk, PageInv, TypeOK
  <2>3. ASSUME NEW q \in Process, NEW m \in Page, m < brk'[q]
        PROVE  pte'[q][Index(m)].present
    <3>1. Index(m) \in Slot /\ m \in Nat
      BY IndexTyped, PagingAssumption DEF Page
    <3>2. CASE m < brk[q]
      BY <1>1, <3>1, <3>2, PresentStays DEF MappedWhileFree, EntryOf
    <3>3. CASE ~ (m < brk[q])
      <4>1. q = p /\ m = brk[p]
        BY <2>2, <2>3, <3>1, <3>3, PagingAssumption
      <4>2. QED
        BY <2>1, <2>2, <4>1
    <3>4. QED
      BY <3>2, <3>3
  <2>4. QED
    BY <2>3
<1>5. QED
  BY <1>2, <1>3, <1>4, WiderKinds DEF GrowShort, TakeRamShort, MapDummy, Accesses,
          FaultFails, FaultNoVictim, FaultNoSwap, pagingVars

(***************************************************************************)
(* While no page has been evicted: what MAP_OP writes is the only entry    *)
(* with the Swapped bit, and a frame on the list is as the device was      *)
(* made.  The entry MAP_OP writes must name no frame of RAM; it names      *)
(* frame 7919.                                                             *)
(***************************************************************************)
NoEviction == Len(freeSwap) = SwapFrames
OnlyDummies == \A p \in Process, i \in Slot : InSwap(p, i) => pte[p][i] = DummyPte
FreshFrames == \A f \in Elements(freeRam), o \in Offset : mem[f][o] = 0

QuietInv ==
    /\ PageInv
    /\ MappedWhileFree
    /\ Len(freeSwap) <= SwapFrames
    /\ NoEviction => RamOwned /\ OnlyDummies /\ FreshFrames

DummyOutside == Fpn(DummyPte) \notin Frame

LEMMA DummyFrame == Fpn(DummyPte) = 7919
BY SMT DEF Fpn, DummyPte, FpnRange

(* A page that is evicted is counted. *)
LEMMA EvictionsCounted ==
    ASSUME PageInv, MappedWhileFree, Len(freeSwap) <= SwapFrames, NextWithMemmap
    PROVE  /\ Len(freeSwap)' <= SwapFrames
           /\ NoEviction' => /\ NoEviction
                             /\ \A p \in Process, n \in Page : ~ FaultEvict(p, n)
<1>1. freeSwap \in Seq(SwapSlot) /\ SwapFrames \in Nat
  BY FramePoolAssumption DEF PageInv, TypeOK
<1>2. ASSUME NEW p \in Process, NEW n \in Page, FaultEvict(p, n)
      PROVE  Len(freeSwap)' <= SwapFrames /\ ~ NoEviction'
  <2>1. freeSwap # <<>> /\ freeSwap' = Tail(freeSwap)
    BY <1>2, EvictTakesHead
  <2>2. Len(freeSwap') = Len(freeSwap) - 1 /\ Len(freeSwap) \in Nat
    BY <1>1, <2>1
  <2>3. QED
    BY <1>1, <2>2 DEF NoEviction
<1>3. CASE UNCHANGED freeSwap
  BY <1>2, <1>3 DEF NoEviction
<1>4. QED
  BY <1>2, <1>3, WiderKinds DEF Grow, GrowShort, Accesses, PageHit, FaultFails,
          FaultNoVictim, FaultNoSwap, MapAtBrk, MapDummy, pagingVars

(* The steps that evict nothing. *)
LEMMA QuietKinds ==
    ASSUME PageInv, MappedWhileFree, Len(freeSwap) <= SwapFrames, NextWithMemmap,
           NoEviction'
    PROVE  /\ NoEviction
           /\ \/ \E p \in Process, n \in 1 .. MaxPages : Grow(p, n)
              \/ \E p \in Process, n \in 0 .. 1 : MapAtBrk(p, freeRam, n)
              \/ \E p \in Process, n \in Nat, k \in Nat : MapDummy(p, n, k)
              \/ \E p \in Process, n \in Page :
                    InArea(p, n) /\ PageHit(p, n) /\ Stores(p, n) /\ UNCHANGED brk
              \/ UNCHANGED <<pte, mem, written>> /\ (freeRam' = freeRam \/ freeRam' = <<>>)
<1>1. NoEviction /\ \A p \in Process, n \in Page : ~ FaultEvict(p, n)
  BY EvictionsCounted
<1>2. QED
  BY <1>1, WiderKinds DEF GrowShort, TakeRamShort, Accesses, PageHit, FaultFails,
          FaultNoVictim, FaultNoSwap, pagingVars

(* The frame an entry gets alone stays its own. *)
LEMMA RemapOneOwned ==
    ASSUME PageInv, RamOwned, NEW p \in Process, NEW i \in Slot, NEW f \in Frame,
           NEW e \in Entries, f = Head(freeRam), freeRam # <<>>, freeRam' = Tail(freeRam),
           pte' = [pte EXCEPT ![p][i] = e], Fpn(e) = f, ~ e.swapped
    PROVE  RamOwned' /\ Elements(freeRam') \subseteq Elements(freeRam)
<1>1. /\ NoRepeats(freeRam') /\ f \in Elements(freeRam)
      /\ Elements(freeRam') = Elements(freeRam) \ {f}
  BY TailOnce DEF PageInv, TypeOK, RamOwned
<1>2. /\ pte'[p][i] = e
      /\ \A q \in Process, j \in Slot : q # p \/ j # i => pte'[q][j] = pte[q][j]
  BY DEF PageInv, TypeOK
<1>3. \A q \in Process, j \in Slot :
          InRamNext(q, j) => Fpn(pte'[q][j]) \in Frame \ Elements(freeRam')
  BY <1>1, <1>2 DEF RamOwned, InRam, InRamNext
<1>4. \A q \in Process, j \in Slot :
          InRamNext(q, j) /\ (q # p \/ j # i) => Fpn(pte'[q][j]) # f
  BY <1>1, <1>2 DEF RamOwned, InRam, InRamNext
<1>5. \A q, r \in Process, j, k \in Slot :
          InRamNext(q, j) /\ InRamNext(r, k) /\ Fpn(pte'[q][j]) = Fpn(pte'[r][k])
          => q = r /\ j = k
  BY <1>2, <1>4 DEF RamOwned, InRam, InRamNext
<1>6. QED
  BY <1>1, <1>3, <1>5 DEF RamOwned, InRam, InRamNext, NoRepeats, Elements

(* A byte is stored in a frame that is not free and, outside its own entry, *)
(* backs no page.                                                          *)
LEMMA StoresAside ==
    ASSUME PageInv, RamOwned, OnlyDummies, DummyOutside, NEW p \in Process, NEW n \in Page,
           PageHit(p, n), Stores(p, n)
    PROVE  /\ InRam(p, Index(n)) /\ Index(n) \in Slot
           /\ \E f \in Frame \ Elements(freeRam), o \in Offset, v \in Value :
                  /\ f = Fpn(pte[p][Index(n)])
                  /\ mem' = [mem EXCEPT ![f][o] = v]
                  /\ written' = [written EXCEPT ![p][n][o] = v]
           /\ \A q \in Process, i \in Slot, o \in Offset :
                  InRam(q, i) /\ (q # p \/ i # Index(n)) =>
                      mem'[Fpn(pte[q][i])][o] = mem[Fpn(pte[q][i])][o]
<1>1. pte' = pte /\ pte[p][Index(n)].present /\ Index(n) \in Slot
  BY IndexTyped, PagingAssumption DEF PageHit, EntryOf, Page
<1>2. PICK f \in {Fpn(pte[p][Index(n)])} : TRUE
  OBVIOUS
<1>3. PICK o \in Offset, v \in Value :
          /\ f \in Frame
          /\ mem' = [mem EXCEPT ![f][o] = v]
          /\ written' = [written EXCEPT ![p][n][o] = v]
  <2>1. f = Fpn(pte'[p][Index(n)])
    BY <1>1, <1>2
  <2>2. QED
    BY <2>1 DEF Stores
<1>4. InRam(p, Index(n))
  BY <1>1, <1>2, <1>3 DEF OnlyDummies, DummyOutside, InRam, InSwap
<1>5. f \notin Elements(freeRam)
  BY <1>1, <1>2, <1>4 DEF RamOwned
<1>6. ASSUME NEW q \in Process, NEW i \in Slot, NEW u \in Offset,
             InRam(q, i), q # p \/ i # Index(n)
      PROVE  mem'[Fpn(pte[q][i])][u] = mem[Fpn(pte[q][i])][u]
  <2>1. PICK g \in Frame : g = Fpn(pte[q][i])
    BY <1>6 DEF RamOwned
  <2>2. g # f
    BY <1>1, <1>2, <1>4, <1>6, <2>1 DEF RamOwned
  <2>3. mem'[g] = mem[g]
    BY <1>3, <2>2 DEF PageInv, TypeOK
  <2>4. QED
    BY <2>1, <2>3
<1>7. QED
  BY <1>1, <1>2, <1>3, <1>4, <1>5, <1>6

LEMMA WiderQuiet ==
    ASSUME DummyOutside, QuietInv, [NextWithMemmap]_pagingVars
    PROVE  QuietInv'
<1>1. CASE UNCHANGED pagingVars
  BY <1>1, WiderTyped DEF pagingVars, QuietInv, MappedWhileFree, EntryOf, NoEviction,
          RamOwned, NoRepeats, Elements, InRam, InSwap, OnlyDummies, FreshFrames
<1>2. CASE NextWithMemmap
  <2>1. PageInv' /\ MappedWhileFree' /\ Len(freeSwap)' <= SwapFrames
    BY <1>2, WiderTyped, WiderMapped, EvictionsCounted DEF QuietInv
  <2> SUFFICES ASSUME NoEviction' PROVE RamOwned' /\ OnlyDummies' /\ FreshFrames'
    BY <2>1 DEF QuietInv
  <2>2. PageInv /\ MappedWhileFree /\ NoEviction /\ RamOwned /\ OnlyDummies /\ FreshFrames
    BY <1>2, QuietKinds DEF QuietInv
  <2>3. ASSUME Elements(freeRam') \subseteq Elements(freeRam), mem' = mem
        PROVE  FreshFrames'
    BY <2>2, <2>3 DEF FreshFrames, Elements
  <2>4. ASSUME NEW p \in Process, NEW n \in 1 .. MaxPages, Grow(p, n)
        PROVE  RamOwned' /\ OnlyDummies' /\ FreshFrames'
    <3>1. RamOwned'
      BY <2>2, <2>4, GrowRamOwned
    <3>2. OnlyDummies'
      BY <2>2, <2>4, GrowMaps DEF OnlyDummies, InSwap, InRamNext
    <3>3. freeRam \in Seq(Frame) /\ n \in Nat /\ n <= Len(freeRam)
          /\ freeRam' = SubSeq(freeRam, n + 1, Len(freeRam)) /\ mem' = mem
      BY <2>2, <2>4, PagingAssumption DEF Grow, TakeRam, PageInv, TypeOK
    <3>4. \A j \in DOMAIN freeRam' : n + j \in DOMAIN freeRam /\ freeRam'[j] = freeRam[n + j]
      <4>1. /\ freeRam' \in Seq(Frame) /\ Len(freeRam') = Len(freeRam) - n
            /\ \A j \in 1 .. Len(freeRam') : freeRam'[j] = freeRam[n + j]
        BY <3>3, DropFirst
      <4>2. QED
        BY <3>3, <4>1
    <3>5. Elements(freeRam') \subseteq Elements(freeRam)
      BY <3>4 DEF Elements
    <3>6. QED
      BY <2>3, <3>1, <3>2, <3>3, <3>5
  <2>5. ASSUME NEW p \in Process, NEW n \in 0 .. 1, MapAtBrk(p, freeRam, n)
        PROVE  RamOwned' /\ OnlyDummies' /\ FreshFrames'
    <3>1. PICK i \in Slot, f \in Frame, e \in Entries :
              /\ f = Head(freeRam) /\ freeRam # <<>> /\ freeRam' = Tail(freeRam)
              /\ pte' = [pte EXCEPT ![p][i] = e]
              /\ Fpn(e) = f /\ e.present /\ ~ e.swapped
      BY <2>2, <2>5, MapAtBrkMaps DEF PageInv, TypeOK
    <3>2. RamOwned' /\ Elements(freeRam') \subseteq Elements(freeRam)
      BY <2>2, <3>1, RemapOneOwned
    <3>3. OnlyDummies'
      BY <2>2, <3>1 DEF OnlyDummies, InSwap, PageInv, TypeOK
    <3>4. mem' = mem
      BY <2>5 DEF MapAtBrk
    <3>5. QED
      BY <2>3, <3>2, <3>3, <3>4
  <2>6. ASSUME NEW p \in Process, NEW n \in Nat, NEW k \in Nat, MapDummy(p, n, k)
        PROVE  RamOwned' /\ OnlyDummies' /\ FreshFrames'
    <3>1. \A q \in Process, i \in Slot : pte'[q][i] = pte[q][i] \/ pte'[q][i] = DummyPte
      BY <2>2, <2>6, MapDummyMaps
    <3>2. OnlyDummies'
      BY <2>2, <3>1 DEF OnlyDummies, InSwap
    <3>3. \A q \in Process, i \in Slot : InRamNext(q, i) => InRam(q, i) /\ pte'[q][i] = pte[q][i]
      BY <3>1 DEF InRam, InRamNext, DummyPte
    <3>4. mem' = mem /\ freeRam' = freeRam
      BY <2>6 DEF MapDummy
    <3>5. RamOwned'
      BY <2>2, <3>3, <3>4 DEF RamOwned, InRam, InRamNext, NoRepeats, Elements
    <3>6. QED
      BY <2>3, <3>2, <3>4, <3>5
  <2>7. ASSUME NEW p \in Process, NEW n \in Page, PageHit(p, n), Stores(p, n)
        PROVE  RamOwned' /\ OnlyDummies' /\ FreshFrames'
    <3>1. pte' = pte /\ freeRam' = freeRam
      BY <2>7 DEF PageHit
    <3>2. RamOwned' /\ OnlyDummies'
      BY <2>2, <3>1 DEF RamOwned, OnlyDummies, InRam, InSwap, NoRepeats, Elements
    <3>3. PICK f \in Frame \ Elements(freeRam), o \in Offset, v \in Value :
              mem' = [mem EXCEPT ![f][o] = v]
      BY <2>2, <2>7, StoresAside
    <3>4. \A g \in Elements(freeRam) : mem'[g] = mem[g]
      <4>1. \A g \in Elements(freeRam) : g \in Frame
        BY <2>2 DEF Elements, PageInv, TypeOK
      <4>2. QED
        BY <2>2, <3>3, <4>1 DEF PageInv, TypeOK
    <3>5. FreshFrames'
      BY <2>2, <3>1, <3>4 DEF FreshFrames, Elements
    <3>6. QED
      BY <3>2, <3>5
  <2>8. ASSUME UNCHANGED <<pte, mem>>, freeRam' = freeRam \/ freeRam' = <<>>
        PROVE  RamOwned' /\ OnlyDummies' /\ FreshFrames'
    <3>1. NoRepeats(freeRam') /\ Elements(freeRam') \subseteq Elements(freeRam)
      BY <2>2, <2>8 DEF RamOwned, NoRepeats, Elements
    <3>2. \A p \in Process, i \in Slot : InRamNext(p, i) <=> InRam(p, i)
      BY <2>8 DEF InRam, InRamNext
    <3>3. RamOwned' /\ OnlyDummies'
      BY <2>2, <2>8, <3>1, <3>2 DEF RamOwned, InRam, InRamNext, InSwap, OnlyDummies,
                                    NoRepeats, Elements
    <3>4. QED
      BY <2>3, <2>8, <3>1, <3>3
  <2>9. QED
    BY <1>2, <2>2, <2>4, <2>5, <2>6, <2>7, <2>8, QuietKinds DEF QuietInv
<1>3. QED
  BY <1>1, <1>2

LEMMA StartsQuiet == Init => QuietInv
<1> SUFFICES ASSUME Init PROVE QuietInv
  OBVIOUS
<1>1. PageInv /\ MappedWhileFree /\ RamOwned
  BY StartsIsolation, StartsTyped, StartsAccounted, EmptyOwnsNothing
     DEF IsolationInv, AccountInv, NoneOut, Init, InSwap
<1>2. Len(freeSwap) <= SwapFrames
  BY FramePoolAssumption DEF Init, ListsInit
<1>3. OnlyDummies
  BY EmptyOwnsNothing DEF Init, OnlyDummies, InSwap
<1>4. FreshFrames
  <2>1. \A f \in Elements(freeRam) : f \in Frame
    BY <1>1 DEF PageInv, TypeOK, Elements
  <2>2. QED
    BY <2>1 DEF Init, FreshFrames
<1>5. QED
  BY <1>1, <1>2, <1>3, <1>4 DEF QuietInv
=============================================================================

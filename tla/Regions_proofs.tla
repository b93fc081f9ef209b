--------------------------- MODULE Regions_proofs ---------------------------
(***************************************************************************)
(* Proofs about Regions.  The break is page-aligned, whatever sizes are    *)
(* asked for.  If Narrow holds (every size and the break below 2^31), no   *)
(* byte belongs to two regions, for any page size, any such sizes and any  *)
(* number of region ids.                                                   *)
(***************************************************************************)
EXTENDS Regions, Integers, TLAPS

(* The widths, as numbers. *)
LEMMA Widths ==
    /\ PageSize \in Nat \ {0} /\ IntRange \in Nat \ {0} /\ AddrRange \in Nat \ {0}
    /\ 2 * IntRange <= AddrRange
    /\ IntRange \div 2 \in Nat /\ (IntRange \div 2) + (IntRange \div 2) <= IntRange
    /\ PageSize <= IntRange \div 2
    /\ 0 \in Addr /\ Size \subseteq Addr
  <1>1. IntRange \in Nat /\ AddrRange \in Nat /\ 2 * IntRange <= AddrRange
        /\ PageSize \in Nat \ {0} /\ PageSize <= IntRange \div 2
    BY RegionsAssumption
  <1>2. IntRange \div 2 \in Nat /\ (IntRange \div 2) + (IntRange \div 2) <= IntRange
    BY <1>1, SMT
  <1>3. IntRange # 0 /\ AddrRange # 0
    BY <1>1, <1>2
  <1>4. 0 \in Addr /\ Size \subseteq Addr
    BY <1>1, <1>3, RegionsAssumption DEF Addr
  <1> QED
    BY <1>1, <1>2, <1>3, <1>4

(* Addition stays among the addresses, and below 2^64 it is addition. *)
LEMMA PlusTyped ==
    ASSUME NEW a \in Nat, NEW b \in Nat
    PROVE  /\ Plus(a, b) \in Addr
           /\ a + b < AddrRange => Plus(a, b) = a + b
  <1>1. a + b \in Nat /\ AddrRange \in Nat \ {0}
    BY Widths
  <1>2. (a + b) % AddrRange \in 0 .. AddrRange - 1
        /\ (a + b < AddrRange => (a + b) % AddrRange = a + b)
    BY <1>1, SMT
  <1> QED
    BY <1>2 DEF Plus, Addr

(* A small number survives the conversion. *)
LEMMA AsIntTyped ==
    ASSUME NEW n \in Nat
    PROVE  /\ AsInt(n) \in Addr
           /\ n < IntRange \div 2 => AsInt(n) = n
  <1>1. /\ IntRange \in Nat \ {0} /\ AddrRange \in Nat /\ IntRange <= AddrRange
        /\ IntRange \div 2 \in Nat /\ IntRange \div 2 <= IntRange
    BY Widths
  <1>2. PICK low \in 0 .. IntRange - 1 : low = n % IntRange
    BY <1>1, SMT
  <1>3. AsInt(n) = IF low < IntRange \div 2 THEN low ELSE low + (AddrRange - IntRange)
    BY <1>2 DEF AsInt
  <1>4. AsInt(n) \in 0 .. AddrRange - 1
    BY <1>1, <1>3
  <1>5. n < IntRange => low = n
    BY <1>1, <1>2, SMT
  <1> QED
    BY <1>1, <1>3, <1>4, <1>5 DEF Addr

LEMMA EndTyped ==
    ASSUME NEW start \in Addr, NEW size \in Addr
    PROVE  EndFrom(start, size) \in Addr
  <1>1. start \in Nat /\ size \in Nat
    BY Widths DEF Addr
  <1>2. AsInt(size) \in Nat
    BY <1>1, AsIntTyped, Widths DEF Addr
  <1> QED
    BY <1>1, <1>2, PlusTyped DEF EndFrom

(* The end of a region of moderate size is where one expects it. *)
LEMMA EndExact ==
    ASSUME Narrow, NEW start \in Nat, NEW size \in Size, start < IntRange \div 2
    PROVE  EndFrom(start, size) = start + size
  <1>1. size \in Nat /\ size < IntRange \div 2
    BY Widths DEF Narrow, Addr
  <1>2. start + size < AddrRange
    BY <1>1, Widths
  <1> QED
    BY <1>1, <1>2, AsIntTyped, PlusTyped DEF EndFrom

(* A number that is a multiple stays one when 2^64, a multiple itself, is  *)
(* taken away from it.                                                     *)
LEMMA MultipleWraps ==
    ASSUME NEW m \in Nat
    PROVE  \E k \in Nat : (m * PageSize) % AddrRange = k * PageSize
  <1>1. PageSize \in Nat \ {0} /\ AddrRange \in Nat \ {0}
    BY Widths
  <1> DEFINE c == AddrRange \div PageSize
             n == m * PageSize
             q == n \div AddrRange
  <1>2. c \in Nat /\ AddrRange = c * PageSize
    BY <1>1, RegionsAssumption, SMT
  <1>3. n \in Nat
    BY <1>1
  <1>4. q \in Nat /\ n % AddrRange \in Nat /\ n % AddrRange = n - (AddrRange * q)
    <2> HIDE DEF n
    <2> QED
      BY <1>1, <1>3, SMT
  <1> HIDE DEF c, q
  <1>5. n % AddrRange = (m - (c * q)) * PageSize
    BY <1>1, <1>2, <1>4, SMT
  <1>6. m - (c * q) \in Int
    BY <1>2, <1>4
  <1>7. m - (c * q) >= 0
    <2> DEFINE d == m - (c * q)
    <2>1. d \in Int /\ d * PageSize >= 0
      BY <1>4, <1>5, <1>6
    <2> HIDE DEF d
    <2>2. d >= 0
      BY <1>1, <2>1, SMT
    <2> QED
      BY <2>2 DEF d
  <1> QED
    BY <1>5, <1>6, <1>7

(* The alignment macro rounds up to a whole number of pages, unless the    *)
(* size is so near 2^64 that it wraps around.                              *)
LEMMA AlignedUp ==
    ASSUME NEW size \in Addr
    PROVE  /\ \E k \in Nat : Aligned(size) = k * PageSize
           /\ size < IntRange \div 2 => Aligned(size) \in size .. size + (PageSize - 1)
  <1> DEFINE x == Plus(size, PageSize - 1)
             k == x \div PageSize
  <1>1. size \in Nat /\ PageSize \in Nat /\ PageSize > 0 /\ PageSize - 1 \in Nat
    BY Widths DEF Addr
  <1>2. x \in Nat /\ (size + (PageSize - 1) < AddrRange => x = size + (PageSize - 1))
    BY <1>1, PlusTyped, Widths DEF Addr
  <1> HIDE DEF x
  <1>3. k \in Nat /\ x % PageSize \in 0 .. PageSize - 1
        /\ x = (PageSize * k) + (x % PageSize)
    BY <1>1, <1>2, SMT
  <1>4. Aligned(size) = k * PageSize
    BY DEF Aligned, x
  <1> HIDE DEF k
  <1>5. k * PageSize = PageSize * k /\ k * PageSize \in Nat
    BY <1>1, <1>3
  <1>6. k * PageSize \in x - (PageSize - 1) .. x
    BY <1>1, <1>2, <1>3, <1>5
  <1>7. size < IntRange \div 2 => x = size + (PageSize - 1)
    BY <1>1, <1>2, Widths
  <1> QED
    BY <1>1, <1>2, <1>3, <1>4, <1>5, <1>6, <1>7

(* What is disjoint from a region is disjoint from every part of it. *)
LEMMA PartApart ==
    ASSUME NEW g \in Region, NEW part \in Region, NEW other \in Region,
           Disjoint(g, other),
           g.rg_start <= part.rg_start,
           part.rg_start <= part.rg_end,
           part.rg_end <= g.rg_end
    PROVE  Disjoint(part, other)
  BY DEF Disjoint, Region, Addr

LEMMA DisjointSymmetric ==
    ASSUME NEW a, NEW b, Disjoint(a, b)
    PROVE  Disjoint(b, a)
  BY DEF Disjoint

-----------------------------------------------------------------------------
LEMMA RegionInit == Init => TypeOK /\ RegionsSound
  <1> SUFFICES ASSUME Init PROVE TypeOK /\ RegionsSound
    OBVIOUS
  <1>1. NoRegion \in Region /\ NoRegion.rg_start = 0 /\ NoRegion.rg_end = 0
    BY Widths DEF NoRegion, Rg, Region
  <1>2. sbrk = 0 * PageSize
    BY RegionsAssumption DEF Init
  <1>3. TypeOK
    BY <1>1, <1>2, RegionsAssumption DEF Init, TypeOK
  <1> QED
    BY <1>1, <1>3
       DEF Init, RegionsSound, LiveApart, FreeApart, LiveAndFreeApart, AllInBrk, LiveInBrk,
           FreeInBrk, InBrk, Disjoint

(* The break, as a number. *)
LEMMA BreakNat == TypeOK => sbrk \in Nat
  BY RegionsAssumption DEF TypeOK

(* What get_free_vmrg_area leaves of the list: each node of the new list   *)
(* is a node of the old one, the carved one without its front, and no two  *)
(* come from the same node.                                                *)
LEMMA CarvedFrom ==
    ASSUME TypeOK, NEW i \in DOMAIN freerg, NEW size \in Addr, Fits(freerg[i], size)
    PROVE  LET left == Rg(EndFrom(freerg[i].rg_start, size), freerg[i].rg_end)
           IN  /\ left \in Region
               /\ Carved(i, size) \in Seq(Region)
               /\ \E old \in [DOMAIN Carved(i, size) -> DOMAIN freerg] :
                     /\ \A m, n \in DOMAIN Carved(i, size) :
                           old[m] = old[n] => m = n
                     /\ \A m \in DOMAIN Carved(i, size) :
                           Carved(i, size)[m] =
                             IF old[m] = i THEN left ELSE freerg[old[m]]
  <1> DEFINE left == Rg(EndFrom(freerg[i].rg_start, size), freerg[i].rg_end)
             keeps == left.rg_start < left.rg_end \/ i = Len(freerg)
             rest == Carved(i, size)
             old == [m \in DOMAIN rest |-> IF keeps \/ m < i THEN m ELSE m + 1]
  <1>1. freerg \in Seq(Region) /\ freerg[i] \in Region
    BY DEF TypeOK
  <1>2. left \in Region
    BY <1>1, EndTyped DEF Rg, Region
  <1>3. rest = IF keeps THEN [freerg EXCEPT ![i] = left] ELSE WithoutNode(freerg, i)
    BY DEF Carved, Rg
  <1> HIDE DEF left
  <1>4. CASE keeps
    <2>1. rest \in Seq(Region) /\ DOMAIN rest = DOMAIN freerg
      BY <1>1, <1>2, <1>3, <1>4
    <2>2. old \in [DOMAIN rest -> DOMAIN freerg]
          /\ \A m \in DOMAIN rest : old[m] = m
      BY <1>4, <2>1
    <2>3. \A m \in DOMAIN rest : rest[m] = IF old[m] = i THEN left ELSE freerg[old[m]]
      BY <1>1, <1>3, <1>4, <2>1, <2>2
    <2> HIDE DEF old, rest
    <2> QED
      BY <1>2, <2>1, <2>2, <2>3 DEF left, rest
  <1>5. CASE ~ keeps
    <2>1. Len(freerg) \in Nat /\ i \in 1 .. Len(freerg) - 1
          /\ DOMAIN freerg = 1 .. Len(freerg)
      BY <1>1, <1>5
    <2>2. rest = [j \in 1 .. Len(freerg) - 1 |-> IF j < i THEN freerg[j] ELSE freerg[j + 1]]
      BY <1>3, <1>5 DEF WithoutNode
    <2>3. DOMAIN rest = 1 .. Len(freerg) - 1
      BY <2>2
    <2>4. rest \in Seq(Region)
      BY <1>1, <2>1, <2>2
    <2>5. old \in [DOMAIN rest -> DOMAIN freerg]
          /\ \A m \in DOMAIN rest : old[m] = IF m < i THEN m ELSE m + 1
      BY <1>5, <2>1, <2>3
    <2>6. \A m \in DOMAIN rest : old[m] # i /\ rest[m] = freerg[old[m]]
      BY <2>1, <2>2, <2>3, <2>5
    <2>7. \A m, n \in DOMAIN rest : old[m] = old[n] => m = n
      BY <2>1, <2>3, <2>5
    <2> HIDE DEF old, rest
    <2> QED
      BY <1>2, <2>4, <2>5, <2>6, <2>7 DEF left, rest
  <1> QED
    BY <1>4, <1>5

(* A growth of moderate size does not wrap around. *)
LEMMA NarrowGrowth ==
    ASSUME Narrow, NEW size \in Size, NEW at \in Nat, at < IntRange \div 2
    PROVE  Aligned(size) \in Nat /\ Plus(at, Aligned(size)) = at + Aligned(size)
  <1>1. size \in Nat /\ size < IntRange \div 2 /\ size \in Addr
    BY Widths DEF Narrow, Addr
  <1>2. PageSize \in Nat \ {0}
    BY Widths
  <1>3. Aligned(size) \in Nat /\ Aligned(size) <= size + (PageSize - 1)
    BY <1>1, <1>2, AlignedUp
  <1>4. at + Aligned(size) < AddrRange
    BY <1>1, <1>3, Widths
  <1> QED
    BY <1>3, <1>4, PlusTyped

(* An allocation changes the tables to regions, whatever the size. *)
LEMMA AllocFromListTyped ==
    ASSUME TypeOK, NEW r \in Rgid, NEW size \in Addr, AllocFromList(r, size)
    PROVE  TypeOK'
  <1>1. PICK i \in DOMAIN freerg :
           /\ FirstFit(i, size)
           /\ symrgtbl' = [symrgtbl EXCEPT
                 ![r] = Rg(freerg[i].rg_start, EndFrom(freerg[i].rg_start, size))]
           /\ freerg' = Carved(i, size)
           /\ sbrk' = sbrk
    BY DEF AllocFromList
  <1>2. freerg[i] \in Region /\ Fits(freerg[i], size)
    BY <1>1 DEF TypeOK, FirstFit
  <1>3. Rg(freerg[i].rg_start, EndFrom(freerg[i].rg_start, size)) \in Region
    BY <1>2, EndTyped DEF Rg, Region
  <1>4. freerg' \in Seq(Region)
    BY <1>1, <1>2, CarvedFrom
  <1>5. symrgtbl' \in [Rgid -> Region]
    BY <1>1, <1>3 DEF TypeOK
  <1> QED
    BY <1>1, <1>4, <1>5 DEF TypeOK

LEMMA AllocAtBrkTyped ==
    ASSUME TypeOK, NEW r \in Rgid, NEW size \in Addr, AllocAtBrk(r, size)
    PROVE  TypeOK'
  <1>1. /\ symrgtbl' = [symrgtbl EXCEPT ![r] = Rg(AsInt(sbrk), Plus(AsInt(sbrk), size))]
        /\ sbrk' = Plus(sbrk, Aligned(size))
        /\ sbrk' \in 1 .. MaxBrk
        /\ freerg' = freerg
    BY DEF AllocAtBrk
  <1>2. sbrk \in Nat /\ size \in Nat
    BY BreakNat, Widths DEF Addr
  <1>3. AsInt(sbrk) \in Addr /\ AsInt(sbrk) \in Nat
    BY <1>2, AsIntTyped, Widths DEF Addr
  <1>4. Plus(AsInt(sbrk), size) \in Addr
    BY <1>2, <1>3, PlusTyped
  <1>5. symrgtbl' \in [Rgid -> Region]
    BY <1>1, <1>3, <1>4 DEF Rg, Region, TypeOK
  <1>6. PICK j \in 0 .. MaxBrk : sbrk = j * PageSize
    BY DEF TypeOK
  <1>7. PICK k \in Nat : Aligned(size) = k * PageSize
    BY AlignedUp
  <1>8. PageSize \in Nat /\ PageSize >= 1 /\ MaxBrk \in Nat
    BY RegionsAssumption
  <1>9. sbrk + Aligned(size) = (j + k) * PageSize /\ j + k \in Nat
    <2>1. j \in Nat
      BY <1>8
    <2> QED
      BY <1>6, <1>7, <1>8, <2>1
  <1>10. PICK m \in Nat : sbrk' = m * PageSize
    BY <1>1, <1>9, MultipleWraps DEF Plus
  <1>11. m <= m * PageSize
    BY <1>8
  <1>12. m \in 0 .. MaxBrk
    BY <1>1, <1>8, <1>10, <1>11
  <1> QED
    BY <1>1, <1>5, <1>10, <1>12 DEF TypeOK

LEMMA FreeTyped ==
    ASSUME TypeOK, NEW r \in Rgid, Free(r)
    PROVE  TypeOK'
  <1>1. NoRegion \in Region /\ symrgtbl[r] \in Region
    BY Widths DEF NoRegion, Rg, Region, TypeOK
  <1>2. Enlist(symrgtbl[r]) \in Seq(Region)
    BY <1>1 DEF Enlist, TypeOK
  <1> QED
    BY <1>1, <1>2 DEF Free, TypeOK

LEMMA TypeInductive == TypeOK /\ [Next]_vars => TypeOK'
  <1> SUFFICES ASSUME TypeOK, [Next]_vars
               PROVE  TypeOK'
    OBVIOUS
  <1>1. ASSUME NEW r \in Rgid, NEW size \in Size, AllocFromList(r, size) \/ AllocAtBrk(r, size)
        PROVE  TypeOK'
    BY <1>1, AllocFromListTyped, AllocAtBrkTyped, Widths
  <1>2. CASE UNCHANGED vars
    BY <1>2 DEF vars, TypeOK
  <1> QED
    BY <1>1, <1>2, FreeTyped DEF Next

(* For any page size and region ids, and any sizes up to 2^64, the break   *)
(* stays a whole number of pages, so growth never maps a page of an        *)
(* earlier allocation again for want of alignment.                         *)
THEOREM RegionsTyped == Spec => []TypeOK
  BY RegionInit, TypeInductive, PTL DEF Spec

-----------------------------------------------------------------------------
(***************************************************************************)
(* If no conversion to int changes a number, the type invariant and        *)
(* RegionsSound are inductive together: a region carved from a free one is *)
(* apart from the rest because the free one was, and a region at the break *)
(* is apart because all the others end below it.                           *)
(***************************************************************************)
RegionInv == TypeOK /\ RegionsSound

LEMMA AllocFromListSound ==
    ASSUME Narrow, RegionInv, NEW r \in Rgid, NEW size \in Size, AllocFromList(r, size)
    PROVE  RegionInv'
  <1>1. PICK i \in DOMAIN freerg :
           /\ FirstFit(i, size)
           /\ symrgtbl' = [symrgtbl EXCEPT
                 ![r] = Rg(freerg[i].rg_start, EndFrom(freerg[i].rg_start, size))]
           /\ freerg' = Carved(i, size)
           /\ sbrk' = sbrk
    BY DEF AllocFromList
  <1> DEFINE g == freerg[i]
             mid == EndFrom(g.rg_start, size)
             got == Rg(g.rg_start, mid)
             left == Rg(mid, g.rg_end)
  <1>2. TypeOK /\ sbrk \in Nat /\ sbrk < IntRange \div 2 /\ size \in Addr /\ size \in Nat
    BY BreakNat, Widths, RegionsAssumption DEF RegionInv, TypeOK, Narrow, Addr
  <1>3. Fits(g, size)
    BY <1>1 DEF FirstFit
  <1>4. g \in Region
    BY <1>1, <1>2 DEF TypeOK
  <1>0. g.rg_start \in Nat /\ g.rg_start <= g.rg_end /\ g.rg_end <= sbrk
    BY <1>1, <1>4, Widths DEF RegionInv, RegionsSound, AllInBrk, FreeInBrk, InBrk, Region, Addr
  <1>m. mid = g.rg_start + size /\ mid \in Addr
    BY <1>0, <1>2, <1>4, EndExact, EndTyped, Widths DEF Region, Addr
  <1>5. /\ got \in Region /\ left \in Region
        /\ got.rg_start = g.rg_start /\ got.rg_end = g.rg_start + size
        /\ left.rg_start = g.rg_start + size /\ left.rg_end = g.rg_end
        /\ g.rg_start + size <= g.rg_end
    BY <1>3, <1>4, <1>m DEF Rg, Region, Fits
  <1>6. /\ freerg' \in Seq(Region)
        /\ \E old \in [DOMAIN freerg' -> DOMAIN freerg] :
              /\ \A m, n \in DOMAIN freerg' : old[m] = old[n] => m = n
              /\ \A m \in DOMAIN freerg' :
                    freerg'[m] = IF old[m] = i THEN left ELSE freerg[old[m]]
    BY <1>1, <1>2, <1>3, CarvedFrom
  <1>7. PICK old \in [DOMAIN freerg' -> DOMAIN freerg] :
           /\ \A m, n \in DOMAIN freerg' : old[m] = old[n] => m = n
           /\ \A m \in DOMAIN freerg' :
                 freerg'[m] = IF old[m] = i THEN left ELSE freerg[old[m]]
    BY <1>6
  <1>8. /\ symrgtbl' \in [Rgid -> Region]
        /\ \A q \in Rgid : symrgtbl'[q] = IF q = r THEN got ELSE symrgtbl[q]
    BY <1>1, <1>2, <1>5 DEF TypeOK
  <1>9. /\ \A q \in Rgid : symrgtbl[q] \in Region
        /\ \A m \in DOMAIN freerg : freerg[m] \in Region
    BY <1>2 DEF TypeOK
  <1>10. TypeOK'
    BY <1>1, <1>2, <1>6, <1>8 DEF TypeOK
  <1> HIDE DEF got, left, mid
  <1>11. \A x \in Region : Disjoint(g, x) => Disjoint(got, x) /\ Disjoint(left, x)
    BY <1>2, <1>4, <1>5, PartApart DEF Region, Addr
  <1>12. Disjoint(got, left)
    BY <1>2, <1>4, <1>5 DEF Disjoint, Region, Addr
  <1>13. LiveApart'
    <2>1. \A q \in Rgid : Disjoint(got, symrgtbl[q]) /\ Disjoint(symrgtbl[q], got)
      BY <1>1, <1>9, <1>11, DisjointSymmetric
         DEF RegionInv, RegionsSound, LiveAndFreeApart
    <2> QED
      BY <1>8, <2>1 DEF RegionInv, RegionsSound, LiveApart
  <1>14. \A m \in DOMAIN freerg : m # i =>
            /\ Disjoint(got, freerg[m])
            /\ Disjoint(left, freerg[m]) /\ Disjoint(freerg[m], left)
    BY <1>1, <1>9, <1>11, DisjointSymmetric DEF RegionInv, RegionsSound, FreeApart
  <1>15. FreeApart'
    BY <1>7, <1>14 DEF RegionInv, RegionsSound, FreeApart
  <1>16. LiveAndFreeApart'
    <2>1. \A q \in Rgid : Disjoint(symrgtbl[q], left)
      BY <1>1, <1>9, <1>11, DisjointSymmetric
         DEF RegionInv, RegionsSound, LiveAndFreeApart
    <2> QED
      BY <1>7, <1>8, <1>12, <1>14, <2>1 DEF RegionInv, RegionsSound, LiveAndFreeApart
  <1>17. AllInBrk'
    <2>1. InBrk(g)
      BY <1>1 DEF RegionInv, RegionsSound, AllInBrk, FreeInBrk
    <2>2. InBrk(got) /\ InBrk(left)
      BY <1>2, <1>4, <1>5, <2>1 DEF InBrk, Region, Addr
    <2>3. \A x : InBrk(x) => InBrk(x)'
      BY <1>1 DEF InBrk
    <2> QED
      BY <1>1, <1>7, <1>8, <2>2 DEF RegionInv, RegionsSound, AllInBrk, LiveInBrk, FreeInBrk, InBrk
  <1> QED
    BY <1>10, <1>13, <1>15, <1>16, <1>17 DEF RegionInv, RegionsSound

LEMMA AllocAtBrkSound ==
    ASSUME Narrow, RegionInv, NEW r \in Rgid, NEW size \in Size, AllocAtBrk(r, size)
    PROVE  RegionInv'
  <1> DEFINE got == Rg(AsInt(sbrk), Plus(AsInt(sbrk), size))
  <1>1. /\ symrgtbl' = [symrgtbl EXCEPT ![r] = got]
        /\ sbrk' = Plus(sbrk, Aligned(size))
        /\ freerg' = freerg
    BY DEF AllocAtBrk
  <1>2. /\ TypeOK /\ sbrk \in Nat /\ sbrk < IntRange \div 2
        /\ size \in Addr /\ size \in Nat /\ size < IntRange \div 2
    BY BreakNat, Widths, RegionsAssumption DEF RegionInv, TypeOK, Narrow, Addr
  <1>3. AsInt(sbrk) = sbrk /\ Plus(sbrk, size) = sbrk + size /\ Plus(sbrk, size) \in Addr
    BY <1>2, AsIntTyped, PlusTyped, Widths
  <1>4. got \in Region /\ got.rg_start = sbrk /\ got.rg_end = sbrk + size
    <2>1. sbrk \in Addr
      BY <1>2, Widths DEF Addr
    <2> QED
      BY <1>3, <2>1 DEF Rg, Region
  <1> HIDE DEF got
  <1>5. sbrk' = sbrk + Aligned(size) /\ Aligned(size) >= size /\ Aligned(size) \in Nat
    BY <1>1, <1>2, NarrowGrowth, AlignedUp
  <1>6. /\ symrgtbl' \in [Rgid -> Region]
        /\ \A q \in Rgid : symrgtbl'[q] = IF q = r THEN got ELSE symrgtbl[q]
    BY <1>1, <1>2, <1>4 DEF TypeOK
  <1>7. TypeOK'
    BY <1>2, AllocAtBrkTyped
  <1>8. \A x \in Region : InBrk(x) => Disjoint(x, got) /\ Disjoint(got, x) /\ InBrk(x)'
    BY <1>2, <1>4, <1>5, Widths DEF InBrk, Disjoint, Region, Addr
  <1>9. \A q \in Rgid : symrgtbl[q] \in Region /\ InBrk(symrgtbl[q])
    BY <1>2 DEF TypeOK, RegionInv, RegionsSound, AllInBrk, LiveInBrk
  <1>10. \A m \in DOMAIN freerg : freerg[m] \in Region /\ InBrk(freerg[m])
    BY <1>2 DEF TypeOK, RegionInv, RegionsSound, AllInBrk, FreeInBrk
  <1>11. LiveApart'
    BY <1>6, <1>8, <1>9 DEF RegionInv, RegionsSound, LiveApart
  <1>12. FreeApart'
    BY <1>1 DEF RegionInv, RegionsSound, FreeApart, Disjoint
  <1>13. LiveAndFreeApart'
    BY <1>1, <1>6, <1>8, <1>10 DEF RegionInv, RegionsSound, LiveAndFreeApart
  <1>14. AllInBrk'
    <2>1. got.rg_start <= got.rg_end /\ got.rg_end <= sbrk'
      BY <1>2, <1>4, <1>5
    <2> QED
      BY <1>1, <1>6, <1>8, <1>9, <1>10, <2>1 DEF AllInBrk, LiveInBrk, FreeInBrk, InBrk
  <1> QED
    BY <1>7, <1>11, <1>12, <1>13, <1>14 DEF RegionInv, RegionsSound

LEMMA FreeSound ==
    ASSUME RegionInv, NEW r \in Rgid, Free(r)
    PROVE  RegionInv'
  <1> DEFINE g == symrgtbl[r]
             put == g.rg_start < g.rg_end
  <1>1. /\ freerg' = IF put THEN <<g>> \o freerg ELSE freerg
        /\ symrgtbl' = [symrgtbl EXCEPT ![r] = NoRegion]
        /\ sbrk' = sbrk
    BY DEF Free, Enlist
  <1>2. TypeOK
    BY DEF RegionInv
  <1>3. /\ NoRegion \in Region
        /\ NoRegion.rg_start = 0 /\ NoRegion.rg_end = 0
    BY Widths DEF NoRegion, Rg, Region
  <1>4. g \in Region /\ freerg \in Seq(Region)
    BY <1>2 DEF TypeOK
  <1>5. /\ symrgtbl' \in [Rgid -> Region]
        /\ \A q \in Rgid : symrgtbl'[q] = IF q = r THEN NoRegion ELSE symrgtbl[q]
    BY <1>1, <1>2, <1>3 DEF TypeOK
  <1>7. PICK old \in [DOMAIN freerg' -> Nat] :
           /\ \A m, n \in DOMAIN freerg' : old[m] = old[n] => m = n
           /\ \A m \in DOMAIN freerg' :
                 /\ old[m] = 0 \/ old[m] \in DOMAIN freerg
                 /\ freerg'[m] = IF old[m] = 0 THEN g ELSE freerg[old[m]]
    <2> DEFINE old == [m \in DOMAIN freerg' |-> IF put THEN m - 1 ELSE m]
    <2>1. Len(freerg) \in Nat /\ DOMAIN freerg = 1 .. Len(freerg)
      BY <1>4
    <2>2. CASE put
      <3>1. DOMAIN freerg' = 1 .. Len(freerg) + 1
            /\ \A m \in DOMAIN freerg' :
                  freerg'[m] = IF m = 1 THEN g ELSE freerg[m - 1]
        BY <1>1, <1>4, <2>1, <2>2
      <3>2. old \in [DOMAIN freerg' -> Nat] /\ \A m \in DOMAIN freerg' : old[m] = m - 1
        BY <2>1, <2>2, <3>1
      <3> HIDE DEF old
      <3> QED
        BY <2>1, <3>1, <3>2
    <2>3. CASE ~ put
      <3>1. freerg' = freerg
        BY <1>1, <2>3
      <3>2. old \in [DOMAIN freerg' -> Nat] /\ \A m \in DOMAIN freerg' : old[m] = m
        BY <2>1, <2>3, <3>1
      <3> HIDE DEF old
      <3> QED
        BY <2>1, <3>1, <3>2
    <2> QED
      BY <2>2, <2>3
  <1>8. TypeOK'
    BY <1>2, FreeTyped
  <1>9. \A x : Disjoint(NoRegion, x) /\ Disjoint(x, NoRegion)
    BY <1>3 DEF Disjoint
  <1>10. LiveApart'
    BY <1>5, <1>9 DEF RegionInv, RegionsSound, LiveApart
  <1>11. \A m \in DOMAIN freerg : Disjoint(g, freerg[m]) /\ Disjoint(freerg[m], g)
    BY DisjointSymmetric DEF RegionInv, RegionsSound, LiveAndFreeApart
  <1>12. \A q \in Rgid \ {r} : Disjoint(symrgtbl[q], g)
    BY DEF RegionInv, RegionsSound, LiveApart
  <1> HIDE DEF g
  <1>13. FreeApart'
    BY <1>7, <1>11 DEF RegionInv, RegionsSound, FreeApart
  <1>14. LiveAndFreeApart'
    BY <1>5, <1>7, <1>9, <1>12 DEF RegionInv, RegionsSound, LiveAndFreeApart
  <1>15. AllInBrk'
    <2>1. InBrk(g) /\ InBrk(NoRegion)
      BY <1>2, <1>3, BreakNat DEF RegionInv, RegionsSound, AllInBrk, LiveInBrk, InBrk, g
    <2>2. \A x : InBrk(x) => InBrk(x)'
      BY <1>1 DEF InBrk
    <2> QED
      BY <1>1, <1>5, <1>7, <2>1 DEF RegionInv, RegionsSound, AllInBrk, LiveInBrk, FreeInBrk, InBrk
  <1> QED
    BY <1>8, <1>10, <1>13, <1>14, <1>15 DEF RegionInv, RegionsSound

LEMMA RegionInductive ==
    ASSUME Narrow
    PROVE  RegionInv /\ [Next]_vars => RegionInv'
  <1> SUFFICES ASSUME RegionInv, [Next]_vars
               PROVE  RegionInv'
    OBVIOUS
  <1>1. CASE \E r \in Rgid, size \in Size : AllocFromList(r, size)
    BY <1>1, AllocFromListSound
  <1>2. CASE \E r \in Rgid, size \in Size : AllocAtBrk(r, size)
    BY <1>2, AllocAtBrkSound
  <1>3. CASE \E r \in Rgid : Free(r)
    BY <1>3, FreeSound
  <1>4. CASE UNCHANGED vars
    BY <1>4 DEF vars, RegionInv, TypeOK, RegionsSound, LiveApart, FreeApart, LiveAndFreeApart,
                AllInBrk, LiveInBrk, FreeInBrk, InBrk, Disjoint
  <1> QED
    BY <1>1, <1>2, <1>3, <1>4 DEF Next

(* No byte belongs to two regions: __alloc and __free, in any order and    *)
(* any number, never let live or free regions overlap or leave the break,  *)
(* if no size is 2^31 or more and the break stays below 2^31.              *)
THEOREM AlwaysRegionsSound ==
    ASSUME Narrow
    PROVE  Spec => []RegionsSound
  <1>1. Init => RegionInv
    BY RegionInit DEF RegionInv
  <1>2. RegionInv /\ [Next]_vars => RegionInv'
    BY RegionInductive
  <1>3. RegionInv => RegionsSound
    BY DEF RegionInv
  <1> QED
    BY <1>1, <1>2, <1>3, PTL DEF Spec

(* A region that is carved leaves its node when it is the last one, so the *)
(* list always has a region, however small.                                *)
LEMMA FreeListNeverEmpty ==
    ASSUME TypeOK, freerg # <<>>, [Next]_vars
    PROVE  freerg' # <<>>
  <1>1. freerg \in Seq(Region) /\ Len(freerg) \in Nat \ {0}
    BY DEF TypeOK
  <1>2. ASSUME NEW r \in Rgid, NEW size \in Size, AllocFromList(r, size)
        PROVE  freerg' # <<>>
    <2>1. PICK i \in DOMAIN freerg : freerg' = Carved(i, size)
      BY <1>2 DEF AllocFromList
    <2>2. CASE i = Len(freerg)
      <3>1. freerg' = [freerg EXCEPT ![i] =
                          Rg(EndFrom(freerg[i].rg_start, size), freerg[i].rg_end)]
        BY <2>1, <2>2 DEF Carved
      <3>2. DOMAIN freerg' = DOMAIN freerg /\ i \in DOMAIN freerg
        BY <2>1, <3>1
      <3>3. QED
        BY <3>2
    <2>3. CASE i # Len(freerg)
      <3>1. 1 \in 1 .. Len(freerg) - 1
        BY <1>1, <2>1, <2>3
      <3>2. 1 \in DOMAIN freerg'
        BY <1>1, <2>1, <3>1 DEF Carved, WithoutNode
      <3>3. QED
        BY <3>2
    <2>4. QED
      BY <2>2, <2>3
  <1>3. ASSUME NEW r \in Rgid, Free(r)
        PROVE  freerg' # <<>>
    <2>1. symrgtbl[r] \in Region
      BY DEF TypeOK
    <2>2. <<symrgtbl[r]>> \o freerg # <<>>
      BY <1>1, <2>1
    <2>3. QED
      BY <1>3, <2>2 DEF Free, Enlist
  <1>4. QED
    BY <1>2, <1>3 DEF Next, AllocAtBrk, vars

(* Its regions have room for nothing: an allocation of no bytes never      *)
(* reaches the break.                                                      *)
LEMMA NothingFromList ==
    ASSUME Narrow, RegionInv, freerg # <<>>, NEW r \in Rgid, NEW size \in Size,
           AllocAtBrk(r, size)
    PROVE  size # 0
  <1>1. PICK g \in Region : g = freerg[1] /\ 1 \in DOMAIN freerg
    BY DEF RegionInv, TypeOK
  <1>2. g.rg_start \in Nat /\ g.rg_end \in Nat /\ g.rg_start <= g.rg_end /\ g.rg_end <= sbrk
    BY <1>1, Widths DEF RegionInv, RegionsSound, AllInBrk, FreeInBrk, InBrk, Region, Addr
  <1>3. sbrk \in Nat /\ sbrk < IntRange \div 2 /\ size \in Nat
    BY BreakNat, Widths, RegionsAssumption DEF RegionInv, TypeOK, Narrow, Addr
  <1>4. EndFrom(g.rg_start, size) = g.rg_start + size
    BY <1>2, <1>3, EndExact, Widths
  <1>5. ~ (g.rg_start + size <= g.rg_end)
    BY <1>1, <1>4 DEF AllocAtBrk, Fits
  <1>6. QED
    BY <1>2, <1>3, <1>5
=============================================================================

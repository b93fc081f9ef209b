------------------------------ MODULE Regions ------------------------------
(***************************************************************************)
(* The memory regions of one process: liballoc and libfree on the symbol   *)
(* table, the free-region list and the break of area 0 (libmem.c), and the *)
(* part of SYSMEM_INC_OP that moves the break (mm-vm.c).  What backs the   *)
(* pages is Paging's subject.  The page size is a parameter: nothing       *)
(* depends on its being 4096.                                              *)
(*                                                                         *)
(* Sizes and addresses are 64 bits wide and wrap around, but the size that *)
(* get_free_vmrg_area is given and the break that __alloc reads are kept   *)
(* in an int.  Narrow says when that changes nothing.                      *)
(***************************************************************************)
EXTENDS Naturals, Sequences

CONSTANTS
    Rgid,       \* the region ids (symbol table indices) programs use
    Size,       \* the sizes programs ask for
    PageSize,   \* PAGING64_PAGESZ
    IntRange,   \* how many numbers an int tells apart: 2^32
    AddrRange,  \* how many an addr_t tells apart: 2^64
    MaxBrk      \* bound on the break

ASSUME RegionsAssumption ==
    /\ PageSize \in Nat \ {0}
    /\ IntRange \in Nat
    /\ AddrRange \in Nat
    /\ PageSize <= IntRange \div 2
    /\ 2 * IntRange <= AddrRange
    /\ AddrRange % PageSize = 0
    /\ Size \subseteq 0 .. AddrRange - 1
    /\ MaxBrk \in Nat

VARIABLES
    sbrk,       \* sbrk of area 0
    freerg,     \* vm_freerg_list, first region first
    symrgtbl    \* symrgtbl[r]: the region r names; [0, 0] if none

vars == <<sbrk, freerg, symrgtbl>>

Addr == 0 .. AddrRange - 1
Region == [rg_start : Addr, rg_end : Addr]
Rg(start, end) == [rg_start |-> start, rg_end |-> end]
NoRegion == Rg(0, 0)

(* The break is always page-aligned: growth maps whole pages from it on. *)
TypeOK ==
    /\ sbrk \in {k * PageSize : k \in 0 .. MaxBrk}
    /\ sbrk <= MaxBrk
    /\ freerg \in Seq(Region)
    /\ symrgtbl \in [Rgid -> Region]

(* init_mm lists one empty region.  Its rg_next is read from a fresh       *)
(* allocation that is never cleared and taken to be NULL here.             *)
Init ==
    /\ sbrk = 0
    /\ freerg = <<NoRegion>>
    /\ symrgtbl = [r \in Rgid |-> NoRegion]

-----------------------------------------------------------------------------
(* Addition of two addresses, modulo 2^64. *)
Plus(a, b) == (a + b) % AddrRange

(* n assigned to an int and used as an address again: the low half, with   *)
(* its sign extended.                                                      *)
AsInt(n) ==
    LET low == n % IntRange IN
    IF low < IntRange \div 2 THEN low ELSE low + (AddrRange - IntRange)

(* The end of a region of this size, as get_free_vmrg_area works it out. *)
EndFrom(start, size) == Plus(start, AsInt(size))

Fits(rg, size) == EndFrom(rg.rg_start, size) <= rg.rg_end

(* get_free_vmrg_area takes the first region that is large enough. *)
FirstFit(i, size) ==
    /\ i \in DOMAIN freerg
    /\ Fits(freerg[i], size)
    /\ \A j \in 1 .. i - 1 : ~ Fits(freerg[j], size)

WithoutNode(s, i) == [j \in 1 .. Len(s) - 1 |-> IF j < i THEN s[j] ELSE s[j + 1]]

(* Faulty variant: the region carved from the list keeps its old start. *)
CarvedAtEnd(i, size) ==
    LET start == freerg[i].rg_start
        end == freerg[i].rg_end
    IN  IF EndFrom(start, size) < end \/ i = Len(freerg)
        THEN [freerg EXCEPT ![i] = Rg(start, end)]
        ELSE WithoutNode(freerg, i)

(* What is left of node i: a larger region loses its front; an exact fit   *)
(* disappears (the next node is copied over it), or stays as an empty      *)
(* region if it is the last one.                                           *)
Carved(i, size) ==
    LET start == EndFrom(freerg[i].rg_start, size)
        end == freerg[i].rg_end
    IN  IF start < end \/ i = Len(freerg)
        THEN [freerg EXCEPT ![i] = Rg(start, end)]
        ELSE WithoutNode(freerg, i)

AllocFromList(r, size) ==
    \E i \in DOMAIN freerg :
        /\ FirstFit(i, size)
        /\ symrgtbl' = [symrgtbl EXCEPT
              ![r] = Rg(freerg[i].rg_start, EndFrom(freerg[i].rg_start, size))]
        /\ freerg' = Carved(i, size)
        /\ UNCHANGED sbrk

(* Faulty variant: the break moves by the size asked for. *)
AlignedNot(size) == size

(* PAGING64_PAGE_ALIGNSZ *)
Aligned(size) == (Plus(size, PageSize - 1) \div PageSize) * PageSize

(* The rest of the last page is not put on the free list.  The test of     *)
(* validate_overlap_vm_area fails only for an area that would end at 0;    *)
(* the allocation then fails and changes nothing.                          *)
AllocAtBrk(r, size) ==
    LET old_sbrk == AsInt(sbrk)
        new_end == Plus(sbrk, Aligned(size))
    IN
    /\ \A i \in DOMAIN freerg : ~ Fits(freerg[i], size)
    /\ new_end \in 1 .. MaxBrk
    /\ symrgtbl' = [symrgtbl EXCEPT ![r] = Rg(old_sbrk, Plus(old_sbrk, size))]
    /\ sbrk' = new_end
    /\ UNCHANGED freerg

(* enlist_vm_freerg_list refuses an empty region. *)
Enlist(rg) == IF rg.rg_start < rg.rg_end THEN <<rg>> \o freerg ELSE freerg

Free(r) ==
    /\ symrgtbl[r] # NoRegion
    /\ freerg' = Enlist(symrgtbl[r])
    /\ symrgtbl' = [symrgtbl EXCEPT ![r] = NoRegion]
    /\ UNCHANGED sbrk

Next ==
    \E r \in Rgid :
        \/ \E size \in Size : AllocFromList(r, size) \/ AllocAtBrk(r, size)
        \/ Free(r)

Spec == Init /\ [][Next]_vars

-----------------------------------------------------------------------------
(* Regions that have no byte in common; one that ends where it starts, or  *)
(* before, has none.                                                       *)
Disjoint(a, b) ==
    a.rg_start >= a.rg_end \/ b.rg_start >= b.rg_end
    \/ a.rg_end <= b.rg_start \/ b.rg_end <= a.rg_start

InBrk(rg) == rg.rg_start <= rg.rg_end /\ rg.rg_end <= sbrk

(***************************************************************************)
(* No conversion to int changes a number: no program asks for 2^31 bytes   *)
(* or more at once, and the break stays below 2^31.                        *)
(***************************************************************************)
Narrow ==
    /\ \A size \in Size : size < IntRange \div 2
    /\ MaxBrk < IntRange \div 2

(***************************************************************************)
(* mm.tex: a region is allocated for one particular variable or array.  So *)
(* no byte belongs to two live regions.                                    *)
(***************************************************************************)
LiveApart == \A q, r \in Rgid : q # r => Disjoint(symrgtbl[q], symrgtbl[r])

FreeApart ==
    \A i, j \in DOMAIN freerg : i # j => Disjoint(freerg[i], freerg[j])

LiveAndFreeApart ==
    \A r \in Rgid, i \in DOMAIN freerg : Disjoint(symrgtbl[r], freerg[i])

(* mm.tex: it lies inside its area, which ends at the break. *)
LiveInBrk == \A r \in Rgid : InBrk(symrgtbl[r])

FreeInBrk == \A i \in DOMAIN freerg : InBrk(freerg[i])

AllInBrk == LiveInBrk /\ FreeInBrk

(***************************************************************************)
(* If Narrow holds, no byte belongs to two regions: live regions do not    *)
(* overlap each other or a free one, free ones do not overlap, and all lie *)
(* below the break, after any sequence of allocations, frees and           *)
(* allocations into an id that still names a region.                       *)
(***************************************************************************)
RegionsSound == LiveApart /\ FreeApart /\ LiveAndFreeApart /\ AllInBrk
=============================================================================

------------------------------- MODULE Paging -------------------------------
(***************************************************************************)
(* Paged memory: the page table (mm64.c), growth of a process's area       *)
(* (mm-vm.c) and page access with FIFO replacement (libmem.c), on the      *)
(* free-frame lists of FramePool.                                          *)
(*                                                                         *)
(* Each operation is one action: liballoc, libread and libwrite hold       *)
(* mmvm_lock from their first access to the last.  Swap contents are not   *)
(* modelled: no page is ever read back from swap, because pte_set_swap     *)
(* leaves the Present bit set.                                             *)
(***************************************************************************)
EXTENDS FramePool

CONSTANTS
    Process,        \* the processes that use memory
    TableSize,      \* entries of a process's page table: 512
    MaxPages,       \* bound: pages of one process's area
    Offset,         \* the offsets in a frame that addresses lead to
    Value,          \* the bytes programs write
    Unwritten       \* marks a place nothing has been stored in

ASSUME PagingAssumption ==
    /\ TableSize \in Nat \ {0}
    /\ MaxPages \in Nat
    /\ 0 \in Value
    /\ Unwritten \notin Value

VARIABLES
    mem,            \* mem[f][o]: the byte at offset o of RAM frame f
    brk,            \* brk[p]: sbrk of p's area, in pages
    pte,            \* pte[p][i]: entry i of p's page table
    fifo,           \* fifo[p]: fifo_pgn, the page mapped last at the front
    written         \* written[p][n][o]: the last byte stored there (history)

pagingVars == <<freeRam, freeSwap, mem, brk, pte, fifo, written>>

Page == 0 .. MaxPages - 1
Slot == 0 .. TableSize - 1

(* The five indices of an address are computed, but there is one table per *)
(* level and only mm->pt[pt_idx] holds entries: pages whose numbers agree  *)
(* in the lowest index share an entry.                                     *)
Index(n) == n % TableSize

(***************************************************************************)
(* A PTE: the Present and Swapped bits and the low bits, which hold a      *)
(* frame number in bits 0..12 or a swap offset in bits 5..25 (mm.h).  The  *)
(* two fields overlap.                                                     *)
(***************************************************************************)
FpnRange == 8192
SwpUnit == 32
SwpRange == 67108864

(* Both fields hold a number of every device: no more than 32 megabytes of *)
(* RAM and eight gigabytes of swap.  Nothing in the code tests it.         *)
ASSUME PteHoldsFrames ==
    /\ RamFrames <= FpnRange
    /\ SwapFrames <= SwpRange \div SwpUnit

Fpn(e) == e.low % FpnRange
Swp(e) == e.low \div SwpUnit

(* Faulty variant: the number goes to the field of the swap offset. *)
PteSetFpnAtSwap(e, f) ==
    [present |-> TRUE, swapped |-> FALSE, low |-> f * SwpUnit]

PteSetFpn(e, f) ==
    [present |-> TRUE, swapped |-> FALSE,
     low |-> (e.low - Fpn(e)) + (f % FpnRange)]

(* Faulty variant: the entry of the evicted page is not changed. *)
PteSetSwapNot(e, s) == e

PteSetSwap(e, s) ==
    [present |-> TRUE, swapped |-> TRUE, low |-> (s * SwpUnit) % SwpRange]

EmptyPte == [present |-> FALSE, swapped |-> FALSE, low |-> 0]

Entries ==
    [present : BOOLEAN, swapped : BOOLEAN, low : 0 .. SwpRange - 1]

TypeOK ==
    /\ freeRam \in Seq(Frame)
    /\ freeSwap \in Seq(SwapSlot)
    /\ mem \in [Frame -> [Offset -> Value]]
    /\ brk \in [Process -> 0 .. MaxPages]
    /\ pte \in [Process -> [Slot -> Entries]]
    /\ fifo \in [Process -> Seq(Page)]
    /\ written \in [Process -> [Page -> [Offset -> Value \cup {Unwritten}]]]

(* init_memphy; init_mm for each process. *)
Init ==
    /\ ListsInit
    /\ mem = [f \in Frame |-> [o \in Offset |-> 0]]
    /\ brk = [p \in Process |-> 0]
    /\ pte = [p \in Process |-> [i \in Slot |-> EmptyPte]]
    /\ fifo = [p \in Process |-> <<>>]
    /\ written = [p \in Process |-> [n \in Page |-> [o \in Offset |-> Unwritten]]]

EntryOf(p, n) == pte[p][Index(n)]

-----------------------------------------------------------------------------
(* Growth: __alloc finds no free region and asks for n more pages          *)
(* (SYSMEM_INC_OP, inc_vma_limit, vm_map_ram).                             *)

NewPages(p, n) == brk[p] .. brk[p] + n - 1

(* Faulty variant: every page is mapped to the first frame. *)
FirstFrame(p, m) == freeRam[1]

(* alloc_pages_range gets the frames in list order; vmap_page_range maps   *)
(* them to the pages in order.                                             *)
FrameFor(p, m) == freeRam[m - brk[p] + 1]

(* The page mapped last of the new pages that share entry i. *)
LastOn(p, n, i) ==
    CHOOSE m \in NewPages(p, n) :
        Index(m) = i /\ m + TableSize \notin NewPages(p, n)

Mapped(p, n) ==
    [i \in Slot |->
        IF \E m \in NewPages(p, n) : Index(m) = i
        THEN PteSetFpn(pte[p][i], FrameFor(p, LastOn(p, n, i)))
        ELSE pte[p][i]]

(* Faulty variant: pages are listed for replacement one too high. *)
ListedNext(p, n) == [i \in 1 .. n |-> brk[p] + n - i + 1]

Listed(p, n) == [i \in 1 .. n |-> brk[p] + n - i]

Grow(p, n) ==
    /\ brk[p] + n <= MaxPages
    /\ TakeRam(n)
    /\ pte' = [pte EXCEPT ![p] = Mapped(p, n)]
    /\ fifo' = [fifo EXCEPT ![p] = Listed(p, n) \o @]
    /\ brk' = [brk EXCEPT ![p] = @ + n]
    /\ UNCHANGED <<freeSwap, mem, written>>

(* Too few frames: those already taken are dropped, and the error is lost  *)
(* in a comparison of an unsigned value with 0, so sbrk moves all the same *)
(* and the caller is told the allocation succeeded.                        *)
GrowShort(p, n) ==
    /\ brk[p] + n <= MaxPages
    /\ TakeRamShort(n)
    /\ brk' = [brk EXCEPT ![p] = @ + n]
    /\ UNCHANGED <<freeSwap, mem, pte, fifo, written>>

-----------------------------------------------------------------------------
(* Access: pg_getpage, then one byte read or written in the frame.         *)

Victim(p) == fifo[p][Len(fifo[p])]

(* Faulty variant: the victim stays in the list. *)
WithVictim(p) == fifo[p]

WithoutVictim(p) == SubSeq(fifo[p], 1, Len(fifo[p]) - 1)

Push(s, e) == <<e>> \o s

(* A page that comes back from swap returns its swap frame. *)
SwapReleased(p, n, free) ==
    IF EntryOf(p, n).swapped THEN Push(free, Swp(EntryOf(p, n))) ELSE free

PageHit(p, n) ==
    /\ EntryOf(p, n).present
    /\ UNCHANGED <<freeRam, freeSwap, pte, fifo>>

FaultFreeFrame(p, n) ==
    /\ ~ EntryOf(p, n).present
    /\ TakeRam(1)
    /\ freeSwap' = SwapReleased(p, n, freeSwap)
    /\ pte' = [pte EXCEPT ![p][Index(n)] = PteSetFpn(@, Head(freeRam))]
    /\ fifo' = [fifo EXCEPT ![p] = Push(@, n)]

(* The victim is the process's own oldest page. *)
FaultEvict(p, n) ==
    /\ ~ EntryOf(p, n).present
    /\ fifo[p] # <<>>
    /\ TakeSlot(SwapReleased(p, n, Tail(freeSwap)))
    /\ LET v == Victim(p)
           out == [pte EXCEPT ![p][Index(v)] = PteSetSwap(@, Head(freeSwap))]
       IN  pte' = [out EXCEPT ![p][Index(n)] = PteSetFpn(@, Fpn(EntryOf(p, v)))]
    /\ fifo' = [fifo EXCEPT ![p] = Push(WithoutVictim(p), n)]
    /\ UNCHANGED freeRam

GetPage(p, n) == PageHit(p, n) \/ FaultFreeFrame(p, n) \/ FaultEvict(p, n)

InArea(p, n) == n < brk[p]

(* MEMPHY_read beyond the device fails; __read returns 0 in any case. *)
Read(p, n) ==
    /\ InArea(p, n)
    /\ GetPage(p, n)
    /\ UNCHANGED <<mem, brk, written>>

(* MEMPHY_write beyond the device fails; __write returns 0 in any case. *)
Write(p, n, o, v) ==
    /\ InArea(p, n)
    /\ GetPage(p, n)
    /\ LET f == Fpn(pte'[p][Index(n)]) IN
       IF f \in Frame
       THEN /\ mem' = [mem EXCEPT ![f][o] = v]
            /\ written' = [written EXCEPT ![p][n][o] = v]
       ELSE UNCHANGED <<mem, written>>
    /\ UNCHANGED brk

(* No frame and no page of its own to evict. *)
FaultNoVictim(p, n) ==
    /\ InArea(p, n)
    /\ ~ EntryOf(p, n).present
    /\ freeRam = <<>>
    /\ fifo[p] = <<>>
    /\ UNCHANGED pagingVars

(* No swap frame: the victim has already left the list. *)
FaultNoSwap(p, n) ==
    /\ InArea(p, n)
    /\ ~ EntryOf(p, n).present
    /\ freeRam = <<>>
    /\ fifo[p] # <<>>
    /\ freeSwap = <<>>
    /\ fifo' = [fifo EXCEPT ![p] = WithoutVictim(p)]
    /\ UNCHANGED <<freeRam, freeSwap, mem, brk, pte, written>>

FaultFails(p, n) == FaultNoVictim(p, n) \/ FaultNoSwap(p, n)

-----------------------------------------------------------------------------
(* A program's own SYSCALL 17, which liballoc, libread and libwrite never  *)
(* make: Next leaves it out, and Memory lets the other processes make it.  *)

(* SYSMEM_INC_OP maps a page at the break, which moves by n pages (bound:  *)
(* n is 0, for a call that asks for no bytes, or 1); an empty area cannot  *)
(* stay empty.  list is the free list as MEMPHY_get_freefp read it.        *)
MapAtBrk(p, list, n) ==
    /\ list # <<>>
    /\ brk[p] < MaxPages
    /\ brk[p] + n \in 1 .. MaxPages
    /\ freeRam' = Tail(list)
    /\ pte' = [pte EXCEPT ![p][Index(brk[p])] = PteSetFpn(@, Head(list))]
    /\ fifo' = [fifo EXCEPT ![p] = Push(@, brk[p])]
    /\ brk' = [brk EXCEPT ![p] = @ + n]
    /\ UNCHANGED <<freeSwap, mem, written>>

(* 0xdeadbeef, with its Present and Swapped bits set. *)
DummyPte == [present |-> TRUE, swapped |-> TRUE, low |-> 44941039]

(* SYSMEM_MAP_OP: vmap_pgd_memset fills the entries of k pages from n on.  *)
MapDummy(p, n, k) ==
    /\ pte' = [pte EXCEPT ![p] = [i \in Slot |->
          IF \E m \in n .. n + k - 1 : Index(m) = i THEN DummyPte ELSE @[i]]]
    /\ UNCHANGED <<freeRam, freeSwap, mem, brk, fifo, written>>

Next ==
    \E p \in Process :
        \/ \E n \in 1 .. MaxPages : Grow(p, n) \/ GrowShort(p, n)
        \/ \E n \in Page :
              \/ Read(p, n)
              \/ \E o \in Offset, v \in Value : Write(p, n, o, v)
              \/ FaultFails(p, n)

Spec == Init /\ [][Next]_pagingVars

-----------------------------------------------------------------------------
Entry == Process \X Slot
PteOf(x) == pte[x[1]][x[2]]
Resident == {x \in Entry : PteOf(x).present /\ ~ PteOf(x).swapped}
SwappedOut == {x \in Entry : PteOf(x).swapped}

NoRepeats(s) == \A i, j \in DOMAIN s : s[i] = s[j] => i = j
Elements(s) == {s[i] : i \in DOMAIN s}

FitsTable(p) == brk[p] <= TableSize

(* No area is larger than the one table maps: 512 pages, two megabytes. *)
AreasFit == \A p \in Process : FitsTable(p)

(***************************************************************************)
(* While no area outgrows its page table: a RAM frame backs at most one    *)
(* page of one process, and none while it is on the free list, through     *)
(* growth, faults and evictions in any order.                              *)
(***************************************************************************)
FramesExclusive ==
    AreasFit =>
        /\ NoRepeats(freeRam)
        /\ \A x \in Resident : Fpn(PteOf(x)) \in Frame \ Elements(freeRam)
        /\ \A x, y \in Resident : Fpn(PteOf(x)) = Fpn(PteOf(y)) => x = y

(* The same for swap frames and the pages that were evicted to them. *)
SwapExclusive ==
    AreasFit =>
        /\ NoRepeats(freeSwap)
        /\ \A x \in SwappedOut : Swp(PteOf(x)) \in SwapSlot \ Elements(freeSwap)
        /\ \A x, y \in SwappedOut : Swp(PteOf(x)) = Swp(PteOf(y)) => x = y

(* Replacement chooses among pages that really are in RAM, each listed     *)
(* once: a victim always has a frame to give.                              *)
FifoResident ==
    AreasFit =>
        \A p \in Process :
            /\ NoRepeats(fifo[p])
            /\ \A n \in Elements(fifo[p]) : <<p, Index(n)>> \in Resident

(* "Map the new region to physical RAM": every page of the area a          *)
(* successful allocation extended has been given a frame.                  *)
AreaIsMapped ==
    \A p \in Process, n \in Page : InArea(p, n) => EntryOf(p, n) # EmptyPte

(***************************************************************************)
(* While the free list has a frame left, every page of every area is       *)
(* mapped and, if no area outgrows its table, no frame has been lost: each *)
(* is on the list or backs a page.  So no access faults before RAM has run *)
(* out: the branch of pg_getpage that takes a free frame is never reached. *)
(***************************************************************************)
RamAccountedFor ==
    freeRam # <<>> =>
        /\ AreaIsMapped
        /\ AreasFit => Frame \subseteq Elements(freeRam)
                           \cup {Fpn(PteOf(x)) : x \in Resident}

(* What the process stored last at this place is there. *)
KeepsByte(p, n, o) ==
    (written[p][n][o] # Unwritten /\ EntryOf(p, n).present) =>
        /\ Fpn(EntryOf(p, n)) \in Frame
        /\ mem[Fpn(EntryOf(p, n))][o] = written[p][n][o]

KeepsBytes(p) == \A n \in Page, o \in Offset : KeepsByte(p, n, o)

(* mm.tex: libread and libwrite keep virtual memory transparent, so a      *)
(* process reads back the byte it stored last.                             *)
ReadsBack == \A p \in Process : KeepsBytes(p)

(***************************************************************************)
(* Until the first page is evicted that promise holds for every process    *)
(* whose area fits its page table, whatever the others do: growth that     *)
(* fails half-way, faults that find no victim and areas that outgrow their *)
(* table never let one process's bytes reach another's.                    *)
(***************************************************************************)
IsolatedUntilEviction ==
    SwappedOut = {} => \A p \in Process : FitsTable(p) => KeepsBytes(p)
=============================================================================

------------------------------- MODULE Memory -------------------------------
(***************************************************************************)
(* The memory instructions of one process, byte by byte: ALLOC, FREE, READ *)
(* and WRITE as run (cpu.c) dispatches them to libmem.c, on the process's  *)
(* regions (Regions) and on the pages, frames and page table behind them   *)
(* (Paging), which every other process uses in any order.  The process     *)
(* followed makes no system call of its own; the others make any.          *)
(*                                                                         *)
(* A memmap that another program makes itself takes no mmvm_lock, so it    *)
(* may overlap any call.  FrameLists has what two such calls can do to a   *)
(* list; this module follows one outcome of an overlap and claims nothing  *)
(* of RAM after it.                                                        *)
(*                                                                         *)
(* An address is a number below the break.  Its page is the address        *)
(* divided by the page size; its offset in the frame is the address modulo *)
(* OffsetRange, because the mask of get_pgn_offset is built from the 256   *)
(* bytes of a 32-bit page, not from the 4096 of a 64-bit one.              *)
(***************************************************************************)
EXTENDS Regions

CONSTANTS
    Process,        \* the processes that use memory
    Self,           \* the one whose regions are followed
    RamFrames,      \* frames of RAM
    SwapFrames,     \* frames of the active swap device
    TableSize,      \* entries of a page table
    MaxPages,       \* bound: pages of one process's area
    OffsetRange,    \* PAGING64_ADDR_OFFST_MASK + 1
    Mine,           \* the bytes Self writes
    Theirs,         \* the bytes the other processes write
    ByteRange,      \* the values of a byte: 256
    RegisterRange,  \* the values libread can deliver: 2^32
    Unwritten,      \* marks a place nothing has been stored in
    Undefined       \* what an uninitialised variable holds

ASSUME MemoryAssumption ==
    /\ Self \in Process
    /\ OffsetRange \in 1 .. PageSize
    /\ MaxBrk = MaxPages * PageSize
    /\ ByteRange \in Nat \ {0}
    /\ RegisterRange \in Nat
    /\ RegisterRange >= ByteRange
    /\ Mine \cup Theirs \subseteq 0 .. ByteRange - 1
    /\ Unwritten \notin 0 .. RegisterRange - 1
    /\ Undefined \notin 0 .. RegisterRange - 1 \cup {Unwritten}

(* The regions of one process: no ALLOC asks for 2^31 bytes or more, and   *)
(* no area reaches that size (a page table maps two megabytes).            *)
ASSUME IntAssumption == Narrow

VARIABLES
    freeRam, freeSwap, mem, brk, pte, fifo, written,    \* as in Paging
    stored,         \* stored[a]: the byte Self wrote last at a (history)
    delivered,      \* what the last instruction put in a register, if any
                    \* (history)
    seen,           \* seen[q]: the free list of RAM as a memmap of q's own
                    \* read it; <<>> outside such a call
    overlap,        \* a list was replaced that another call had changed
                    \* since it was read (history)
    direct          \* a program stored in RAM past its page table (history)

Offset == 0 .. OffsetRange - 1
Value == Mine \cup Theirs \cup {0}

P == INSTANCE Paging

(* Paging's assumptions. *)
ASSUME PagesAssumption ==
    /\ TableSize \in Nat \ {0}
    /\ MaxPages \in Nat
    /\ RamFrames \in Nat
    /\ RamFrames <= P!FpnRange
    /\ SwapFrames \in Nat
    /\ SwapFrames <= P!SwpRange \div P!SwpUnit

backing == <<freeRam, freeSwap, mem, brk, pte, fifo, written>>
own == <<seen, overlap, direct>>
memoryVars == <<vars, backing, stored, delivered, own>>

Address == 0 .. MaxBrk - 1
PageOf(a) == a \div PageSize
OffsetOf(a) == a % OffsetRange

MemoryTypeOK ==
    /\ P!TypeOK
    /\ stored \in [Address -> Mine \cup {Unwritten}]
    /\ delivered \in 0 .. RegisterRange - 1 \cup {Unwritten, Undefined}
    /\ seen \in [Process -> Seq(P!Frame)]
    /\ overlap \in BOOLEAN
    /\ direct \in BOOLEAN

MemoryInit ==
    /\ Init
    /\ P!Init
    /\ stored = [a \in Address |-> Unwritten]
    /\ delivered = Unwritten
    /\ seen = [q \in Process |-> <<>>]
    /\ overlap = FALSE
    /\ direct = FALSE

-----------------------------------------------------------------------------
(* Faulty variant: the rest of a page is not counted. *)
WholePages(size) == size \div PageSize

(* incnumpage of inc_vma_limit *)
PagesFor(size) == Aligned(size) \div PageSize

(* ALLOC: the free list first, then new pages at the break.  In both cases *)
(* the instruction succeeds, mapped or not.                                *)
Alloc(r, size) ==
    /\ \/ AllocFromList(r, size) /\ UNCHANGED backing
       \/ /\ AllocAtBrk(r, size)
          /\ P!Grow(Self, PagesFor(size)) \/ P!GrowShort(Self, PagesFor(size))
    /\ delivered' = Unwritten
    /\ UNCHANGED <<stored, own>>

(* FREE: the bytes and the pages stay. *)
FreeRegion(r) ==
    /\ Free(r)
    /\ delivered' = Unwritten
    /\ UNCHANGED <<backing, stored, own>>

(* The test of __read and __write; beyond it the instruction fails and     *)
(* changes nothing.                                                        *)
InRegion(r, offset) == symrgtbl[r].rg_start + offset < symrgtbl[r].rg_end

AddressOf(r, offset) == symrgtbl[r].rg_start + offset

FrameOf(a) == P!Fpn(P!EntryOf(Self, PageOf(a)))

(* MEMPHY_read fails beyond the device.  pg_getval's failures are ignored  *)
(* by __read, so libread stores its uninitialised variable.                *)
ByteAt(a) == IF FrameOf(a) \in P!Frame THEN mem[FrameOf(a)][OffsetOf(a)] ELSE Undefined

(* A byte is a signed char: libread widens its upper half to numbers at    *)
(* the top of a register's range.                                          *)
Widened(v) ==
    IF v \in ByteRange \div 2 .. ByteRange - 1 THEN v + (RegisterRange - ByteRange) ELSE v

ReadByte(r, offset) ==
    LET a == AddressOf(r, offset) IN
    /\ InRegion(r, offset)
    /\ UNCHANGED <<vars, stored, own>>
    /\ \/ P!Read(Self, PageOf(a)) /\ delivered' = Widened(ByteAt(a))'
       \/ P!FaultFails(Self, PageOf(a)) /\ delivered' = Undefined

(* libwrite reports success whether or not the byte reached a frame. *)
WriteByte(r, offset, v) ==
    LET a == AddressOf(r, offset) IN
    /\ InRegion(r, offset)
    /\ \/ P!Write(Self, PageOf(a), OffsetOf(a), v)
       \/ P!FaultFails(Self, PageOf(a))
    /\ stored' = [stored EXCEPT ![a] = v]
    /\ delivered' = Unwritten
    /\ UNCHANGED <<vars, own>>

(* No memmap of a program's own has taken a frame from a list that another *)
(* call had changed, or stored in RAM past its page table.  (Bound: the    *)
(* first that does is the last one to do either.)                          *)
Orderly == ~ overlap /\ ~ direct

(* Another process grows its area, accesses a page of it, or fills entries *)
(* of its table itself (bound: MAP_OP fills MaxPages of them).  The growth *)
(* is an ALLOC's, or one of its own that overlaps no other call.           *)
Call(q) ==
    /\ \/ \E n \in 1 .. MaxPages : P!Grow(q, n) \/ P!GrowShort(q, n)
       \/ \E n \in P!Page :
             \/ P!Read(q, n)
             \/ \E o \in Offset, v \in Theirs : P!Write(q, n, o, v)
             \/ P!FaultFails(q, n)
             \/ P!MapDummy(q, n, MaxPages)
    /\ UNCHANGED own

(* Its own SYSMEM_INC_OP reads the free list of RAM without mmvm_lock ...  *)
OwnLook(q) ==
    /\ Orderly
    /\ freeRam # <<>>
    /\ brk[q] < MaxPages
    /\ seen' = [seen EXCEPT ![q] = freeRam]
    /\ UNCHANGED <<backing, overlap, direct>>

(* ... and takes a frame from the list it read, which may have changed.    *)
OwnTake(q) ==
    /\ \E n \in 0 .. 1 : P!MapAtBrk(q, seen[q], n)
    /\ overlap' = (overlap \/ seen[q] # freeRam)
    /\ seen' = [seen EXCEPT ![q] = <<>>]
    /\ UNCHANGED direct

(* Its own SYSMEM_IO_WRITE names a place in RAM, whoever owns the frame.   *)
OwnWrite ==
    /\ Orderly
    /\ \E f \in P!Frame, o \in Offset, v \in Theirs : mem' = [mem EXCEPT ![f][o] = v]
    /\ direct' = TRUE
    /\ UNCHANGED <<freeRam, freeSwap, brk, pte, fifo, written, seen, overlap>>

OtherProcess(q) ==
    /\ \/ seen[q] = <<>> /\ (Call(q) \/ OwnLook(q) \/ OwnWrite)
       \/ seen[q] # <<>> /\ OwnTake(q)
    /\ delivered' = Unwritten
    /\ UNCHANGED <<vars, stored>>

MemoryNext ==
    \/ \E r \in Rgid :
          \/ \E size \in Size : Alloc(r, size)
          \/ FreeRegion(r)
          \/ \E offset \in Address :
                ReadByte(r, offset) \/ \E v \in Mine : WriteByte(r, offset, v)
    \/ \E q \in Process \ {Self} : OtherProcess(q)

MemorySpec == MemoryInit /\ [][MemoryNext]_memoryVars

-----------------------------------------------------------------------------
Live(a) ==
    \E r \in Rgid : symrgtbl[r].rg_start <= a /\ a < symrgtbl[r].rg_end

(***************************************************************************)
(* The regions and the pages keep in step: every byte of a live region is  *)
(* on a page of the area, wherever first fit took the region from and      *)
(* whether or not the growth that made the page found a frame for it.      *)
(* (IntAssumption: past 2^31 the start of a region leaves the area.)       *)
(***************************************************************************)
RegionsHavePages == \A a \in Address : Live(a) => PageOf(a) < brk[Self]

SameCell(a, b) == PageOf(a) = PageOf(b) /\ OffsetOf(a) = OffsetOf(b)

(* a is in a region of Self and its page has a frame. *)
Backed(a) == Live(a) /\ P!EntryOf(Self, PageOf(a)).present

Expected(a) == IF stored[a] = Unwritten THEN 0 ELSE stored[a]

(* Nothing has been evicted, Self's area fits its page table, and every    *)
(* program reached RAM under mmvm_lock, or alone, and by its page table.   *)
Undisturbed ==
    /\ Len(freeSwap) = SwapFrames
    /\ P!FitsTable(Self)
    /\ Orderly

(***************************************************************************)
(* mm.tex gives the offset bits 0 to 11: every byte of a page has a place  *)
(* of its own.  So a byte of a live region reads back what was stored      *)
(* there, and 0 if nothing was.                                            *)
(***************************************************************************)
ReadsAsStored ==
    Undisturbed => \A a \in Address : Backed(a) => ByteAt(a) = Expected(a)

(***************************************************************************)
(* It does so for as long as nothing was stored at another address that    *)
(* shares its cell, through any allocations, splits, frees and             *)
(* reallocations, and whatever the other processes grow, read, write and   *)
(* map, up to the first memmap of a program's own that overlaps another    *)
(* call or stores in RAM: no process's bytes show up in fresh memory, and  *)
(* a free moves no byte.                                                   *)
(***************************************************************************)
ReadsAsStoredIfAlone ==
    Undisturbed =>
        \A a \in Address :
            /\ Backed(a)
            /\ \A b \in Address \ {a} : SameCell(a, b) => stored[b] = Unwritten
            => ByteAt(a) = Expected(a)

(* A READ of a live byte fills its register from an uninitialised variable *)
(* only when RAM has run out, in a program that makes no memmap of its own *)
(* and as long as nobody else's has overlapped another call.               *)
UndefinedOnlyWhenFull == delivered = Undefined => freeRam = <<>> \/ overlap
=============================================================================

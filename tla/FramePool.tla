----------------------------- MODULE FramePool -----------------------------
(***************************************************************************)
(* What the free-frame lists of the RAM and swap devices (mm-memphy.c)     *)
(* promise a memory call: under mmvm_lock, the frames one call takes leave *)
(* the list in one step.  FrameLists is the code that keeps this promise;  *)
(* Paging relies on it.                                                    *)
(***************************************************************************)
EXTENDS Naturals, Sequences

CONSTANTS
    RamFrames,      \* frames of RAM: maxsz / pagesz
    SwapFrames      \* frames of the active swap device

ASSUME FramePoolAssumption ==
    /\ RamFrames \in Nat
    /\ SwapFrames \in Nat

VARIABLES
    freeRam,        \* free_fp_list of mram, first frame first
    freeSwap        \* free_fp_list of active_mswp

listVars == <<freeRam, freeSwap>>

Frame == 0 .. RamFrames - 1
SwapSlot == 0 .. SwapFrames - 1

(* MEMPHY_format: every frame is free, in order. *)
ListsInit ==
    /\ freeRam = [i \in 1 .. RamFrames |-> i - 1]
    /\ freeSwap = [i \in 1 .. SwapFrames |-> i - 1]

(* Faulty variant: the frames stay on the list. *)
TakeRamStays(n) == Len(freeRam) >= n /\ freeRam' = freeRam

(* n frames for a growth, or one for a page fault. *)
TakeRam(n) ==
    /\ Len(freeRam) >= n
    /\ freeRam' = SubSeq(freeRam, n + 1, Len(freeRam))

(* Faulty variant: the frames go back, and the break has moved all the same. *)
TakeRamShortUndone(n) == Len(freeRam) < n /\ freeRam' = freeRam

(* A growth that finds too few takes what there is and gives nothing back. *)
TakeRamShort(n) == Len(freeRam) < n /\ freeRam' = <<>>

(* Faulty variant: the swap frame stays on the list. *)
TakeSlotStays(left) == freeRam = <<>> /\ freeSwap # <<>> /\ freeSwap' = freeSwap

(* An eviction: RAM has run out and the victim needs a swap frame. *)
TakeSlot(left) ==
    /\ freeRam = <<>>
    /\ freeSwap # <<>>
    /\ freeSwap' = left

ListsNext ==
    \/ \E n \in 1 .. RamFrames + 1 :
          (TakeRam(n) \/ TakeRamShort(n)) /\ UNCHANGED freeSwap
    \/ TakeSlot(Tail(freeSwap)) /\ UNCHANGED freeRam

ListsSpec == ListsInit /\ [][ListsNext]_listVars
=============================================================================

----------------------------- MODULE FrameLists -----------------------------
(***************************************************************************)
(* The free-frame lists of mm-memphy.c used by several CPU threads, one    *)
(* access to a list at a time.  liballoc, libread and libwrite (libmem.c)  *)
(* hold mmvm_lock; each system call they make looks its process up under   *)
(* queue_lock (sched.c), which the scheduler takes as well.  A program's   *)
(* own SYSCALL 17 reaches the same lists without mmvm_lock.                *)
(*                                                                         *)
(* What a call does to its own process (regions, page table, replacement   *)
(* list) is in Regions and Paging: no other thread touches it.  A node is  *)
(* never changed once it is linked, so a pointer to a node is modelled by  *)
(* the part of the list that starts there.  Once two threads have raced    *)
(* for a node one of them may read freed memory: what the model does then  *)
(* is one outcome, and no property speaks of it.                           *)
(***************************************************************************)
EXTENDS Naturals, Sequences

CONSTANTS
    Cpu,            \* the CPU threads
    Nobody,         \* the owner of a free lock
    RamFrames,      \* frames of RAM
    SwapFrames,     \* frames of the active swap device
    MaxGrowth,      \* bound: pages one call asks for
    MaxCalls        \* bound: calls one CPU makes

ASSUME FrameListsAssumption ==
    /\ Nobody \notin Cpu
    /\ RamFrames \in Nat
    /\ SwapFrames \in Nat
    /\ MaxGrowth \in Nat
    /\ MaxCalls \in Nat

VARIABLES
    mmvmLock,   \* the thread that holds mmvm_lock
    queueLock,  \* the thread that holds queue_lock
    list,       \* list[d]: free_fp_list of device d
    at,         \* at[c]: where thread c is
    direct,     \* direct[c]: its call is a program's own memmap
    todo,       \* todo[c]: what its call still has to do
    fp,         \* fp[c]: the list as MEMPHY_get_freefp read it
    calls,      \* calls[c]: calls it has made
    handed,     \* handed[d]: the frames handed out, in order (history)
    before,     \* before[d]: the list when mmvm_lock was taken (history)
    overlap     \* a program's own memmap overlapped another call (history)

locks == <<mmvmLock, queueLock>>
frames == <<list, handed>>
vars == <<locks, frames, at, direct, todo, fp, calls, before, overlap>>

Memphy == {"mram", "mswp"}
NumFrames(d) == IF d = "mram" THEN RamFrames ELSE SwapFrames
FrameOf(d) == 0 .. NumFrames(d) - 1

(* Faulty variant: frames are numbered from 1. *)
AllFramesFromOne(d) == [i \in 1 .. NumFrames(d) |-> i]

(* MEMPHY_format lists every frame in order. *)
AllFrames(d) == [i \in 1 .. NumFrames(d) |-> i - 1]

(* A call looks its process up and takes frames from the devices. *)
Task == Memphy \cup {"lookup"}

Place == {"idle", "sched", "enter", "inside", "looking", "store"}

TypeOK ==
    /\ mmvmLock \in Cpu \cup {Nobody}
    /\ queueLock \in Cpu \cup {Nobody}
    /\ list \in [Memphy -> Seq(Nat)]
    /\ at \in [Cpu -> Place]
    /\ direct \in [Cpu -> BOOLEAN]
    /\ todo \in [Cpu -> Seq(Task)]
    /\ fp \in [Cpu -> Seq(Nat)]
    /\ calls \in [Cpu -> 0 .. MaxCalls]
    /\ handed \in [Memphy -> Seq(Nat)]
    /\ before \in [Memphy -> Seq(Nat)]
    /\ overlap \in BOOLEAN
    /\ \A d \in Memphy : list[d] \in Seq(FrameOf(d))

(* No thread has started. *)
Init ==
    /\ mmvmLock = Nobody
    /\ queueLock = Nobody
    /\ list = [d \in Memphy |-> AllFrames(d)]
    /\ at = [c \in Cpu |-> "idle"]
    /\ direct = [c \in Cpu |-> FALSE]
    /\ todo = [c \in Cpu |-> <<>>]
    /\ fp = [c \in Cpu |-> <<>>]
    /\ calls = [c \in Cpu |-> 0]
    /\ handed = [d \in Memphy |-> <<>>]
    /\ before = [d \in Memphy |-> AllFrames(d)]
    /\ overlap = FALSE

-----------------------------------------------------------------------------
Goto(c, here, there) ==
    /\ at[c] = here
    /\ at' = [at EXCEPT ![c] = there]

(* c's call may be using the lists. *)
Inside(c) == at[c] \in {"inside", "looking", "store"}

(* inc_vma_limit asks for its frames one at a time. *)
GrowTasks(n) == <<"lookup">> \o [i \in 1 .. n |-> "mram"]

(* A page that is present: one system call, for the byte. *)
HitTasks == <<"lookup">>

(* A page fault: a frame first. *)
FaultTasks == <<"mram", "lookup">>

(* An eviction: a swap frame, the system call that copies, and the byte's. *)
EvictTasks == <<"mswp", "lookup", "lookup">>

Begin(c, there, own, tasks) ==
    /\ Goto(c, "idle", there)
    /\ calls[c] < MaxCalls
    /\ calls' = [calls EXCEPT ![c] = @ + 1]
    /\ direct' = [direct EXCEPT ![c] = own]
    /\ todo' = [todo EXCEPT ![c] = tasks]
    /\ UNCHANGED <<mmvmLock, frames, fp, before>>

(* get_proc, put_proc, add_proc or finish_proc.  (get_proc waits for       *)
(* dispatch_lock first, which nothing else takes.)                         *)
Schedule(c) ==
    /\ queueLock = Nobody
    /\ queueLock' = c
    /\ Begin(c, "sched", FALSE, <<>>)
    /\ UNCHANGED overlap

Scheduled(c) ==
    /\ Goto(c, "sched", "idle")
    /\ queueLock' = Nobody
    /\ UNCHANGED <<mmvmLock, frames, direct, todo, fp, calls, before, overlap>>

(* liballoc from the free list of regions, liballoc that grows the area, or *)
(* libread and libwrite.                                                    *)
BeginLocked(c) ==
    /\ \E tasks \in {<<>>, HitTasks, FaultTasks} \cup {GrowTasks(n) : n \in 1 .. MaxGrowth} :
          Begin(c, "enter", FALSE, tasks)
    /\ UNCHANGED <<queueLock, overlap>>

(* SYSCALL 17 with SYSMEM_INC_OP. *)
BeginMemmap(c) ==
    /\ \E n \in 1 .. MaxGrowth : Begin(c, "inside", TRUE, GrowTasks(n))
    /\ overlap' = (overlap \/ \E b \in Cpu \ {c} : Inside(b))
    /\ UNCHANGED queueLock

(* Faulty variant: mmvm_lock is not waited for. *)
EnterAnyway(c) ==
    /\ Goto(c, "enter", "inside")
    /\ mmvmLock' = c
    /\ before' = list
    /\ overlap' = (overlap \/ \E b \in Cpu \ {c} : Inside(b) /\ direct[b])
    /\ UNCHANGED <<queueLock, frames, direct, todo, fp, calls>>

Enter(c) ==
    /\ Goto(c, "enter", "inside")
    /\ mmvmLock = Nobody
    /\ mmvmLock' = c
    /\ before' = list
    /\ overlap' = (overlap \/ \E b \in Cpu \ {c} : Inside(b) /\ direct[b])
    /\ UNCHANGED <<queueLock, frames, direct, todo, fp, calls>>

(* find_process_by_pid; the caller runs on c, so it is found. *)
Lookup(c) ==
    /\ todo[c] # <<>>
    /\ Head(todo[c]) = "lookup"
    /\ Goto(c, "inside", "looking")
    /\ queueLock = Nobody
    /\ queueLock' = c
    /\ UNCHANGED <<mmvmLock, frames, direct, todo, fp, calls, before, overlap>>

LookedUp(c) ==
    /\ Goto(c, "looking", "inside")
    /\ queueLock' = Nobody
    /\ todo' = [todo EXCEPT ![c] = Tail(@)]
    /\ UNCHANGED <<mmvmLock, frames, direct, fp, calls, before, overlap>>

(* MEMPHY_get_freefp: fp = free_fp_list, and what fp points to. *)
ReadHead(c) ==
    /\ todo[c] # <<>>
    /\ Head(todo[c]) \in Memphy
    /\ Goto(c, "inside", "store")
    /\ fp' = [fp EXCEPT ![c] = list[Head(todo[c])]]
    /\ UNCHANGED <<locks, frames, direct, todo, calls, before, overlap>>

(* Faulty variant: the list keeps its head. *)
HeadStays(c, d) == fp[c]

HeadTaken(c, d) == Tail(fp[c])

(* free_fp_list = fp->fp_next *)
StoreNext(c) ==
    LET d == Head(todo[c]) IN
    /\ Goto(c, "store", "inside")
    /\ fp[c] # <<>>
    /\ list' = [list EXCEPT ![d] = HeadTaken(c, d)]
    /\ handed' = [handed EXCEPT ![d] = Append(@, Head(fp[c]))]
    /\ todo' = [todo EXCEPT ![c] = Tail(@)]
    /\ fp' = [fp EXCEPT ![c] = <<>>]
    /\ UNCHANGED <<locks, direct, calls, before, overlap>>

(* Faulty variant: the call tries again until there is a frame. *)
NoFrameTriesAgain(c) ==
    /\ Goto(c, "store", "inside")
    /\ fp[c] = <<>>
    /\ UNCHANGED <<locks, frames, direct, todo, fp, calls, before, overlap>>

(* The list is empty.  A fault may have a victim and asks the swap device; *)
(* all others end, a growth with what it has.                              *)
NoFrame(c) ==
    /\ Goto(c, "store", "inside")
    /\ fp[c] = <<>>
    /\ \/ todo' = [todo EXCEPT ![c] = <<>>]
       \/ todo[c] = FaultTasks /\ todo' = [todo EXCEPT ![c] = EvictTasks]
    /\ UNCHANGED <<locks, frames, direct, fp, calls, before, overlap>>

Leave(c) ==
    /\ todo[c] = <<>>
    /\ Goto(c, "inside", "idle")
    /\ mmvmLock' = IF direct[c] THEN mmvmLock ELSE Nobody
    /\ UNCHANGED <<queueLock, frames, direct, todo, fp, calls, before, overlap>>

Step(c) ==
    \/ Schedule(c) \/ Scheduled(c)
    \/ BeginLocked(c) \/ BeginMemmap(c) \/ Enter(c) \/ Leave(c)
    \/ Lookup(c) \/ LookedUp(c)
    \/ ReadHead(c) \/ StoreNext(c) \/ NoFrame(c)

(* Every thread has made its calls. *)
Done ==
    /\ \A c \in Cpu : at[c] = "idle" /\ calls[c] = MaxCalls
    /\ UNCHANGED vars

Next == (\E c \in Cpu : Step(c)) \/ Done

(* A thread goes on unless it waits for a lock.  The locks are not fair,   *)
(* but a CPU runs one instruction per time slot: while one thread waits    *)
(* the others enter a bounded number of times, MaxCalls.                   *)
Spec == Init /\ [][Next]_vars /\ \A c \in Cpu : WF_vars(Step(c))

-----------------------------------------------------------------------------
(***************************************************************************)
(* Each frame is on its list or has been handed out, and to one call only, *)
(* as long as no program's own memmap overlaps another call in time: the   *)
(* two accesses of MEMPHY_get_freefp to the list rest on mmvm_lock alone.  *)
(***************************************************************************)
FramesHandedOnce ==
    ~ overlap => \A d \in Memphy : handed[d] \o list[d] = AllFrames(d)

(* Every call returns: the two nested locks and the lookups never leave a  *)
(* thread waiting for ever.                                                *)
CallsReturn == \A c \in Cpu : (at[c] # "idle") ~> (at[c] = "idle" \/ overlap)

(***************************************************************************)
(* While mmvm_lock is held the lists count as they were when it was taken. *)
(* Then the frames of one call leave them in one step, as Paging assumes,  *)
(* until a memmap of a program's own overlaps another call.                *)
(***************************************************************************)
Settled(d) == IF mmvmLock = Nobody THEN list[d] ELSE before[d]

Lists == INSTANCE FramePool
    WITH freeRam <- Settled("mram"), freeSwap <- Settled("mswp")

CallsAreAtomic ==
    Lists!ListsInit /\ [][~ overlap' => Lists!ListsNext]_(Lists!listVars)
=============================================================================

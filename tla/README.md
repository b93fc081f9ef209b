# A TLA+ model of the simulated operating system

The repository is a teaching operating system simulated with POSIX threads:
CPU threads run small programs one instruction per time slot, a loader thread
brings the programs in, a multi-level queue (MLQ) scheduler shares the CPUs, a
timer thread keeps everybody in step, and a paging layer gives each process a
virtual address space on simulated RAM and swap devices. The build that
`include/os-cfg.h` selects (`MLQ_SCHED`, `MM_PAGING`, `MM64`) is the one
modelled here. Paths below are relative to `src/ossim_lamiaatrium/`.

## 1. Inventory

| Component | State | Operations | Interacts with |
|---|---|---|---|
| Queue, `src/queue.c` | an array of 50 PCB pointers and a size | `enqueue`, `dequeue`, `purgequeue`, `empty` | used by the scheduler under `queue_lock` |
| Scheduler, `src/sched.c` | 140 ready queues, the running list, `current_slot[]`, `current_prio` | `get_proc`, `put_proc`, `add_proc`, `finish_proc`, lookups by pid | called by CPU and loader threads; lookups by the system calls |
| Timer, `src/timer.c` | device list with `done` and `fsh`, two mutexes and two condition variables per device, `_time`, `timer_stop` | `next_slot`, `detach_event`, `attach_event`, `start_timer`, `stop_timer`, the timer thread | CPU threads, loader and main |
| CPU threads, `src/os.c` | `proc`, `time_left` | `cpu_routine` | scheduler, timer, `run` |
| Loader thread, `src/os.c` | `i`, `done` | `ld_routine` | scheduler, timer, `load` |
| Page access, `src/libmem.c` | page tables, FIFO lists, frames | `__read`, `__write`, `pg_getpage`, `find_victim_page` | through `syscall(17)`, `src/sys_mem.c`, to the devices |
| Areas and page tables, `src/mm-vm.c`, `src/mm64.c` | `sbrk`, `pt` | `inc_vma_limit`, `vm_map_ram`, `pte_set_fpn`, `pte_set_swap` | called by `__alloc` and `pg_getpage` |
| Devices, `src/mm-memphy.c` | `storage`, `free_fp_list` | `MEMPHY_get_freefp`, `put_freefp`, `read`, `write` | shared by all processes; no lock of their own |
| Regions, `src/libmem.c` | `symrgtbl`, `vm_freerg_list` | `__alloc`, `__free`, `get_free_vmrg_area` | one process, under `mmvm_lock` |
| Instructions, `src/cpu.c` | `pc`, registers | `run` | dispatches to the above |
| System calls, `src/syscall.c`, `src/sys_listsyscall.c`, `src/libstd.c` | none | a switch | - |
| Loader of programs, `src/loader.c` | next pid | `load` | text files |

What makes the system hard: several CPU threads and the loader interleave
freely inside a slot; a CPU acts on an answer of the scheduler after the lock is
released; a budget carried from one scan to the next decides who runs; the
timer's handshake uses one flag under two mutexes; memory calls hold one lock
while the system calls they make wait for another, and a program's own system
call reaches the same lists without the first; eviction moves a frame between two
page table entries and its errors come back through several layers; page numbers
and offsets are cut to fewer bits than addresses have, and sizes and the break to
an `int`. The list of these hazards,
each at its line, is `hazards` in `PROJECT.json`.

What makes each component correct:

* scheduler: a process is in one place; none is lost; `get_proc` answers NULL
  only when nobody waits; nobody waits for ever; budgets are respected;
* timer: no device runs ahead of the slot, none is left behind, no wakeup is
  lost, the thread ends;
* CPUs and loader: exact quanta, no idle CPU beside waiting work, every process
  finishes, no process abandoned when the CPUs stop;
* free lists: a frame is handed out once, the frames of a call leave the list
  together, and every call returns;
* paging: a frame has one owner, replacement chooses resident pages, no frame is
  lost while RAM lasts, a process reads what it wrote;
* regions: no byte belongs to two regions, each lies on pages of the area, and a
  byte reads back as it was stored, as long as no conversion to `int` changes a
  size or an address.

## 2. Modules

```
Queue <- Sched <- SchedFairness          (history variables)
           |  \--refines--> ProcessPool
           v
         OsSim -- extends --> SlotBarrier <--refines-- Timer

FrameLists --refines--> FramePool <- Paging --instance--> Memory -> Regions

Sched_proofs <- SchedFairness_proofs     Timer_proofs
Sched_proofs <- OsSim_proofs             FrameLists_proofs
Paging_proofs <-instance- Memory_proofs -> Regions_proofs
```

| Module | Code | Correspondence |
|---|---|---|
| `Queue` | `queue.c` | the array and its size are a sequence; `Shift` is the shifting loop of both removals; `Enqueue` drops the process when the array is full |
| `Sched` | `sched.c` | one action per critical section. The scan of `get_mlq_proc` is written as "the first eligible attempt": attempt `k` looks at level `Scan(k)` and sees the budgets as they are then (`UsedAt`), cleared once the scan has passed level 0. `proc[c]` is the local pointer of a CPU thread; it is part of this module because "where is a process" involves it. `SchedNext` is the most general client |
| `ProcessPool` | - | the promise: admitted, run by at most as many as there are CPUs, preempted, finished, and never starved. `PoolStatus` is the refinement mapping |
| `SchedFairness` | `sched.c` | two history variables count how often a waiting level is passed over and how often a level runs in a row |
| `SlotBarrier` | `timer.c` | what the timer promises its devices: the set inside `next_slot`, the set detached, the time |
| `Timer` | `timer.c`, `main` in `os.c` | a step is a lock acquisition, the accesses made under one lock up to its release, or an access under no lock; `pthread_cond_wait` may return without a signal |
| `OsSim` | `cpu_routine`, `ld_routine` | a step is a call into the scheduler, a call into the timer or the local work between two calls |
| `FramePool` | `mm-memphy.c` | the promise of the two free-frame lists: the frames one call takes leave in one step |
| `FrameLists` | `mm-memphy.c`, `libmem.c`, `sys_mem.c`, `libstd.c` | the code under that promise: a step is a lock operation or one access to a list. `todo[c]` is what the call of thread `c` still has to do, in the order the code does it |
| `Paging` | `libmem.c`, `mm-vm.c`, `mm64.c`, `mm-memphy.c` | a call of `liballoc`, `libread` or `libwrite` is one step, because each holds `mmvm_lock` throughout; `FrameLists` shows that nothing of it is seen half-way |
| `Regions` | `libmem.c`, `mm-vm.c` | allocation and release in one process, with the widths of sizes and addresses |
| `Memory` | `cpu.c`, `libmem.c`, `mm-vm.c`, `sys_mem.c` | `Regions` of one process on `Paging`: ALLOC, FREE, READ and WRITE by region and offset, byte by byte, of one process (`Self`, which makes no system call of its own) beside other processes that use memory in any order and make system calls of their own |

Notes on faithfulness:

* `cpu_routine` sets `time_left = 0` after the `get_proc` that follows
  `finish_proc`; `CpuFinish` sets it with `finish_proc`. The variable is local
  to the thread and not read in between.
* A failed `get_proc` at the top of the loop and the `next_slot` after it are
  one step (`CpuIdle`), as are `add_proc` and `next_slot` in the loader: entering
  `next_slot` only concerns the caller. A failed `get_proc` later in the loop
  and the reading of `done` are two steps, because there the order matters.
* Page table entries keep the two status bits and the low 26 bits, because a frame
  number (bits 0 to 12) and a swap offset (bits 5 to 25) share them. The five
  table indices of an address are all computed, but each level is one table and
  only the lowest index, nine bits, chooses an entry; `Index` is that folding and
  `TableSize` the 512. Pages 512 apart share an entry.
* `get_pgn_offset` uses `PAGING64_ADDR_OFFST_MASK`, which `mm64.h:57` builds from
  the high bit of a 256-byte page. So of the 4096 offsets of a page 256 are told
  apart; `OffsetRange` is that number in `Memory`. In `Paging` an access names its
  place in the frame directly.
* In `Memory` every byte a program reads goes through `Widened`: `BYTE` is a signed
  `char`, and `libread` stores it in a `uint32_t`. Where `__read` ignores a
  failure the register gets `Undefined`, the uninitialised variable of `libread`.
* Sizes and addresses are `uint64_t` and wrap around (`Plus`, `Addr`), but
  `get_free_vmrg_area` takes its size as an `int` (`libmem.c:488`) and `__alloc`
  keeps the break in one (`libmem.c:103`). `AsInt` is that conversion and the one
  back: the low 32 bits with their sign extended. `Narrow` says when it changes
  nothing: no size is 2^31 or more and the break stays below 2^31. The code tests
  neither. `IntRange` and `AddrRange` stand for 2^32 and 2^64.
* `FaultEvict` includes the branch of `pg_getpage` that would bring a page back
  from swap (`libmem.c:253-261`). It is never taken, because an entry keeps its
  Present bit when its page goes to swap, and a page without it has nothing in
  swap. Whoever repairs `pte_set_swap` makes it live.
* A program's own SYSCALL 17 holds no `mmvm_lock`. `FrameLists` has its growth as
  the accesses it makes to the free lists. In `Memory` other processes make such
  calls: growth reads the free list (`OwnLook`) and replaces it later (`OwnTake`), with
  any other call in between; `MAP_OP` fills page table entries with 0xdeadbeef,
  `MaxPages` of them, the bound of an area (`MapDummy` in `Call`); `IO_WRITE` stores
  a byte at any place of RAM (`OwnWrite`). `IO_READ` drops what it read, and `SWP_OP`
  writes to swap, whose contents are not modelled. A growth of several frames is one
  `OwnLook` and `OwnTake` per frame. When the list has changed between the two,
  `overlap` is set: the model follows the outcome in which the code stores the rest of
  the list it had read, and `Memory` claims nothing of RAM after it. `direct` is set by
  a store past the page table. `Orderly` says that neither has happened; the first memmap
  that goes astray is the last `OwnLook` or `OwnWrite`, a bound. `Self` makes no
  system call of its own, so what `Memory` says of READ, WRITE, ALLOC and FREE
  it says of such programs. Nor is a program's own SYSCALL 17 an action of `Paging`: the
  statements about frame owners are about `liballoc`, `libread` and `libwrite`.
* In `FrameLists` a pointer to a list node is the part of the list that starts
  there: nodes are not changed once linked. After two threads have raced for a
  node one of them may read freed memory; the model then takes one outcome, the
  history variable `overlap` is set, and no property speaks of it. The scheduler
  is there as a client of `queue_lock`; its `dispatch_lock` is taken before and by
  nothing else.
* Devices are random access (`init_memphy` is called with `rdmflag` 1), so the
  sequential cursor of `mm-memphy.c` does not occur.
* A page without a Present bit exists only after growth has found the list of
  free RAM frames too short and emptied it, and no RAM frame is ever returned
  (`free_pcb_memph` is not called). `FaultFreeFrame` translates the branch of
  `pg_getpage` that takes a free frame, but while `liballoc`, `libread` and
  `libwrite` are serialised by `mmvm_lock` no reachable state enables it.
* Each run's CONSTANTS name every bound: `MaxTime` saturates the clock,
  `MaxPages` and `MaxBrk` stop growth, `Orderly` stops programs' own memmaps in `Memory`
  once one has gone astray, `MaxGrowth` and `MaxCalls` the calls of
  `FrameLists`; `MaxCount` saturates the counters of `SchedFairness` above the limits
  stated of them. Nothing else is capped.
* `init_mm` links its first free region to an uninitialised `vm_freerg_list`
  pointer; `Regions` takes it to be NULL, the value fresh memory has.

## 3. Runs

Deadlock is checked in every run. The modules whose system ends (`OsSim`, `Timer`,
`FrameLists`) have an action that stutters once every thread is through, so a
state without a successor is a real one.

| Run | Question | Result |
|---|---|---|
| `sched` | Does the scheduler, called in any order by any CPU, keep each process in one place, find waiting work, look pids up exactly, bound how long a level is passed over and how often one runs in a row, and implement `ProcessPool`, starvation freedom included? | holds |
| `sched_priority` | Does the highest waiting priority always go first, as the report says? | violated |
| `os_sim` | Are quanta exact, is no process left behind when the CPUs stop, does no CPU idle beside waiting work, and is every configured process run to its end? | holds |
| `os_stop` | Does every CPU thread stop? | violated |
| `timer` | Does the two-lock handshake implement the slot barrier, free of races, lost wakeups and hangs? | holds |
| `frames` | Do the frames of a call leave the lists in one step, is each handed out once, and does every call return, under the two locks, until a program's own memmap overlaps another call? | holds |
| `paging` | Has each frame one owner, is none lost while RAM lasts, do replacement lists hold resident pages, is memory isolated before the first eviction? | holds |
| `paging_alloc` | Is every page of a successful allocation mapped? | violated |
| `paging_data` | Does a process read back what it wrote? | violated |
| `regions` | Does no byte ever belong to two regions, if no size is 2^31 or more and the break stays below 2^31? | holds |
| `memory` | Does every byte of a region lie on a page of the area, read back as it was stored or as 0 if nothing shares its place, and is a register filled from an uninitialised variable only when RAM has run out, up to the first memmap of a program's own that overlaps another call or, for what is read back, stores in RAM? | holds |
| `memory_cells` | Has every byte of a page a place of its own? | violated |

Bounds, and why they are enough:

* `sched`, `sched_priority`: three processes, two CPUs, three levels with budgets
  3, 2 and 1, and one invalid priority. Three levels are the fewest with a first, a
  middle and a last one, so every scan start, every kind of wrap past level 0 and
  every budget carried over occurs; two CPUs race for a process and a third process
  waits meanwhile. `MAX_QUEUE_SIZE` is the number of processes: `LookupExact` says
  what a queue that is never over-full gives, which is what the code's 50 places give
  to at most 50 processes. The counters saturate at `MAX_PRIO * (MAX_PRIO + 1)`,
  twice the bound of `BypassBounded`. Neither run uses symmetry, because both check
  temporal properties.
* `os_sim`: three processes, two CPUs, the loader, two levels, a quantum of two
  instructions, programs of 0 and 3 instructions (empty, and ending inside the
  second quantum), start times at once and in the last slot told apart, in every
  combination. Two CPUs suffice for the handover between `put_proc` and `get_proc`
  and for one idle CPU beside a busy one. `os_stop` takes two processes and one slot
  more.
* `timer`: three devices, so that one can be ahead of, at and behind the timer's
  cursor. The clock saturates at 1: from time 1 on all slots are alike to the
  handshake, so slots repeat for ever in a finite graph.
* `frames`: two CPUs, three calls each, two RAM frames and one swap frame, growth by
  at most two. A race for a list needs two threads; with three calls each a thread
  comes back after it found a list empty; five frames' worth of requests exceed the
  three there are, so growth ends half-way, a fault turns to the swap device, and
  finds that empty too.
* `paging`: three processes, three RAM frames, two swap frames, at most three pages
  each, tables of two entries and two byte values: areas outgrow their tables, the
  processes together ask for three times the RAM, growth runs short, faults evict,
  swap fills up and a fault finds no victim. Three processes, because a byte that
  reaches another process may do so through a third. Symmetry in processes is sound:
  they are not ordered and the run checks invariants only. The violation runs use
  tables that fit every area, so that what they show has nothing to do with the
  folding, and no symmetry.
* `regions`: three ids on pages of four bytes, a break of at most three pages and
  sizes 0, 2, 4 and 5: empty, part of a page, a page and a page and a byte. First
  fit splits, meets exact fits in the middle and at the end of the list, and
  reuses ids still in use. An `int` tells 32 numbers apart, so that every size and
  every break is below half of that, which is `Narrow`.
* `memory`, `memory_cells`: two processes, one region id, which an allocation may
  overwrite (first fit among several is the subject of `regions`), sizes 2 and 4 on pages of
  three bytes whose frames tell two offsets apart, areas of two pages, three RAM
  frames and one swap frame. Size 4 needs two pages and leaves a gap behind it; a
  page has one pair of addresses that share a place and one address that shares
  none; four pages are asked for where there are three frames, so growth runs short
  and pages are evicted. Bytes have four values and registers sixteen, so that the
  byte 3 that `Self` writes has its sign bit set; the other process writes a
  different byte, so that a leak would show.

### What the violated properties show

1. `HighestPriorityFirst` (`sched.c:75`): the scan starts at `current_prio`, which
   moves past a level whose budget is used up, so a lower priority is dispatched
   while a higher one waits. `BypassBounded` of run `sched` bounds it, and it makes the
   scheduler free of starvation; the report's sentence is about a strict priority
   scheduler, which this is not.
2. `AllCpusStop` (`os.c:53`): a CPU that is idle at the top of its loop calls
   `get_proc`, then `next_slot`, then starts again without looking at `done`. Once
   loading has ended it idles for ever, and `main` waits for it in
   `pthread_join`. `EveryProcessFinishes` shows that the processes are all run
   even so.
3. `ReadsBack` (`mm64.c:128`): `pte_set_swap` leaves the Present bit set, so
   `pg_getpage` never brings a page back and takes bits of a swap offset for a frame
   number. `IsolatedUntilEviction` shows that before the first eviction the promise
   holds.
4. `AreaIsMapped` (`mm-vm.c:169`): growth that runs out of frames returns -1 in an
   unsigned comparison with 0; the caller is told it succeeded. `RamAccountedFor`
   shows that this is the only way: while a frame is left every page is mapped.
5. `ReadsAsStored` (`libmem.c:32`): the mask of an offset has eight bits where a page
   has twelve, so sixteen addresses of a page share a byte of RAM. A region of more
   than 256 bytes overwrites itself. `ReadsAsStoredIfAlone` shows that this is all
   that goes wrong before an eviction, if no memmap of a program's own overlaps
   another call or stores in RAM.

### Where the properties that hold end

Some properties have a condition because the code breaks them outside it. The modules
have that behaviour, and TLC finds a trace when the condition is dropped:

* `FramesHandedOnce` without `~ overlap` (`mm-memphy.c:146`): `MEMPHY_get_freefp` reads
  the head of the list and replaces it in two accesses and has no lock of its own. A
  memory instruction holds `mmvm_lock` around it, a program's own SYSCALL 17 holds
  nothing, so the two may take the same frame. The documentation (`mm.tex:678`)
  names an `frfm_lock` that guards the list; the code has none.
* `LiveApart`, part of `RegionsSound`, for sizes from 2^31 on (`libmem.c:488`): after
  `alloc 4096 0`, `alloc 4096 1`, `free 1`, the instruction `alloc 4294963200 1` asks
  `get_free_vmrg_area` for -4096 bytes. The free region [4096, 8192] fits, its start
  moves back to 0, and `alloc 4096 1` then gets [0, 4096], which is region 0. On a
  small scale: pages of 4, an `IntRange` of 16, an `AddrRange` of 64, a `MaxBrk` of 8
  and sizes 4, 8 and 12.
* `LiveInBrk`, part of `RegionsSound`, for a break from 2^31 on (`libmem.c:103`): growth
  that finds no frames moves the break all the same (`AreaIsMapped` above), so three ALLOCs of
  1073741824 bytes bring the break past 2^31. The third region starts at 2^31, which `int
  old_sbrk` turns into 2^64 - 2^31, on no page of the area. On a small scale: the
  same, with a `MaxBrk` of 12 and size 4.

### Fairness

* `Sched` alone: `WF(GetProc(c))` for each CPU. A CPU thread without a process
  asks for one in every slot. Nothing obliges a CPU to give a process back; the
  pool's promise is strong fairness of `Run`, which only counts when CPUs become
  free again and again.
* `OsSim` and `Timer`: weak fairness of each thread (in `Timer` of a device inside
  `next_slot` or `detach_event`, of the timer thread and of `main`). POSIX threads
  are always scheduled again, and a mutex is held for a few instructions. Weak
  fairness is enough for the mutexes of `Timer`, since each is contended by one
  device and the timer and neither takes it twice without the other's moving.
  Nothing is assumed of how long a device works in a slot, so `Timer` holds for
  programs of any length, and nothing of spurious wakeups.
* `FrameLists`: weak fairness of each thread. A `pthread_mutex` is not fair, and a
  thread might be overtaken at `mmvm_lock` for ever if the others called for ever. A
  CPU runs one instruction per time slot, and the slot does not end before the
  waiting thread's CPU has finished it, so the others overtake it a bounded number of
  times; `MaxCalls` is that bound in the model.
* `Paging`, `Regions` and `Memory` check safety only and need none.

### History variables

`ran` (`OsSim`), `bypass` and `streak` (`SchedFairness`), `handed`, `before` and
`overlap` (`FrameLists`), `written` (`Paging`), `stored`, `delivered`, `overlap` and
`direct` (`Memory`) record what happened for a property to refer to; no guard reads
them, but for the bound `Orderly` of `Memory`. `before` is
the list as it was when `mmvm_lock` was taken: while the lock is held the refinement
mapping of `CallsAreAtomic` shows the lists as they were then, so that the frames of
one call leave them in the step that releases the lock.

## 4. Proofs

| Theorem | Says |
|---|---|
| `AlwaysTypeOK` | the scheduler's state keeps its type; the next scan starts at a level that exists |
| `BudgetAlwaysOpen` | no level is left with its budget used up |
| `AlwaysWorkConserving` | `get_proc` answers NULL only when no process waits |
| `AlwaysOnePlace` | no process is queued twice, held twice, queued while held or queued after its PCB is freed |
| `AlwaysLookupExact` | a lookup by pid finds a process exactly while it is loaded and not freed, if the queues hold every process |
| `ImplementsPool` | each step of the scheduler is a step of `ProcessPool` or a stutter |
| `AlwaysBudgetRespected` | no level is dispatched more often in a row than its budget while another waits |
| `AlwaysBypassBounded` | while a level waits, the others are dispatched no more often than their budgets add up to |
| `OsTyped` | the state of CPUs, loader and slot keeps its type |
| `OsOnePlace` | `OnePlace` for the whole system of CPUs, loader and timer |
| `AlwaysQuantumExact` | a process keeps its CPU for exactly `TIME_SLOT` instructions per dispatch |
| `AlwaysIdleCpuLeavesNoWork` | when a slot is over and a CPU is idle, at most the process the loader has just added waits |
| `AlwaysNoAbandonedProcess` | CPUs stop only after the loader; when all have stopped no process waits or runs |
| `OsImplementsPool` | each step of the whole system is a step of `ProcessPool` or a stutter |
| `TimerTyped` | locks, flags, counters and places of the timer keep their types |
| `AlwaysNoDataRace` | no device sets `done` while the timer clears it; the clock advances while no device works |
| `ImplementsBarrier` | each step of `timer.c` is a step of `SlotBarrier` or a stutter |
| `RegionsTyped` | the break stays a whole number of pages, whatever sizes up to 2^64 are asked for |
| `AlwaysRegionsSound` | if `Narrow`, no byte belongs to two regions and all regions lie below the break |
| `ListsTyped` | locks, lists and what each call holds keep their types |
| `AlwaysFramesHandedOnce` | until a program's own memmap overlaps another call, a free list and the frames handed out are together all frames in order |
| `AlwaysCallsAreAtomic` | until then, the frames of one call leave the lists in one step of `FramePool` |
| `PagingUsesThePool` | the steps of `Paging` take frames in steps of `FramePool` only |
| `PagingTyped` | page table entries, free lists and replacement lists keep their types |
| `AlwaysFramesExclusive` | while no area outgrows its page table, a RAM frame backs at most one page, and none while it is free |
| `AlwaysSwapExclusive` | the same of swap frames and evicted pages |
| `AlwaysFifoResident` | a replacement victim is a resident page, listed once |
| `AlwaysRamAccountedFor` | while RAM lasts every page of an area is mapped and, if the areas fit, no frame is lost |
| `AlwaysIsolatedUntilEviction` | until the first eviction a page holds what its process last wrote |
| `MemoryTyped` | registers, pages and stored bytes keep their types, memmaps that overlap other calls included |
| `AlwaysRegionsHavePages` | with sizes and areas below 2^31, every byte of a live region is on a page of its process's area |
| `AlwaysUndefinedOnlyWhenFull` | a program without system calls of its own reads the uninitialised variable of `libread` only when RAM has run out, until another's memmap overlaps a call |
| `AlwaysReadsAsStoredIfAlone` | in such a program a byte whose cell no other address shares reads as stored, or 0, until a page is evicted or another's memmap overlaps a call or stores in RAM |

They hold for any number of processes, CPUs and levels, queues of any capacity,
any time slot, any number of timer devices, frames, table entries, pages and region
ids and any page size, under the assumptions next to the constants:
`QueueAssumption`, `SchedAssumption`, `BarrierAssumption`, `OsAssumption`,
`TimerAssumption`, `RegionsAssumption`, `FramePoolAssumption`,
`FrameListsAssumption`, `PagingAssumption`, `PteHoldsFrames`, `MemoryAssumption`,
`IntAssumption` and `PagesAssumption`. They say that sizes are 64-bit numbers, that an
address is at least one bit wider than an `int` and a page no larger than half its range, that there is a level, a
table entry, a device and a byte in a page, that pids are the numbers from 1 on, that
the loader is not a CPU, that the devices of a timer are finitely many, that start
times are times the model tells apart, and that a register is no narrower than a byte.
Two have content, and the code tests neither. `PteHoldsFrames` (in
`PagesAssumption` for `Memory`): the fields of a page table entry can hold the number of
every frame, 32 megabytes of RAM and eight gigabytes of swap; without it two pages
share a frame. `IntAssumption` (of `Memory` alone) is `Narrow`: no program asks for 2^31
bytes at once and no area reaches that size; without it regions overlap or leave
their area, as section 3 describes.

Some theorems have a hypothesis of their own, which the code does not test either:

* `EnoughRoom` (`AlwaysLookupExact`, `AlwaysNoAbandonedProcess`): a queue holds as
  many processes as there are. `enqueue` drops a process when its array of 50 is full
  and nobody is told, so without it a process can be lost. The runs choose queues of
  that size.
* `IsFiniteSet(Cpu)` (both refinements of `ProcessPool` and the two theorems about
  idle CPUs): "a CPU is free" and "as many wait as ask" are counts. `Cpu # {}` is
  needed for `AlwaysNoAbandonedProcess` alone: with no CPU at all every process is
  abandoned.
* `Narrow` (`AlwaysRegionsSound`), as above.
* `RamFrames <= 7919` (`AlwaysReadsAsStoredIfAlone`): `MAP_OP` fills page table
  entries with 0xdeadbeef, a valid entry that names frame 7919 (`DummyFrame`). With
  more than 31 megabytes of RAM a process that maps it reaches that frame, whoever
  owns it. The shipped configurations have at most 256 frames.

The argument:

* **The scan** (`ScanInv`). The budgets and the next level are changed only by
  `Charge` and `GetNone`, so they have an invariant of their own: their types and
  `BudgetOpen`. The types are needed because `Charge` is only meaningful at a
  level, and `BudgetOpen` needs every budget to be positive, including that of the
  last level. `WorkConserving` is a consequence in each state: `ScanReaches` shows
  that `MAX_PRIO` attempts from any start visit every level, and an open budget
  makes the first non-empty one eligible.
* **The places** (`PlaceInv`). `OnePlace` together with the types of the queues.
  It is inductive as one conjunction but not in parts: that a process put back is
  not yet queued follows from `HoldersSound`, that a process dispatched is not yet
  held follows from `QueuesSound` and `HoldersSound` together. The first lemmas of
  `Sched_proofs` say what the array code does to a queue: shifting removes one element, keeps
  order and distinctness, and purging a distinct queue removes the process
  altogether. There is one lemma per action.
* **Lookups** (`LookupInv`). A held process is in the running list and a loaded
  process of a usable priority is held or queued. Only `Enqueue` could lose one, when
  the array is full: `RoomLeft` shows that a queue without repetitions that misses a
  process has a free place, if `EnoughRoom`.
* **The pool** (`PoolSafety`, which is `PoolSpec` without its fairness). `PlaceInv`
  gives each action its abstract step; `DispatchMoves` says that one `get_proc` moves
  one process from a queue to the CPU. At most as many run as there are CPUs, because
  a process is held by one CPU only.
* **Runs of one level** (`StreakInv`). While a level is dispatched in a row before
  others that wait, the row is no longer than what is used of its budget and the scan
  starts at or before the level; when the budget is spent the scan starts just
  behind it, and the next dispatch goes elsewhere.
* **Being passed over** (`BypassInv`). The dispatches a waiting level has seen and
  those the scan may still make before it arrives (`Ahead`) never exceed the
  budgets of the other levels. Budgets add up over levels; the sum is a function `f`
  of prefix sums whose existence is part of the invariant, so the proof needs no
  induction: a dispatch lowers `f` from its level on, a scan that passes level
  0 replaces it by the closed form `Full2`. Both are doubled, which keeps
  MAX_PRIO * (MAX_PRIO + 1) / 2 an integer.
* **The system**. `StepIsSchedStep` shows that each step of `OsSim` is a step or
  a stutter of `SchedNext`, so what is proved of the general client holds of the
  CPU threads and the loader. It needs `LoadedInvariant`: the loader's counter says
  which PCBs are still unloaded.
* **The quantum** (`QuantumInv`). `QuantumExact` is not inductive: `time_left` is
  decided while a CPU holds no process. The invariant adds that such a CPU has
  none left, that it holds none when it asks again, and that a process about to be
  run again has not used its quantum up. A step of one CPU is local
  (`QuantumLocal`). With `TIME_SLOT` 0 the theorem says that `time_left` turns
  negative and the process is never preempted, which is what the code does.
* **Idle CPUs** (`SlotInv`, `IdleInv`). Once a CPU has found no process in a slot,
  no more processes wait than CPUs are about to ask again, plus the one the loader has
  added in this slot (`Late`). Each `put_proc` adds one to both sides, each `get_proc`
  takes one from both, and a CPU that starts to ask when some process waits gets one,
  by `WorkConserving`. When the slot is over nobody is about to ask, which is
  `IdleCpuLeavesNoWork`. `NoAbandonedProcess` follows with `LookupInv`: the loader
  spends a slot between its last `add_proc` and `done`, so `Late` is 0 by the time a CPU
  can stop.
* **The timer** (`TimerInv`). Part of it is what the two walks over the device list
  leave behind: before the clock advances every device up to the cursor is done or
  detached, afterwards every device from the cursor on is (`WalkInv`). A device that
  is done waits for its flag to be cleared (`DeviceInv`), and fsh and event agree only
  if every device seen has detached (`CountInv`), so the timer ends for good. With
  these `NoDataRace` is immediate, and the refinement mapping, in which a device the
  second walk has not reached counts as let go, turns each step into one of the barrier
  or a stutter (`BarrierSafety`, which is `BarrierSpec` without its fairness). A
  spurious wakeup is a stutter.
* **The regions** (`RegionInv`). `RegionsSound` and the type invariant are
  inductive together: each of the four parts is needed for the others, since a
  carved region is apart from the live ones because the free one was, and a region
  at the break because all others end below it. `CarvedFrom` says what first fit
  leaves of the list, `PartApart` that a part inherits disjointness and
  `AlignedUp` that the alignment macro rounds up to whole pages. `EndExact` and
  `NarrowGrowth` are where `Narrow` is used: the end of a region and the address at
  the break are then the sums they look like. The type needs no such hypothesis,
  since a growth that wraps around still ends on a page boundary. `MaxBrk` is a bound
  of the model, but in `Narrow` it has content: the break stays below 2^31.
* **The free lists** (`ListInv`). `FramesHandedOnce` needs to know that a thread
  between its two accesses to a list has read what the list still is
  (`ReadIsCurrent`). That holds because no other thread is inside (`OneInside`), and
  this because a call inside that is not a program's own holds `mmvm_lock`
  (`InsideHolds`), all three until `overlap`. The types (`TypeInv`) hold without that
  condition: even after a race every list is made of frames of its device. There is
  one lemma per action, and `HeadMoves` says that moving the head of a list to the
  end of what was handed out keeps the whole.
* **Calls are atomic** (`CallInv`). Of the call that holds `mmvm_lock`, `Progress`
  says what it has taken since it took the lock: nothing while it faults or turns to
  evict, the first frames of RAM while it grows, or one swap frame after RAM was found
  empty. That these exclude each other needs to know what a call still has to do:
  after its first task a growth has only RAM to take (`RestIsRam`), so no growth looks
  like a fault. When the lock is given back this is one step of `FramePool`
  (`LeaveTakes`); a program's own memmap, which takes no lock, makes one step per frame
  (`StoreNextTakes`). `PagingUsesThePool` is the other half: `Paging` makes only steps
  of `FramePool`, because the branch of `pg_getpage` that takes a free frame is dead
  (`NoFreeFault`).
* **The owners of frames** (`OwnersInv`). The three properties are inductive together
  with `NothingAbove`: a page beyond the break has an empty entry, so a growth maps
  over nothing. They are stated entry by entry and only while every area fits its
  table, because there page `n` has entry `n` (`IndexFits`). `AreasFit` may become
  false in a step but not true again, as the break never moves back, so the
  implication is inductive. The type invariant holds without it; what is needed for
  areas that outgrow their tables is that the page mapped last on an entry exists
  (`LastOnTyped`), which is arithmetic about numbers that agree modulo the table
  size. `LowField` and `SwapField` are the facts about the overlapping fields of an
  entry; `FpnSet` and `SwapSet` say that what is set is what is read, and
  `EmptyUntilPresent` that an entry without the Present bit is still as `init_mm`
  left it, so that a fault touches no entry that owns something.
* **No frame is lost** (`AccountInv`). While the RAM list is not empty no growth has
  run short, so every page of an area has its entry (`MappedWhileFree`) and a frame
  that has left the list is in a table (`FramesKept`). It follows that no access
  faults before RAM has run out.
* **What a page holds** (`IsolationInv`). Until an eviction a frame in a table is
  written only through the page it backs, and that is one page by `RamOwned`; a page
  that shares its entry with a later one of the same process is excluded entry by
  entry (`FitsTable`), for one process at a time, so that an area that outgrows its
  table does no harm to the others.
* **Regions on pages** (`StepInv`). The one break of the code is `sbrk`, in bytes, in
  `Regions` and `brk`, in pages, in `Paging`; `BreaksAgree` says that `__alloc`, which
  places a region, and `inc_vma_limit`, which maps pages, mean the same place by it.
  It needs sizes rounded up to whole pages (`WholePagesAligned`) and holds for growth
  that runs short as well, because the break moves before frames are looked for.
  With `RegionInv`, proved of `Regions` alone, every region ends below it.
* **Bytes** (`BackingInv`, `ByteInv`). What is proved of `Paging` is used through
  `PP`, an instance of `Paging_proofs`; `NextWithMemmap` widens its steps by a program's
  own memmap, for which `QuietInv` replaces `OwnersInv`: such a call may list a page
  twice or fill entries beyond the break, but until an eviction a frame still has one
  owner and a free frame is as the device was made. A list read by `OwnLook` that is
  still the list when `OwnTake` uses it makes the two one step of that kind; otherwise
  `overlap` is set. `BackingInv` follows Self's entries while RAM lasts and nothing has
  overlapped, which is `UndefinedOnlyWhenFull`; only its types, which hold after a
  stale list too (`AstrayTyped`), are unconditional. `ByteInv` adds, while `Orderly`,
  that each address of Self reads as stored if no other address shares its cell, and
  that nothing was stored beyond the break.

Every invariant of the passing runs is stated by a theorem, and of the refinements
`CallsAreAtomic` whole, `PoolSpec` and `BarrierSpec` in their safety part. Only
model-checked are the liveness properties (`CallsReturn`,
`EveryProcessFinishes`, `NextSlotReturns`, `Terminates`) and the fairness in `PoolSpec`
(no process starves) and in `BarrierSpec`: liveness under fairness, and ENABLED, are
beyond the prover. The invariants above were checked by TLC on the runs' instances
before they were proved.

## 5. Not modelled

* Program text and its parsing (`loader.c`): its result, a length and a pid in load
  order, is an input of `OsSim`.
* The contents of the ten registers and `calc`, which changes nothing. `Memory` has the
  value a READ delivers.
* A program's own SYSCALL 17 with `SWP_OP` or `IO_READ`, which change nothing that is
  modelled (swap contents; a result that is dropped), and any system call of the
  program whose bytes `Memory` follows; `listsyscall`, which prints.
* RAM after a program's own memmap has overlapped another call: `FrameLists` shows that
  a frame may then have two owners, and what follows from that is left open.
* Swap contents: no page is ever read back from swap.
* A region id of 30, which passes the bound test and names the field behind the
  symbol table, and the bytes of `mm_struct` it would reach.
* What is read and written through a region with an address outside its area, which
  a break of 2^31 or more makes: `Memory` assumes that no area reaches that size.
* Page-table printing, and the 32-bit memory code the build does not reach
  (`mem.c`, `mm.c`, `paging.c`).
* Crashes: nothing is persisted and no thread is restarted.

Hazards that no property covers, each with a note in `PROJECT.json`: a full queue,
which drops a process (`queue.c:19`; the runs' queues hold every process and
`EnoughRoom` excludes it); a time slot of 0, of which only the theorem
`AlwaysQuantumExact` speaks; sizes (`libmem.c:488`) and a break (`libmem.c:103`) of 2^31 or
more, excluded by `Narrow`; a region id of 30; frame numbers above 13 bits, excluded by
`PteHoldsFrames`; frame 7919, which 0xdeadbeef names, excluded by the hypothesis of
`AlwaysReadsAsStoredIfAlone`; the stride of `__swap_cp_page`, which copies 256 bytes per
frame from devices of 4096-byte frames; bytes above 127, which arrive in a register near
2^32. When RAM and swap are full, each fault that fails takes one more page out of
the replacement list (`FaultNoSwap`), so resident pages need not be listed;
`FifoResident` states the direction that does hold and says nothing of this.

## 6. Plan

Done, in this order: queue and scheduler with the pool as its promise; the slot
barrier and the CPU and loader threads on top of it; the timer as an
implementation of the barrier; regions; the free lists as the code touches them, as
an implementation of the pool of frames; paging on that pool with the folding of
page numbers and the fields of entries; regions on pages, byte by byte; proofs of all
safety properties of the scheduler, the timer, the system, the regions, the free
lists, paging and memory, and of the three refinements as far as they are safety.

To prove more:

1. what a program's own memmap may break and what not, for areas that fit their
   tables: `FramesExclusive` among the processes that never make it;
2. that the timer and the system compose: `OsSim` uses the barrier that
   `ImplementsBarrier` provides with the devices of both;
3. that a process is never lost in a full queue if each level has at most as many
   processes as the array has places, a weaker hypothesis than `EnoughRoom`.

To extend the model: swap contents and the copy between devices, for the fault path
as it would run if the Present bit were cleared.

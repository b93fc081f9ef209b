------------------------------- MODULE Sched -------------------------------
(***************************************************************************)
(* The multi-level queue scheduler of sched.c (MLQ_SCHED): one ready queue *)
(* per priority level, the running list, the dispatch budget each level    *)
(* has used and the level where the next scan starts.                      *)
(*                                                                         *)
(* Every operation is one action, because the code runs each one inside    *)
(* queue_lock.  SchedNext is the most general client: any CPU thread may   *)
(* ask for a process when it holds none and may give back or finish the    *)
(* one it holds.  OsSim restricts it to what cpu_routine and ld_routine do.*)
(***************************************************************************)
EXTENDS Queue

CONSTANTS
    Proc,       \* the processes (PCBs), by pid
    Cpu,        \* the CPU threads
    NoProc,     \* the NULL pointer
    MAX_PRIO,   \* number of levels (140 in os-cfg.h)
    Prios       \* the priorities a configuration file may give

ASSUME SchedAssumption ==
    /\ MAX_PRIO \in Nat \ {0}
    /\ Prios \subseteq Nat
    /\ NoProc \notin Proc

VARIABLES
    ready,          \* ready[q]: the ready queue of level q
    runningList,    \* the processes the CPUs hold, for lookups by pid
    currentSlot,    \* currentSlot[q]: dispatches of level q in this round
    currentPrio,    \* the level where the next scan starts
    prio,           \* prio[p]: the priority the loader stored in the PCB
    pcb,            \* pcb[p]: whether the PCB is allocated
    proc            \* proc[c]: the process CPU thread c holds, or NoProc

schedVars == <<ready, runningList, currentSlot, currentPrio, prio, pcb, proc>>

Level == 0 .. MAX_PRIO - 1

(* The number of dispatches level q may have in one round. *)
Slot(q) == MAX_PRIO - q

SchedTypeOK ==
    /\ ready \in [Level -> Seq(Proc)]
    /\ runningList \in Seq(Proc)
    /\ currentSlot \in [Level -> Nat]
    /\ currentPrio \in Level
    /\ prio \in [Proc -> Nat]
    /\ pcb \in [Proc -> {"unloaded", "loaded", "freed"}]
    /\ proc \in [Cpu -> Proc \cup {NoProc}]

SchedInit ==
    /\ ready = [q \in Level |-> <<>>]
    /\ runningList = <<>>
    /\ currentSlot = [q \in Level |-> 0]
    /\ currentPrio = 0
    /\ prio = [p \in Proc |-> 0]
    /\ pcb = [p \in Proc |-> "unloaded"]
    /\ proc = [c \in Cpu |-> NoProc]

-----------------------------------------------------------------------------
(***************************************************************************)
(* get_mlq_proc scans the levels cyclically from currentPrio.  Scan(k) is  *)
(* the level of attempt k.  When the scan passes from the last level to    *)
(* level 0 it clears every budget and moves currentPrio to 0, so attempt k *)
(* sees UsedAt(k, q) dispatches of level q.                                *)
(***************************************************************************)
Attempts == 0 .. MAX_PRIO - 1

Scan(k) == (currentPrio + k) % MAX_PRIO

Wrapped(k) == currentPrio + k >= MAX_PRIO

UsedAt(k, q) == IF Wrapped(k) THEN 0 ELSE currentSlot[q]

Eligible(k) ==
    /\ ready[Scan(k)] # <<>>
    /\ UsedAt(k, Scan(k)) < Slot(Scan(k))

FirstEligible(k) == Eligible(k) /\ \A j \in 0 .. k - 1 : ~ Eligible(j)

(* Faulty variants of the budget accounting: the next level is not taken   *)
(* modulo MAX_PRIO; a spent budget is not cleared; the limit is off by     *)
(* one; the scan stays at the spent level.                                 *)
ChargeNoModulo(k, q) ==
    LET used == UsedAt(k, q) + 1 IN
    /\ currentSlot' = [r \in Level |->
          IF r # q THEN UsedAt(k, r) ELSE IF used >= Slot(q) THEN 0 ELSE used]
    /\ currentPrio' = IF used >= Slot(q) THEN q + 1
                      ELSE IF Wrapped(k) THEN 0 ELSE currentPrio

ChargeNotCleared(k, q) ==
    LET used == UsedAt(k, q) + 1 IN
    /\ currentSlot' = [r \in Level |-> IF r # q THEN UsedAt(k, r) ELSE used]
    /\ currentPrio' = IF used >= Slot(q) THEN (q + 1) % MAX_PRIO
                      ELSE IF Wrapped(k) THEN 0 ELSE currentPrio

ChargeOffByOne(k, q) ==
    LET used == UsedAt(k, q) + 1 IN
    /\ currentSlot' = [r \in Level |->
          IF r # q THEN UsedAt(k, r) ELSE IF used > Slot(q) THEN 0 ELSE used]
    /\ currentPrio' = IF used > Slot(q) THEN (q + 1) % MAX_PRIO
                      ELSE IF Wrapped(k) THEN 0 ELSE currentPrio

ChargeStays(k, q) ==
    LET used == UsedAt(k, q) + 1 IN
    /\ currentSlot' = [r \in Level |->
          IF r # q THEN UsedAt(k, r) ELSE IF used >= Slot(q) THEN 0 ELSE used]
    /\ currentPrio' = IF Wrapped(k) THEN 0 ELSE currentPrio

(* A level whose budget is used up hands the scan to the level after it. *)
Charge(k, q) ==
    LET used == UsedAt(k, q) + 1
        spent == used >= Slot(q)
    IN  /\ currentSlot' = [r \in Level |->
              IF r # q THEN UsedAt(k, r) ELSE IF spent THEN 0 ELSE used]
        /\ currentPrio' = IF spent THEN (q + 1) % MAX_PRIO
                          ELSE IF Wrapped(k) THEN 0 ELSE currentPrio

(* get_mlq_proc finds a process. *)
Dispatch(c) ==
    /\ proc[c] = NoProc
    /\ \E k \in Attempts :
          LET q == Scan(k) IN
          /\ FirstEligible(k)
          /\ proc' = [proc EXCEPT ![c] = Front(ready[q])]
          /\ ready' = [ready EXCEPT ![q] = Dequeue(@)]
          /\ runningList' = Enqueue(runningList, Front(ready[q]))
          /\ Charge(k, q)
    /\ UNCHANGED <<prio, pcb>>

(* get_mlq_proc finds none: MAX_PRIO attempts always pass level 0. *)
GetNone(c) ==
    /\ proc[c] = NoProc
    /\ \A k \in Attempts : ~ Eligible(k)
    /\ currentSlot' = [q \in Level |-> 0]
    /\ currentPrio' = 0
    /\ UNCHANGED <<ready, runningList, prio, pcb, proc>>

EnqueueReady(p, pr) ==
    ready' = IF pr < MAX_PRIO THEN [ready EXCEPT ![pr] = Enqueue(@, p)] ELSE ready

(* Faulty variant: the process stays in the running list. *)
PutProcStaysListed(c) ==
    /\ proc[c] # NoProc
    /\ EnqueueReady(proc[c], prio[proc[c]])
    /\ proc' = [proc EXCEPT ![c] = NoProc]
    /\ UNCHANGED <<runningList, currentSlot, currentPrio, prio, pcb>>

(* put_mlq_proc: cpu_routine overwrites its pointer right after the call. *)
PutProc(c) ==
    /\ proc[c] # NoProc
    /\ runningList' = Purge(runningList, proc[c])
    /\ EnqueueReady(proc[c], prio[proc[c]])
    /\ proc' = [proc EXCEPT ![c] = NoProc]
    /\ UNCHANGED <<currentSlot, currentPrio, prio, pcb>>

(* add_mlq_proc on a PCB just loaded with the configured priority pr. *)
AddProc(p, pr) ==
    /\ pcb[p] = "unloaded"
    /\ pcb' = [pcb EXCEPT ![p] = "loaded"]
    /\ prio' = [prio EXCEPT ![p] = pr]
    /\ EnqueueReady(p, pr)
    /\ UNCHANGED <<runningList, currentSlot, currentPrio, proc>>

(* finish_proc and the free of the PCB that follows it in cpu_routine. *)
FinishProc(c) ==
    /\ proc[c] # NoProc
    /\ runningList' = Purge(runningList, proc[c])
    /\ pcb' = [pcb EXCEPT ![proc[c]] = "freed"]
    /\ proc' = [proc EXCEPT ![c] = NoProc]
    /\ UNCHANGED <<ready, currentSlot, currentPrio, prio>>

GetProc(c) == Dispatch(c) \/ GetNone(c)

SchedNext ==
    \/ \E c \in Cpu : GetProc(c) \/ PutProc(c) \/ FinishProc(c)
    \/ \E p \in Proc, pr \in Prios : AddProc(p, pr)

(* A CPU thread without a process keeps asking for one. *)
SchedFairness == \A c \in Cpu : WF_schedVars(GetProc(c))

SchedSpec == SchedInit /\ [][SchedNext]_schedVars /\ SchedFairness
-----------------------------------------------------------------------------
(***************************************************************************)
(* Lookups by pid: get_proc_by_pid and find_process_by_pid search the      *)
(* running list, then every ready queue, under queue_lock.                 *)
(***************************************************************************)
Queued(p) == \E q \in Level : p \in InQueue(ready[q])

FindProcessByPid(p) ==
    IF p \in InQueue(runningList) \/ Queued(p) THEN p ELSE NoProc

Held(p) == \E c \in Cpu : proc[c] = p

(***************************************************************************)
(* No process is in two places: it is queued at most once, only at its own *)
(* level and only while its PCB is allocated, it is held by at most one    *)
(* CPU thread, never queued while held, and the running list names only    *)
(* held processes, each once.  Two CPUs that dispatch, put back and finish *)
(* concurrently must never run one process twice or queue a freed PCB.     *)
(***************************************************************************)
QueuesSound ==
    \A q \in Level :
        /\ Distinct(ready[q])
        /\ \A p \in InQueue(ready[q]) : pcb[p] = "loaded" /\ prio[p] = q

HoldersSound ==
    \A c \in Cpu : proc[c] # NoProc =>
        /\ pcb[proc[c]] = "loaded"
        /\ prio[proc[c]] \in Level
        /\ ~ Queued(proc[c])
        /\ \A d \in Cpu : proc[d] = proc[c] => d = c

RunningListSound ==
    /\ Distinct(runningList)
    /\ \A p \in InQueue(runningList) : Held(p)

OnePlace == QueuesSound /\ HoldersSound /\ RunningListSound

(* A level that used its budget is never left spent, or a scan could pass  *)
(* over its waiting processes and get_proc could answer NULL.              *)
BudgetOpen == \A q \in Level : currentSlot[q] < Slot(q)

(* get_proc answers NULL only if no process waits: the scan of MAX_PRIO    *)
(* attempts from any currentPrio and any budgets finds a waiting process.  *)
WorkConserving ==
    (\E q \in Level : ready[q] # <<>>) => \E k \in Attempts : Eligible(k)

(* A lookup by pid finds exactly the processes that are loaded with a      *)
(* usable priority: none is lost between queues, none is found after its   *)
(* PCB is freed.  It needs queues as large as the number of processes.     *)
LookupExact ==
    \A p \in Proc :
        (FindProcessByPid(p) = p) <=> (pcb[p] = "loaded" /\ prio[p] \in Level)

(* sched.tex and the final report: the CPU always goes to the waiting      *)
(* process of highest priority (the lowest level).                         *)
HighestPriorityFirst ==
    [][\A c \in Cpu :
          proc[c] = NoProc /\ proc'[c] # NoProc
            => \A q \in Level : q < prio[proc'[c]] => ready[q] = <<>>]_schedVars

-----------------------------------------------------------------------------
(* The scheduler implements a pool that admits, runs, preempts and         *)
(* finishes processes, and in which no ready process waits for ever while  *)
(* CPUs keep becoming free.                                                *)
PoolStatus ==
    [p \in Proc |->
        CASE pcb[p] = "unloaded"                    -> "new"
          [] pcb[p] = "freed"                       -> "finished"
          [] pcb[p] = "loaded" /\ prio[p] \notin Level -> "rejected"
          [] OTHER -> IF Held(p) THEN "running" ELSE "ready"]

Pool == INSTANCE ProcessPool WITH status <- PoolStatus

PoolSpec == Pool!Spec
=============================================================================

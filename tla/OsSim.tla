------------------------------- MODULE OsSim -------------------------------
(***************************************************************************)
(* The simulated operating system of os.c: CPU threads (cpu_routine) and   *)
(* the loader thread (ld_routine) that share the scheduler and proceed in  *)
(* time slots.  A step is a call into the scheduler, a call into the timer *)
(* or the local work between two of them; the threads interleave freely    *)
(* inside a slot.                                                          *)
(*                                                                         *)
(* An instruction of a process is one unit of work here: what CALC, ALLOC, *)
(* FREE, READ, WRITE and SYSCALL do to memory is Memory's subject.         *)
(***************************************************************************)
EXTENDS Sched, SlotBarrier, Integers, FiniteSets

CONSTANTS
    NumProcesses,   \* processes in the configuration file
    Loader,         \* the loader thread
    TIME_SLOT,      \* time_slot: instructions a process runs per dispatch
    Sizes,          \* the lengths a program file may have
    StartTimes      \* the start times the configuration may give

(* Pids are handed out in load order.  A start time beyond MaxTime would   *)
(* not be told apart from one that never comes.                            *)
ASSUME OsAssumption ==
    /\ NumProcesses \in Nat
    /\ Proc = 1 .. NumProcesses
    /\ Device = Cpu \cup {Loader}
    /\ Loader \notin Cpu
    /\ TIME_SLOT \in Nat
    /\ Sizes \subseteq Nat
    /\ StartTimes \subseteq 0 .. MaxTime

VARIABLES
    at,         \* at[c]: where CPU thread c is in its loop
    timeLeft,   \* timeLeft[c]: time_left
    ran,        \* ran[c]: instructions run since the last get_proc (history)
    pc,         \* pc[p]: next instruction of process p
    size,       \* size[p]: code->size of process p
    loaded,     \* the loader's i: processes loaded so far
    startTime,  \* startTime[p]: the configured start time
    done        \* done: the loader has loaded every process

cpuVars == <<at, timeLeft, ran>>
imageVars == <<pc, size>>
loaderVars == <<loaded, startTime, done>>
vars == <<schedVars, barrierVars, cpuVars, imageVars, loaderVars>>

OsTypeOK ==
    /\ SchedTypeOK
    /\ BarrierTypeOK
    /\ at \in [Cpu -> {"top", "reget", "check"}]
    /\ timeLeft \in [Cpu -> Int]
    /\ ran \in [Cpu -> Nat]
    /\ pc \in [Proc -> Nat]
    /\ size \in [Proc -> Nat]
    /\ loaded \in 0 .. NumProcesses
    /\ startTime \in [Proc -> 0 .. MaxTime]
    /\ done \in BOOLEAN

Init ==
    /\ SchedInit
    /\ BarrierInit
    /\ at = [c \in Cpu |-> "top"]
    /\ timeLeft = [c \in Cpu |-> 0]
    /\ ran = [c \in Cpu |-> 0]
    /\ pc = [p \in Proc |-> 0]
    /\ size = [p \in Proc |-> 0]
    /\ loaded = 0
    /\ startTime \in [Proc -> StartTimes]
    /\ done = FALSE

-----------------------------------------------------------------------------
(* cpu_routine.  Only a device that is not inside next_slot acts.          *)

Finished(p) == pc[p] = size[p]

Goto(c, label) == at' = [at EXCEPT ![c] = label]

(* proc == NULL at the top, get_proc finds one: go on to run it. *)
CpuTake(c) ==
    /\ at[c] = "top"
    /\ Active(c)
    /\ Dispatch(c)
    /\ Goto(c, "check")
    /\ ran' = [ran EXCEPT ![c] = 0]
    /\ UNCHANGED <<barrierVars, timeLeft, imageVars, loaderVars>>

(* proc == NULL at the top, get_proc finds none: the slot is over for this *)
(* CPU and the loop starts again, without a look at done.                  *)
CpuIdle(c) ==
    /\ at[c] = "top"
    /\ GetNone(c)
    /\ NextSlot(c)
    /\ UNCHANGED <<cpuVars, imageVars, loaderVars>>

(* Faulty variant: the next process inherits what is left of the quantum. *)
CpuFinishKeepsQuantum(c) ==
    /\ at[c] = "top"
    /\ Active(c)
    /\ proc[c] # NoProc
    /\ Finished(proc[c])
    /\ FinishProc(c)
    /\ Goto(c, "reget")
    /\ UNCHANGED <<barrierVars, timeLeft, ran, imageVars, loaderVars>>

CpuFinish(c) ==
    /\ at[c] = "top"
    /\ Active(c)
    /\ proc[c] # NoProc
    /\ Finished(proc[c])
    /\ FinishProc(c)
    /\ Goto(c, "reget")
    /\ timeLeft' = [timeLeft EXCEPT ![c] = 0]
    /\ UNCHANGED <<barrierVars, ran, imageVars, loaderVars>>

(* Faulty variant: no get_proc after put_proc. *)
CpuPreemptOnly(c) ==
    /\ at[c] = "top"
    /\ Active(c)
    /\ proc[c] # NoProc
    /\ ~ Finished(proc[c])
    /\ timeLeft[c] = 0
    /\ PutProc(c)
    /\ Goto(c, "check")
    /\ UNCHANGED <<barrierVars, timeLeft, ran, imageVars, loaderVars>>

CpuPreempt(c) ==
    /\ at[c] = "top"
    /\ Active(c)
    /\ proc[c] # NoProc
    /\ ~ Finished(proc[c])
    /\ timeLeft[c] = 0
    /\ PutProc(c)
    /\ Goto(c, "reget")
    /\ UNCHANGED <<barrierVars, timeLeft, ran, imageVars, loaderVars>>

CpuContinue(c) ==
    /\ at[c] = "top"
    /\ Active(c)
    /\ proc[c] # NoProc
    /\ ~ Finished(proc[c])
    /\ timeLeft[c] # 0
    /\ Goto(c, "check")
    /\ UNCHANGED <<schedVars, barrierVars, timeLeft, ran, imageVars, loaderVars>>

(* The get_proc call after finish_proc or put_proc: another CPU may have   *)
(* taken the process just put back.                                        *)
CpuReget(c) ==
    /\ at[c] = "reget"
    /\ GetProc(c)
    /\ Goto(c, "check")
    /\ ran' = [ran EXCEPT ![c] = 0]
    /\ UNCHANGED <<barrierVars, timeLeft, imageVars, loaderVars>>

CpuStop(c) ==
    /\ at[c] = "check"
    /\ proc[c] = NoProc
    /\ done
    /\ DetachEvent(c)
    /\ UNCHANGED <<schedVars, cpuVars, imageVars, loaderVars>>

CpuWait(c) ==
    /\ at[c] = "check"
    /\ proc[c] = NoProc
    /\ ~ done
    /\ NextSlot(c)
    /\ Goto(c, "top")
    /\ UNCHANGED <<schedVars, timeLeft, ran, imageVars, loaderVars>>

(* The quantum is refilled if it is used up, run executes one instruction  *)
(* (none, and returns 1, past the end of the program), next_slot is called.*)
CpuRun(c) ==
    LET left == IF timeLeft[c] = 0 THEN TIME_SLOT ELSE timeLeft[c] IN
    /\ at[c] = "check"
    /\ proc[c] # NoProc
    /\ timeLeft' = [timeLeft EXCEPT ![c] = left - 1]
    /\ ran' = [ran EXCEPT ![c] = @ + 1]
    /\ pc' = [pc EXCEPT ![proc[c]] =
                 IF @ < size[proc[c]] THEN @ + 1 ELSE @]
    /\ NextSlot(c)
    /\ Goto(c, "top")
    /\ UNCHANGED <<schedVars, size, loaderVars>>

CpuRoutine(c) ==
    \/ CpuTake(c) \/ CpuIdle(c) \/ CpuFinish(c) \/ CpuPreempt(c)
    \/ CpuContinue(c) \/ CpuReget(c) \/ CpuStop(c) \/ CpuWait(c) \/ CpuRun(c)

-----------------------------------------------------------------------------
(* ld_routine *)

NextPid == loaded + 1

LdWait ==
    /\ loaded < NumProcesses
    /\ time < startTime[NextPid]
    /\ NextSlot(Loader)
    /\ UNCHANGED <<schedVars, cpuVars, imageVars, loaderVars>>

(* Faulty variant: done is set with the last add_proc, not a slot later. *)
LdLoadDoneEarly ==
    /\ loaded < NumProcesses
    /\ time >= startTime[NextPid]
    /\ \E pr \in Prios : AddProc(NextPid, pr)
    /\ \E n \in Sizes : size' = [size EXCEPT ![NextPid] = n]
    /\ NextSlot(Loader)
    /\ loaded' = NextPid
    /\ done' = (NextPid = NumProcesses)
    /\ UNCHANGED <<cpuVars, pc, startTime>>

(* load reads the program, add_proc queues the process, then next_slot. *)
LdLoad ==
    /\ loaded < NumProcesses
    /\ time >= startTime[NextPid]
    /\ \E pr \in Prios : AddProc(NextPid, pr)
    /\ \E n \in Sizes : size' = [size EXCEPT ![NextPid] = n]
    /\ NextSlot(Loader)
    /\ loaded' = NextPid
    /\ UNCHANGED <<cpuVars, pc, startTime, done>>

LdDone ==
    /\ loaded = NumProcesses
    /\ Active(Loader)
    /\ ~ done
    /\ done' = TRUE
    /\ UNCHANGED <<schedVars, barrierVars, cpuVars, imageVars, loaded, startTime>>

LdExit ==
    /\ done
    /\ DetachEvent(Loader)
    /\ UNCHANGED <<schedVars, cpuVars, imageVars, loaderVars>>

LdRoutine == LdWait \/ LdLoad \/ LdDone \/ LdExit

-----------------------------------------------------------------------------
TimerRoutine ==
    /\ Tick \/ TimerExit
    /\ UNCHANGED <<schedVars, cpuVars, imageVars, loaderVars>>

(* The program has ended: every thread is joined. *)
Ended == ~ ticking /\ UNCHANGED vars

Next ==
    \/ \E c \in Cpu : CpuRoutine(c)
    \/ LdRoutine
    \/ TimerRoutine
    \/ Ended

(* Each thread is a pthread that is always scheduled again, and takes a    *)
(* mutex a bounded number of times per slot, so weak fairness is enough.   *)
Fairness ==
    /\ \A c \in Cpu : WF_vars(CpuRoutine(c))
    /\ WF_vars(LdRoutine)
    /\ WF_vars(TimerRoutine)

Spec == Init /\ [][Next]_vars /\ Fairness
-----------------------------------------------------------------------------
(***************************************************************************)
(* A process keeps its CPU for exactly TIME_SLOT instructions per dispatch *)
(* unless it finishes: the quantum is never inherited from the process the *)
(* CPU ran before and never refilled while the process keeps the CPU.      *)
(***************************************************************************)
QuantumExact ==
    \A c \in Cpu : proc[c] # NoProc =>
        timeLeft[c] = IF ran[c] = 0 THEN 0 ELSE TIME_SLOT - ran[c]

(***************************************************************************)
(* A CPU stops only after the loader is done, and the CPUs never all stop  *)
(* while a process waits or runs: get_proc's answer NULL and the later     *)
(* reading of done are not atomic, so this rests on the slot the loader    *)
(* spends between its last add_proc and done = 1.                          *)
(***************************************************************************)
Runnable(p) == pcb[p] = "loaded" /\ prio[p] \in Level

NoAbandonedProcess ==
    /\ (detached \cap Cpu # {}) => done
    /\ (Cpu \subseteq detached) => \A p \in Proc : ~ Runnable(p)

(***************************************************************************)
(* When every device has finished the slot and a CPU holds no process (it  *)
(* idled or stopped), at most one process waits, on account of the one the *)
(* loader added after that CPU had asked, and none once loading is done:   *)
(* a CPU that puts a process back always takes one in exchange.            *)
(***************************************************************************)
IdleCpuLeavesNoWork ==
    (posted \cup detached = Device /\ \E c \in Cpu : proc[c] = NoProc)
        => Cardinality({p \in Proc : Queued(p)}) <= (IF done THEN 0 ELSE 1)

(* Every process of the configuration is loaded, and each one of a usable  *)
(* priority is run to its end and its PCB freed.                           *)
EveryProcessFinishes ==
    \A p \in Proc :
        <>(pcb[p] = "freed" \/ (pcb[p] = "loaded" /\ ~ Runnable(p)))

(* The expected outputs end with every CPU's "CPU n stopped", and main     *)
(* joins every CPU thread before it stops the timer.                       *)
AllCpusStop == <>(Cpu \subseteq detached)
=============================================================================

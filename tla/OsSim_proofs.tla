---------------------------- MODULE OsSim_proofs ----------------------------
(***************************************************************************)
(* The operating system of OsSim: its threads use the scheduler only as    *)
(* SchedNext allows, so what is proved of the scheduler holds in it, and   *)
(* the quantum is exact.                                                   *)
(***************************************************************************)
EXTENDS OsSim, Sched_proofs

-----------------------------------------------------------------------------
(* The loader never counts past the processes of the configuration. *)
LoadedOK == loaded \in 0 .. NumProcesses

LEMMA LoadedInvariant == Spec => []LoadedOK
  <1>1. Init => LoadedOK
    BY OsAssumption DEF Init, LoadedOK
  <1>2. LoadedOK /\ [Next]_vars => LoadedOK'
    <2> SUFFICES ASSUME LoadedOK, [Next]_vars PROVE LoadedOK'
      OBVIOUS
    <2>1. CASE LdLoad
      BY <2>1, OsAssumption DEF LdLoad, NextPid, LoadedOK
    <2>2. CASE UNCHANGED loaded
      BY <2>2 DEF LoadedOK
    <2>3. ASSUME NEW c \in Cpu, CpuRoutine(c)
          PROVE  UNCHANGED loaded
      BY <2>3 DEF CpuRoutine, CpuTake, CpuIdle, CpuFinish, CpuPreempt,
                  CpuContinue, CpuReget, CpuStop, CpuWait, CpuRun, loaderVars
    <2>4. ASSUME (LdRoutine /\ ~ LdLoad) \/ TimerRoutine \/ Ended \/ UNCHANGED vars
          PROVE  UNCHANGED loaded
      BY <2>4 DEF LdRoutine, LdWait, LdDone, LdExit, TimerRoutine, Ended,
                  vars, loaderVars
    <2> QED
      BY <2>1, <2>2, <2>3, <2>4 DEF Next
  <1> QED
    BY <1>1, <1>2, PTL DEF Spec

-----------------------------------------------------------------------------
(* Every step of the system is a step of the scheduler's most general      *)
(* client or leaves the scheduler alone.                                   *)
LEMMA StepIsSchedStep == LoadedOK /\ [Next]_vars => [SchedNext]_schedVars
  <1> SUFFICES ASSUME LoadedOK, [Next]_vars PROVE [SchedNext]_schedVars
    OBVIOUS
  <1>1. ASSUME NEW c \in Cpu, CpuRoutine(c)
        PROVE  [SchedNext]_schedVars
    <2>1. CASE CpuTake(c)
      BY <2>1 DEF CpuTake, SchedNext, GetProc
    <2>2. CASE CpuIdle(c)
      BY <2>2 DEF CpuIdle, SchedNext, GetProc
    <2>3. CASE CpuFinish(c)
      BY <2>3 DEF CpuFinish, SchedNext
    <2>4. CASE CpuPreempt(c)
      BY <2>4 DEF CpuPreempt, SchedNext
    <2>5. CASE CpuReget(c)
      BY <2>5 DEF CpuReget, SchedNext
    <2>6. CASE CpuContinue(c) \/ CpuStop(c) \/ CpuWait(c) \/ CpuRun(c)
      BY <2>6 DEF CpuContinue, CpuStop, CpuWait, CpuRun
    <2> QED
      BY <1>1, <2>1, <2>2, <2>3, <2>4, <2>5, <2>6 DEF CpuRoutine
  <1>2. CASE LdRoutine
    <2>1. CASE LdLoad
      <3>1. NextPid \in Proc
        BY <2>1, OsAssumption DEF LdLoad, NextPid, LoadedOK
      <3> QED
        BY <2>1, <3>1 DEF LdLoad, SchedNext
    <2>2. CASE LdWait \/ LdDone \/ LdExit
      BY <2>2 DEF LdWait, LdDone, LdExit
    <2> QED
      BY <1>2, <2>1, <2>2 DEF LdRoutine
  <1>3. CASE TimerRoutine
    BY <1>3 DEF TimerRoutine
  <1>4. CASE Ended \/ UNCHANGED vars
    BY <1>4 DEF Ended, vars
  <1> QED
    BY <1>1, <1>2, <1>3, <1>4 DEF Next

(* In the whole system no process is queued twice, held by two CPU         *)
(* threads, queued while held, or queued after its PCB is freed.           *)
THEOREM OsOnePlace == Spec => []OnePlace
  <1>1. Init => SchedInv
    BY ScanInit, PlaceInit DEF Init, SchedInv
  <1>2. SchedInv /\ LoadedOK /\ [Next]_vars => SchedInv'
    BY StepIsSchedStep, ScanInductive, PlaceInductive DEF SchedInv
  <1>3. SchedInv => OnePlace
    BY DEF SchedInv, PlaceInv
  <1> QED
    BY <1>1, <1>2, <1>3, LoadedInvariant, PTL DEF Spec

-----------------------------------------------------------------------------
(***************************************************************************)
(* The quantum.  QuantumExact is not inductive: what a CPU inherits is     *)
(* decided while it holds no process, so QuantumInv also says that a CPU   *)
(* without a process has no time left, that it has none when it asks for   *)
(* its next process, and that a process it is about to run again has not   *)
(* used its quantum up.                                                    *)
(***************************************************************************)
QuantumAt(c) ==
    /\ at[c] \in {"top", "reget", "check"}
    /\ ran[c] \in Nat
    /\ timeLeft[c] \in Int
    /\ proc[c] = NoProc => timeLeft[c] = 0
    /\ proc[c] # NoProc => timeLeft[c] = IF ran[c] = 0 THEN 0 ELSE TIME_SLOT - ran[c]
    /\ at[c] = "reget" => proc[c] = NoProc
    /\ at[c] = "check" /\ proc[c] # NoProc /\ ran[c] # 0 => timeLeft[c] # 0

QuantumInv ==
    /\ proc \in [Cpu -> Proc \cup {NoProc}]
    /\ at \in [Cpu -> {"top", "reget", "check"}]
    /\ ran \in [Cpu -> Nat]
    /\ timeLeft \in [Cpu -> Int]
    /\ \A c \in Cpu : QuantumAt(c)

(* A step of one CPU thread is local: the others' quanta do not change.    *)
OnlyThread(c) ==
    /\ proc' \in [Cpu -> Proc \cup {NoProc}]
    /\ at' \in [Cpu -> {"top", "reget", "check"}]
    /\ ran' \in [Cpu -> Nat]
    /\ timeLeft' \in [Cpu -> Int]
    /\ \A d \in Cpu \ {c} :
          proc'[d] = proc[d] /\ at'[d] = at[d] /\ ran'[d] = ran[d]
          /\ timeLeft'[d] = timeLeft[d]

LEMMA QuantumLocal ==
    ASSUME QuantumInv, NEW c \in Cpu, OnlyThread(c), QuantumAt(c)'
    PROVE  QuantumInv'
  <1>1. \A d \in Cpu \ {c} : QuantumAt(d)'
    BY DEF QuantumInv, QuantumAt, OnlyThread
  <1> QED
    BY <1>1 DEF QuantumInv, OnlyThread

LEMMA QuantumKept ==
    QuantumInv /\ UNCHANGED <<proc, at, ran, timeLeft>> => QuantumInv'
  BY DEF QuantumInv, QuantumAt

(* get_proc that finds a process hands over one of the processes. *)
LEMMA DispatchTakes ==
    ASSUME SchedInv, NEW c \in Cpu, Dispatch(c)
    PROVE  \E p \in Proc : proc' = [proc EXCEPT ![c] = p]
  <1>1. PICK k \in Attempts :
           /\ FirstEligible(k)
           /\ proc' = [proc EXCEPT ![c] = Front(ready[Scan(k)])]
    BY DEF Dispatch
  <1>2. ready[Scan(k)] \in Seq(Proc) /\ ready[Scan(k)] # <<>>
    BY <1>1, ScanLevel
       DEF SchedInv, ScanInv, ScanTypeOK, PlaceInv, PlaceTypeOK, FirstEligible, Eligible
  <1> QED
    BY <1>1, <1>2, DequeueQueue

LEMMA QuantumInductive ==
    QuantumInv /\ SchedInv /\ [Next]_vars => QuantumInv'
  <1> SUFFICES ASSUME QuantumInv, SchedInv, [Next]_vars
               PROVE  QuantumInv'
    OBVIOUS
  <1>0. NoProc \notin Proc /\ TIME_SLOT \in Nat
    BY SchedAssumption, OsAssumption
  <1>1. ASSUME NEW c \in Cpu, CpuRoutine(c)
        PROVE  QuantumInv'
    <2>0. /\ QuantumAt(c)
          /\ proc \in [Cpu -> Proc \cup {NoProc}]
          /\ at \in [Cpu -> {"top", "reget", "check"}]
          /\ ran \in [Cpu -> Nat]
          /\ timeLeft \in [Cpu -> Int]
      BY DEF QuantumInv
    <2>1. CASE CpuTake(c)
      <3>1. PICK p \in Proc : proc' = [proc EXCEPT ![c] = p]
        BY <2>1, DispatchTakes DEF CpuTake
      <3>2. timeLeft[c] = 0 /\ timeLeft' = timeLeft
            /\ at' = [at EXCEPT ![c] = "check"] /\ ran' = [ran EXCEPT ![c] = 0]
        BY <2>0, <2>1 DEF CpuTake, Dispatch, QuantumAt, Goto
      <3>3. OnlyThread(c)
        BY <2>0, <3>1, <3>2 DEF OnlyThread
      <3>4. QuantumAt(c)'
        BY <2>0, <3>1, <3>2, <1>0 DEF QuantumAt
      <3> QED
        BY <3>3, <3>4, QuantumLocal
    <2>2. CASE CpuIdle(c)
      BY <2>2, QuantumKept DEF CpuIdle, GetNone, cpuVars
    <2>3. CASE CpuFinish(c)
      <3>1. OnlyThread(c)
        BY <2>0, <2>3 DEF CpuFinish, FinishProc, Goto, OnlyThread
      <3>2. QuantumAt(c)'
        BY <2>0, <2>3 DEF CpuFinish, FinishProc, Goto, QuantumAt
      <3> QED
        BY <3>1, <3>2, QuantumLocal
    <2>4. CASE CpuPreempt(c)
      <3>1. OnlyThread(c)
        BY <2>0, <2>4 DEF CpuPreempt, PutProc, Goto, OnlyThread
      <3>2. QuantumAt(c)'
        BY <2>0, <2>4 DEF CpuPreempt, PutProc, Goto, QuantumAt
      <3> QED
        BY <3>1, <3>2, QuantumLocal
    <2>5. CASE CpuContinue(c)
      <3>1. OnlyThread(c)
        BY <2>0, <2>5 DEF CpuContinue, schedVars, Goto, OnlyThread
      <3>2. QuantumAt(c)'
        BY <2>0, <2>5 DEF CpuContinue, schedVars, Goto, QuantumAt
      <3> QED
        BY <3>1, <3>2, QuantumLocal
    <2>6. CASE CpuReget(c)
      <3>1. proc[c] = NoProc /\ timeLeft[c] = 0 /\ timeLeft' = timeLeft
            /\ at' = [at EXCEPT ![c] = "check"] /\ ran' = [ran EXCEPT ![c] = 0]
        BY <2>0, <2>6 DEF CpuReget, QuantumAt, Goto
      <3>2. PICK p \in Proc \cup {NoProc} : proc' = [proc EXCEPT ![c] = p]
        <4>1. CASE Dispatch(c)
          BY <4>1, DispatchTakes
        <4>2. CASE GetNone(c)
          BY <2>0, <3>1, <4>2 DEF GetNone
        <4> QED
          BY <2>6, <4>1, <4>2 DEF CpuReget, GetProc
      <3>3. OnlyThread(c)
        BY <2>0, <3>1, <3>2 DEF OnlyThread
      <3>4. QuantumAt(c)'
        BY <2>0, <3>1, <3>2 DEF QuantumAt
      <3> QED
        BY <3>3, <3>4, QuantumLocal
    <2>7. CASE CpuStop(c)
      BY <2>7, QuantumKept DEF CpuStop, cpuVars, schedVars
    <2>8. CASE CpuWait(c)
      <3>1. OnlyThread(c)
        BY <2>0, <2>8 DEF CpuWait, schedVars, Goto, OnlyThread
      <3>2. QuantumAt(c)'
        BY <2>0, <2>8 DEF CpuWait, schedVars, Goto, QuantumAt
      <3> QED
        BY <3>1, <3>2, QuantumLocal
    <2>9. CASE CpuRun(c)
      <3> DEFINE left == IF timeLeft[c] = 0 THEN TIME_SLOT ELSE timeLeft[c]
      <3>1. /\ at[c] = "check" /\ proc[c] # NoProc /\ proc' = proc
            /\ at' = [at EXCEPT ![c] = "top"]
            /\ ran' = [ran EXCEPT ![c] = ran[c] + 1]
            /\ timeLeft' = [timeLeft EXCEPT ![c] = left - 1]
        BY <2>9 DEF CpuRun, Goto, schedVars
      <3>2. left = TIME_SLOT - ran[c]
        BY <2>0, <3>1, <1>0 DEF QuantumAt
      <3>3. /\ left - 1 \in Int
            /\ left - 1 = TIME_SLOT - (ran[c] + 1)
            /\ ran[c] + 1 \in Nat /\ ran[c] + 1 # 0
        BY <2>0, <3>2, <1>0
      <3> HIDE DEF left
      <3>4. OnlyThread(c)
        BY <2>0, <3>1, <3>3 DEF OnlyThread
      <3>5. QuantumAt(c)'
        BY <2>0, <3>1, <3>3 DEF QuantumAt
      <3> QED
        BY <3>4, <3>5, QuantumLocal
    <2> QED
      BY <1>1, <2>1, <2>2, <2>3, <2>4, <2>5, <2>6, <2>7, <2>8, <2>9 DEF CpuRoutine
  <1>2. CASE LdRoutine
    <2>1. UNCHANGED <<proc, at, ran, timeLeft>>
      BY <1>2 DEF LdRoutine, LdWait, LdLoad, LdDone, LdExit, AddProc, cpuVars, schedVars
    <2> QED
      BY <2>1, QuantumKept
  <1>3. CASE TimerRoutine \/ Ended \/ UNCHANGED vars
    BY <1>3, QuantumKept DEF TimerRoutine, Ended, vars, cpuVars, schedVars
  <1> QED
    BY <1>1, <1>2, <1>3 DEF Next

(* For any number of CPUs and any time slot, a process keeps its CPU for   *)
(* exactly TIME_SLOT instructions per dispatch unless it finishes.         *)
THEOREM AlwaysQuantumExact == Spec => []QuantumExact
  <1>1. Init => SchedInv /\ QuantumInv
    <2> SUFFICES ASSUME Init PROVE SchedInv /\ QuantumInv
      OBVIOUS
    <2>1. SchedInv
      BY ScanInit, PlaceInit DEF Init, SchedInv
    <2>2. QuantumInv
      BY SchedAssumption DEF Init, SchedInit, QuantumInv, QuantumAt
    <2> QED
      BY <2>1, <2>2
  <1>2. SchedInv /\ LoadedOK /\ QuantumInv /\ [Next]_vars => (SchedInv /\ QuantumInv)'
    BY StepIsSchedStep, ScanInductive, PlaceInductive, QuantumInductive DEF SchedInv
  <1>3. QuantumInv => QuantumExact
    BY DEF QuantumInv, QuantumAt, QuantumExact
  <1> QED
    BY <1>1, <1>2, <1>3, LoadedInvariant, PTL DEF Spec

-----------------------------------------------------------------------------
(***************************************************************************)
(* Where the threads are in a time slot: one that is about to ask again    *)
(* has not finished its slot, and a CPU leaves for good only after the     *)
(* loader is done and with no process in its hands.                        *)
(***************************************************************************)
SlotInv ==
    /\ \A c \in Cpu :
          /\ at[c] = "reget" => c \notin posted /\ c \notin detached
          /\ at[c] = "check" => c \notin posted
          /\ c \in detached => done /\ proc[c] = NoProc
    /\ done => loaded = NumProcesses

OsInv == SchedInv /\ LoadedOK /\ QuantumInv /\ SlotInv

LEMMA OsInvInit == Init => OsInv
  <1> SUFFICES ASSUME Init PROVE OsInv
    OBVIOUS
  <1>1. SchedInv
    BY ScanInit, PlaceInit DEF Init, SchedInv
  <1>2. QuantumInv
    BY SchedAssumption DEF Init, SchedInit, QuantumInv, QuantumAt
  <1>3. LoadedOK /\ SlotInv
    BY OsAssumption DEF Init, BarrierInit, LoadedOK, SlotInv
  <1> QED
    BY <1>1, <1>2, <1>3 DEF OsInv

(* A device that acts is neither waiting for the next slot nor gone. *)
LEMMA SlotOfThread ==
    ASSUME QuantumInv, SchedInv, SlotInv, NEW c \in Cpu, CpuRoutine(c)
    PROVE  SlotInv'
  <1>0. /\ proc \in [Cpu -> Proc \cup {NoProc}]
        /\ at \in [Cpu -> {"top", "reget", "check"}]
        /\ QuantumAt(c)
    BY DEF QuantumInv
  <1>1. CASE CpuTake(c)
    <2>1. PICK p \in Proc : proc' = [proc EXCEPT ![c] = p]
      BY <1>1, DispatchTakes DEF CpuTake
    <2> QED
      BY <1>0, <1>1, <2>1 DEF CpuTake, Goto, Active, barrierVars, loaderVars, SlotInv
  <1>2. CASE CpuIdle(c)
    BY <1>0, <1>2 DEF CpuIdle, GetNone, NextSlot, Active, cpuVars, loaderVars, SlotInv
  <1>3. CASE CpuFinish(c)
    BY <1>0, <1>3 DEF CpuFinish, FinishProc, Goto, Active, barrierVars, loaderVars, SlotInv
  <1>4. CASE CpuPreempt(c)
    BY <1>0, <1>4 DEF CpuPreempt, PutProc, Goto, Active, barrierVars, loaderVars, SlotInv
  <1>5. CASE CpuContinue(c)
    BY <1>0, <1>5 DEF CpuContinue, schedVars, Goto, Active, barrierVars, loaderVars, SlotInv
  <1>6. CASE CpuReget(c)
    <2>1. \A d \in Cpu \ {c} : proc'[d] = proc[d]
      <3>1. CASE Dispatch(c)
        <4>1. PICK p \in Proc : proc' = [proc EXCEPT ![c] = p]
          BY <3>1, DispatchTakes
        <4> QED
          BY <1>0, <4>1
      <3>2. CASE GetNone(c)
        BY <3>2 DEF GetNone
      <3> QED
        BY <1>6, <3>1, <3>2 DEF CpuReget, GetProc
    <2> QED
      BY <1>0, <1>6, <2>1 DEF CpuReget, Goto, barrierVars, loaderVars, SlotInv
  <1>7. CASE CpuStop(c)
    BY <1>0, <1>7 DEF CpuStop, DetachEvent, Active, cpuVars, schedVars, loaderVars, SlotInv
  <1>8. CASE CpuWait(c)
    BY <1>0, <1>8 DEF CpuWait, NextSlot, Goto, Active, schedVars, loaderVars, SlotInv
  <1>9. CASE CpuRun(c)
    BY <1>0, <1>9 DEF CpuRun, NextSlot, Goto, Active, schedVars, loaderVars, SlotInv
  <1> QED
    BY <1>1, <1>2, <1>3, <1>4, <1>5, <1>6, <1>7, <1>8, <1>9 DEF CpuRoutine

LEMMA SlotInductive ==
    QuantumInv /\ SchedInv /\ LoadedOK /\ SlotInv /\ [Next]_vars => SlotInv'
  <1> SUFFICES ASSUME QuantumInv, SchedInv, LoadedOK, SlotInv, [Next]_vars
               PROVE  SlotInv'
    OBVIOUS
  <1>1. ASSUME NEW c \in Cpu, CpuRoutine(c)
        PROVE  SlotInv'
    BY <1>1, SlotOfThread
  <1>2. CASE LdRoutine
    <2>0. Loader \notin Cpu
      BY OsAssumption
    <2>1. CASE LdWait
      BY <2>0, <2>1 DEF LdWait, NextSlot, cpuVars, schedVars, loaderVars, SlotInv
    <2>2. CASE LdLoad
      <3>1. /\ posted' = posted \cup {Loader} /\ detached' = detached
            /\ at' = at /\ proc' = proc /\ done' = done
            /\ loaded < NumProcesses /\ loaded \in Nat
        BY <2>2, OsAssumption DEF LdLoad, AddProc, NextSlot, cpuVars, LoadedOK
      <3>2. ~ done
        BY <3>1, OsAssumption DEF SlotInv
      <3> QED
        BY <2>0, <3>1, <3>2 DEF SlotInv
    <2>3. CASE LdDone
      BY <2>3 DEF LdDone, cpuVars, schedVars, barrierVars, SlotInv
    <2>4. CASE LdExit
      BY <2>0, <2>4 DEF LdExit, DetachEvent, cpuVars, schedVars, loaderVars, SlotInv
    <2> QED
      BY <1>2, <2>1, <2>2, <2>3, <2>4 DEF LdRoutine
  <1>3. CASE TimerRoutine
    BY <1>3 DEF TimerRoutine, Tick, TimerExit, cpuVars, schedVars, loaderVars, SlotInv
  <1>4. CASE Ended \/ UNCHANGED vars
    BY <1>4 DEF Ended, vars, cpuVars, schedVars, barrierVars, loaderVars, SlotInv
  <1> QED
    BY <1>1, <1>2, <1>3, <1>4 DEF Next

LEMMA OsInvariant == Spec => []OsInv
  <1>1. Init => OsInv
    BY OsInvInit
  <1>2. LoadedOK /\ OsInv /\ [Next]_vars /\ LoadedOK' => OsInv'
    BY StepIsSchedStep, ScanInductive, PlaceInductive, QuantumInductive, SlotInductive
       DEF SchedInv, OsInv
  <1> QED
    BY <1>1, <1>2, LoadedInvariant, PTL DEF Spec

-----------------------------------------------------------------------------
(* The state outside the scheduler. *)
RestTypeOK ==
    /\ BarrierTypeOK
    /\ pc \in [Proc -> Nat]
    /\ size \in [Proc -> Nat]
    /\ startTime \in [Proc -> 0 .. MaxTime]
    /\ done \in BOOLEAN

LEMMA BarrierTyped ==
    ASSUME BarrierTypeOK, [BarrierNext]_barrierVars
    PROVE  BarrierTypeOK'
  <1>1. ASSUME NEW d \in Device, NextSlot(d) \/ DetachEvent(d)
        PROVE  BarrierTypeOK'
    BY <1>1 DEF NextSlot, DetachEvent, BarrierTypeOK
  <1>2. CASE Tick
    <2>1. Later(time) \in 0 .. MaxTime
      BY BarrierAssumption DEF BarrierTypeOK, Later
    <2> QED
      BY <1>2, <2>1 DEF Tick, BarrierTypeOK
  <1>3. CASE TimerExit
    BY <1>3 DEF TimerExit, BarrierTypeOK
  <1>4. CASE UNCHANGED barrierVars
    BY <1>4 DEF barrierVars, BarrierTypeOK
  <1> QED
    BY <1>1, <1>2, <1>3, <1>4 DEF BarrierNext

(* The system uses the slots only as the barrier allows. *)
LEMMA StepIsBarrierStep == [Next]_vars => [BarrierNext]_barrierVars
  <1> SUFFICES ASSUME [Next]_vars PROVE [BarrierNext]_barrierVars
    OBVIOUS
  <1>0. Cpu \subseteq Device /\ Loader \in Device
    BY OsAssumption
  <1>1. ASSUME NEW c \in Cpu, CpuRoutine(c)
        PROVE  [BarrierNext]_barrierVars
    <2>1. CASE CpuIdle(c) \/ CpuWait(c) \/ CpuRun(c)
      BY <1>0, <2>1 DEF CpuIdle, CpuWait, CpuRun, BarrierNext
    <2>2. CASE CpuStop(c)
      BY <1>0, <2>2 DEF CpuStop, BarrierNext
    <2>3. CASE CpuTake(c) \/ CpuFinish(c) \/ CpuPreempt(c) \/ CpuContinue(c) \/ CpuReget(c)
      BY <2>3 DEF CpuTake, CpuFinish, CpuPreempt, CpuContinue, CpuReget
    <2> QED
      BY <1>1, <2>1, <2>2, <2>3 DEF CpuRoutine
  <1>2. CASE LdRoutine
    BY <1>0, <1>2 DEF LdRoutine, LdWait, LdLoad, LdDone, LdExit, BarrierNext
  <1>3. CASE TimerRoutine
    BY <1>3 DEF TimerRoutine, BarrierNext
  <1>4. CASE Ended \/ UNCHANGED vars
    BY <1>4 DEF Ended, vars
  <1> QED
    BY <1>1, <1>2, <1>3, <1>4 DEF Next

LEMMA RestTyped ==
    RestTypeOK /\ OsInv /\ [Next]_vars => RestTypeOK'
  <1> SUFFICES ASSUME RestTypeOK, OsInv, [Next]_vars
               PROVE  RestTypeOK'
    OBVIOUS
  <1>0. BarrierTypeOK'
    BY StepIsBarrierStep, BarrierTyped DEF RestTypeOK
  <1>1. ASSUME UNCHANGED <<imageVars, startTime, done>>
        PROVE  RestTypeOK'
    BY <1>0, <1>1 DEF RestTypeOK, imageVars
  <1>2. ASSUME NEW c \in Cpu, CpuRoutine(c)
        PROVE  RestTypeOK'
    <2>1. CASE CpuRun(c)
      <3>1. proc[c] \in Proc
        BY <2>1 DEF OsInv, QuantumInv, CpuRun
      <3>2. pc' = [pc EXCEPT ![proc[c]] =
                      IF pc[proc[c]] < size[proc[c]] THEN pc[proc[c]] + 1 ELSE pc[proc[c]]]
            /\ UNCHANGED <<size, loaderVars>>
        BY <2>1 DEF CpuRun
      <3>3. pc' \in [Proc -> Nat]
        BY <3>1, <3>2 DEF RestTypeOK
      <3> QED
        BY <1>0, <3>2, <3>3 DEF RestTypeOK, loaderVars
    <2>2. CASE ~ CpuRun(c)
      BY <1>1, <1>2, <2>2
         DEF CpuRoutine, CpuTake, CpuIdle, CpuFinish, CpuPreempt, CpuContinue,
             CpuReget, CpuStop, CpuWait, loaderVars, imageVars
    <2> QED
      BY <2>1, <2>2
  <1>3. CASE LdRoutine
    <2>1. CASE LdLoad
      BY <1>0, <2>1, OsAssumption DEF LdLoad, RestTypeOK
    <2>2. CASE LdDone
      BY <1>0, <2>2 DEF LdDone, RestTypeOK, imageVars
    <2>3. CASE LdWait \/ LdExit
      BY <1>1, <2>3 DEF LdWait, LdExit, loaderVars
    <2> QED
      BY <1>3, <2>1, <2>2, <2>3 DEF LdRoutine
  <1>4. CASE TimerRoutine \/ Ended \/ UNCHANGED vars
    BY <1>1, <1>4 DEF TimerRoutine, Ended, vars, loaderVars
  <1> QED
    BY <1>2, <1>3, <1>4 DEF Next

(* The whole state keeps its type: in particular a CPU thread is always at *)
(* a point of its loop, and its time left is a number that can go below 0. *)
THEOREM OsTyped == Spec => []OsTypeOK
  <1>1. Init => RestTypeOK
    <2> SUFFICES ASSUME Init PROVE RestTypeOK
      OBVIOUS
    <2>1. BarrierTypeOK
      BY BarrierAssumption DEF Init, BarrierInit, BarrierTypeOK
    <2>2. startTime \in [Proc -> 0 .. MaxTime]
      BY OsAssumption DEF Init
    <2> QED
      BY <2>1, <2>2 DEF Init, RestTypeOK
  <1>2. OsInv /\ RestTypeOK /\ [Next]_vars => RestTypeOK'
    BY RestTyped
  <1>3. OsInv /\ RestTypeOK => OsTypeOK
    BY DEF OsInv, RestTypeOK, OsTypeOK, SchedInv, ScanInv, ScanTypeOK, PlaceInv,
           PlaceTypeOK, SchedTypeOK, QuantumInv, LoadedOK
  <1> QED
    BY <1>1, <1>2, <1>3, OsInvariant, PTL DEF Spec

-----------------------------------------------------------------------------
(***************************************************************************)
(* Work and idle CPUs.  Once a CPU has found no process in a slot, every   *)
(* process that waits was put back by a CPU that is about to ask again, or *)
(* is the one the loader added before it entered next_slot.                *)
(***************************************************************************)
FoundNone(c) == proc[c] = NoProc /\ (at[c] = "check" \/ c \in posted \/ c \in detached)

Waiting == {p \in Proc : Queued(p)}

Asking == {c \in Cpu : at[c] = "reget"}

Late == IF Loader \in posted /\ ~ done THEN 1 ELSE 0

IdleInv ==
    (\E c \in Cpu : FoundNone(c)) => Cardinality(Waiting) <= Cardinality(Asking) + Late

LEMMA FiniteCounts ==
    ASSUME IsFiniteSet(Cpu)
    PROVE  /\ IsFiniteSet(Waiting) /\ IsFiniteSet(Asking)
           /\ Cardinality(Waiting) \in Nat /\ Cardinality(Asking) \in Nat
           /\ Late \in Nat
  <1>1. IsFiniteSet(Proc)
    BY OsAssumption, FS_Interval
  <1>2. Waiting \in SUBSET Proc /\ Asking \in SUBSET Cpu
    BY DEF Waiting, Asking
  <1>3. IsFiniteSet(Waiting) /\ IsFiniteSet(Asking)
    BY <1>1, <1>2, FS_Subset
  <1> QED
    BY <1>3, FS_CardinalityType DEF Late

(* How a call into the scheduler changes the waiting processes. *)
LEMMA WaitingDispatch ==
    ASSUME IsFiniteSet(Cpu), SchedInv, NEW c \in Cpu, Dispatch(c)
    PROVE  Cardinality(Waiting') = Cardinality(Waiting) - 1
  <1>0. PlaceInv /\ currentPrio \in Level
    BY DEF SchedInv, ScanInv, ScanTypeOK
  <1>1. PICK k \in Attempts, p \in Proc :
           /\ Scan(k) \in Level
           /\ p \in InQueue(ready[Scan(k)])
           /\ \A r \in Level : /\ Distinct(ready'[r])
                               /\ InQueue(ready'[r]) = InQueue(ready[r]) \ {p}
    BY <1>0, DispatchMoves
  <1>2. p \in Waiting
    BY <1>1 DEF Waiting, Queued
  <1>3. Waiting' = Waiting \ {p}
    <2>1. \A x \in Proc : (\E r \in Level : x \in InQueue(ready'[r]))
                             <=> x # p /\ \E r \in Level : x \in InQueue(ready[r])
      BY <1>1
    <2> QED
      BY <2>1 DEF Waiting, Queued, Level, InQueue
  <1> QED
    BY <1>2, <1>3, FiniteCounts, FS_RemoveElement

LEMMA WaitingEnqueue ==
    ASSUME IsFiniteSet(Cpu), PlaceInv, NEW p \in Proc, NEW pr \in Nat,
           EnqueueReady(p, pr), ~ Queued(p)
    PROVE  /\ Cardinality(Waiting') \in Nat
           /\ Cardinality(Waiting') <= Cardinality(Waiting) + 1
  <1>1. \A q \in Level : \A x \in InQueue(ready'[q]) :
           x \in InQueue(ready[q]) \/ (x = p /\ q = pr)
    BY EnqueueReadySound DEF PlaceInv, OnePlace
  <1>2. Waiting' \subseteq Waiting \cup {p}
    BY <1>1 DEF Waiting, Queued, Level, InQueue
  <1>3. /\ IsFiniteSet(Waiting \cup {p})
        /\ Cardinality(Waiting \cup {p}) <= Cardinality(Waiting) + 1
    <2>1. IsFiniteSet(Waiting) /\ Cardinality(Waiting) \in Nat
      BY FiniteCounts
    <2>2. /\ IsFiniteSet(Waiting \cup {p})
          /\ Cardinality(Waiting \cup {p})
                = IF p \in Waiting THEN Cardinality(Waiting) ELSE Cardinality(Waiting) + 1
      BY <2>1, FS_AddElement
    <2> QED
      BY <2>1, <2>2
  <1>4. /\ IsFiniteSet(Waiting')
        /\ Cardinality(Waiting') <= Cardinality(Waiting \cup {p})
    BY <1>2, <1>3, FS_Subset
  <1>5. /\ Cardinality(Waiting') \in Nat /\ Cardinality(Waiting \cup {p}) \in Nat
        /\ Cardinality(Waiting) \in Nat
    BY <1>3, <1>4, FiniteCounts, FS_CardinalityType
  <1> QED
    BY <1>3, <1>4, <1>5

LEMMA NoneWaiting ==
    ASSUME IsFiniteSet(Cpu), SchedInv, NEW c \in Cpu, GetNone(c)
    PROVE  Cardinality(Waiting') = 0
  <1>1. \A q \in Level : ready[q] = <<>>
    BY EmptyGet DEF SchedInv
  <1>2. ready' = ready
    BY DEF GetNone
  <1>3. Waiting' = {}
    BY <1>1, <1>2 DEF Waiting, Queued, InQueue, Level
  <1> QED
    BY <1>3, FS_EmptySet

(* A CPU joins or leaves those about to ask again. *)
LEMMA AskingMore ==
    ASSUME IsFiniteSet(Cpu), NEW c \in Cpu, c \notin Asking,
           at \in [Cpu -> {"top", "reget", "check"}],
           at' = [at EXCEPT ![c] = "reget"]
    PROVE  Cardinality(Asking') = Cardinality(Asking) + 1
  <1>1. Asking' = Asking \cup {c}
    BY DEF Asking
  <1> QED
    BY <1>1, FiniteCounts, FS_AddElement

LEMMA AskingLess ==
    ASSUME IsFiniteSet(Cpu), NEW c \in Cpu, c \in Asking,
           at \in [Cpu -> {"top", "reget", "check"}],
           at' = [at EXCEPT ![c] = "check"]
    PROVE  Cardinality(Asking') = Cardinality(Asking) - 1
  <1>1. Asking' = Asking \ {c}
    BY DEF Asking
  <1> QED
    BY <1>1, FiniteCounts, FS_RemoveElement

LEMMA AskingSame ==
    ASSUME NEW c \in Cpu, c \notin Asking,
           at \in [Cpu -> {"top", "reget", "check"}],
           NEW l \in {"top", "check"}, at' = [at EXCEPT ![c] = l] \/ at' = at
    PROVE  Asking' = Asking
  BY DEF Asking

(* What a CPU thread's step leaves of the bound.  A CPU that finds no      *)
(* process proves that none waits; one that puts a process back is then    *)
(* about to ask again; one that asks again takes a process.                *)
LEMMA IdleOfThread ==
    ASSUME IsFiniteSet(Cpu), OsInv, IdleInv, NEW c \in Cpu, CpuRoutine(c)
    PROVE  IdleInv'
  <1> DEFINE W == Cardinality(Waiting)
             A == Cardinality(Asking)
  <1>0. /\ SchedInv /\ PlaceInv /\ SlotInv /\ QuantumAt(c)
        /\ proc \in [Cpu -> Proc \cup {NoProc}]
        /\ at \in [Cpu -> {"top", "reget", "check"}]
        /\ W \in Nat /\ A \in Nat /\ Late \in Nat /\ Late' \in Nat
    <2>1. Late' \in Nat
      BY DEF Late
    <2> QED
      BY <2>1, FiniteCounts DEF OsInv, SchedInv, QuantumInv
  <1>1. ASSUME Cardinality(Waiting') = 0, Cardinality(Asking') \in Nat
        PROVE  IdleInv'
    BY <1>0, <1>1 DEF IdleInv
  <1>2. Loader # c
    BY OsAssumption
  <1>3. CASE CpuTake(c)
    <2>1. PICK p \in Proc : proc' = [proc EXCEPT ![c] = p]
      BY <1>0, <1>3, DispatchTakes DEF CpuTake
    <2>2. /\ at' = [at EXCEPT ![c] = "check"] /\ at[c] = "top"
          /\ posted' = posted /\ detached' = detached /\ done' = done
      BY <1>3 DEF CpuTake, Goto, barrierVars, loaderVars
    <2>3. \A d \in Cpu : FoundNone(d)' => FoundNone(d)
      BY <1>0, <2>1, <2>2, SchedAssumption DEF FoundNone
    <2>4. Asking' = Asking
      BY <1>0, <2>2, AskingSame DEF Asking
    <2>5. Cardinality(Waiting') = W - 1
      BY <1>0, <1>3, WaitingDispatch DEF CpuTake
    <2>6. Late' = Late
      BY <2>2 DEF Late
    <2> HIDE DEF W, A
    <2> QED
      BY <1>0, <2>3, <2>4, <2>5, <2>6 DEF IdleInv, W, A
  <1>4. CASE CpuIdle(c)
    <2>1. Cardinality(Waiting') = 0
      BY <1>0, <1>4, NoneWaiting DEF CpuIdle
    <2>2. Asking' = Asking
      BY <1>4 DEF CpuIdle, cpuVars, Asking
    <2> QED
      BY <1>0, <1>1, <2>1, <2>2
  <1>5. CASE CpuFinish(c) \/ CpuPreempt(c)
    <2>1. /\ at' = [at EXCEPT ![c] = "reget"] /\ at[c] = "top"
          /\ proc' = [proc EXCEPT ![c] = NoProc] /\ Active(c)
          /\ posted' = posted /\ detached' = detached /\ done' = done
      BY <1>5 DEF CpuFinish, FinishProc, CpuPreempt, PutProc, Goto, barrierVars, loaderVars
    <2>2. \A d \in Cpu : FoundNone(d)' => FoundNone(d)
      BY <1>0, <2>1 DEF FoundNone, Active
    <2>3. Cardinality(Asking') = A + 1
      BY <1>0, <2>1, AskingMore DEF Asking
    <2>4. Cardinality(Waiting') \in Nat /\ Cardinality(Waiting') <= W + 1
      <3>1. CASE CpuFinish(c)
        <4>1. Waiting' = Waiting
          BY <3>1 DEF CpuFinish, FinishProc, Waiting, Queued, Level, InQueue
        <4> QED
          BY <1>0, <4>1
      <3>2. CASE CpuPreempt(c)
        <4>1. /\ proc[c] \in Proc /\ prio[proc[c]] \in Nat
              /\ EnqueueReady(proc[c], prio[proc[c]]) /\ ~ Queued(proc[c])
          BY <1>0, <3>2
             DEF CpuPreempt, PutProc, PlaceInv, PlaceTypeOK, OnePlace, HoldersSound
        <4> QED
          BY <1>0, <4>1, WaitingEnqueue
      <3> QED
        BY <1>5, <3>1, <3>2
    <2>5. Late' = Late
      BY <2>1 DEF Late
    <2> HIDE DEF W, A
    <2> QED
      BY <1>0, <2>2, <2>3, <2>4, <2>5 DEF IdleInv, W, A
  <1>6. CASE CpuReget(c)
    <2>1. /\ at' = [at EXCEPT ![c] = "check"] /\ at[c] = "reget" /\ c \in Asking
          /\ posted' = posted /\ detached' = detached /\ done' = done
      BY <1>6 DEF CpuReget, Goto, barrierVars, loaderVars, Asking
    <2>2. Cardinality(Asking') = A - 1
      BY <1>0, <2>1, AskingLess
    <2>3. CASE GetNone(c)
      <3>1. Cardinality(Waiting') = 0
        BY <1>0, <2>3, NoneWaiting
      <3>2. Cardinality(Asking') \in Nat
        <4>1. A # 0
          BY <2>1, FiniteCounts, FS_EmptySet
        <4> HIDE DEF A
        <4> QED
          BY <1>0, <2>2, <4>1
      <3> QED
        BY <1>1, <3>1, <3>2
    <2>4. CASE Dispatch(c)
      <3>1. PICK p \in Proc : proc' = [proc EXCEPT ![c] = p]
        BY <1>0, <2>4, DispatchTakes
      <3>2. \A d \in Cpu : FoundNone(d)' => FoundNone(d)
        BY <1>0, <2>1, <3>1, SchedAssumption DEF FoundNone
      <3>3. Cardinality(Waiting') = W - 1
        BY <1>0, <2>4, WaitingDispatch
      <3>4. Late' = Late
        BY <2>1 DEF Late
      <3> HIDE DEF W, A
      <3> QED
        BY <1>0, <2>2, <3>2, <3>3, <3>4 DEF IdleInv, W, A
    <2> QED
      BY <1>6, <2>3, <2>4 DEF CpuReget, GetProc
  <1>7. CASE CpuContinue(c) \/ CpuStop(c) \/ CpuWait(c) \/ CpuRun(c)
    <2>1. /\ ready' = ready /\ proc' = proc /\ done' = done
          /\ \/ at[c] = "top" /\ proc[c] # NoProc /\ at' = [at EXCEPT ![c] = "check"]
                 /\ posted' = posted /\ detached' = detached
             \/ at[c] = "check" /\ proc[c] = NoProc /\ at' = at
                 /\ posted' = posted /\ detached' = detached \cup {c}
             \/ at[c] = "check" /\ at' = [at EXCEPT ![c] = "top"]
                 /\ posted' = posted \cup {c} /\ detached' = detached
      BY <1>7 DEF CpuContinue, CpuStop, CpuWait, CpuRun, DetachEvent, NextSlot, Goto,
                  schedVars, barrierVars, cpuVars, loaderVars
    <2>2. \A d \in Cpu : FoundNone(d)' => FoundNone(d)
      BY <1>0, <2>1 DEF FoundNone
    <2>3. Asking' = Asking
      BY <1>0, <2>1, AskingSame DEF Asking
    <2>4. Waiting' = Waiting
      BY <2>1 DEF Waiting, Queued, Level, InQueue
    <2>5. Late' = Late
      BY <1>2, <2>1 DEF Late
    <2> QED
      BY <2>2, <2>3, <2>4, <2>5 DEF IdleInv
  <1> QED
    BY <1>3, <1>4, <1>5, <1>6, <1>7 DEF CpuRoutine

(* What the other steps leave of it.  The loader adds one process before   *)
(* it waits for the next slot, and is done only in a slot it adds none in; *)
(* when the timer starts a slot, nobody is about to ask again, and a CPU   *)
(* that has found none is gone, so that the loader was done.               *)
LEMMA IdleOfOthers ==
    ASSUME IsFiniteSet(Cpu), OsInv, IdleInv, LdRoutine \/ TimerRoutine
    PROVE  IdleInv'
  <1>0. /\ PlaceInv /\ SlotInv /\ QuantumInv /\ LoadedOK
        /\ Cardinality(Waiting) \in Nat /\ Cardinality(Asking) \in Nat
    BY FiniteCounts DEF OsInv, SchedInv
  <1>1. at' = at /\ proc' = proc /\ Asking' = Asking
    BY DEF LdRoutine, LdWait, LdLoad, LdDone, LdExit, TimerRoutine, AddProc,
           cpuVars, schedVars, Asking
  <1>2. Loader \notin Cpu
    BY OsAssumption
  <1>3. ASSUME ready' = ready
        PROVE  Waiting' = Waiting
    BY <1>3 DEF Waiting, Queued, Level, InQueue
  <1>4. CASE LdLoad
    <2>1. /\ posted' = posted \cup {Loader} /\ detached' = detached /\ done' = done
          /\ Loader \notin posted /\ ~ done
      BY <1>0, <1>4, OsAssumption
         DEF LdLoad, NextSlot, Active, SlotInv, LoadedOK
    <2>2. \A d \in Cpu : FoundNone(d)' => FoundNone(d)
      BY <1>1, <1>2, <2>1 DEF FoundNone
    <2>3. Late = 0 /\ Late' = 1
      BY <2>1 DEF Late
    <2>4. /\ Cardinality(Waiting') \in Nat
          /\ Cardinality(Waiting') <= Cardinality(Waiting) + 1
      <3>1. PICK pr \in Prios : AddProc(NextPid, pr)
        BY <1>4 DEF LdLoad
      <3>2. /\ NextPid \in Proc /\ pr \in Nat /\ EnqueueReady(NextPid, pr)
            /\ pcb[NextPid] = "unloaded"
        BY <1>0, <1>4, <3>1, OsAssumption, SchedAssumption
           DEF LdLoad, NextPid, LoadedOK, AddProc
      <3>3. ~ Queued(NextPid)
        BY <1>0, <3>2 DEF PlaceInv, OnePlace, QueuesSound, Queued
      <3> QED
        BY <1>0, <3>2, <3>3, WaitingEnqueue
    <2> QED
      BY <1>0, <1>1, <2>2, <2>3, <2>4 DEF IdleInv
  <1>5. CASE LdWait \/ LdExit
    <2>1. /\ ready' = ready /\ done' = done
          /\ \/ posted' = posted \cup {Loader} /\ detached' = detached
             \/ posted' = posted /\ detached' = detached \cup {Loader}
      BY <1>5 DEF LdWait, LdExit, NextSlot, DetachEvent, schedVars, loaderVars
    <2>2. \A d \in Cpu : FoundNone(d)' => FoundNone(d)
      BY <1>1, <1>2, <2>1 DEF FoundNone
    <2>3. Late <= Late' /\ Late \in Nat /\ Late' \in Nat
      BY <2>1 DEF Late
    <2> QED
      BY <1>0, <1>1, <1>3, <2>1, <2>2, <2>3 DEF IdleInv
  <1>6. CASE LdDone
    <2>1. /\ ready' = ready /\ posted' = posted /\ detached' = detached
          /\ Loader \notin posted
      BY <1>6 DEF LdDone, Active, schedVars, barrierVars
    <2>2. \A d \in Cpu : FoundNone(d)' => FoundNone(d)
      BY <1>1, <2>1 DEF FoundNone
    <2>3. Late = 0 /\ Late' = 0
      BY <2>1 DEF Late
    <2> QED
      BY <1>1, <1>3, <2>1, <2>2, <2>3 DEF IdleInv
  <1>7. CASE TimerRoutine
    <2>1. ready' = ready /\ done' = done
      BY <1>7 DEF TimerRoutine, schedVars, loaderVars
    <2>2. CASE Tick
      <3>1. posted' = {} /\ detached' = detached /\ posted \cup detached = Device
        BY <2>2 DEF Tick
      <3>2. SUFFICES ASSUME NEW c \in Cpu, FoundNone(c)'
                     PROVE  Cardinality(Waiting') <= Cardinality(Asking') + Late'
        BY DEF IdleInv
      <3>3. c \in detached
        BY <1>0, <1>1, <3>1, <3>2, OsAssumption DEF FoundNone, SlotInv
      <3>4. done /\ FoundNone(c)
        BY <1>0, <3>3 DEF SlotInv, FoundNone
      <3>5. Late = 0 /\ Late' = 0
        BY <2>1, <3>1, <3>4 DEF Late
      <3> QED
        BY <1>1, <1>3, <2>1, <3>4, <3>5 DEF IdleInv
    <2>3. CASE TimerExit
      <3>1. posted' = posted /\ detached' = detached
        BY <2>3 DEF TimerExit
      <3>2. \A d \in Cpu : FoundNone(d)' <=> FoundNone(d)
        BY <1>1, <3>1 DEF FoundNone
      <3>3. Late' = Late
        BY <2>1, <3>1 DEF Late
      <3> QED
        BY <1>1, <1>3, <2>1, <3>2, <3>3 DEF IdleInv
    <2> QED
      BY <1>7, <2>2, <2>3 DEF TimerRoutine
  <1> QED
    BY <1>4, <1>5, <1>6, <1>7 DEF LdRoutine

LEMMA IdleInvariant ==
    ASSUME IsFiniteSet(Cpu)
    PROVE  Spec => []IdleInv
  <1>1. Init => IdleInv
    BY DEF Init, BarrierInit, IdleInv, FoundNone
  <1>2. OsInv /\ IdleInv /\ [Next]_vars => IdleInv'
    <2> SUFFICES ASSUME OsInv, IdleInv, [Next]_vars PROVE IdleInv'
      OBVIOUS
    <2>1. ASSUME NEW c \in Cpu, CpuRoutine(c)
          PROVE  IdleInv'
      BY <2>1, IdleOfThread
    <2>2. CASE LdRoutine \/ TimerRoutine
      BY <2>2, IdleOfOthers
    <2>3. CASE Ended \/ UNCHANGED vars
      BY <2>3 DEF Ended, vars, schedVars, barrierVars, cpuVars, loaderVars, IdleInv,
                  FoundNone, Waiting, Asking, Late, Queued, Level, InQueue
    <2> QED
      BY <2>1, <2>2, <2>3 DEF Next
  <1> QED
    BY <1>1, <1>2, OsInvariant, PTL DEF Spec

(* For any number of CPUs and processes: when every device has finished    *)
(* the slot and a CPU holds no process, at most one process waits, and     *)
(* none once loading is done.                                              *)
THEOREM AlwaysIdleCpuLeavesNoWork ==
    ASSUME IsFiniteSet(Cpu)
    PROVE  Spec => []IdleCpuLeavesNoWork
  <1>1. OsInv /\ IdleInv => IdleCpuLeavesNoWork
    <2> SUFFICES ASSUME OsInv, IdleInv, posted \cup detached = Device,
                        NEW c \in Cpu, proc[c] = NoProc
                 PROVE  Cardinality(Waiting) <= (IF done THEN 0 ELSE 1)
      BY DEF IdleCpuLeavesNoWork, Waiting
    <2>1. FoundNone(c)
      BY OsAssumption DEF FoundNone
    <2>2. Asking = {}
      BY OsAssumption DEF Asking, OsInv, SlotInv
    <2>3. Cardinality(Asking) = 0
      BY <2>2, FS_EmptySet
    <2>4. Late <= IF done THEN 0 ELSE 1
      BY DEF Late
    <2> QED
      BY <2>1, <2>3, <2>4, FiniteCounts DEF IdleInv
  <1> QED
    BY <1>1, OsInvariant, IdleInvariant, PTL

(* With room for every process in each queue, none is lost in the system.  *)
LEMMA LookupInvariant ==
    ASSUME EnoughRoom
    PROVE  Spec => []LookupInv
  <1>1. Init => LookupInv
    BY SchedAssumption DEF Init, SchedInit, LookupInv
  <1>2. OsInv /\ LookupInv /\ [Next]_vars => LookupInv'
    BY StepIsSchedStep, LookupInductive DEF OsInv
  <1> QED
    BY <1>1, <1>2, OsInvariant, PTL DEF Spec

(* For any number of CPUs, at least one, and any number of processes that  *)
(* each queue has room for: a CPU stops only after the loader is done, and *)
(* the CPUs never all stop while a process waits or runs.                  *)
THEOREM AlwaysNoAbandonedProcess ==
    ASSUME EnoughRoom, IsFiniteSet(Cpu), Cpu # {}
    PROVE  Spec => []NoAbandonedProcess
  <1>1. OsInv /\ IdleInv /\ LookupInv => NoAbandonedProcess
    <2> SUFFICES ASSUME OsInv, IdleInv, LookupInv
                 PROVE  NoAbandonedProcess
      OBVIOUS
    <2>1. detached \cap Cpu # {} => done
      BY DEF OsInv, SlotInv
    <2>2. ASSUME Cpu \subseteq detached, NEW p \in Proc, Runnable(p)
          PROVE  FALSE
      <3>1. PICK c \in Cpu : TRUE
        OBVIOUS
      <3>2. done /\ FoundNone(c)
        BY <2>2 DEF OsInv, SlotInv, FoundNone
      <3>3. Asking = {} /\ Late = 0
        BY <2>2, <3>2 DEF OsInv, SlotInv, Asking, Late
      <3>4. Cardinality(Waiting) = 0
        BY <3>2, <3>3, FiniteCounts, FS_EmptySet DEF IdleInv
      <3>5. Waiting = {}
        BY <3>4, FiniteCounts, FS_EmptySet
      <3>6. ~ Queued(p)
        BY <3>5 DEF Waiting
      <3>7. ~ Held(p)
        BY <2>2, SchedAssumption DEF OsInv, SlotInv, Held
      <3> QED
        BY <2>2, <3>6, <3>7 DEF LookupInv, Runnable
    <2> QED
      BY <2>1, <2>2 DEF NoAbandonedProcess
  <1> QED
    BY <1>1, OsInvariant, IdleInvariant, LookupInvariant, PTL

-----------------------------------------------------------------------------
(* The whole system implements the process pool, as far as safety goes.    *)
THEOREM OsImplementsPool ==
    ASSUME IsFiniteSet(Cpu)
    PROVE  Spec => PoolSafety
  <1>1. Init => Pool!Init
    BY DEF Init, SchedInit, Pool!Init, PoolStatus
  <1>2. OsInv /\ [Next]_vars => [Pool!Next]_PoolStatus
    BY StepIsSchedStep, PoolStep DEF OsInv
  <1> QED
    BY <1>1, <1>2, OsInvariant, PTL DEF Spec, PoolSafety
=============================================================================

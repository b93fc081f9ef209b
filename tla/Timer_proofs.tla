---------------------------- MODULE Timer_proofs ----------------------------
(***************************************************************************)
(* The slots of the timer for any number of devices: no race on the flags  *)
(* and the clock, and every step a step of the slot barrier.               *)
(***************************************************************************)
EXTENDS Timer, FiniteSetTheorems, TLAPS

Injective == \A i, j \in DOMAIN devList : devList[i] = devList[j] => i = j

(* main has attached every device before it starts the timer, and frees    *)
(* the list after the timer has ended.                                     *)
ListInv ==
    /\ Injective
    /\ main \notin {"attach", "end"} => Attached = Device
    /\ main = "attach" <=> timer = "off"
    /\ main = "end" => timer = "exited"

(* done is set only by its device, which then waits for it to be cleared;  *)
(* a device that has detached is gone.                                     *)
DeviceInv ==
    \A d \in Device :
        /\ fsh[d] <=> dev[d] = "gone"
        /\ done[d] => dev[d] \in {"relock", "test", "asleep"}
        /\ timerStop => fsh[d]

Accounted(i) == done[devList[i]] \/ fsh[devList[i]]

(* What the two walks leave behind them. *)
WalkInv ==
    /\ timer \in {"scan", "inspect", "asleep"} =>
          /\ cursor <= Len(devList) + 1
          /\ eventCount = cursor - 1
          /\ \A i \in 1 .. cursor - 1 : Accounted(i)
    /\ timer \in {"inspect", "asleep", "wake"} => cursor <= Len(devList)
    /\ timer \in {"advance", "release", "wake"} => eventCount = Len(devList)
    /\ timer = "advance" => \A i \in 1 .. Len(devList) : Accounted(i)
    /\ timer \in {"release", "wake"} =>
          /\ cursor <= Len(devList) + 1
          /\ \A i \in cursor .. Len(devList) : Accounted(i)

(* fsh and event agree only if every device seen had detached. *)
CountInv ==
    timer \notin {"off", "top", "exited"} /\ fshCount = eventCount =>
        \A i \in 1 .. Len(devList) : i <= eventCount => fsh[devList[i]]

(* The timer ends when nobody is left to wait for. *)
ExitInv == timer = "exited" => \A d \in Device : fsh[d]

TimerInv == TypeOK /\ ListInv /\ DeviceInv /\ WalkInv /\ CountInv /\ ExitInv

Walking == timer \notin {"off", "exited"}

LEMMA DeviceCount == Cardinality(Device) \in Nat
BY TimerAssumption, FS_CardinalityType

(* dev_list names every device once. *)
LEMMA ListLength ==
    ASSUME TypeOK, ListInv
    PROVE  /\ Len(devList) \in Nat /\ DOMAIN devList = 1 .. Len(devList)
           /\ Len(devList) <= Cardinality(Device)
           /\ \A i \in 1 .. Len(devList) : devList[i] \in Device
           /\ Walking => \A d \in Device : \E i \in 1 .. Len(devList) : devList[i] = d
<1>1. /\ Len(devList) \in Nat /\ DOMAIN devList = 1 .. Len(devList)
      /\ devList \in [1 .. Len(devList) -> Device]
  BY DEF TypeOK
<1>2. devList \in Injection(1 .. Len(devList), Device)
  BY <1>1 DEF ListInv, Injective, Injection, IsInjective
<1>3. Cardinality(1 .. Len(devList)) <= Cardinality(Device)
  BY <1>2, TimerAssumption, FS_Injection
<1>4. Cardinality(1 .. Len(devList)) = Len(devList)
  <2>1. \A n \in Nat : Cardinality(1 .. n) = n
    <3> SUFFICES ASSUME NEW n \in Nat PROVE Cardinality(1 .. n) = n
      OBVIOUS
    <3>1. Cardinality(1 .. n) = IF 1 > n THEN 0 ELSE n - 1 + 1
      BY FS_Interval
    <3>2. QED
      BY <3>1
  <2>2. QED
    BY <1>1, <2>1
<1>5. Walking => \A d \in Device : \E i \in 1 .. Len(devList) : devList[i] = d
  BY <1>1 DEF ListInv, Walking, Attached
<1>6. QED
  BY <1>1, <1>3, <1>4, <1>5

(* The device the timer is at. *)
LEMMA CurrentDevice ==
    ASSUME TypeOK, ListInv, WalkInv, timer \in {"inspect", "asleep", "wake"}
    PROVE  cursor \in 1 .. Len(devList) /\ Current \in Device
<1>1. cursor \in Nat /\ cursor >= 1
  BY DeviceCount DEF TypeOK
<1>2. QED
  BY <1>1, ListLength DEF WalkInv, Current

LEMMA TimerStarts == Init => TimerInv
<1> SUFFICES ASSUME Init PROVE TimerInv
  OBVIOUS
<1>1. TypeOK
  <2>1. cursor \in 1 .. Cardinality(Device) + 1 /\ eventCount \in 0 .. Cardinality(Device)
    BY DeviceCount DEF Init
  <2>2. fshCount \in 0 .. eventCount /\ time \in 0 .. MaxTime
    BY TimerAssumption DEF Init
  <2>3. devList \in Seq(Device)
    BY DEF Init
  <2>4. QED
    BY <2>1, <2>2, <2>3 DEF Init, TypeOK, Holder
<1>2. ListInv /\ DeviceInv
  BY DEF Init, ListInv, Injective, DeviceInv
<1>3. WalkInv /\ CountInv /\ ExitInv
  BY DEF Init, WalkInv, CountInv, ExitInv
<1>4. QED
  BY <1>1, <1>2, <1>3 DEF TimerInv

LEMMA StepTypes ==
    ASSUME TimerInv, Next
    PROVE  TypeOK'
<1> USE DEF Holder, flagVars, lockVars, walkVars
<1>1. TypeOK /\ Cardinality(Device) \in Nat /\ MaxTime \in Nat
  BY DeviceCount, TimerAssumption DEF TimerInv
<1>2. CASE Main
  <2>1. CASE \E d \in Device : AttachEvent(d)
    BY <1>1, <2>1 DEF TypeOK, AttachEvent
  <2>2. CASE \E d \in Device : CreateThread(d)
    BY <1>1, <2>2 DEF TypeOK, CreateThread, DevGoto
  <2>3. CASE StartTimer \/ StopTimer
    BY <1>1, <2>3 DEF TypeOK, StartTimer, StopTimer
  <2>4. CASE FreeDevices
    <3>1. devList' \in Seq(Device)
      BY <2>4 DEF FreeDevices
    <3>2. QED
      BY <1>1, <2>4, <3>1 DEF TypeOK, FreeDevices
  <2>5. QED
    BY <1>2, <2>1, <2>2, <2>3, <2>4 DEF Main
<1>3. ASSUME NEW d \in Device, Call(d) \/ DeviceStep(d)
      PROVE  TypeOK'
  <2>1. CASE Call(d)
    BY <1>1, <2>1 DEF TypeOK, Call, DevGoto
  <2>2. CASE LockEvent(d)
    BY <1>1, <2>2 DEF TypeOK, LockEvent, DevGoto
  <2>3. CASE LockTimer(d)
    BY <1>1, <2>3 DEF TypeOK, LockTimer, DevGoto
  <2>4. CASE Post(d)
    BY <1>1, <2>4 DEF TypeOK, Post, SignalTimer, DevGoto
  <2>5. CASE Detach(d)
    BY <1>1, <2>5 DEF TypeOK, Detach, SignalTimer, DevGoto
  <2>6. CASE TestDone(d)
    BY <1>1, <2>6 DEF TypeOK, TestDone, DevGoto
  <2>7. QED
    BY <1>3, <2>1, <2>2, <2>3, <2>4, <2>5, <2>6 DEF DeviceStep
<1>4. CASE TimerTop \/ TimerScanned \/ TimerReleased \/ TimerAdvance
  <2>1. cursor' \in 1 .. Cardinality(Device) + 1 /\ eventCount' \in 0 .. Cardinality(Device)
    BY <1>1, <1>4 DEF TypeOK, TimerTop, TimerScanned, TimerReleased, TimerAdvance
  <2>2. fshCount' \in 0 .. eventCount'
    BY <1>1, <1>4 DEF TypeOK, TimerTop, TimerScanned, TimerReleased, TimerAdvance
  <2>3. time' \in 0 .. MaxTime
    BY <1>1, <1>4 DEF TypeOK, TimerTop, TimerScanned, TimerReleased, TimerAdvance
  <2>4. QED
    BY <1>1, <1>4, <2>1, <2>2, <2>3
       DEF TypeOK, TimerTop, TimerScanned, TimerReleased, TimerAdvance
<1>5. CASE TimerLockEvent \/ TimerSleep \/ TimerLockTimer
  BY <1>1, <1>5 DEF TypeOK, TimerLockEvent, TimerSleep, TimerLockTimer
<1>6. CASE TimerCount
  <2>1. cursor \in 1 .. Cardinality(Device) /\ eventCount = cursor - 1
    BY <1>1, <1>6, ListLength, CurrentDevice DEF TimerInv, WalkInv, TimerCount
  <2>2. /\ cursor' \in 1 .. Cardinality(Device) + 1 /\ eventCount' \in 0 .. Cardinality(Device)
        /\ fshCount' \in 0 .. eventCount'
    BY <1>1, <1>6, <2>1 DEF TypeOK, TimerCount
  <2>3. QED
    BY <1>1, <1>6, <2>2 DEF TypeOK, TimerCount
<1>7. CASE TimerWake
  <2>1. cursor \in 1 .. Cardinality(Device)
    BY <1>1, <1>7, ListLength, CurrentDevice DEF TimerInv, TimerWake
  <2>2. cursor' \in 1 .. Cardinality(Device) + 1
    BY <1>1, <1>7, <2>1 DEF TimerWake
  <2>3. QED
    BY <1>1, <1>7, <2>2 DEF TypeOK, TimerWake
<1>8. CASE SpuriousWakeup
  BY <1>1, <1>8 DEF TypeOK, SpuriousWakeup, DevGoto
<1>9. CASE Ended
  BY <1>1, <1>9 DEF TypeOK, Ended, vars
<1>10. QED
  BY <1>2, <1>3, <1>4, <1>5, <1>6, <1>7, <1>8, <1>9 DEF Next, TimerStep

LEMMA StepList ==
    ASSUME TimerInv, Next
    PROVE  ListInv'
<1> USE DEF flagVars, lockVars, walkVars
<1>1. TypeOK /\ ListInv
  BY DEF TimerInv
<1>2. ASSUME NEW d \in Device, AttachEvent(d)
      PROVE  ListInv'
  <2>1. /\ Len(devList) \in Nat /\ DOMAIN devList = 1 .. Len(devList)
        /\ \A i \in 1 .. Len(devList) : devList[i] # d
    BY <1>1, <1>2, ListLength DEF AttachEvent, Attached
  <2>2. /\ Len(devList') = Len(devList) + 1 /\ devList'[1] = d
        /\ \A i \in 2 .. Len(devList) + 1 : devList'[i] = devList[i - 1]
        /\ DOMAIN devList' = 1 .. Len(devList) + 1
    BY <1>1, <1>2, <2>1 DEF AttachEvent, TypeOK
  <2>3. Injective'
    BY <1>1, <2>1, <2>2 DEF Injective, ListInv
  <2>4. QED
    BY <1>1, <1>2, <2>3 DEF ListInv, AttachEvent
<1>3. CASE FreeDevices
  BY <1>1, <1>3 DEF ListInv, Injective, FreeDevices
<1>4. ASSUME devList' = devList, main' = main,
             timer' = timer \/ (timer \notin {"off", "exited"} /\ timer' # "off")
      PROVE  ListInv'
  BY <1>1, <1>4 DEF ListInv, Injective, Attached
<1>5. CASE StartTimer
  BY <1>1, <1>5 DEF ListInv, Injective, Attached, StartTimer
<1>6. CASE StopTimer \/ \E d \in Device : CreateThread(d)
  BY <1>1, <1>6 DEF ListInv, Injective, Attached, StopTimer, CreateThread
<1>7. ASSUME NEW d \in Device, Call(d) \/ DeviceStep(d)
      PROVE  ListInv'
  BY <1>4, <1>7 DEF Call, DeviceStep, LockEvent, Post, LockTimer, TestDone, Detach,
     SignalTimer
<1>8. CASE TimerStep
  BY <1>4, <1>8 DEF TimerStep, TimerTop, TimerLockEvent, TimerSleep, TimerCount,
     TimerScanned, TimerAdvance, TimerLockTimer, TimerWake, TimerReleased
<1>9. CASE SpuriousWakeup \/ Ended
  BY <1>4, <1>9 DEF SpuriousWakeup, Ended, vars
<1>10. QED
  BY <1>2, <1>3, <1>5, <1>6, <1>7, <1>8, <1>9 DEF Next, Main

LEMMA StepDevices ==
    ASSUME TimerInv, Next
    PROVE  DeviceInv'
<1> USE DEF flagVars, lockVars, walkVars
<1>1. TypeOK /\ DeviceInv
  BY DEF TimerInv
<1>2. CASE Main
  BY <1>1, <1>2 DEF TypeOK, DeviceInv, Main, AttachEvent, CreateThread, StartTimer,
     StopTimer, FreeDevices, DevGoto
<1>3. ASSUME NEW d \in Device, Call(d) \/ LockEvent(d) \/ LockTimer(d)
      PROVE  DeviceInv'
  BY <1>1, <1>3 DEF TypeOK, DeviceInv, Call, LockEvent, LockTimer, DevGoto
<1>4. ASSUME NEW d \in Device, Post(d) \/ TestDone(d) \/ Detach(d)
      PROVE  DeviceInv'
  BY <1>1, <1>4 DEF TypeOK, DeviceInv, Post, TestDone, Detach, DevGoto
<1>5. CASE UNCHANGED <<done, fsh, dev, timerStop>>
  BY <1>1, <1>5 DEF DeviceInv
<1>6. CASE TimerWake
  BY <1>1, <1>6, CurrentDevice DEF TimerInv, TypeOK, DeviceInv, TimerWake
<1>7. CASE TimerStep
  BY <1>5, <1>6, <1>7 DEF TimerStep, TimerTop, TimerLockEvent, TimerSleep, TimerCount,
     TimerScanned, TimerAdvance, TimerLockTimer, TimerReleased
<1>8. CASE SpuriousWakeup
  BY <1>1, <1>8 DEF TypeOK, DeviceInv, SpuriousWakeup, DevGoto
<1>9. CASE Ended
  BY <1>5, <1>9 DEF Ended, vars
<1>10. QED
  BY <1>2, <1>3, <1>4, <1>7, <1>8, <1>9 DEF Next, DeviceStep

(* The steps of others change neither where the timer is nor what it found. *)
LEMMA WalkStays ==
    ASSUME TimerInv, devList' = devList, UNCHANGED walkVars,
           timer' = timer \/ (timer = "asleep" /\ timer' = "scan"),
           \A d \in Device : (done[d] => done'[d]) /\ (fsh[d] => fsh'[d])
    PROVE  WalkInv' /\ CountInv'
<1>1. /\ \A i \in 1 .. Len(devList) : devList[i] \in Device
      /\ cursor \in Nat /\ cursor >= 1 /\ Len(devList) \in Nat
  BY DeviceCount, ListLength DEF TimerInv, TypeOK
<1>2. \A i \in 1 .. Len(devList) : Accounted(i) => Accounted(i)'
  BY <1>1 DEF Accounted
<1>3. WalkInv'
  BY <1>1, <1>2 DEF TimerInv, WalkInv, walkVars
<1>4. CountInv'
  BY <1>1 DEF TimerInv, CountInv, walkVars
<1>5. QED
  BY <1>3, <1>4

LEMMA StepWalk ==
    ASSUME TimerInv, Next
    PROVE  WalkInv' /\ CountInv'
<1> USE DEF flagVars, lockVars, walkVars
<1>1. /\ TypeOK /\ ListInv /\ WalkInv /\ CountInv
      /\ Len(devList) \in Nat /\ cursor \in Nat /\ cursor >= 1
      /\ eventCount \in Nat /\ fshCount \in Nat /\ fshCount <= eventCount
      /\ \A i \in 1 .. Len(devList) : devList[i] \in Device
  BY DeviceCount, ListLength DEF TimerInv, TypeOK
<1>2. CASE Main
  <2>1. ASSUME NEW d \in Device, AttachEvent(d)
        PROVE  timer' = "off"
    BY <1>1, <2>1 DEF AttachEvent, ListInv
  <2>2. CASE StartTimer \/ FreeDevices
    BY <1>1, <2>2 DEF StartTimer, FreeDevices, WalkInv, CountInv
  <2>3. CASE StopTimer \/ \E d \in Device : CreateThread(d)
    BY <2>3, WalkStays DEF StopTimer, CreateThread
  <2>4. timer' = "off" => WalkInv' /\ CountInv'
    BY DEF WalkInv, CountInv
  <2>5. QED
    BY <1>2, <2>1, <2>2, <2>3, <2>4 DEF Main
<1>3. ASSUME NEW d \in Device, Call(d) \/ DeviceStep(d)
      PROVE  WalkInv' /\ CountInv'
  BY <1>1, <1>3, WalkStays DEF TypeOK, Call, DeviceStep, LockEvent, Post, LockTimer,
     TestDone, Detach, SignalTimer
<1>4. CASE SpuriousWakeup \/ Ended
  BY <1>1, <1>4, WalkStays DEF SpuriousWakeup, Ended, vars
<1>5. CASE TimerTop
  BY <1>1, <1>5 DEF TimerTop, WalkInv, CountInv
<1>6. CASE TimerLockEvent \/ TimerSleep
  <2>1. \A i \in 1 .. Len(devList) : Accounted(i)' = Accounted(i)
    BY <1>6 DEF TimerLockEvent, TimerSleep, Accounted
  <2>2. QED
    BY <1>1, <1>6, <2>1 DEF TimerLockEvent, TimerSleep, WalkInv, CountInv, AtEnd
<1>7. CASE TimerCount
  <2>1. cursor <= Len(devList) /\ eventCount = cursor - 1 /\ Accounted(cursor)
    BY <1>1, <1>7 DEF TimerCount, WalkInv, Accounted, Current
  <2>2. \A i \in 1 .. Len(devList) : Accounted(i)' = Accounted(i)
    BY <1>7 DEF TimerCount, Accounted
  <2>3. WalkInv'
    BY <1>1, <1>7, <2>1, <2>2 DEF TimerCount, WalkInv
  <2>4. ASSUME fshCount' = eventCount' PROVE fshCount = eventCount /\ fsh[devList[cursor]]
    BY <1>1, <1>7, <2>4 DEF TimerCount, Current
  <2>5. CountInv'
    BY <1>1, <1>7, <2>1, <2>4 DEF TimerCount, CountInv
  <2>6. QED
    BY <2>3, <2>5
<1>8. CASE TimerScanned \/ TimerAdvance
  <2>1. \A i \in 1 .. Len(devList) : Accounted(i)' = Accounted(i)
    BY <1>8 DEF TimerScanned, TimerAdvance, Accounted
  <2>2. WalkInv'
    BY <1>1, <1>8, <2>1 DEF TimerScanned, TimerAdvance, WalkInv, AtEnd
  <2>3. CountInv'
    BY <1>1, <1>8 DEF TimerScanned, TimerAdvance, CountInv
  <2>4. QED
    BY <2>2, <2>3
<1>9. CASE TimerLockTimer
  <2>1. \A i \in 1 .. Len(devList) : Accounted(i)' = Accounted(i)
    BY <1>9 DEF TimerLockTimer, Accounted
  <2>2. QED
    BY <1>1, <1>9, <2>1 DEF TimerLockTimer, WalkInv, CountInv, AtEnd
<1>10. CASE TimerWake
  <2>1. cursor \in 1 .. Len(devList)
    BY <1>1, <1>10 DEF TimerWake, WalkInv
  <2>2. \A i \in cursor + 1 .. Len(devList) : devList[i] # Current
    BY <1>1, <2>1, ListLength DEF ListInv, Injective, Current
  <2>3. \A i \in cursor + 1 .. Len(devList) : Accounted(i) => Accounted(i)'
    BY <1>1, <1>10, <2>1, <2>2 DEF TimerWake, Accounted, TypeOK
  <2>4. WalkInv'
    BY <1>1, <1>10, <2>1, <2>3 DEF TimerWake, WalkInv
  <2>5. CountInv'
    BY <1>1, <1>10 DEF TimerWake, CountInv
  <2>6. QED
    BY <2>4, <2>5
<1>11. CASE TimerReleased
  BY <1>1, <1>11 DEF TimerReleased, WalkInv, CountInv
<1>12. QED
  BY <1>2, <1>3, <1>4, <1>5, <1>6, <1>7, <1>8, <1>9, <1>10, <1>11 DEF Next, TimerStep

LEMMA DetachedStays ==
    ASSUME TypeOK, Next
    PROVE  \A d \in Device : fsh[d] => fsh'[d]
<1> USE DEF flagVars, lockVars, walkVars
<1>1. CASE Main \/ SpuriousWakeup \/ Ended
  BY <1>1 DEF Main, AttachEvent, CreateThread, StartTimer, StopTimer, FreeDevices,
     SpuriousWakeup, Ended, vars
<1>2. CASE \E d \in Device : Call(d) \/ DeviceStep(d)
  BY <1>2 DEF TypeOK, Call, DeviceStep, LockEvent, Post, LockTimer, TestDone, Detach
<1>3. CASE TimerStep
  BY <1>3 DEF TimerStep, TimerTop, TimerLockEvent, TimerSleep, TimerCount, TimerScanned,
     TimerAdvance, TimerLockTimer, TimerWake, TimerReleased
<1>4. QED
  BY <1>1, <1>2, <1>3 DEF Next

(* The timer leaves its loop after stop_timer or on fsh = event. *)
LEMMA ExitKinds ==
    ASSUME TimerInv, Next, timer' = "exited"
    PROVE  \/ timer = "exited"
           \/ TimerTop /\ timerStop
           \/ TimerReleased /\ fshCount = eventCount
<1> USE DEF flagVars, lockVars, walkVars
<1>1. CASE Main \/ SpuriousWakeup \/ Ended
  BY <1>1 DEF Main, AttachEvent, CreateThread, StartTimer, StopTimer, FreeDevices,
     SpuriousWakeup, Ended, vars
<1>2. CASE \E d \in Device : Call(d) \/ DeviceStep(d)
  BY <1>2 DEF Call, DeviceStep, LockEvent, Post, LockTimer, TestDone, Detach, SignalTimer
<1>3. CASE TimerStep
  BY <1>3 DEF TimerStep, TimerTop, TimerLockEvent, TimerSleep, TimerCount, TimerScanned,
     TimerAdvance, TimerLockTimer, TimerWake, TimerReleased
<1>4. QED
  BY <1>1, <1>2, <1>3 DEF Next

LEMMA StepExit ==
    ASSUME TimerInv, Next
    PROVE  ExitInv'
<1> SUFFICES ASSUME timer' = "exited", NEW d \in Device PROVE fsh[d]
  BY DetachedStays DEF ExitInv, TimerInv
<1>1. CASE timer = "exited"
  BY <1>1 DEF TimerInv, ExitInv
<1>2. CASE TimerTop /\ timerStop
  BY <1>2 DEF TimerInv, DeviceInv
<1>3. CASE TimerReleased /\ fshCount = eventCount
  <2>1. eventCount = Len(devList) /\ Len(devList) \in Nat
    BY <1>3, ListLength DEF TimerInv, WalkInv, TimerReleased
  <2>2. PICK i \in 1 .. Len(devList) : devList[i] = d
    BY <1>3, ListLength DEF TimerInv, Walking, TimerReleased
  <2>3. i <= eventCount
    BY <2>1
  <2>4. QED
    BY <1>3, <2>2, <2>3 DEF TimerInv, CountInv, TimerReleased
<1>4. QED
  BY <1>1, <1>2, <1>3, ExitKinds

LEMMA TimerKeeps == TimerInv /\ [Next]_vars => TimerInv'
<1>1. ASSUME TimerInv, Next PROVE TimerInv'
  BY <1>1, StepTypes, StepList, StepDevices, StepWalk, StepExit DEF TimerInv
<1>2. ASSUME TimerInv, UNCHANGED vars PROVE TimerInv'
  BY <1>2 DEF vars, TimerInv, TypeOK, ListInv, Injective, Attached, DeviceInv, WalkInv,
     Accounted, CountInv, ExitInv
<1>3. QED
  BY <1>1, <1>2

LEMMA TimerShows == TimerInv => TypeOK /\ NoDataRace
<1> SUFFICES ASSUME TimerInv PROVE NoDataRace
  BY DEF TimerInv
<1>1. TypeOK /\ ListInv /\ DeviceInv /\ WalkInv
  BY DEF TimerInv
<1>2. ASSUME timer = "wake" PROVE dev[Current] # "posting"
  <2>1. cursor \in 1 .. Len(devList) /\ Current \in Device /\ Len(devList) \in Nat
    BY <1>1, <1>2, CurrentDevice, ListLength
  <2>2. Accounted(cursor)
    BY <1>1, <1>2, <2>1 DEF WalkInv
  <2>3. QED
    BY <1>1, <2>1, <2>2 DEF Accounted, Current, DeviceInv
<1>3. ASSUME timer = "advance", NEW d \in Device PROVE dev[d] \notin {"unborn", "work"}
  <2>1. PICK i \in 1 .. Len(devList) : devList[i] = d
    BY <1>1, <1>3, ListLength DEF Walking
  <2>2. Accounted(i)
    BY <1>1, <1>3, <2>1 DEF WalkInv
  <2>3. QED
    BY <1>1, <2>1, <2>2 DEF Accounted, DeviceInv
<1>4. QED
  BY <1>2, <1>3 DEF NoDataRace

(* The counters of a slot never pass the number of devices, however often  *)
(* a wait returns for nothing.                                             *)
THEOREM TimerTyped == Spec => []TypeOK
BY TimerStarts, TimerKeeps, TimerShows, PTL DEF Spec

(* No device sets done while the timer clears it, and the clock advances   *)
(* only when no device is at work, though the accesses are under different *)
(* locks or none: the order of the two walks keeps them apart.             *)
THEOREM AlwaysNoDataRace == Spec => []NoDataRace
BY TimerStarts, TimerKeeps, TimerShows, PTL DEF Spec
-----------------------------------------------------------------------------
(* The slot barrier.  In the second walk a device that the timer has not   *)
(* reached counts as let go.                                               *)
Releasing == timer \in {"release", "wake"}

BarrierVars == Barrier!barrierVars

LEMMA BarrierUnmoved ==
    ASSUME Posted' = Posted, Detached' = Detached, time' = time,
           timer # "exited" <=> timer' # "exited"
    PROVE  UNCHANGED BarrierVars
<1>1. (timer # "exited") = (timer' # "exited")
  OBVIOUS
<1>2. QED
  BY <1>1 DEF BarrierVars, Barrier!barrierVars

LEMMA PostedUnmoved ==
    ASSUME done' = done, devList' = devList, cursor' = cursor, Releasing' = Releasing
    PROVE  Posted' = Posted
BY DEF Posted, Reached, Releasing

(* The walk has reached a device or has it still accounted for. *)
LEMMA ReachedOrAccounted ==
    ASSUME TimerInv, Releasing, NEW d \in Device
    PROVE  Reached(d) \/ done[d] \/ fsh[d]
<1>1. /\ Len(devList) \in Nat /\ cursor \in Nat /\ cursor >= 1
      /\ cursor <= Len(devList) + 1
      /\ \A i \in cursor .. Len(devList) : Accounted(i)
  BY DeviceCount, ListLength DEF TimerInv, TypeOK, WalkInv, Releasing
<1>2. PICK i \in 1 .. Len(devList) : devList[i] = d
  BY ListLength DEF TimerInv, Walking, Releasing
<1>3. CASE i < cursor
  BY <1>1, <1>2, <1>3 DEF Reached
<1>4. CASE i >= cursor
  BY <1>1, <1>2, <1>4 DEF Accounted
<1>5. QED
  BY <1>1, <1>3, <1>4

LEMMA MainBarrier ==
    ASSUME TimerInv, Main
    PROVE  UNCHANGED BarrierVars
<1> USE DEF flagVars, lockVars, walkVars
<1>1. main = "attach" => timer = "off"
  BY DEF TimerInv, ListInv
<1>2. Posted' = Posted
  <2>1. CASE StartTimer \/ StopTimer \/ \E d \in Device : CreateThread(d)
    BY <1>1, <2>1, PostedUnmoved DEF StartTimer, StopTimer, CreateThread, Releasing
  <2>2. CASE FreeDevices \/ \E d \in Device : AttachEvent(d)
    <3>1. timer \notin {"release", "wake"} /\ timer' = timer /\ done' = done
      BY <1>1, <2>2 DEF FreeDevices, AttachEvent
    <3>2. QED
      BY <3>1 DEF Posted
  <2>3. QED
    BY <2>1, <2>2 DEF Main
<1>3. QED
  BY <1>1, <1>2, BarrierUnmoved DEF Main, AttachEvent, CreateThread, StartTimer, StopTimer,
     FreeDevices, Detached

(* Setting done is the call of next_slot. *)
LEMMA PostBarrier ==
    ASSUME TimerInv, NEW d \in Device, Post(d)
    PROVE  Barrier!NextSlot(d)
<1> USE DEF flagVars, lockVars, walkVars
<1>1. done \in [Device -> BOOLEAN] /\ ~ done[d] /\ ~ fsh[d]
  BY DEF TimerInv, TypeOK, DeviceInv, Post
<1>2. Releasing => Reached(d)
  BY <1>1, ReachedOrAccounted
<1>3. /\ Releasing' = Releasing /\ (timer # "exited") = (timer' # "exited")
      /\ \A e \in Device : Reached(e)' = Reached(e)
  BY DEF Post, SignalTimer, Releasing, Reached
<1>4. Posted' = Posted \cup {d}
  BY <1>1, <1>2, <1>3 DEF Posted, Releasing, Post
<1>5. d \in Device \ (Posted \cup Detached)
  BY <1>1 DEF Posted, Detached
<1>6. Detached' = Detached /\ time' = time
  BY DEF Post, Detached
<1>7. QED
  BY <1>3, <1>4, <1>5, <1>6 DEF Barrier!NextSlot, Barrier!Active

LEMMA DetachBarrier ==
    ASSUME TimerInv, NEW d \in Device, Detach(d)
    PROVE  Barrier!DetachEvent(d)
<1> USE DEF flagVars, lockVars, walkVars
<1>1. fsh \in [Device -> BOOLEAN] /\ ~ done[d] /\ ~ fsh[d]
  BY DEF TimerInv, TypeOK, DeviceInv, Detach
<1>2. Releasing' = Releasing /\ (timer # "exited") = (timer' # "exited")
  BY DEF Detach, SignalTimer, Releasing
<1>3. Posted' = Posted
  BY <1>2, PostedUnmoved DEF Detach
<1>4. Detached' = Detached \cup {d}
  BY <1>1 DEF Detached, Detach
<1>5. d \in Device \ (Posted \cup Detached)
  BY <1>1 DEF Posted, Detached
<1>6. QED
  BY <1>2, <1>3, <1>4, <1>5 DEF Detach, Barrier!DetachEvent, Barrier!Active

LEMMA QuietDevice ==
    ASSUME TimerInv, NEW d \in Device, Call(d) \/ LockEvent(d) \/ LockTimer(d) \/ TestDone(d)
    PROVE  UNCHANGED BarrierVars
<1> USE DEF flagVars, lockVars, walkVars
<1>1. Posted' = Posted
  BY PostedUnmoved DEF Call, LockEvent, LockTimer, TestDone, Releasing
<1>2. QED
  BY <1>1, BarrierUnmoved DEF Call, LockEvent, LockTimer, TestDone, Detached

(* The new time is the slot's end: everybody waits or has left. *)
LEMMA AdvanceBarrier ==
    ASSUME TimerInv, TimerAdvance
    PROVE  Barrier!Tick
<1> USE DEF flagVars, lockVars, walkVars
<1>1. timer = "advance" /\ timer' = "release" /\ cursor' = 1 /\ Len(devList) \in Nat
  BY ListLength DEF TimerInv, TimerAdvance
<1>2. ASSUME NEW d \in Device PROVE done[d] \/ fsh[d]
  <2>1. PICK i \in 1 .. Len(devList) : devList[i] = d
    BY <1>1, ListLength DEF TimerInv, Walking
  <2>2. QED
    BY <1>1, <2>1 DEF TimerInv, WalkInv, Accounted
<1>3. Posted \cup Detached = Device
  BY <1>1, <1>2 DEF Posted, Detached
<1>4. Posted' = {}
  BY <1>1 DEF Posted, Reached
<1>5. (timer # "exited") = TRUE /\ (timer' # "exited") = TRUE
  BY <1>1
<1>6. Detached' = Detached /\ time' = IF time < MaxTime THEN time + 1 ELSE time
  BY DEF TimerAdvance, Detached
<1>7. QED
  BY <1>3, <1>4, <1>5, <1>6 DEF Barrier!Tick, Barrier!Later

(* Letting a device go that already counts as such. *)
LEMMA WakeBarrier ==
    ASSUME TimerInv, TimerWake
    PROVE  UNCHANGED BarrierVars
<1> USE DEF flagVars, lockVars, walkVars
<1>1. /\ cursor \in 1 .. Len(devList) /\ Current \in Device /\ Len(devList) \in Nat
      /\ done \in [Device -> BOOLEAN] /\ DOMAIN devList = 1 .. Len(devList)
  BY CurrentDevice, ListLength DEF TimerInv, TypeOK, TimerWake
<1>2. ~ Reached(Current)
  BY <1>1 DEF Reached, Current, TimerInv, ListInv, Injective
<1>3. \A d \in Device : d # Current => Reached(d)' = Reached(d)
  BY <1>1 DEF Reached, Current, TimerWake
<1>4. Posted' = Posted
  BY <1>1, <1>2, <1>3 DEF Posted, TimerWake
<1>5. QED
  BY <1>4, BarrierUnmoved DEF TimerWake, Detached

(* At the end of the second walk everybody has been reached. *)
LEMMA ReleasedBarrier ==
    ASSUME TimerInv, TimerInv', TimerReleased
    PROVE  UNCHANGED BarrierVars \/ Barrier!TimerExit
<1> USE DEF flagVars, lockVars, walkVars
<1>1. /\ Releasing /\ Len(devList) \in Nat /\ cursor = Len(devList) + 1
  BY ListLength, DeviceCount
     DEF TimerInv, TypeOK, WalkInv, TimerReleased, Releasing, AtEnd
<1>2. ASSUME NEW d \in Device PROVE Reached(d)
  <2>1. PICK i \in 1 .. Len(devList) : devList[i] = d
    BY <1>1, ListLength DEF TimerInv, Walking, Releasing
  <2>2. QED
    BY <1>1, <2>1 DEF Reached
<1>3. Posted' = Posted /\ Detached' = Detached /\ time' = time
  BY <1>2 DEF Posted, Detached, TimerReleased
<1>4. CASE timer' = "top"
  BY <1>3, <1>4, BarrierUnmoved DEF TimerReleased
<1>5. CASE timer' = "exited"
  <2>1. Detached = Device
    BY <1>3, <1>5 DEF TimerInv, ExitInv, Detached
  <2>2. (timer # "exited") = TRUE /\ (timer' # "exited") = FALSE
    BY <1>5 DEF TimerReleased
  <2>3. QED
    BY <1>3, <2>1, <2>2 DEF Barrier!TimerExit
<1>6. QED
  BY <1>4, <1>5 DEF TimerReleased

LEMMA TopBarrier ==
    ASSUME TimerInv, TimerInv', TimerTop
    PROVE  UNCHANGED BarrierVars \/ Barrier!TimerExit
<1> USE DEF flagVars, lockVars, walkVars
<1>1. Posted' = Posted /\ Detached' = Detached /\ time' = time
  BY DEF Posted, Detached, TimerTop
<1>2. CASE timer' = "scan"
  BY <1>1, <1>2, BarrierUnmoved DEF TimerTop
<1>3. CASE timer' = "exited"
  <2>1. Detached = Device
    BY <1>1, <1>3 DEF TimerInv, ExitInv, Detached
  <2>2. (timer # "exited") = TRUE /\ (timer' # "exited") = FALSE
    BY <1>3 DEF TimerTop
  <2>3. QED
    BY <1>1, <2>1, <2>2 DEF Barrier!TimerExit
<1>4. QED
  BY <1>2, <1>3 DEF TimerTop

LEMMA QuietTimer ==
    ASSUME TimerInv,
           \/ TimerLockEvent \/ TimerSleep \/ TimerCount
           \/ TimerScanned \/ TimerLockTimer
    PROVE  UNCHANGED BarrierVars
<1> USE DEF flagVars, lockVars, walkVars
<1>1. CASE TimerCount
  <2>1. Posted' = Posted
    BY <1>1 DEF Posted, TimerCount
  <2>2. QED
    BY <1>1, <2>1, BarrierUnmoved DEF TimerCount, Detached
<1>2. CASE TimerLockEvent \/ TimerSleep \/ TimerScanned \/ TimerLockTimer
  <2>1. Posted' = Posted
    BY <1>2, PostedUnmoved
       DEF TimerLockEvent, TimerSleep, TimerScanned, TimerLockTimer, Releasing
  <2>2. QED
    BY <1>2, <2>1, BarrierUnmoved
       DEF TimerLockEvent, TimerSleep, TimerScanned, TimerLockTimer, Detached
<1>3. QED
  BY <1>1, <1>2

LEMMA SpuriousBarrier ==
    ASSUME SpuriousWakeup
    PROVE  UNCHANGED BarrierVars
<1> USE DEF flagVars, lockVars, walkVars
<1>1. Posted' = Posted
  BY PostedUnmoved DEF SpuriousWakeup, Releasing
<1>2. QED
  BY <1>1, BarrierUnmoved DEF SpuriousWakeup, Detached

LEMMA BarrierStarts == Init => Barrier!BarrierInit
<1> SUFFICES ASSUME Init PROVE Barrier!BarrierInit
  OBVIOUS
<1>1. Posted = {} /\ Detached = {} /\ time = 0
  BY DEF Init, Posted, Detached
<1>2. (timer # "exited") = TRUE
  BY DEF Init
<1>3. QED
  BY <1>1, <1>2 DEF Barrier!BarrierInit

LEMMA BarrierSteps ==
    TimerInv /\ TimerInv' /\ [Next]_vars => [Barrier!BarrierNext]_BarrierVars
<1> SUFFICES ASSUME TimerInv, TimerInv', [Next]_vars
             PROVE  UNCHANGED BarrierVars \/ Barrier!BarrierNext
  OBVIOUS
<1>1. CASE UNCHANGED vars
  <2>1. Posted' = Posted
    BY <1>1 DEF vars, Posted, Reached
  <2>2. QED
    BY <1>1, <2>1, BarrierUnmoved DEF vars, Detached
<1>2. CASE TimerStep
  BY <1>2, AdvanceBarrier, WakeBarrier, ReleasedBarrier, TopBarrier, QuietTimer
     DEF TimerStep, Barrier!BarrierNext
<1>3. ASSUME NEW d \in Device, Call(d) \/ DeviceStep(d)
      PROVE  UNCHANGED BarrierVars \/ Barrier!BarrierNext
  BY <1>3, PostBarrier, DetachBarrier, QuietDevice DEF DeviceStep, Barrier!BarrierNext
<1>4. QED
  BY <1>1, <1>2, <1>3, MainBarrier, SpuriousBarrier DEF Next, Ended

(* BarrierSpec without its fairness. *)
BarrierSafety == Barrier!BarrierInit /\ [][Barrier!BarrierNext]_BarrierVars

(* The locks, flags, counters and condition variables of timer.c implement *)
(* the slot barrier: a device that called next_slot stays in its slot      *)
(* until every device has finished it or has left, the time advances once  *)
(* between two slots, and the timer thread ends only when all have left.   *)
THEOREM ImplementsBarrier == Spec => BarrierSafety
BY TimerStarts, TimerKeeps, BarrierStarts, BarrierSteps, PTL DEF Spec, BarrierSafety
=============================================================================

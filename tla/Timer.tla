------------------------------- MODULE Timer -------------------------------
(***************************************************************************)
(* timer.c as the threads execute it: the timer thread walks dev_list to   *)
(* collect every device's done or fsh, advances the time, and walks it     *)
(* again to let the devices go on; next_slot and detach_event run in the   *)
(* device threads; main attaches the devices, starts the timer and the     *)
(* threads, joins them and stops the timer.                                *)
(*                                                                         *)
(* A step is a lock acquisition, the accesses made under one lock up to    *)
(* its release, or an access made under no lock.  Condition variables may  *)
(* wake a waiter spuriously, as POSIX allows.                              *)
(***************************************************************************)
EXTENDS Naturals, Sequences, FiniteSets

CONSTANTS
    Device,     \* the devices main attaches: every CPU and the loader
    MaxTime     \* times from MaxTime on are not told apart

ASSUME TimerAssumption == Device # {} /\ IsFiniteSet(Device) /\ MaxTime \in Nat

VARIABLES
    devList,    \* dev_list, the device attached last at the front
    done,       \* done[d]: d has finished its slot
    fsh,        \* fsh[d]: d has detached
    eventLock,  \* eventLock[d], timerLock[d]: who holds the mutex, if anyone
    timerLock,
    time,       \* _time, saturated at MaxTime
    timerStop,  \* timer_stop
    timer,      \* where the timer thread is
    cursor,     \* the position of temp in devList
    fshCount,   \* fsh and event: devices found detached, devices seen
    eventCount,
    dev,        \* dev[d]: where device thread d is
    main        \* where the main thread is

flagVars == <<done, fsh>>
lockVars == <<eventLock, timerLock>>
walkVars == <<cursor, fshCount, eventCount>>
vars == <<devList, done, fsh, eventLock, timerLock, time, timerStop, timer,
          cursor, fshCount, eventCount, dev, main>>

Holder == {"free", "device", "timer"}

TypeOK ==
    /\ devList \in Seq(Device)
    /\ done \in [Device -> BOOLEAN]
    /\ fsh \in [Device -> BOOLEAN]
    /\ eventLock \in [Device -> Holder]
    /\ timerLock \in [Device -> Holder]
    /\ time \in 0 .. MaxTime
    /\ timerStop \in BOOLEAN
    /\ timer \in {"off", "top", "scan", "inspect", "asleep", "advance",
                  "release", "wake", "exited"}
    /\ cursor \in 1 .. Cardinality(Device) + 1
    /\ fshCount \in 0 .. eventCount
    /\ eventCount \in 0 .. Cardinality(Device)
    /\ dev \in [Device -> {"unborn", "work", "post", "posting", "relock",
                           "test", "asleep", "leave", "leaving", "gone"}]
    /\ main \in {"attach", "create", "join", "stop", "end"}

Init ==
    /\ devList = <<>>
    /\ done = [d \in Device |-> FALSE]
    /\ fsh = [d \in Device |-> FALSE]
    /\ eventLock = [d \in Device |-> "free"]
    /\ timerLock = [d \in Device |-> "free"]
    /\ time = 0
    /\ timerStop = FALSE
    /\ timer = "off"
    /\ cursor = 1
    /\ fshCount = 0
    /\ eventCount = 0
    /\ dev = [d \in Device |-> "unborn"]
    /\ main = "attach"

DevGoto(d, label) == dev' = [dev EXCEPT ![d] = label]

Attached == {devList[i] : i \in DOMAIN devList}

AtEnd == cursor > Len(devList)
Current == devList[cursor]

-----------------------------------------------------------------------------
(* Main: attach_event for each device, start_timer, pthread_create of each *)
(* device thread, the joins, stop_timer.                                   *)

AttachEvent(d) ==
    /\ main = "attach"
    /\ d \notin Attached
    /\ devList' = <<d>> \o devList
    /\ UNCHANGED <<flagVars, lockVars, time, timerStop, timer, walkVars, dev, main>>

StartTimer ==
    /\ main = "attach"
    /\ Attached = Device
    /\ timer' = "top"
    /\ main' = "create"
    /\ UNCHANGED <<devList, flagVars, lockVars, time, timerStop, walkVars, dev>>

CreateThread(d) ==
    /\ main = "create"
    /\ dev[d] = "unborn"
    /\ DevGoto(d, "work")
    /\ main' = IF \A e \in Device \ {d} : dev[e] # "unborn" THEN "join" ELSE main
    /\ UNCHANGED <<devList, flagVars, lockVars, time, timerStop, timer, walkVars>>

(* Every device thread is joined; stop_timer raises its flag. *)
StopTimer ==
    /\ main = "join"
    /\ \A d \in Device : dev[d] = "gone"
    /\ timerStop' = TRUE
    /\ main' = "stop"
    /\ UNCHANGED <<devList, flagVars, lockVars, time, timer, walkVars, dev>>

(* stop_timer joins the timer thread and frees the list. *)
FreeDevices ==
    /\ main = "stop"
    /\ timer = "exited"
    /\ devList' = <<>>
    /\ main' = "end"
    /\ UNCHANGED <<flagVars, lockVars, time, timerStop, timer, walkVars, dev>>

Main ==
    \/ \E d \in Device : AttachEvent(d) \/ CreateThread(d)
    \/ StartTimer \/ StopTimer \/ FreeDevices

-----------------------------------------------------------------------------
(* Device threads: next_slot and detach_event. *)

(* pthread_cond_signal on the event_cond of d: only the timer waits there. *)
SignalTimer(d) ==
    timer' = IF timer = "asleep" /\ Current = d THEN "scan" ELSE timer

(* The device finishes its work in this slot, or leaves for good. *)
Call(d) ==
    /\ dev[d] = "work"
    /\ DevGoto(d, "post") \/ DevGoto(d, "leave")
    /\ UNCHANGED <<devList, flagVars, lockVars, time, timerStop, timer, walkVars, main>>

LockEvent(d) ==
    /\ dev[d] \in {"post", "leave"}
    /\ eventLock[d] = "free"
    /\ eventLock' = [eventLock EXCEPT ![d] = "device"]
    /\ DevGoto(d, IF dev[d] = "post" THEN "posting" ELSE "leaving")
    /\ UNCHANGED <<devList, flagVars, timerLock, time, timerStop, timer, walkVars, main>>

Post(d) ==
    /\ dev[d] = "posting"
    /\ done' = [done EXCEPT ![d] = TRUE]
    /\ SignalTimer(d)
    /\ eventLock' = [eventLock EXCEPT ![d] = "free"]
    /\ DevGoto(d, "relock")
    /\ UNCHANGED <<devList, fsh, timerLock, time, timerStop, walkVars, main>>

(* On the way into the wait, and again after every wakeup. *)
LockTimer(d) ==
    /\ dev[d] = "relock"
    /\ timerLock[d] = "free"
    /\ timerLock' = [timerLock EXCEPT ![d] = "device"]
    /\ DevGoto(d, "test")
    /\ UNCHANGED <<devList, flagVars, eventLock, time, timerStop, timer, walkVars, main>>

TestDone(d) ==
    /\ dev[d] = "test"
    /\ timerLock' = [timerLock EXCEPT ![d] = "free"]
    /\ DevGoto(d, IF done[d] THEN "asleep" ELSE "work")
    /\ UNCHANGED <<devList, flagVars, eventLock, time, timerStop, timer, walkVars, main>>

(* Faulty variant: detach_event does not signal the timer. *)
DetachSilently(d) ==
    /\ dev[d] = "leaving"
    /\ fsh' = [fsh EXCEPT ![d] = TRUE]
    /\ eventLock' = [eventLock EXCEPT ![d] = "free"]
    /\ DevGoto(d, "gone")
    /\ UNCHANGED <<devList, done, timerLock, time, timerStop, timer, walkVars, main>>

Detach(d) ==
    /\ dev[d] = "leaving"
    /\ fsh' = [fsh EXCEPT ![d] = TRUE]
    /\ SignalTimer(d)
    /\ eventLock' = [eventLock EXCEPT ![d] = "free"]
    /\ DevGoto(d, "gone")
    /\ UNCHANGED <<devList, done, timerLock, time, timerStop, walkVars, main>>

DeviceStep(d) ==
    LockEvent(d) \/ Post(d) \/ LockTimer(d) \/ TestDone(d) \/ Detach(d)

-----------------------------------------------------------------------------
(* timer_routine *)

(* Faulty variant: event keeps counting from one slot to the next. *)
TimerTopKeepsCount ==
    /\ timer = "top"
    /\ timer' = IF timerStop THEN "exited" ELSE "scan"
    /\ cursor' = 1
    /\ fshCount' = 0
    /\ UNCHANGED <<devList, flagVars, lockVars, time, timerStop, eventCount, dev, main>>

TimerTop ==
    /\ timer = "top"
    /\ timer' = IF timerStop THEN "exited" ELSE "scan"
    /\ cursor' = 1
    /\ fshCount' = 0
    /\ eventCount' = 0
    /\ UNCHANGED <<devList, flagVars, lockVars, time, timerStop, dev, main>>

TimerLockEvent ==
    /\ timer = "scan"
    /\ ~ AtEnd
    /\ eventLock[Current] = "free"
    /\ eventLock' = [eventLock EXCEPT ![Current] = "timer"]
    /\ timer' = "inspect"
    /\ UNCHANGED <<devList, flagVars, timerLock, time, timerStop, walkVars, dev, main>>

(* The device still works: wait on event_cond, which releases the lock. *)
TimerSleep ==
    /\ timer = "inspect"
    /\ ~ done[Current] /\ ~ fsh[Current]
    /\ eventLock' = [eventLock EXCEPT ![Current] = "free"]
    /\ timer' = "asleep"
    /\ UNCHANGED <<devList, flagVars, timerLock, time, timerStop, walkVars, dev, main>>

TimerCount ==
    /\ timer = "inspect"
    /\ done[Current] \/ fsh[Current]
    /\ fshCount' = IF fsh[Current] THEN fshCount + 1 ELSE fshCount
    /\ eventCount' = eventCount + 1
    /\ cursor' = cursor + 1
    /\ eventLock' = [eventLock EXCEPT ![Current] = "free"]
    /\ timer' = "scan"
    /\ UNCHANGED <<devList, flagVars, timerLock, time, timerStop, dev, main>>

(* Every device is accounted for.  _time++ comes next, under no lock. *)
TimerScanned ==
    /\ timer = "scan"
    /\ AtEnd
    /\ timer' = "advance"
    /\ UNCHANGED <<devList, flagVars, lockVars, time, timerStop, walkVars, dev, main>>

TimerAdvance ==
    /\ timer = "advance"
    /\ time' = IF time < MaxTime THEN time + 1 ELSE time
    /\ cursor' = 1
    /\ timer' = "release"
    /\ UNCHANGED <<devList, flagVars, lockVars, timerStop, fshCount, eventCount, dev, main>>

TimerLockTimer ==
    /\ timer = "release"
    /\ ~ AtEnd
    /\ timerLock[Current] = "free"
    /\ timerLock' = [timerLock EXCEPT ![Current] = "timer"]
    /\ timer' = "wake"
    /\ UNCHANGED <<devList, flagVars, eventLock, time, timerStop, walkVars, dev, main>>

(* Faulty variant: done is cleared without a signal. *)
TimerWakeSilently ==
    /\ timer = "wake"
    /\ done' = [done EXCEPT ![Current] = FALSE]
    /\ timerLock' = [timerLock EXCEPT ![Current] = "free"]
    /\ cursor' = cursor + 1
    /\ timer' = "release"
    /\ UNCHANGED <<devList, fsh, eventLock, time, timerStop, fshCount, eventCount, dev, main>>

TimerWake ==
    /\ timer = "wake"
    /\ done' = [done EXCEPT ![Current] = FALSE]
    /\ dev' = [dev EXCEPT ![Current] = IF @ = "asleep" THEN "relock" ELSE @]
    /\ timerLock' = [timerLock EXCEPT ![Current] = "free"]
    /\ cursor' = cursor + 1
    /\ timer' = "release"
    /\ UNCHANGED <<devList, fsh, eventLock, time, timerStop, fshCount, eventCount, main>>

TimerReleased ==
    /\ timer = "release"
    /\ AtEnd
    /\ timer' = IF fshCount = eventCount THEN "exited" ELSE "top"
    /\ UNCHANGED <<devList, flagVars, lockVars, time, timerStop, walkVars, dev, main>>

TimerStep ==
    \/ TimerTop \/ TimerLockEvent \/ TimerSleep \/ TimerCount \/ TimerScanned
    \/ TimerAdvance \/ TimerLockTimer \/ TimerWake \/ TimerReleased

(* Faulty variant: next_slot waits under an if instead of a while. *)
SpuriousWakeupTrusted ==
    /\ \E d \in Device : dev[d] = "asleep" /\ DevGoto(d, "work")
    /\ UNCHANGED <<devList, flagVars, lockVars, time, timerStop, timer, walkVars, main>>

(* pthread_cond_wait may return without a signal. *)
SpuriousWakeup ==
    \/ /\ timer = "asleep"
       /\ timer' = "scan"
       /\ UNCHANGED <<devList, flagVars, lockVars, time, timerStop, walkVars, dev, main>>
    \/ /\ \E d \in Device : dev[d] = "asleep" /\ DevGoto(d, "relock")
       /\ UNCHANGED <<devList, flagVars, lockVars, time, timerStop, timer, walkVars, main>>

Ended == main = "end" /\ UNCHANGED vars

Next ==
    \/ Main
    \/ \E d \in Device : Call(d) \/ DeviceStep(d)
    \/ TimerStep
    \/ SpuriousWakeup
    \/ Ended

(* Threads are always scheduled again, and a mutex is held for a few       *)
(* instructions by one of two threads.  Nothing is assumed of how long a   *)
(* device works, nor of spurious wakeups.                                  *)
Fairness ==
    /\ WF_vars(Main)
    /\ WF_vars(TimerStep)
    /\ \A d \in Device : WF_vars(DeviceStep(d))

Spec == Init /\ [][Next]_vars /\ Fairness

-----------------------------------------------------------------------------
(***************************************************************************)
(* The flags and the clock are shared under two different locks or none:   *)
(* no device sets done while the timer clears it, and the clock advances   *)
(* only while no device is at work and may read it (current_time).         *)
(***************************************************************************)
NoDataRace ==
    /\ timer = "wake" => dev[Current] # "posting"
    /\ timer = "advance" => \A d \in Device : dev[d] \notin {"unborn", "work"}

(* A device that has been let go always leaves next_slot: the signal on    *)
(* timer_cond is not lost, whether it comes before or after the wait.      *)
NextSlotReturns ==
    \A d \in Device :
        (dev[d] \in {"relock", "test", "asleep"} /\ ~ done[d]) ~> (dev[d] = "work")

(***************************************************************************)
(* The timer implements the slot barrier.  From the moment the time is     *)
(* advanced, a device the timer has not reached yet is as good as let go.  *)
(***************************************************************************)
Reached(d) == \E i \in 1 .. cursor - 1 : devList[i] = d

Posted ==
    {d \in Device : done[d] /\ (timer \in {"release", "wake"} => Reached(d))}

Detached == {d \in Device : fsh[d]}

Barrier == INSTANCE SlotBarrier WITH
    posted <- Posted, detached <- Detached, ticking <- (timer # "exited")

BarrierSpec == Barrier!BarrierSpec

(* When every device thread has left, the timer thread ends, so that main  *)
(* can join it and free the list.                                          *)
Terminates == (\A d \in Device : dev[d] = "gone") ~> (main = "end")
=============================================================================

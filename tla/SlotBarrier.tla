---------------------------- MODULE SlotBarrier ----------------------------
(***************************************************************************)
(* What the timer promises the CPU and loader threads: time passes in      *)
(* slots, a device that called next_slot stays in it until every device    *)
(* has finished the slot or detached for good, and the timer ends only     *)
(* when all have detached.  Timer is the code that keeps this promise;     *)
(* OsSim relies on it.                                                     *)
(***************************************************************************)
EXTENDS Naturals

CONSTANTS
    Device,     \* the attached devices: every CPU and the loader
    MaxTime     \* times from MaxTime on are not told apart

ASSUME BarrierAssumption == MaxTime \in Nat

VARIABLES
    posted,     \* devices inside next_slot, waiting for the next slot
    detached,   \* devices that called detach_event
    time,       \* _time, saturated at MaxTime
    ticking     \* whether the timer thread still runs

barrierVars == <<posted, detached, time, ticking>>

BarrierTypeOK ==
    /\ posted \subseteq Device
    /\ detached \subseteq Device
    /\ time \in 0 .. MaxTime
    /\ ticking \in BOOLEAN

BarrierInit == posted = {} /\ detached = {} /\ time = 0 /\ ticking = TRUE

(* The device may work in the current slot. *)
Active(d) == d \in Device \ (posted \cup detached)

NextSlot(d) ==
    /\ Active(d)
    /\ posted' = posted \cup {d}
    /\ UNCHANGED <<detached, time, ticking>>

DetachEvent(d) ==
    /\ Active(d)
    /\ detached' = detached \cup {d}
    /\ UNCHANGED <<posted, time, ticking>>

Later(t) == IF t < MaxTime THEN t + 1 ELSE t

(* Faulty variant: the timer waits for detached devices too. *)
TickWaitsForAll ==
    /\ ticking
    /\ posted = Device
    /\ posted' = {}
    /\ time' = Later(time)
    /\ UNCHANGED <<detached, ticking>>

Tick ==
    /\ ticking
    /\ posted \cup detached = Device
    /\ posted' = {}
    /\ time' = Later(time)
    /\ UNCHANGED <<detached, ticking>>

TimerExit ==
    /\ ticking
    /\ detached = Device
    /\ ticking' = FALSE
    /\ UNCHANGED <<posted, detached, time>>

BarrierNext ==
    \/ \E d \in Device : NextSlot(d) \/ DetachEvent(d)
    \/ Tick
    \/ TimerExit

BarrierSpec ==
    /\ BarrierInit
    /\ [][BarrierNext]_barrierVars
    /\ WF_barrierVars(Tick)
    /\ WF_barrierVars(TimerExit)
=============================================================================

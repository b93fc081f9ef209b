-------------------------- MODULE FrameLists_proofs --------------------------
(***************************************************************************)
(* No frame is handed out twice, and the frames of one call leave the      *)
(* lists in one step, for any number of threads and frames, as long as no  *)
(* program's own memmap overlaps another call.                             *)
(***************************************************************************)
EXTENDS FrameLists, SequenceTheorems, TLAPS

(* Without such an overlap one call at a time is inside. *)
OneInside == ~ overlap => \A b, c \in Cpu : Inside(b) /\ Inside(c) => b = c

(* A call that is inside and not direct holds mmvm_lock. *)
InsideHolds == \A c \in Cpu : Inside(c) /\ ~ direct[c] => mmvmLock = c

(* Between the two accesses of MEMPHY_get_freefp there is a device to take *)
(* from, and between lock and unlock of a lookup there is a lookup to do.  *)
TaskAtHand ==
    \A c \in Cpu :
        /\ at[c] = "store" => todo[c] # <<>> /\ Head(todo[c]) \in Memphy
        /\ at[c] = "looking" => todo[c] # <<>>

(* What was read is still what the list is. *)
ReadIsCurrent ==
    ~ overlap => \A c \in Cpu : at[c] = "store" => fp[c] = list[Head(todo[c])]

HeadSound == \A c \in Cpu : at[c] = "store" => fp[c] \in Seq(FrameOf(Head(todo[c])))

TypeInv == TypeOK /\ TaskAtHand /\ HeadSound
ListInv == TypeInv /\ OneInside /\ InsideHolds /\ ReadIsCurrent /\ FramesHandedOnce

LEMMA TasksTyped ==
    /\ <<>> \in Seq(Task) /\ HitTasks \in Seq(Task) /\ FaultTasks \in Seq(Task)
    /\ EvictTasks \in Seq(Task)
    /\ \A n \in 1 .. MaxGrowth : GrowTasks(n) \in Seq(Task)
<1>1. \A n \in Nat : [i \in 1 .. n |-> "mram"] \in Seq(Task)
  BY DEF Task, Memphy
<1>2. "lookup" \in Task /\ "mram" \in Task /\ "mswp" \in Task
  BY DEF Task, Memphy
<1>3. <<"lookup">> \in Seq(Task)
  BY <1>2
<1>4. \A n \in 1 .. MaxGrowth : GrowTasks(n) \in Seq(Task)
  BY <1>1, <1>3, ConcatProperties, FrameListsAssumption DEF GrowTasks
<1>5. QED
  BY <1>2, <1>3, <1>4 DEF HitTasks, FaultTasks, EvictTasks

LEMMA AllFramesTyped ==
    ASSUME NEW d \in Memphy
    PROVE  AllFrames(d) \in Seq(FrameOf(d)) /\ AllFrames(d) \in Seq(Nat)
BY FrameListsAssumption DEF AllFrames, FrameOf, NumFrames, Memphy

LEMMA FramesNat ==
    ASSUME NEW d \in Memphy
    PROVE  Seq(FrameOf(d)) \subseteq Seq(Nat)
<1>1. FrameOf(d) \subseteq Nat
  BY FrameListsAssumption DEF FrameOf, NumFrames, Memphy
<1>2. QED
  BY <1>1

(* Taking the head moves it from one sequence to the other. *)
LEMMA HeadMoves ==
    ASSUME NEW S, NEW s \in Seq(S), NEW t \in Seq(S), t # <<>>
    PROVE  Append(s, Head(t)) \o Tail(t) = s \o t
<1>1. Append(s, Head(t)) \in Seq(S) /\ Tail(t) \in Seq(S) /\ Len(t) \in Nat \ {0}
      /\ Len(s) \in Nat
  BY HeadTailProperties, EmptySeq
<1>2. Len(Append(s, Head(t)) \o Tail(t)) = Len(s \o t)
  BY <1>1
<1>3. \A i \in 1 .. Len(s \o t) :
          (Append(s, Head(t)) \o Tail(t))[i] = (s \o t)[i]
  BY <1>1
<1>4. QED
  BY <1>1, <1>2, <1>3, SeqEqual, ConcatProperties

LEMMA TailTyped ==
    ASSUME NEW S, NEW s \in Seq(S), s # <<>>
    PROVE  Head(s) \in S /\ Tail(s) \in Seq(S)
BY HeadTailProperties

(* What every call does when it starts. *)
LEMMA BeginTyped ==
    ASSUME TypeInv, NEW c \in Cpu, NEW there \in {"sched", "enter", "inside"},
           NEW own \in BOOLEAN, NEW tasks \in Seq(Task), Begin(c, there, own, tasks),
           queueLock' \in Cpu \cup {Nobody}, overlap' \in BOOLEAN
    PROVE  TypeInv'
<1>1. calls[c] + 1 \in 0 .. MaxCalls
  BY FrameListsAssumption DEF TypeInv, TypeOK, Begin
<1>2. todo' \in [Cpu -> Seq(Task)] /\ direct' \in [Cpu -> BOOLEAN]
  BY DEF TypeInv, TypeOK, Begin
<1>3. at' \in [Cpu -> Place] /\ calls' \in [Cpu -> 0 .. MaxCalls]
  BY <1>1 DEF TypeInv, TypeOK, Begin, Goto, Place
<1>4. TypeOK'
  BY <1>2, <1>3 DEF TypeInv, TypeOK, Begin, frames
<1>5. \A b \in Cpu : at'[b] \in {"store", "looking"} =>
          at[b] = at'[b] /\ todo'[b] = todo[b] /\ fp'[b] = fp[b]
  BY DEF TypeInv, TypeOK, Begin, Goto
<1>6. TaskAtHand' /\ HeadSound'
  BY <1>5 DEF TypeInv, TaskAtHand, HeadSound
<1>7. QED
  BY <1>4, <1>6 DEF TypeInv

LEMMA ScheduleKeeps ==
    ASSUME ListInv, NEW c \in Cpu, Schedule(c)
    PROVE  ListInv'
<1> USE DEF ListInv, TypeInv
<1>1. Begin(c, "sched", FALSE, <<>>) /\ queueLock' = c /\ overlap' = overlap
  BY DEF Schedule
<1>2. TypeOK' /\ TaskAtHand' /\ HeadSound'
  BY <1>1, BeginTyped, TasksTyped DEF TypeOK
<1>3. OneInside' /\ InsideHolds'
  BY SMTT(30), FrameListsAssumption DEF TypeOK, Schedule, Begin, Goto, locks, frames, OneInside, InsideHolds, Inside
<1>4. ReadIsCurrent'
  BY SMTT(30) DEF TypeOK, Schedule, Begin, Goto, locks, frames, ReadIsCurrent, OneInside, Inside, TaskAtHand
<1>5. FramesHandedOnce'
  BY SMTT(30) DEF TypeOK, Schedule, Begin, Goto, locks, frames, FramesHandedOnce
<1>6. QED
  BY <1>1, <1>2, <1>3, <1>4, <1>5

LEMMA ScheduledKeeps ==
    ASSUME ListInv, NEW c \in Cpu, Scheduled(c)
    PROVE  ListInv'
<1> USE DEF ListInv, TypeInv
<1>1. TypeOK'
  BY SMTT(30) DEF TypeOK, Scheduled, Goto, locks, frames, Place, Inside, TaskAtHand, HeadSound
<1>2. TaskAtHand' /\ HeadSound'
  BY SMTT(30) DEF TypeOK, Scheduled, Goto, locks, frames, TaskAtHand, HeadSound
<1>3. OneInside' /\ InsideHolds'
  BY SMTT(30), FrameListsAssumption DEF TypeOK, Scheduled, Goto, locks, frames, OneInside, InsideHolds, Inside
<1>4. ReadIsCurrent'
  BY SMTT(30) DEF TypeOK, Scheduled, Goto, locks, frames, ReadIsCurrent, OneInside, Inside, TaskAtHand
<1>5. FramesHandedOnce'
  BY SMTT(30) DEF TypeOK, Scheduled, Goto, locks, frames, FramesHandedOnce
<1>6. QED
  BY <1>1, <1>2, <1>3, <1>4, <1>5

LEMMA BeginLockedKeeps ==
    ASSUME ListInv, NEW c \in Cpu, BeginLocked(c)
    PROVE  ListInv'
<1> USE DEF ListInv, TypeInv
<1>a. PICK tasks \in Seq(Task) : Begin(c, "enter", FALSE, tasks)
  <2> DEFINE Choice == {<<>>, HitTasks, FaultTasks}
                          \cup {GrowTasks(n) : n \in 1 .. MaxGrowth}
  <2>1. Choice \subseteq Seq(Task)
    BY TasksTyped
  <2>2. \E tasks \in Choice : Begin(c, "enter", FALSE, tasks)
    BY DEF BeginLocked
  <2> HIDE DEF Choice
  <2>3. QED
    BY <2>1, <2>2
<1>1. queueLock' = queueLock /\ overlap' = overlap
  BY DEF BeginLocked
<1>2. TypeOK' /\ TaskAtHand' /\ HeadSound'
  BY <1>a, <1>1, BeginTyped DEF TypeOK
<1>3. OneInside' /\ InsideHolds'
  BY SMTT(30), FrameListsAssumption DEF TypeOK, BeginLocked, Begin, Goto, locks, frames, OneInside, InsideHolds, Inside
<1>4. ReadIsCurrent'
  BY SMTT(30) DEF TypeOK, BeginLocked, Begin, Goto, locks, frames, ReadIsCurrent, OneInside, Inside, TaskAtHand
<1>5. FramesHandedOnce'
  BY SMTT(30) DEF TypeOK, BeginLocked, Begin, Goto, locks, frames, FramesHandedOnce
<1>6. QED
  BY <1>1, <1>2, <1>3, <1>4, <1>5

LEMMA BeginMemmapKeeps ==
    ASSUME ListInv, NEW c \in Cpu, BeginMemmap(c)
    PROVE  ListInv'
<1> USE DEF ListInv, TypeInv
<1>a. PICK tasks \in Seq(Task) : Begin(c, "inside", TRUE, tasks)
  <2>1. \E n \in 1 .. MaxGrowth : Begin(c, "inside", TRUE, GrowTasks(n))
    BY DEF BeginMemmap
  <2>2. QED
    BY <2>1, TasksTyped
<1>1. queueLock' = queueLock /\ overlap' \in BOOLEAN
  BY DEF BeginMemmap, TypeOK
<1>2. TypeOK' /\ TaskAtHand' /\ HeadSound'
  BY <1>a, <1>1, BeginTyped DEF TypeOK
<1>3. OneInside' /\ InsideHolds'
  <2>1. overlap' = (overlap \/ \E b \in Cpu \ {c} : Inside(b))
    BY DEF BeginMemmap
  <2>2. \A b \in Cpu \ {c} : at'[b] = at[b] /\ direct'[b] = direct[b]
    BY <1>a DEF Begin, Goto, TypeOK
  <2>3. direct'[c] /\ mmvmLock' = mmvmLock
    BY <1>a DEF Begin, TypeOK
  <2>4. QED
    BY <2>1, <2>2, <2>3 DEF OneInside, InsideHolds, Inside
<1>4. ReadIsCurrent'
  BY <1>a DEF TypeOK, BeginMemmap, Begin, Goto, frames, ReadIsCurrent
<1>5. FramesHandedOnce'
  BY <1>a DEF BeginMemmap, Begin, frames, FramesHandedOnce
<1>6. QED
  BY <1>1, <1>2, <1>3, <1>4, <1>5

LEMMA EnterKeeps ==
    ASSUME ListInv, NEW c \in Cpu, Enter(c)
    PROVE  ListInv'
<1> USE DEF ListInv, TypeInv
<1>1. TypeOK'
  BY SMTT(30) DEF TypeOK, Enter, Goto, locks, frames, Place, Inside, TaskAtHand, HeadSound
<1>2. TaskAtHand' /\ HeadSound'
  BY SMTT(30) DEF TypeOK, Enter, Goto, locks, frames, TaskAtHand, HeadSound
<1>3. OneInside' /\ InsideHolds'
  BY SMTT(30), FrameListsAssumption DEF TypeOK, Enter, Goto, locks, frames, OneInside, InsideHolds, Inside
<1>4. ReadIsCurrent'
  BY SMTT(30) DEF TypeOK, Enter, Goto, locks, frames, ReadIsCurrent, OneInside, Inside, TaskAtHand
<1>5. FramesHandedOnce'
  BY SMTT(30) DEF TypeOK, Enter, Goto, locks, frames, FramesHandedOnce
<1>6. QED
  BY <1>1, <1>2, <1>3, <1>4, <1>5

LEMMA LeaveKeeps ==
    ASSUME ListInv, NEW c \in Cpu, Leave(c)
    PROVE  ListInv'
<1> USE DEF ListInv, TypeInv
<1>1. TypeOK'
  BY SMTT(30) DEF TypeOK, Leave, Goto, locks, frames, Place, Inside, TaskAtHand, HeadSound
<1>2. TaskAtHand' /\ HeadSound'
  BY SMTT(30) DEF TypeOK, Leave, Goto, locks, frames, TaskAtHand, HeadSound
<1>3. OneInside' /\ InsideHolds'
  BY SMTT(30), FrameListsAssumption DEF TypeOK, Leave, Goto, locks, frames, OneInside, InsideHolds, Inside
<1>4. ReadIsCurrent'
  BY SMTT(30) DEF TypeOK, Leave, Goto, locks, frames, ReadIsCurrent, OneInside, Inside, TaskAtHand
<1>5. FramesHandedOnce'
  BY SMTT(30) DEF TypeOK, Leave, Goto, locks, frames, FramesHandedOnce
<1>6. QED
  BY <1>1, <1>2, <1>3, <1>4, <1>5

LEMMA LookupKeeps ==
    ASSUME ListInv, NEW c \in Cpu, Lookup(c)
    PROVE  ListInv'
<1> USE DEF ListInv, TypeInv
<1>1. TypeOK'
  BY SMTT(30) DEF TypeOK, Lookup, Goto, locks, frames, Place, Inside, TaskAtHand, HeadSound
<1>2. TaskAtHand' /\ HeadSound'
  BY SMTT(30) DEF TypeOK, Lookup, Goto, locks, frames, TaskAtHand, HeadSound
<1>3. OneInside' /\ InsideHolds'
  BY SMTT(30), FrameListsAssumption DEF TypeOK, Lookup, Goto, locks, frames, OneInside, InsideHolds, Inside
<1>4. ReadIsCurrent'
  BY SMTT(30) DEF TypeOK, Lookup, Goto, locks, frames, ReadIsCurrent, OneInside, Inside, TaskAtHand
<1>5. FramesHandedOnce'
  BY SMTT(30) DEF TypeOK, Lookup, Goto, locks, frames, FramesHandedOnce
<1>6. QED
  BY <1>1, <1>2, <1>3, <1>4, <1>5

LEMMA LookedUpKeeps ==
    ASSUME ListInv, NEW c \in Cpu, LookedUp(c)
    PROVE  ListInv'
<1> USE DEF ListInv, TypeInv
<1>1. TypeOK'
  BY SMTT(30), TailTyped DEF TypeOK, LookedUp, Goto, locks, frames, Place, Inside, TaskAtHand, HeadSound
<1>2. TaskAtHand' /\ HeadSound'
  BY SMTT(30), TailTyped DEF TypeOK, LookedUp, Goto, locks, frames, TaskAtHand, HeadSound
<1>3. OneInside' /\ InsideHolds'
  BY SMTT(30), FrameListsAssumption DEF TypeOK, LookedUp, Goto, locks, frames, OneInside, InsideHolds, Inside
<1>4. ReadIsCurrent'
  BY SMTT(30) DEF TypeOK, LookedUp, Goto, locks, frames, ReadIsCurrent, OneInside, Inside, TaskAtHand
<1>5. FramesHandedOnce'
  BY SMTT(30) DEF TypeOK, LookedUp, Goto, locks, frames, FramesHandedOnce
<1>6. QED
  BY <1>1, <1>2, <1>3, <1>4, <1>5

LEMMA ReadHeadKeeps ==
    ASSUME ListInv, NEW c \in Cpu, ReadHead(c)
    PROVE  ListInv'
<1> USE DEF ListInv, TypeInv
<1>1. TypeOK'
  BY SMTT(30), FramesNat DEF TypeOK, ReadHead, Goto, locks, frames, Place, Inside, TaskAtHand, HeadSound
<1>2. TaskAtHand' /\ HeadSound'
  BY SMTT(30), FramesNat DEF TypeOK, ReadHead, Goto, locks, frames, TaskAtHand, HeadSound
<1>3. OneInside' /\ InsideHolds'
  BY SMTT(30), FrameListsAssumption DEF TypeOK, ReadHead, Goto, locks, frames, OneInside, InsideHolds, Inside
<1>4. ReadIsCurrent'
  BY SMTT(30) DEF TypeOK, ReadHead, Goto, locks, frames, ReadIsCurrent, OneInside, Inside, TaskAtHand
<1>5. FramesHandedOnce'
  BY SMTT(30) DEF TypeOK, ReadHead, Goto, locks, frames, FramesHandedOnce
<1>6. QED
  BY <1>1, <1>2, <1>3, <1>4, <1>5

LEMMA StoreNextKeeps ==
    ASSUME ListInv, NEW c \in Cpu, StoreNext(c)
    PROVE  ListInv'
<1> USE DEF ListInv, TypeInv
<1>1. TypeOK'
  BY SMTT(30), TailTyped, FramesNat DEF TypeOK, StoreNext, Goto, locks, frames, HeadTaken, Place, Inside, TaskAtHand, HeadSound
<1>2. TaskAtHand' /\ HeadSound'
  BY SMTT(30), TailTyped, FramesNat DEF TypeOK, StoreNext, Goto, locks, frames, HeadTaken, TaskAtHand, HeadSound
<1>3. OneInside' /\ InsideHolds'
  BY SMTT(30), FrameListsAssumption DEF TypeOK, StoreNext, Goto, locks, frames, HeadTaken, OneInside, InsideHolds, Inside
<1>4. ReadIsCurrent'
  BY SMTT(30) DEF TypeOK, StoreNext, Goto, locks, frames, HeadTaken, ReadIsCurrent, OneInside, Inside, TaskAtHand
<1>5. FramesHandedOnce'
  <2> DEFINE d == Head(todo[c])
  <2>1. d \in Memphy /\ fp[c] \in Seq(FrameOf(d)) /\ fp[c] # <<>> /\ at[c] = "store"
    BY DEF StoreNext, Goto, TaskAtHand, HeadSound
  <2>2. overlap' = overlap /\ (~ overlap => fp[c] = list[d])
    BY <2>1 DEF StoreNext, ReadIsCurrent
  <2>3. handed' = [handed EXCEPT ![d] = Append(@, Head(fp[c]))]
        /\ list' = [list EXCEPT ![d] = Tail(fp[c])]
    BY DEF StoreNext, HeadTaken
  <2> HIDE DEF d
  <2>4. fp[c] \in Seq(Nat) /\ handed[d] \in Seq(Nat)
    BY <2>1 DEF TypeOK
  <2>5. Append(handed[d], Head(fp[c])) \o Tail(fp[c]) = handed[d] \o fp[c]
    BY <2>1, <2>4, HeadMoves
  <2>6. QED
    BY <2>1, <2>2, <2>3, <2>5 DEF FramesHandedOnce, TypeOK
<1>6. QED
  BY <1>1, <1>2, <1>3, <1>4, <1>5

LEMMA NoFrameKeeps ==
    ASSUME ListInv, NEW c \in Cpu, NoFrame(c)
    PROVE  ListInv'
<1> USE DEF ListInv, TypeInv
<1>1. todo' \in [Cpu -> Seq(Task)]
  <2>1. PICK tasks \in {<<>>, EvictTasks} : todo' = [todo EXCEPT ![c] = tasks]
    BY DEF NoFrame
  <2>2. QED
    BY <2>1, TasksTyped DEF TypeOK
<1>a. TypeOK'
  BY <1>1 DEF TypeOK, NoFrame, Goto, locks, frames, Place
<1>b. \A b \in Cpu : at'[b] \in {"store", "looking"} =>
          at[b] = at'[b] /\ todo'[b] = todo[b] /\ fp'[b] = fp[b]
  BY DEF TypeOK, NoFrame, Goto
<1>2. TaskAtHand' /\ HeadSound'
  BY <1>b DEF TaskAtHand, HeadSound
<1>3. OneInside' /\ InsideHolds'
  BY SMTT(30), FrameListsAssumption DEF TypeOK, NoFrame, Goto, locks, frames, OneInside, InsideHolds, Inside
<1>4. ReadIsCurrent'
  BY SMTT(30) DEF TypeOK, NoFrame, Goto, locks, frames, ReadIsCurrent, OneInside, Inside, TaskAtHand
<1>5. FramesHandedOnce'
  BY SMTT(30) DEF TypeOK, NoFrame, Goto, locks, frames, FramesHandedOnce
<1>6. QED
  BY <1>a, <1>2, <1>3, <1>4, <1>5

LEMMA Starts == Init => ListInv
<1> SUFFICES ASSUME Init PROVE ListInv
  OBVIOUS
<1>1. TypeOK
  <2>1. \A d \in Memphy : AllFrames(d) \in Seq(Nat) /\ AllFrames(d) \in Seq(FrameOf(d))
    BY AllFramesTyped
  <2>2. <<>> \in Seq(Nat) /\ <<>> \in Seq(Task) /\ 0 \in 0 .. MaxCalls
    BY TasksTyped, FrameListsAssumption
  <2>3. list \in [Memphy -> Seq(Nat)] /\ handed \in [Memphy -> Seq(Nat)]
        /\ before \in [Memphy -> Seq(Nat)]
    BY <2>1, <2>2 DEF Init
  <2>4. at \in [Cpu -> Place] /\ direct \in [Cpu -> BOOLEAN] /\ todo \in [Cpu -> Seq(Task)]
        /\ fp \in [Cpu -> Seq(Nat)] /\ calls \in [Cpu -> 0 .. MaxCalls]
    BY <2>2 DEF Init, Place
  <2>5. QED
    BY <2>1, <2>3, <2>4 DEF Init, TypeOK
<1>2. FramesHandedOnce
  BY AllFramesTyped DEF Init, FramesHandedOnce
<1>3. QED
  BY <1>1, <1>2 DEF Init, ListInv, TypeInv, TaskAtHand, HeadSound, OneInside,
                     InsideHolds, ReadIsCurrent, Inside

LEMMA StepKeeps == ListInv /\ [Next]_vars => ListInv'
<1> SUFFICES ASSUME ListInv, [Next]_vars PROVE ListInv'
  OBVIOUS
<1>1. CASE UNCHANGED vars
  BY <1>1 DEF ListInv, TypeInv, TypeOK, TaskAtHand, HeadSound, OneInside, InsideHolds,
              ReadIsCurrent, FramesHandedOnce, Inside, vars, locks, frames
<1>2. CASE \E c \in Cpu : Step(c)
  <2>1. PICK c \in Cpu : Step(c)
    BY <1>2
  <2>2. QED
    BY <2>1, ScheduleKeeps, ScheduledKeeps, BeginLockedKeeps, BeginMemmapKeeps,
       EnterKeeps, LeaveKeeps, LookupKeeps, LookedUpKeeps, ReadHeadKeeps,
       StoreNextKeeps, NoFrameKeeps DEF Step
<1>3. QED
  BY <1>1, <1>2 DEF Next, Done

(* Every frame number on a list belongs to that device, and every thread   *)
(* is at a place of its call: for any number of threads.                   *)
THEOREM ListsTyped == Spec => []TypeOK
<1>1. ListInv => TypeOK
  BY DEF ListInv, TypeInv
<1>2. QED
  BY Starts, StepKeeps, <1>1, PTL DEF Spec

(* mmvm_lock is enough to hand each frame out once: MEMPHY_get_freefp reads *)
(* the list and stores it back in two steps, and no other call comes        *)
(* between them.                                                            *)
THEOREM AlwaysFramesHandedOnce == Spec => []FramesHandedOnce
<1>1. ListInv => FramesHandedOnce
  BY DEF ListInv
<1>2. QED
  BY Starts, StepKeeps, <1>1, PTL DEF Spec
-----------------------------------------------------------------------------
(***************************************************************************)
(* The frames of one call leave the lists in one step.  LockHeld says what *)
(* the calls have in front of them, Progress what the call under mmvm_lock *)
(* has taken since it took the lock.                                       *)
(***************************************************************************)
(* s is t after some of its first elements have been taken. *)
Shrunk(s, t) == \E k \in 0 .. Len(t) : s = SubSeq(t, k + 1, Len(t))

(* After the first task, if any, there is nothing but RAM to take. *)
RestIsRam(tasks) ==
    tasks # <<>> => /\ Head(tasks) # "mswp"
                    /\ \A i \in 1 .. Len(Tail(tasks)) : Tail(tasks)[i] = "mram"

LockHeld ==
    \A c \in Cpu :
        /\ mmvmLock = c => Inside(c)
        /\ at[c] = "enter" \/ mmvmLock = c => ~ direct[c]
        /\ at[c] = "looking" => Head(todo[c]) = "lookup"
        /\ direct[c] => RestIsRam(todo[c])
        /\ at[c] = "enter" => todo[c] = FaultTasks \/ RestIsRam(todo[c])

(* A call that faults, and one that goes on to evict, has taken nothing. *)
Faulting(c) == todo[c] = FaultTasks /\ list = before
Evicting(c) == todo[c] = EvictTasks /\ list = before /\ list["mram"] = <<>>

(* A call that takes RAM leaves the swap frames alone. *)
Growing(c) ==
    /\ RestIsRam(todo[c])
    /\ Shrunk(list["mram"], before["mram"])
    /\ list["mswp"] = before["mswp"]

(* A call that has taken a swap frame found no RAM and takes nothing more. *)
Evicted(c) ==
    /\ \A i \in 1 .. Len(todo[c]) : todo[c][i] = "lookup"
    /\ before["mram"] = <<>> /\ list["mram"] = <<>>
    /\ before["mswp"] # <<>> /\ list["mswp"] = Tail(before["mswp"])

Taking(c) == Faulting(c) \/ Evicting(c) \/ Growing(c) \/ Evicted(c)

Progress ==
    ~ overlap =>
        \A c \in Cpu : mmvmLock = c => Len(before["mram"]) <= RamFrames /\ Taking(c)

CallInv == ListInv /\ LockHeld /\ Progress

LEMMA RestTail ==
    ASSUME NEW tasks \in Seq(Task), tasks # <<>>, RestIsRam(tasks)
    PROVE  RestIsRam(Tail(tasks))
<1> DEFINE rest == Tail(tasks)
<1>1. rest \in Seq(Task) /\ \A i \in 1 .. Len(rest) : rest[i] = "mram"
  BY DEF RestIsRam
<1> HIDE DEF rest
<1>2. ASSUME rest # <<>>
      PROVE  Head(rest) # "mswp" /\ \A i \in 1 .. Len(Tail(rest)) : Tail(rest)[i] = "mram"
  <2>1. Len(rest) \in Nat \ {0} /\ Head(rest) = rest[1]
    BY <1>1, <1>2
  <2>2. \A i \in 1 .. Len(Tail(rest)) : Tail(rest)[i] = rest[i + 1] /\ i + 1 \in 1 .. Len(rest)
    BY <1>1, <1>2
  <2>3. QED
    BY <1>1, <2>1, <2>2
<1>3. RestIsRam(rest)
  BY <1>2 DEF RestIsRam
<1>4. QED
  BY <1>3 DEF rest

LEMMA TaskShapes ==
    /\ RestIsRam(<<>>) /\ RestIsRam(HitTasks) /\ ~ RestIsRam(FaultTasks)
    /\ \A n \in 1 .. MaxGrowth : RestIsRam(GrowTasks(n))
    /\ Head(FaultTasks) = "mram" /\ Tail(FaultTasks) = HitTasks /\ FaultTasks # <<>>
    /\ Head(EvictTasks) = "mswp" /\ EvictTasks # <<>>
    /\ \A i \in 1 .. Len(Tail(EvictTasks)) : Tail(EvictTasks)[i] = "lookup"
<1>1. RestIsRam(<<>>)
  BY DEF RestIsRam
<1>2. RestIsRam(HitTasks)
  BY DEF RestIsRam, HitTasks
<1>3. ~ RestIsRam(FaultTasks)
  <2>1. Tail(FaultTasks) = <<"lookup">> /\ FaultTasks # <<>>
    BY DEF FaultTasks
  <2>2. 1 \in 1 .. Len(<<"lookup">>) /\ <<"lookup">>[1] # "mram"
    OBVIOUS
  <2>3. QED
    BY <2>1, <2>2 DEF RestIsRam
<1>4. ASSUME NEW n \in 1 .. MaxGrowth PROVE RestIsRam(GrowTasks(n))
  <2> DEFINE rams == [i \in 1 .. n |-> "mram"]
  <2>1. n \in Nat
    BY FrameListsAssumption
  <2>2. rams \in Seq(Task) /\ Len(rams) = n
    BY <2>1 DEF Task, Memphy
  <2>3. \A i \in 1 .. n : rams[i] = "mram"
    OBVIOUS
  <2> HIDE DEF rams
  <2>4. Head(<<"lookup">> \o rams) = "lookup" /\ Tail(<<"lookup">> \o rams) = rams
    <3>1. <<"lookup">> \in Seq(Task) /\ Len(<<"lookup">>) = 1 /\ <<"lookup">>[1] = "lookup"
      BY DEF Task
    <3>2. QED
      BY <2>2, <3>1
  <2>5. GrowTasks(n) = <<"lookup">> \o rams
    BY DEF GrowTasks, rams
  <2>6. QED
    BY <2>2, <2>3, <2>4, <2>5 DEF RestIsRam
<1>5. Head(FaultTasks) = "mram" /\ Tail(FaultTasks) = HitTasks /\ FaultTasks # <<>>
  BY DEF FaultTasks, HitTasks
<1>6. /\ Head(EvictTasks) = "mswp" /\ EvictTasks # <<>>
      /\ \A i \in 1 .. Len(Tail(EvictTasks)) : Tail(EvictTasks)[i] = "lookup"
  BY DEF EvictTasks
<1>7. QED
  BY <1>1, <1>2, <1>3, <1>4, <1>5, <1>6

LEMMA ShrunkSelf ==
    ASSUME NEW S, NEW t \in Seq(S)
    PROVE  Shrunk(t, t)
<1>1. t = SubSeq(t, 0 + 1, Len(t)) /\ 0 \in 0 .. Len(t)
  OBVIOUS
<1>2. QED
  BY <1>1 DEF Shrunk

LEMMA ShrunkTail ==
    ASSUME NEW S, NEW s \in Seq(S), NEW t \in Seq(S), s # <<>>, Shrunk(s, t)
    PROVE  Shrunk(Tail(s), t)
<1>1. PICK k \in 0 .. Len(t) : s = SubSeq(t, k + 1, Len(t))
  BY DEF Shrunk
<1>2. Len(s) = Len(t) - k /\ Len(s) \in Nat \ {0} /\ Len(t) \in Nat
  BY <1>1
<1>3. k + 1 \in 0 .. Len(t)
  BY <1>2
<1>4. Tail(s) = SubSeq(t, (k + 1) + 1, Len(t))
  <2> DEFINE u == SubSeq(t, (k + 1) + 1, Len(t))
             v == Tail(s)
  <2>1. v \in Seq(S) /\ Len(v) = Len(s) - 1
    BY <1>2
  <2>2. u \in Seq(S) /\ Len(u) = Len(t) - (k + 1)
    BY <1>2, <1>3
  <2>3. \A i \in 1 .. Len(s) - 1 : v[i] = t[k + 1 + i]
    BY <1>1, <1>2
  <2>4. \A i \in 1 .. Len(t) - (k + 1) : u[i] = t[k + 1 + i]
    BY <1>2, <1>3
  <2> HIDE DEF u, v
  <2>5. Len(v) = Len(u) /\ \A i \in 1 .. Len(v) : v[i] = u[i]
    BY <1>2, <2>1, <2>2, <2>3, <2>4
  <2>6. v = u
    BY <2>1, <2>2, <2>5, SeqEqual
  <2>7. QED
    BY <2>6 DEF u, v
<1>5. QED
  BY <1>3, <1>4 DEF Shrunk

(* Only the call that holds the lock makes progress. *)
LEMMA ProgressLocal ==
    ASSUME CallInv, UNCHANGED <<mmvmLock, list, before>>, ~ overlap' => ~ overlap,
           \A b \in Cpu : mmvmLock = b => todo'[b] = todo[b]
    PROVE  Progress'
BY DEF CallInv, Progress, Taking, Faulting, Evicting, Growing, Evicted

(* A call that is inside keeps all others from holding the lock. *)
LEMMA HolderInside ==
    ASSUME CallInv, ~ overlap, NEW c \in Cpu, Inside(c)
    PROVE  /\ \A b \in Cpu : mmvmLock = b => b = c
           /\ direct[c] => mmvmLock = Nobody
           /\ ~ direct[c] => mmvmLock = c
<1>1. \A b \in Cpu : mmvmLock = b => b = c
  BY DEF CallInv, ListInv, OneInside, LockHeld
<1>2. ~ direct[c] => mmvmLock = c
  BY DEF CallInv, ListInv, InsideHolds
<1>3. direct[c] => mmvmLock = Nobody
  BY <1>1 DEF CallInv, ListInv, TypeInv, TypeOK, LockHeld
<1>4. QED
  BY <1>1, <1>2, <1>3

LEMMA ScheduleCall ==
    ASSUME CallInv, NEW c \in Cpu, Schedule(c)
    PROVE  LockHeld' /\ Progress'
<1> USE DEF CallInv, ListInv, TypeInv, TypeOK
<1>1. /\ at[c] = "idle" /\ at' = [at EXCEPT ![c] = "sched"]
      /\ direct' = [direct EXCEPT ![c] = FALSE] /\ todo' = [todo EXCEPT ![c] = <<>>]
      /\ UNCHANGED <<mmvmLock, list, before, overlap>>
  BY DEF Schedule, Begin, Goto, frames
<1>2. mmvmLock # c
  BY <1>1 DEF LockHeld, Inside
<1>3. LockHeld'
  BY <1>1, <1>2 DEF LockHeld, Inside
<1>4. QED
  BY <1>1, <1>2, <1>3, ProgressLocal

LEMMA ScheduledCall ==
    ASSUME CallInv, NEW c \in Cpu, Scheduled(c)
    PROVE  LockHeld' /\ Progress'
<1> USE DEF CallInv, ListInv, TypeInv, TypeOK
<1>1. /\ at[c] = "sched" /\ at' = [at EXCEPT ![c] = "idle"]
      /\ UNCHANGED <<mmvmLock, list, before, overlap, direct, todo>>
  BY DEF Scheduled, Goto, frames
<1>2. LockHeld'
  BY <1>1 DEF LockHeld, Inside
<1>3. QED
  BY <1>1, <1>2, ProgressLocal

LEMMA BeginLockedCall ==
    ASSUME CallInv, NEW c \in Cpu, BeginLocked(c)
    PROVE  LockHeld' /\ Progress'
<1> USE DEF CallInv, ListInv, TypeInv, TypeOK
<1>1. PICK tasks \in Seq(Task) :
          Begin(c, "enter", FALSE, tasks) /\ (tasks = FaultTasks \/ RestIsRam(tasks))
  <2> DEFINE Choice == {<<>>, HitTasks, FaultTasks}
                          \cup {GrowTasks(n) : n \in 1 .. MaxGrowth}
  <2>1. \A tasks \in Choice : tasks \in Seq(Task) /\ (tasks = FaultTasks \/ RestIsRam(tasks))
    BY TasksTyped, TaskShapes
  <2>2. \E tasks \in Choice : Begin(c, "enter", FALSE, tasks)
    BY DEF BeginLocked
  <2> HIDE DEF Choice
  <2>3. QED
    BY <2>1, <2>2
<1>2. /\ at[c] = "idle" /\ at' = [at EXCEPT ![c] = "enter"]
      /\ direct' = [direct EXCEPT ![c] = FALSE] /\ todo' = [todo EXCEPT ![c] = tasks]
      /\ UNCHANGED <<mmvmLock, list, before, overlap>>
  BY <1>1 DEF BeginLocked, Begin, Goto, frames
<1>3. mmvmLock # c
  BY <1>2 DEF LockHeld, Inside
<1>4. LockHeld'
  BY <1>1, <1>2, <1>3 DEF LockHeld, Inside
<1>5. QED
  BY <1>2, <1>3, <1>4, ProgressLocal

LEMMA BeginMemmapCall ==
    ASSUME CallInv, NEW c \in Cpu, BeginMemmap(c)
    PROVE  LockHeld' /\ Progress'
<1> USE DEF CallInv, ListInv, TypeInv, TypeOK
<1>1. PICK tasks \in Seq(Task) : Begin(c, "inside", TRUE, tasks) /\ RestIsRam(tasks)
  <2>1. \E n \in 1 .. MaxGrowth : Begin(c, "inside", TRUE, GrowTasks(n))
    BY DEF BeginMemmap
  <2>2. QED
    BY <2>1, TasksTyped, TaskShapes
<1>2. /\ at[c] = "idle" /\ at' = [at EXCEPT ![c] = "inside"]
      /\ direct' = [direct EXCEPT ![c] = TRUE] /\ todo' = [todo EXCEPT ![c] = tasks]
      /\ UNCHANGED <<mmvmLock, list, before>> /\ (overlap => overlap')
  BY <1>1 DEF BeginMemmap, Begin, Goto, frames
<1>3. mmvmLock # c
  BY <1>2 DEF LockHeld, Inside
<1>4. LockHeld'
  BY <1>1, <1>2, <1>3 DEF LockHeld, Inside
<1>5. QED
  BY <1>2, <1>3, <1>4, ProgressLocal

LEMMA EnterCall ==
    ASSUME CallInv, NEW c \in Cpu, Enter(c)
    PROVE  LockHeld' /\ Progress'
<1> USE DEF CallInv, ListInv, TypeInv, TypeOK
<1>1. /\ at[c] = "enter" /\ at' = [at EXCEPT ![c] = "inside"]
      /\ mmvmLock' = c /\ before' = list /\ (overlap => overlap')
      /\ UNCHANGED <<list, handed, direct, todo>>
  BY DEF Enter, Goto, frames
<1>2. LockHeld'
  BY <1>1 DEF LockHeld, Inside
<1>3. ASSUME ~ overlap'
      PROVE  Len(before'["mram"]) <= RamFrames
  <2> DEFINE h == handed["mram"]
             l == list["mram"]
  <2>1. h \o l = AllFrames("mram") /\ h \in Seq(Nat) /\ l \in Seq(Nat)
    BY <1>1, <1>3 DEF FramesHandedOnce, Memphy
  <2>2. Len(AllFrames("mram")) = RamFrames
    BY FrameListsAssumption DEF AllFrames, NumFrames
  <2> HIDE DEF h, l
  <2>3. Len(h) + Len(l) = RamFrames /\ Len(h) \in Nat /\ Len(l) \in Nat
    <3>1. Len(h \o l) = Len(h) + Len(l) /\ Len(h) \in Nat /\ Len(l) \in Nat
      BY <2>1
    <3>2. QED
      BY <2>1, <2>2, <3>1
  <2>4. Len(l) <= RamFrames
    BY <2>3, FrameListsAssumption
  <2>5. QED
    BY <1>1, <2>4 DEF l
<1>4. Faulting(c)' \/ Growing(c)'
  <2>1. todo[c] = FaultTasks \/ RestIsRam(todo[c])
    BY <1>1 DEF LockHeld
  <2>2. Shrunk(list["mram"], list["mram"])
    BY ShrunkSelf DEF Memphy
  <2>3. QED
    BY <1>1, <2>1, <2>2 DEF Faulting, Growing
<1>5. Progress'
  BY <1>1, <1>3, <1>4 DEF Progress, Taking
<1>6. QED
  BY <1>2, <1>5

LEMMA LeaveCall ==
    ASSUME CallInv, NEW c \in Cpu, Leave(c)
    PROVE  LockHeld' /\ Progress'
<1> USE DEF CallInv, ListInv, TypeInv, TypeOK
<1>1. /\ at[c] = "inside" /\ at' = [at EXCEPT ![c] = "idle"]
      /\ mmvmLock' = IF direct[c] THEN mmvmLock ELSE Nobody
      /\ UNCHANGED <<list, before, overlap, direct, todo>>
  BY DEF Leave, Goto, frames
<1>2. CASE direct[c]
  <2>1. mmvmLock # c
    BY <1>2 DEF LockHeld
  <2>2. LockHeld'
    BY <1>1, <1>2, <2>1 DEF LockHeld, Inside
  <2>3. QED
    BY <1>1, <1>2, <2>2, ProgressLocal
<1>3. CASE ~ direct[c]
  <2>1. \A b \in Cpu : mmvmLock' # b
    BY <1>1, <1>3, FrameListsAssumption
  <2>2. LockHeld'
    BY <1>1, <2>1 DEF LockHeld, Inside
  <2>3. Progress'
    BY <2>1 DEF Progress
  <2>4. QED
    BY <2>2, <2>3
<1>4. QED
  BY <1>2, <1>3

LEMMA LookupCall ==
    ASSUME CallInv, NEW c \in Cpu, Lookup(c)
    PROVE  LockHeld' /\ Progress'
<1> USE DEF CallInv, ListInv, TypeInv, TypeOK
<1>1. /\ at[c] = "inside" /\ at' = [at EXCEPT ![c] = "looking"]
      /\ Head(todo[c]) = "lookup"
      /\ UNCHANGED <<mmvmLock, list, before, overlap, direct, todo>>
  BY DEF Lookup, Goto, frames
<1>2. LockHeld'
  BY <1>1 DEF LockHeld, Inside
<1>3. QED
  BY <1>1, <1>2, ProgressLocal

LEMMA ReadHeadCall ==
    ASSUME CallInv, NEW c \in Cpu, ReadHead(c)
    PROVE  LockHeld' /\ Progress'
<1> USE DEF CallInv, ListInv, TypeInv, TypeOK
<1>1. /\ at[c] = "inside" /\ at' = [at EXCEPT ![c] = "store"]
      /\ UNCHANGED <<mmvmLock, list, before, overlap, direct, todo>>
  BY DEF ReadHead, Goto, locks, frames
<1>2. LockHeld'
  BY <1>1 DEF LockHeld, Inside
<1>3. QED
  BY <1>1, <1>2, ProgressLocal

LEMMA LookedUpCall ==
    ASSUME CallInv, NEW c \in Cpu, LookedUp(c)
    PROVE  LockHeld' /\ Progress'
<1> USE DEF CallInv, ListInv, TypeInv, TypeOK
<1>1. /\ at[c] = "looking" /\ at' = [at EXCEPT ![c] = "inside"]
      /\ todo' = [todo EXCEPT ![c] = Tail(todo[c])]
      /\ UNCHANGED <<mmvmLock, list, before, overlap, direct>>
  BY DEF LookedUp, Goto, frames
<1>2. todo[c] # <<>> /\ todo[c] \in Seq(Task) /\ Head(todo[c]) = "lookup"
  BY <1>1 DEF TaskAtHand, LockHeld
<1>3. RestIsRam(todo[c]) => RestIsRam(Tail(todo[c]))
  BY <1>2, RestTail
<1>4. LockHeld'
  BY <1>1, <1>3 DEF LockHeld, Inside
<1>5. ASSUME ~ overlap, mmvmLock = c
      PROVE  Taking(c)'
  <2>1. Growing(c) \/ Evicted(c)
    <3>1. Head(FaultTasks) # "lookup" /\ Head(EvictTasks) # "lookup"
      BY TaskShapes
    <3>2. QED
      BY <1>2, <1>5, <3>1 DEF Progress, Taking, Faulting, Evicting
  <2>2. CASE Growing(c)
    BY <1>1, <1>3, <2>2 DEF Growing, Taking
  <2>3. CASE Evicted(c)
    <3>1. \A i \in 1 .. Len(Tail(todo[c])) : Tail(todo[c])[i] = "lookup"
      BY <1>2, <2>3 DEF Evicted
    <3>2. QED
      BY <1>1, <2>3, <3>1 DEF Evicted, Taking
  <2>4. QED
    BY <2>1, <2>2, <2>3
<1>6. Progress'
  <2>1. CASE mmvmLock = c
    BY <1>1, <1>5, <2>1 DEF Progress
  <2>2. CASE mmvmLock # c
    BY <1>1, <2>2, ProgressLocal
  <2>3. QED
    BY <2>1, <2>2
<1>7. QED
  BY <1>4, <1>6

(* The three ways a call comes to take a frame. *)
LEMMA StoreNextCall ==
    ASSUME CallInv, NEW c \in Cpu, StoreNext(c)
    PROVE  LockHeld' /\ Progress'
<1> USE DEF CallInv, ListInv, TypeInv, TypeOK
<1> DEFINE d == Head(todo[c])
<1>1. /\ at[c] = "store" /\ at' = [at EXCEPT ![c] = "inside"]
      /\ todo' = [todo EXCEPT ![c] = Tail(todo[c])]
      /\ list' = [list EXCEPT ![d] = Tail(fp[c])] /\ fp[c] # <<>>
      /\ UNCHANGED <<mmvmLock, before, overlap, direct>>
  BY DEF StoreNext, HeadTaken, Goto, locks
<1>2. todo[c] # <<>> /\ todo[c] \in Seq(Task) /\ d \in Memphy
  BY <1>1 DEF TaskAtHand
<1>3. RestIsRam(todo[c]) => RestIsRam(Tail(todo[c]))
  BY <1>2, RestTail
<1>4. LockHeld'
  BY <1>1, <1>3 DEF LockHeld, Inside
<1>5. ~ overlap => fp[c] = list[d]
  BY <1>1 DEF ReadIsCurrent
<1>6. ASSUME ~ overlap, mmvmLock = c
      PROVE  Taking(c)'
  <2>1. list' = [list EXCEPT ![d] = Tail(list[d])] /\ list[d] # <<>>
    BY <1>1, <1>5, <1>6
  <2>2. Taking(c)
    BY <1>6 DEF Progress
  <2>3. list["mram"] \in Seq(Nat) /\ before["mram"] \in Seq(Nat)
    BY DEF Memphy
  <2>4. CASE Faulting(c)
    <3>1. d = "mram" /\ Tail(todo[c]) = HitTasks
      BY <2>4, TaskShapes DEF Faulting
    <3>2. Shrunk(Tail(list["mram"]), before["mram"])
      BY <2>1, <2>3, <2>4, <3>1, ShrunkSelf, ShrunkTail DEF Faulting
    <3>3. RestIsRam(Tail(todo[c]))
      BY <3>1, TaskShapes
    <3>4. list'["mram"] = Tail(list["mram"]) /\ list'["mswp"] = before["mswp"]
      BY <2>1, <2>4, <3>1 DEF Faulting, Memphy
    <3>5. QED
      BY <1>1, <3>2, <3>3, <3>4 DEF Growing, Taking
  <2>5. CASE Evicting(c)
    <3>1. d = "mswp" /\ \A i \in 1 .. Len(Tail(todo[c])) : Tail(todo[c])[i] = "lookup"
      BY <2>5, TaskShapes DEF Evicting
    <3>2. list'["mswp"] = Tail(list["mswp"]) /\ list'["mram"] = list["mram"]
      BY <2>1, <3>1 DEF Memphy
    <3>3. QED
      BY <1>1, <2>1, <2>5, <3>1, <3>2 DEF Evicting, Evicted, Taking
  <2>6. CASE Growing(c)
    <3>1. d = "mram"
      BY <1>2, <2>6 DEF Growing, RestIsRam, Memphy
    <3>2. Shrunk(Tail(list["mram"]), before["mram"])
      BY <2>1, <2>3, <2>6, <3>1, ShrunkTail DEF Growing
    <3>3. list'["mram"] = Tail(list["mram"]) /\ list'["mswp"] = list["mswp"]
      BY <2>1, <3>1 DEF Memphy
    <3>4. QED
      BY <1>1, <1>3, <2>6, <3>2, <3>3 DEF Growing, Taking
  <2>7. CASE Evicted(c)
    <3>1. Head(todo[c]) = todo[c][1] /\ 1 \in 1 .. Len(todo[c])
      BY <1>2
    <3>2. d = "lookup"
      BY <2>7, <3>1 DEF Evicted
    <3>3. QED
      BY <1>2, <3>2 DEF Memphy
  <2>8. QED
    BY <2>2, <2>4, <2>5, <2>6, <2>7 DEF Taking
<1>7. Progress'
  <2>1. CASE overlap
    BY <1>1, <2>1 DEF Progress
  <2>2. CASE ~ overlap
    <3>1. \A b \in Cpu : mmvmLock = b => b = c
      BY <1>1, <2>2, HolderInside DEF Inside
    <3>2. QED
      BY <1>1, <1>6, <2>2, <3>1 DEF Progress
  <2>3. QED
    BY <2>1, <2>2
<1>8. QED
  BY <1>4, <1>7

(* A fault that finds no RAM has taken nothing when it turns to the swap. *)
LEMMA NoFrameCall ==
    ASSUME CallInv, NEW c \in Cpu, NoFrame(c)
    PROVE  LockHeld' /\ Progress'
<1> USE DEF CallInv, ListInv, TypeInv, TypeOK
<1>1. /\ at[c] = "store" /\ at' = [at EXCEPT ![c] = "inside"] /\ fp[c] = <<>>
      /\ UNCHANGED <<mmvmLock, list, before, overlap, direct>>
  BY DEF NoFrame, Goto, locks, frames
<1>2. PICK tasks \in {<<>>, EvictTasks} :
          /\ todo' = [todo EXCEPT ![c] = tasks]
          /\ tasks = <<>> \/ (todo[c] = FaultTasks /\ tasks = EvictTasks)
  <2>1. CASE todo' = [todo EXCEPT ![c] = <<>>]
    BY <2>1
  <2>2. CASE todo[c] = FaultTasks /\ todo' = [todo EXCEPT ![c] = EvictTasks]
    BY <2>2
  <2>3. QED
    BY <2>1, <2>2 DEF NoFrame
<1>3. direct[c] => tasks = <<>>
  BY <1>2, TaskShapes DEF LockHeld
<1>4. LockHeld'
  BY <1>1, <1>2, <1>3, TaskShapes DEF LockHeld, Inside
<1>5. ASSUME ~ overlap, mmvmLock = c
      PROVE  Taking(c)'
  <2>1. Taking(c)
    BY <1>5 DEF Progress
  <2>2. list["mram"] \in Seq(Nat) /\ before["mram"] \in Seq(Nat)
    BY DEF Memphy
  <2>3. list = before => Shrunk(list["mram"], before["mram"])
    BY <2>2, ShrunkSelf
  <2>4. CASE tasks = <<>>
    <3>1. todo'[c] = <<>> /\ RestIsRam(<<>>)
      BY <1>2, <2>4, TaskShapes
    <3>2. CASE Evicted(c)
      BY <1>1, <3>1, <3>2 DEF Evicted, Taking
    <3>3. CASE ~ Evicted(c)
      <4>1. Shrunk(list["mram"], before["mram"]) /\ list["mswp"] = before["mswp"]
        BY <2>1, <2>3, <3>3 DEF Taking, Faulting, Evicting, Growing
      <4>2. QED
        BY <1>1, <3>1, <4>1 DEF Growing, Taking
    <3>4. QED
      BY <3>2, <3>3
  <2>5. CASE todo[c] = FaultTasks /\ tasks = EvictTasks
    <3>1. Head(todo[c]) = "mram" /\ todo[c] # <<>> /\ ~ RestIsRam(todo[c]) /\ todo[c] # EvictTasks
      BY <2>5, TaskShapes
    <3>2. list["mram"] = <<>>
      BY <1>1, <1>5, <3>1 DEF ReadIsCurrent
    <3>3. ~ Evicted(c)
      <4>1. Head(todo[c]) = todo[c][1] /\ 1 \in 1 .. Len(todo[c])
        BY <3>1
      <4>2. QED
        BY <3>1, <4>1 DEF Evicted
    <3>4. Faulting(c)
      BY <2>1, <3>1, <3>3 DEF Taking, Evicting, Growing
    <3>5. QED
      BY <1>1, <1>2, <2>5, <3>2, <3>4 DEF Faulting, Evicting, Taking
  <2>6. QED
    BY <1>2, <2>4, <2>5
<1>6. Progress'
  <2>1. CASE mmvmLock = c
    BY <1>1, <1>5, <2>1 DEF Progress
  <2>2. CASE mmvmLock # c
    BY <1>1, <1>2, <2>2, ProgressLocal
  <2>3. QED
    BY <2>1, <2>2
<1>7. QED
  BY <1>4, <1>6

LEMMA CallStarts == Init => CallInv
<1> SUFFICES ASSUME Init PROVE CallInv
  OBVIOUS
<1>1. ListInv
  BY Starts
<1>2. LockHeld
  BY TaskShapes, FrameListsAssumption DEF Init, LockHeld
<1>3. Progress
  BY FrameListsAssumption DEF Init, Progress
<1>4. QED
  BY <1>1, <1>2, <1>3 DEF CallInv

LEMMA CallKeeps == CallInv /\ [Next]_vars => CallInv'
<1> SUFFICES ASSUME CallInv, [Next]_vars PROVE CallInv'
  OBVIOUS
<1>1. ListInv'
  BY StepKeeps DEF CallInv
<1>2. CASE UNCHANGED vars
  <2>1. LockHeld'
    BY <1>2 DEF CallInv, LockHeld, Inside, vars, locks, frames
  <2>2. Progress'
    BY <1>2, ProgressLocal DEF vars, locks, frames
  <2>3. QED
    BY <1>1, <2>1, <2>2 DEF CallInv
<1>3. CASE \E c \in Cpu : Step(c)
  <2>1. PICK c \in Cpu : Step(c)
    BY <1>3
  <2>2. LockHeld' /\ Progress'
    BY <2>1, ScheduleCall, ScheduledCall, BeginLockedCall, BeginMemmapCall, EnterCall,
       LeaveCall, LookupCall, LookedUpCall, ReadHeadCall, StoreNextCall, NoFrameCall DEF Step
  <2>3. QED
    BY <1>1, <2>2 DEF CallInv
<1>4. QED
  BY <1>2, <1>3 DEF Next, Done

(* A program's own memmap takes its frames one by one, each in a step of   *)
(* its own: mmvm_lock is free then.                                        *)
LEMMA StoreNextTakes ==
    ASSUME CallInv, NEW c \in Cpu, StoreNext(c), ~ overlap
    PROVE  Lists!ListsNext \/ UNCHANGED Lists!listVars
<1> USE DEF CallInv, ListInv, TypeInv, TypeOK
<1> DEFINE d == Head(todo[c])
<1>1. /\ at[c] = "store" /\ fp[c] # <<>> /\ list' = [list EXCEPT ![d] = Tail(fp[c])]
      /\ UNCHANGED <<mmvmLock, before>>
  BY DEF StoreNext, HeadTaken, Goto, locks
<1>2. fp[c] = list[d] /\ todo[c] # <<>> /\ d \in Memphy
  BY <1>1 DEF ReadIsCurrent, TaskAtHand
<1>3. CASE ~ direct[c]
  <2>1. mmvmLock = c /\ mmvmLock # Nobody
    BY <1>1, <1>3, HolderInside, FrameListsAssumption DEF Inside
  <2>2. QED
    BY <1>1, <2>1 DEF Lists!listVars, Settled
<1>4. CASE direct[c]
  <2> DEFINE l == list["mram"]
  <2>1. mmvmLock = Nobody
    BY <1>1, <1>4, HolderInside DEF Inside
  <2>2. d = "mram"
    BY <1>2, <1>4 DEF LockHeld, RestIsRam, Memphy
  <2>3. l \in Seq(Nat) /\ l # <<>>
    BY <1>1, <1>2, <2>2 DEF Memphy
  <2>4. list'["mram"] = Tail(l) /\ list'["mswp"] = list["mswp"]
    BY <1>1, <1>2, <2>2 DEF Memphy
  <2> HIDE DEF l
  <2>5. Len(l) >= 1 /\ Tail(l) = SubSeq(l, 1 + 1, Len(l))
    BY <2>3
  <2>6. 1 \in 1 .. RamFrames + 1
    BY FrameListsAssumption
  <2>7. Settled("mram") = l /\ Settled("mram")' = Tail(l) /\ UNCHANGED Settled("mswp")
    BY <1>1, <2>1, <2>4 DEF Settled, l
  <2>8. Lists!TakeRam(1)
    BY <2>5, <2>7 DEF Lists!TakeRam
  <2>9. QED
    BY <2>6, <2>7, <2>8 DEF Lists!ListsNext
<1>5. QED
  BY <1>3, <1>4

(* When mmvm_lock is given back the frames of the call have left at once. *)
LEMMA LeaveTakes ==
    ASSUME CallInv, NEW c \in Cpu, Leave(c), ~ overlap
    PROVE  Lists!ListsNext \/ UNCHANGED Lists!listVars
<1> USE DEF CallInv, ListInv, TypeInv, TypeOK
<1>1. /\ at[c] = "inside" /\ todo[c] = <<>>
      /\ mmvmLock' = IF direct[c] THEN mmvmLock ELSE Nobody
      /\ UNCHANGED <<list, before>>
  BY DEF Leave, Goto, frames
<1>2. CASE direct[c]
  BY <1>1, <1>2 DEF Lists!listVars, Settled
<1>3. CASE ~ direct[c]
  <2>1. mmvmLock = c /\ mmvmLock # Nobody /\ mmvmLock' = Nobody
    BY <1>1, <1>3, HolderInside, FrameListsAssumption DEF Inside
  <2>2. Settled("mram") = before["mram"] /\ Settled("mswp") = before["mswp"]
        /\ Settled("mram")' = list["mram"] /\ Settled("mswp")' = list["mswp"]
    BY <1>1, <2>1 DEF Settled
  <2>3. Len(before["mram"]) <= RamFrames /\ (Growing(c) \/ Evicted(c))
    BY <1>1, <2>1, TaskShapes DEF Progress, Taking, Faulting, Evicting
  <2>4. CASE Evicted(c)
    BY <2>2, <2>4 DEF Evicted, Lists!ListsNext, Lists!TakeSlot
  <2>5. CASE Growing(c)
    <3> DEFINE b == before["mram"]
    <3>1. PICK k \in 0 .. Len(b) : list["mram"] = SubSeq(b, k + 1, Len(b))
      BY <2>5 DEF Growing, Shrunk
    <3>2. list["mswp"] = before["mswp"] /\ b \in Seq(Nat) /\ Len(b) <= RamFrames
      BY <2>3, <2>5 DEF Growing, Memphy
    <3>3. Settled("mram") = b /\ Settled("mram")' = SubSeq(b, k + 1, Len(b))
          /\ UNCHANGED Settled("mswp")
      BY <2>2, <3>1, <3>2
    <3> HIDE DEF b
    <3>4. Len(b) \in Nat
      BY <3>2
    <3>5. CASE k = 0
      <4>1. SubSeq(b, k + 1, Len(b)) = b
        BY <3>2, <3>5
      <4>2. QED
        BY <3>3, <4>1 DEF Lists!listVars
    <3>6. CASE k # 0
      <4>1. k \in 1 .. RamFrames + 1 /\ Len(b) >= k
        BY <3>2, <3>4, <3>6, FrameListsAssumption
      <4>2. Lists!TakeRam(k)
        BY <3>3, <4>1 DEF Lists!TakeRam
      <4>3. QED
        BY <3>3, <4>1, <4>2 DEF Lists!ListsNext
    <3>7. QED
      BY <3>5, <3>6
  <2>6. QED
    BY <2>3, <2>4, <2>5
<1>4. QED
  BY <1>2, <1>3

LEMMA StepTakes ==
    ASSUME CallInv, [Next]_vars
    PROVE  [~ overlap' => Lists!ListsNext]_(Lists!listVars)
<1>1. CASE UNCHANGED vars
  BY <1>1 DEF vars, locks, frames, Lists!listVars, Settled
<1>2. ASSUME NEW c \in Cpu, Step(c)
      PROVE  [~ overlap' => Lists!ListsNext]_(Lists!listVars)
  <2>1. CASE StoreNext(c)
    <3>1. overlap' = overlap
      BY <2>1 DEF StoreNext
    <3>2. QED
      BY <2>1, <3>1, StoreNextTakes
  <2>2. CASE Leave(c)
    <3>1. overlap' = overlap
      BY <2>2 DEF Leave
    <3>2. QED
      BY <2>2, <3>1, LeaveTakes
  <2>3. CASE Enter(c)
    <3>1. mmvmLock = Nobody /\ mmvmLock' = c /\ before' = list /\ c # Nobody
      BY <2>3, FrameListsAssumption DEF Enter
    <3>2. QED
      BY <3>1 DEF Lists!listVars, Settled
  <2>4. CASE ~ StoreNext(c) /\ ~ Leave(c) /\ ~ Enter(c)
    <3>1. UNCHANGED <<mmvmLock, list, before>>
      BY <1>2, <2>4 DEF Step, Schedule, Scheduled, BeginLocked, BeginMemmap, Begin, Lookup,
                        LookedUp, ReadHead, NoFrame, locks, frames
    <3>2. QED
      BY <3>1 DEF Lists!listVars, Settled
  <2>5. QED
    BY <2>1, <2>2, <2>3, <2>4
<1>3. QED
  BY <1>1, <1>2 DEF Next, Done

(* The code keeps the promise Paging relies on: under mmvm_lock the frames *)
(* of one call leave the lists in one step, n for a growth, one for a      *)
(* fault, or a swap frame once RAM has run out.                            *)
THEOREM AlwaysCallsAreAtomic == Spec => CallsAreAtomic
<1>1. Init => Lists!ListsInit
  BY DEF Init, Lists!ListsInit, Settled, AllFrames, NumFrames, Memphy
<1>2. CallInv /\ [Next]_vars => [~ overlap' => Lists!ListsNext]_(Lists!listVars)
  BY StepTakes
<1>3. QED
  BY CallStarts, CallKeeps, <1>1, <1>2, PTL DEF Spec, CallsAreAtomic
=============================================================================

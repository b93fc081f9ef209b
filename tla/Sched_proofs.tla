---------------------------- MODULE Sched_proofs ----------------------------
(***************************************************************************)
(* The safety of the scheduler for any number of processes, CPU threads    *)
(* and levels and for queues of any capacity.                              *)
(***************************************************************************)
EXTENDS Sched, FiniteSetTheorems, TLAPS

-----------------------------------------------------------------------------
(***************************************************************************)
(* What the queue operations return, keep and remove, for queues of any    *)
(* length and any capacity.                                                *)
(***************************************************************************)

(* Closing the gap at position i leaves a queue one shorter. *)
LEMMA ShiftQueue ==
    ASSUME NEW S, NEW q \in Seq(S), NEW i \in DOMAIN q
    PROVE  /\ Shift(q, i) \in Seq(S)
           /\ Len(Shift(q, i)) = Len(q) - 1
           /\ DOMAIN Shift(q, i) = 1 .. Len(q) - 1
           /\ \A j \in 1 .. Len(q) - 1 :
                 Shift(q, i)[j] = IF j < i THEN q[j] ELSE q[j + 1]
  <1>1. DOMAIN q = 1 .. Len(q) /\ Len(q) \in Nat /\ i \in 1 .. Len(q)
    OBVIOUS
  <1>2. \A j \in 1 .. Len(q) - 1 : q[j] \in S /\ q[j + 1] \in S
    BY <1>1
  <1>3. Shift(q, i) \in [1 .. Len(q) - 1 -> S]
    BY <1>1, <1>2 DEF Shift
  <1>4. Len(q) - 1 \in Nat
    BY <1>1
  <1> QED
    BY <1>3, <1>4 DEF Shift

(* It loses no process but the one at i, and no other copy of it appears. *)
LEMMA ShiftMembers ==
    ASSUME NEW S, NEW q \in Seq(S), NEW i \in DOMAIN q, Distinct(q)
    PROVE  /\ Distinct(Shift(q, i))
           /\ InQueue(Shift(q, i)) = InQueue(q) \ {q[i]}
  <1> DEFINE s == Shift(q, i)
  <1>1. /\ DOMAIN s = 1 .. Len(q) - 1
        /\ \A j \in 1 .. Len(q) - 1 : s[j] = IF j < i THEN q[j] ELSE q[j + 1]
    BY ShiftQueue
  <1>2. DOMAIN q = 1 .. Len(q) /\ Len(q) \in Nat /\ i \in 1 .. Len(q)
    OBVIOUS
  <1> HIDE DEF s
  <1>3. Distinct(s)
    <2> SUFFICES ASSUME NEW j \in DOMAIN s, NEW k \in DOMAIN s, s[j] = s[k]
                 PROVE  j = k
      BY DEF Distinct
    <2>1. PICK a \in DOMAIN q : a = (IF j < i THEN j ELSE j + 1) /\ s[j] = q[a]
      BY <1>1, <1>2
    <2>2. PICK b \in DOMAIN q : b = (IF k < i THEN k ELSE k + 1) /\ s[k] = q[b]
      BY <1>1, <1>2
    <2>3. a = b
      BY <2>1, <2>2 DEF Distinct
    <2> QED
      BY <1>1, <1>2, <2>1, <2>2, <2>3
  <1>4. InQueue(s) \subseteq InQueue(q) \ {q[i]}
    <2> SUFFICES ASSUME NEW j \in DOMAIN s
                 PROVE  s[j] \in InQueue(q) \ {q[i]}
      BY DEF InQueue
    <2>1. CASE j < i
      BY <2>1, <1>1, <1>2 DEF InQueue, Distinct
    <2>2. CASE ~ (j < i)
      <3>1. j + 1 \in DOMAIN q /\ j + 1 # i /\ s[j] = q[j + 1]
        BY <2>2, <1>1, <1>2
      <3> QED
        BY <3>1 DEF InQueue, Distinct
    <2> QED
      BY <2>1, <2>2
  <1>5. InQueue(q) \ {q[i]} \subseteq InQueue(s)
    <2> SUFFICES ASSUME NEW j \in DOMAIN q, q[j] # q[i]
                 PROVE  q[j] \in InQueue(s)
      BY DEF InQueue
    <2>1. CASE j < i
      <3>1. j \in DOMAIN s /\ s[j] = q[j]
        BY <2>1, <1>1, <1>2
      <3> QED
        BY <3>1 DEF InQueue
    <2>2. CASE j > i
      <3>1. j - 1 \in DOMAIN s /\ s[j - 1] = q[j]
        BY <2>2, <1>1, <1>2
      <3> QED
        BY <3>1 DEF InQueue
    <2> QED
      BY <2>1, <2>2, <1>2
  <1> QED
    BY <1>3, <1>4, <1>5 DEF s

(* The front of a queue that is not empty is one of its members. *)
LEMMA DequeueQueue ==
    ASSUME NEW S, NEW q \in Seq(S), q # <<>>
    PROVE  /\ 1 \in DOMAIN q
           /\ Front(q) \in S
           /\ Front(q) \in InQueue(q)
           /\ Dequeue(q) \in Seq(S)
           /\ Distinct(q) => /\ Distinct(Dequeue(q))
                             /\ InQueue(Dequeue(q)) = InQueue(q) \ {Front(q)}
  <1>1. 1 \in DOMAIN q /\ q[1] \in S
    OBVIOUS
  <1>2. Dequeue(q) \in Seq(S)
    BY <1>1, ShiftQueue DEF Dequeue
  <1>3. Distinct(q) => /\ Distinct(Dequeue(q))
                       /\ InQueue(Dequeue(q)) = InQueue(q) \ {q[1]}
    BY <1>1, ShiftMembers DEF Dequeue
  <1> QED
    BY <1>1, <1>2, <1>3 DEF Front, InQueue

(* Appending adds one process, and keeps the queue free of repetitions if  *)
(* that process is new to it; a full queue does not change.                *)
LEMMA EnqueueQueue ==
    ASSUME NEW S, NEW q \in Seq(S), NEW p \in S
    PROVE  /\ Enqueue(q, p) \in Seq(S)
           /\ InQueue(Enqueue(q, p)) \subseteq InQueue(q) \cup {p}
           /\ Distinct(q) /\ p \notin InQueue(q) => Distinct(Enqueue(q, p))
  <1>1. CASE Full(q)
    BY <1>1 DEF Enqueue
  <1>2. CASE ~ Full(q)
    <2> DEFINE a == Append(q, p)
    <2>1. /\ a \in Seq(S)
          /\ DOMAIN a = 1 .. Len(q) + 1
          /\ \A j \in 1 .. Len(q) : a[j] = q[j]
          /\ a[Len(q) + 1] = p
      OBVIOUS
    <2>2. DOMAIN q = 1 .. Len(q) /\ Len(q) \in Nat
      OBVIOUS
    <2>3. Enqueue(q, p) = a
      BY <1>2 DEF Enqueue
    <2> HIDE DEF a
    <2>4. InQueue(a) \subseteq InQueue(q) \cup {p}
      BY <2>1, <2>2 DEF InQueue
    <2>5. ASSUME Distinct(q), p \notin InQueue(q)
          PROVE  Distinct(a)
      <3> SUFFICES ASSUME NEW j \in DOMAIN a, NEW k \in DOMAIN a, a[j] = a[k]
                   PROVE  j = k
        BY DEF Distinct
      <3>1. \A l \in 1 .. Len(q) : q[l] # p
        BY <2>5, <2>2 DEF InQueue
      <3> QED
        BY <3>1, <2>1, <2>2, <2>5 DEF Distinct
    <2> QED
      BY <2>1, <2>3, <2>4, <2>5
  <1> QED
    BY <1>1, <1>2

(* purgequeue removes the process it looks for from a queue that lists it  *)
(* at most once, and nothing else.                                         *)
LEMMA PurgeQueue ==
    ASSUME NEW S, NEW q \in Seq(S), NEW p, Distinct(q)
    PROVE  /\ Purge(q, p) \in Seq(S)
           /\ Distinct(Purge(q, p))
           /\ InQueue(Purge(q, p)) = InQueue(q) \ {p}
  <1>1. CASE p \notin InQueue(q)
    BY <1>1 DEF Purge
  <1>2. CASE p \in InQueue(q)
    <2>1. PICK k \in DOMAIN q : q[k] = p
      BY <1>2 DEF InQueue
    <2>2. FirstAt(q, p, k)
      <3>1. DOMAIN q = 1 .. Len(q) /\ Len(q) \in Nat
        OBVIOUS
      <3>2. \A j \in 1 .. k - 1 : j \in DOMAIN q /\ j # k
        BY <3>1
      <3> QED
        BY <2>1, <3>2 DEF FirstAt, Distinct
    <2> DEFINE i == CHOOSE l \in DOMAIN q : FirstAt(q, p, l)
    <2>3. i \in DOMAIN q /\ FirstAt(q, p, i)
      BY <2>2
    <2>4. q[i] = p
      BY <2>3 DEF FirstAt
    <2>5. Purge(q, p) = Shift(q, i)
      BY <1>2 DEF Purge
    <2> HIDE DEF i
    <2> QED
      BY <2>3, <2>4, <2>5, ShiftQueue, ShiftMembers
  <1> QED
    BY <1>1, <1>2

-----------------------------------------------------------------------------
(* Arithmetic of the cyclic scan. *)

LEMMA LevelType == Level \subseteq Nat /\ 0 \in Level
  BY SchedAssumption DEF Level

(* A number below 2 * MAX_PRIO wraps at most once. *)
LEMMA ModOnce ==
    ASSUME NEW a \in 0 .. 2 * MAX_PRIO - 1
    PROVE  a % MAX_PRIO = IF a < MAX_PRIO THEN a ELSE a - MAX_PRIO
  <1>1. MAX_PRIO \in Nat /\ MAX_PRIO > 0
    BY SchedAssumption
  <1>2. CASE a < MAX_PRIO
    BY <1>1, <1>2
  <1>3. CASE a >= MAX_PRIO
    BY <1>1, <1>3
  <1> QED
    BY <1>2, <1>3, <1>1

(* Every attempt of a scan looks at a level. *)
LEMMA ScanLevel ==
    ASSUME currentPrio \in Level, NEW k \in Attempts
    PROVE  Scan(k) \in Level
  <1>1. currentPrio + k \in 0 .. 2 * MAX_PRIO - 1 /\ MAX_PRIO \in Nat
    BY SchedAssumption DEF Level, Attempts
  <1> QED
    BY <1>1, ModOnce DEF Scan, Level

(* Every level is looked at by one attempt. *)
LEMMA ScanReaches ==
    ASSUME currentPrio \in Level, NEW q \in Level
    PROVE  \E k \in Attempts : Scan(k) = q
  <1> DEFINE k == IF q >= currentPrio THEN q - currentPrio
                  ELSE q - currentPrio + MAX_PRIO
  <1>1. MAX_PRIO \in Nat /\ currentPrio \in 0 .. MAX_PRIO - 1 /\ q \in 0 .. MAX_PRIO - 1
    BY SchedAssumption DEF Level
  <1>2. k \in Attempts
    BY <1>1 DEF Attempts
  <1>3. currentPrio + k \in 0 .. 2 * MAX_PRIO - 1
    BY <1>1
  <1>4. (currentPrio + k) % MAX_PRIO = q
    BY <1>1, <1>3, ModOnce
  <1> QED
    BY <1>2, <1>4 DEF Scan

-----------------------------------------------------------------------------
(***************************************************************************)
(* The scan state.  BudgetOpen is inductive given the types: a charge      *)
(* either leaves the level below its budget or clears it.                  *)
(***************************************************************************)
ScanTypeOK == currentSlot \in [Level -> Nat] /\ currentPrio \in Level

ScanInv == ScanTypeOK /\ BudgetOpen

ScanNext ==
    \/ \E k \in Attempts : Charge(k, Scan(k))
    \/ currentSlot' = [q \in Level |-> 0] /\ currentPrio' = 0
    \/ UNCHANGED <<currentSlot, currentPrio>>

LEMMA BudgetPositive == \A q \in Level : Slot(q) \in Nat /\ Slot(q) > 0
  BY SchedAssumption DEF Level, Slot

(* A charge keeps every level below its budget and the scan on a level. *)
LEMMA ChargeOpen ==
    ASSUME ScanInv, NEW k \in Attempts, NEW q \in Level, Charge(k, q)
    PROVE  ScanInv'
  <1> DEFINE used == UsedAt(k, q) + 1
  <1>1. \A r \in Level : UsedAt(k, r) \in Nat /\ UsedAt(k, r) < Slot(r)
    BY BudgetPositive DEF ScanInv, ScanTypeOK, BudgetOpen, UsedAt
  <1>2. currentSlot' = [r \in Level |->
           IF r # q THEN UsedAt(k, r) ELSE IF used >= Slot(q) THEN 0 ELSE used]
    BY DEF Charge
  <1>3. used \in Nat
    BY <1>1
  <1> HIDE DEF used
  <1>4. currentSlot' \in [Level -> Nat]
    BY <1>1, <1>2, <1>3
  <1>5. \A r \in Level : currentSlot'[r] < Slot(r)
    BY <1>1, <1>2, <1>3, BudgetPositive
  <1>6. currentPrio' \in Level
    <2>1. q + 1 \in 0 .. 2 * MAX_PRIO - 1 /\ MAX_PRIO \in Nat
      BY SchedAssumption DEF Level
    <2>2. (q + 1) % MAX_PRIO \in Level
      BY <2>1, ModOnce DEF Level
    <2> QED
      BY <2>2, LevelType DEF Charge, ScanInv, ScanTypeOK
  <1> QED
    BY <1>4, <1>5, <1>6 DEF ScanInv, ScanTypeOK, BudgetOpen, Slot

LEMMA ScanInit == SchedInit => ScanInv
  BY LevelType, BudgetPositive DEF SchedInit, ScanInv, ScanTypeOK, BudgetOpen

(* What the scheduler's steps do to the scan state. *)
LEMMA ScanStep == [SchedNext]_schedVars /\ ScanTypeOK => ScanNext
  <1> SUFFICES ASSUME [SchedNext]_schedVars, ScanTypeOK
               PROVE  ScanNext
    OBVIOUS
  <1>1. CASE \E c \in Cpu : Dispatch(c)
    BY <1>1 DEF Dispatch, ScanNext
  <1>2. CASE \E c \in Cpu : GetNone(c)
    BY <1>2 DEF GetNone, ScanNext
  <1>3. CASE \E c \in Cpu : PutProc(c) \/ FinishProc(c)
    BY <1>3 DEF PutProc, FinishProc, ScanNext
  <1>4. CASE \E p \in Proc, pr \in Prios : AddProc(p, pr)
    BY <1>4 DEF AddProc, ScanNext
  <1>5. CASE UNCHANGED schedVars
    BY <1>5 DEF schedVars, ScanNext
  <1> QED
    BY <1>1, <1>2, <1>3, <1>4, <1>5 DEF SchedNext, GetProc

LEMMA ScanInductive == ScanInv /\ [SchedNext]_schedVars => ScanInv'
  <1> SUFFICES ASSUME ScanInv, [SchedNext]_schedVars
               PROVE  ScanInv'
    OBVIOUS
  <1>0. ScanNext
    BY ScanStep DEF ScanInv
  <1>1. ASSUME NEW k \in Attempts, Charge(k, Scan(k))
        PROVE  ScanInv'
    BY <1>1, ScanLevel, ChargeOpen DEF ScanInv, ScanTypeOK
  <1>2. CASE currentSlot' = [q \in Level |-> 0] /\ currentPrio' = 0
    BY <1>2, LevelType, BudgetPositive DEF ScanInv, ScanTypeOK, BudgetOpen, Slot
  <1>3. CASE UNCHANGED <<currentSlot, currentPrio>>
    BY <1>3 DEF ScanInv, ScanTypeOK, BudgetOpen, Slot
  <1> QED
    BY <1>0, <1>1, <1>2, <1>3 DEF ScanNext

(* For any number of levels, a level that used its budget is never left    *)
(* spent.                                                                  *)
THEOREM BudgetAlwaysOpen == SchedSpec => []BudgetOpen
  <1>1. SchedInit => ScanInv
    BY ScanInit
  <1>2. ScanInv /\ [SchedNext]_schedVars => ScanInv'
    BY ScanInductive
  <1>3. ScanInv => BudgetOpen
    BY DEF ScanInv
  <1> QED
    BY <1>1, <1>2, <1>3, PTL DEF SchedSpec

(* get_proc answers NULL only if no process waits: from any level the scan *)
(* reaches the waiting one, and no budget it meets is used up.             *)
THEOREM AlwaysWorkConserving == SchedSpec => []WorkConserving
  <1>1. SchedInit => ScanInv
    BY ScanInit
  <1>2. ScanInv /\ [SchedNext]_schedVars => ScanInv'
    BY ScanInductive
  <1>3. ScanInv => WorkConserving
    <2> SUFFICES ASSUME ScanInv, NEW q \in Level, ready[q] # <<>>
                 PROVE  \E k \in Attempts : Eligible(k)
      BY DEF WorkConserving
    <2>1. PICK k \in Attempts : Scan(k) = q
      BY ScanReaches DEF ScanInv, ScanTypeOK
    <2>2. UsedAt(k, q) < Slot(q)
      BY BudgetPositive DEF ScanInv, BudgetOpen, UsedAt
    <2> QED
      BY <2>1, <2>2 DEF Eligible
  <1> QED
    BY <1>1, <1>2, <1>3, PTL DEF SchedSpec

(* So an empty answer means that every queue is empty. *)
LEMMA EmptyGet ==
    ASSUME ScanInv, NEW c \in Cpu, GetNone(c)
    PROVE  \A q \in Level : ready[q] = <<>>
  <1> SUFFICES ASSUME NEW q \in Level, ready[q] # <<>>
               PROVE  FALSE
    OBVIOUS
  <1>1. PICK k \in Attempts : Scan(k) = q
    BY ScanReaches DEF ScanInv, ScanTypeOK
  <1>2. UsedAt(k, q) < Slot(q)
    BY BudgetPositive DEF ScanInv, BudgetOpen, UsedAt
  <1> QED
    BY <1>1, <1>2 DEF Eligible, GetNone

-----------------------------------------------------------------------------
(***************************************************************************)
(* Where a process is.  OnePlace is inductive given the types; it holds    *)
(* whatever level the scan chooses, so Charge plays no part in it.         *)
(***************************************************************************)
PlaceTypeOK ==
    /\ ready \in [Level -> Seq(Proc)]
    /\ runningList \in Seq(Proc)
    /\ prio \in [Proc -> Nat]
    /\ pcb \in [Proc -> {"unloaded", "loaded", "freed"}]
    /\ proc \in [Cpu -> Proc \cup {NoProc}]

PlaceInv == PlaceTypeOK /\ OnePlace

(* A queued process is at the level of its priority and at no other one.   *)
LEMMA QueuedAtPrio ==
    ASSUME QueuesSound, NEW q \in Level, NEW p \in InQueue(ready[q])
    PROVE  pcb[p] = "loaded" /\ prio[p] = q
  BY DEF QueuesSound

(* A process put at the tail of the queue of its own level, when it is in  *)
(* no queue, leaves the queues sound.                                      *)
LEMMA EnqueueReadySound ==
    ASSUME PlaceTypeOK, QueuesSound, NEW p \in Proc, NEW pr \in Nat,
           EnqueueReady(p, pr), ~ Queued(p)
    PROVE  /\ ready' \in [Level -> Seq(Proc)]
           /\ \A q \in Level : Distinct(ready'[q])
           /\ \A q \in Level : \A x \in InQueue(ready'[q]) :
                 x \in InQueue(ready[q]) \/ (x = p /\ q = pr)
  <1>1. CASE pr < MAX_PRIO
    <2>1. pr \in Level
      BY <1>1, SchedAssumption DEF Level
    <2>2. ready' = [ready EXCEPT ![pr] = Enqueue(ready[pr], p)]
      BY <1>1 DEF EnqueueReady
    <2>3. ready[pr] \in Seq(Proc) /\ Distinct(ready[pr]) /\ p \notin InQueue(ready[pr])
      BY <2>1 DEF PlaceTypeOK, QueuesSound, Queued
    <2>4. /\ Enqueue(ready[pr], p) \in Seq(Proc)
          /\ Distinct(Enqueue(ready[pr], p))
          /\ InQueue(Enqueue(ready[pr], p)) \subseteq InQueue(ready[pr]) \cup {p}
      BY <2>3, EnqueueQueue
    <2>5. ready' \in [Level -> Seq(Proc)]
      BY <2>2, <2>4 DEF PlaceTypeOK
    <2>6. ready'[pr] = Enqueue(ready[pr], p)
          /\ \A q \in Level \ {pr} : ready'[q] = ready[q]
      BY <2>1, <2>2 DEF PlaceTypeOK
    <2>7. ASSUME NEW q \in Level
          PROVE  /\ Distinct(ready'[q])
                 /\ \A x \in InQueue(ready'[q]) :
                       x \in InQueue(ready[q]) \/ (x = p /\ q = pr)
      BY <2>4, <2>6 DEF QueuesSound
    <2> QED
      BY <2>5, <2>7
  <1>2. CASE ~ (pr < MAX_PRIO)
    BY <1>2 DEF EnqueueReady, PlaceTypeOK, QueuesSound
  <1> QED
    BY <1>1, <1>2

(* A dispatch moves the front p of the first eligible queue to the CPU     *)
(* thread; p was queued there, and neither held nor in the running list.   *)
LEMMA DispatchMoves ==
    ASSUME PlaceInv, currentPrio \in Level, NEW c \in Cpu, Dispatch(c)
    PROVE  \E k \in Attempts : \E p \in Proc :
              /\ Scan(k) \in Level /\ FirstEligible(k) /\ Charge(k, Scan(k))
              /\ p \in InQueue(ready[Scan(k)])
              /\ pcb[p] = "loaded" /\ prio[p] = Scan(k)
              /\ p \notin InQueue(runningList) /\ \A d \in Cpu : proc[d] # p
              /\ ready' \in [Level -> Seq(Proc)]
              /\ ready'[Scan(k)] = Dequeue(ready[Scan(k)])
              /\ \A r \in Level \ {Scan(k)} : ready'[r] = ready[r]
              /\ \A r \in Level : /\ Distinct(ready'[r])
                                  /\ InQueue(ready'[r]) = InQueue(ready[r]) \ {p}
              /\ runningList' = Enqueue(runningList, p)
              /\ proc[c] = NoProc /\ proc' = [proc EXCEPT ![c] = p] /\ proc'[c] = p
              /\ \A d \in Cpu \ {c} : proc'[d] = proc[d]
              /\ prio' = prio /\ pcb' = pcb
  <1>1. PICK k \in Attempts :
           /\ FirstEligible(k)
           /\ proc' = [proc EXCEPT ![c] = Front(ready[Scan(k)])]
           /\ ready' = [ready EXCEPT ![Scan(k)] = Dequeue(@)]
           /\ runningList' = Enqueue(runningList, Front(ready[Scan(k)]))
           /\ Charge(k, Scan(k))
    BY DEF Dispatch
  <1> DEFINE q == Scan(k)
             p == Front(ready[q])
  <1>2. q \in Level /\ ready[q] # <<>> /\ ready[q] \in Seq(Proc)
    BY <1>1, ScanLevel DEF FirstEligible, Eligible, PlaceInv, PlaceTypeOK
  <1>3. /\ p \in Proc /\ p \in InQueue(ready[q])
        /\ Dequeue(ready[q]) \in Seq(Proc)
        /\ Distinct(Dequeue(ready[q]))
        /\ InQueue(Dequeue(ready[q])) = InQueue(ready[q]) \ {p}
    BY <1>2, DequeueQueue DEF PlaceInv, OnePlace, QueuesSound
  <1>4. pcb[p] = "loaded" /\ prio[p] = q /\ Queued(p)
    BY <1>2, <1>3, QueuedAtPrio DEF PlaceInv, OnePlace, Queued
  <1>5. /\ proc' = [proc EXCEPT ![c] = p]
        /\ ready' = [ready EXCEPT ![q] = Dequeue(ready[q])]
        /\ runningList' = Enqueue(runningList, p)
        /\ FirstEligible(k) /\ Charge(k, q)
        /\ prio' = prio /\ pcb' = pcb /\ proc[c] = NoProc
    BY <1>1 DEF Dispatch
  <1> HIDE DEF q, p
  <1>6. \A d \in Cpu : proc[d] # p
    BY <1>3, <1>4, SchedAssumption DEF PlaceInv, OnePlace, HoldersSound
  <1>7. p \notin InQueue(runningList)
    BY <1>6 DEF PlaceInv, OnePlace, RunningListSound, Held
  <1>8. ready' \in [Level -> Seq(Proc)]
    BY <1>2, <1>3, <1>5 DEF PlaceInv, PlaceTypeOK
  <1>9. /\ ready'[q] = Dequeue(ready[q])
        /\ \A r \in Level \ {q} : ready'[r] = ready[r]
        /\ proc'[c] = p
        /\ \A d \in Cpu \ {c} : proc'[d] = proc[d]
    BY <1>2, <1>5 DEF PlaceInv, PlaceTypeOK
  <1>10. \A r \in Level : InQueue(ready'[r]) = InQueue(ready[r]) \ {p}
    BY <1>3, <1>4, <1>9, QueuedAtPrio DEF PlaceInv, OnePlace
  <1>11. \A r \in Level : Distinct(ready'[r])
    BY <1>3, <1>9 DEF PlaceInv, OnePlace, QueuesSound
  <1> QED
    BY <1>2, <1>3, <1>4, <1>5, <1>6, <1>7, <1>8, <1>9, <1>10, <1>11 DEF q

LEMMA DispatchPlace ==
    ASSUME PlaceInv, currentPrio \in Level, NEW c \in Cpu, Dispatch(c)
    PROVE  PlaceInv'
  <1>1. PICK k \in Attempts, p \in Proc :
           /\ Scan(k) \in Level
           /\ p \in InQueue(ready[Scan(k)])
           /\ pcb[p] = "loaded" /\ prio[p] = Scan(k)
           /\ p \notin InQueue(runningList) /\ \A d \in Cpu : proc[d] # p
           /\ ready' \in [Level -> Seq(Proc)]
           /\ \A r \in Level : /\ Distinct(ready'[r])
                               /\ InQueue(ready'[r]) = InQueue(ready[r]) \ {p}
           /\ runningList' = Enqueue(runningList, p)
           /\ proc[c] = NoProc /\ proc' = [proc EXCEPT ![c] = p] /\ proc'[c] = p
           /\ \A d \in Cpu \ {c} : proc'[d] = proc[d]
           /\ prio' = prio /\ pcb' = pcb
    BY DispatchMoves
  <1>2. PlaceTypeOK'
    BY <1>1, EnqueueQueue DEF PlaceInv, PlaceTypeOK
  <1>3. QueuesSound'
    <2> SUFFICES ASSUME NEW r \in Level
                 PROVE  /\ Distinct(ready'[r])
                        /\ \A x \in InQueue(ready'[r]) : pcb'[x] = "loaded" /\ prio'[x] = r
      BY DEF QueuesSound, Level, InQueue, Distinct
    <2> QED
      BY <1>1 DEF PlaceInv, OnePlace, QueuesSound
  <1>4. HoldersSound'
    <2> SUFFICES ASSUME NEW d \in Cpu, proc'[d] # NoProc
                 PROVE  /\ pcb'[proc'[d]] = "loaded"
                        /\ prio'[proc'[d]] \in Level
                        /\ \A r \in Level : proc'[d] \notin InQueue(ready'[r])
                        /\ \A e \in Cpu : proc'[e] = proc'[d] => e = d
      BY DEF HoldersSound, Queued, Level, InQueue
    <2>1. CASE d = c
      BY <2>1, <1>1
    <2>2. CASE d # c
      BY <2>2, <1>1 DEF PlaceInv, OnePlace, HoldersSound, Queued
    <2> QED
      BY <2>1, <2>2
  <1>5. RunningListSound'
    <2>1. /\ Distinct(runningList')
          /\ InQueue(runningList') \subseteq InQueue(runningList) \cup {p}
      BY <1>1, EnqueueQueue
         DEF PlaceInv, PlaceTypeOK, OnePlace, RunningListSound
    <2>2. \A x \in InQueue(runningList') : \E d \in Cpu : proc'[d] = x
      <3> SUFFICES ASSUME NEW x \in InQueue(runningList)
                   PROVE  \E d \in Cpu : proc'[d] = x
        BY <2>1, <1>1
      <3>1. PICK d \in Cpu : proc[d] = x
        BY DEF PlaceInv, OnePlace, RunningListSound, Held
      <3>2. d # c
        BY <3>1, <1>1, SchedAssumption DEF PlaceInv, PlaceTypeOK, InQueue
      <3> QED
        BY <3>1, <3>2, <1>1
    <2> QED
      BY <2>1, <2>2 DEF RunningListSound, Held, Distinct, InQueue
  <1> QED
    BY <1>2, <1>3, <1>4, <1>5 DEF PlaceInv, OnePlace

(* A CPU that gives up its process keeps the holders and the running list  *)
(* sound: what put_proc and finish_proc have in common.                    *)
LEMMA ReleasePlace ==
    ASSUME PlaceInv, NEW c \in Cpu, proc[c] # NoProc,
           runningList' = Purge(runningList, proc[c]),
           proc' = [proc EXCEPT ![c] = NoProc],
           prio' = prio,
           \A x \in Proc \ {proc[c]} : pcb'[x] = pcb[x],
           \A r \in Level : \A x \in InQueue(ready'[r]) :
              x \in InQueue(ready[r]) \/ x = proc[c]
    PROVE  /\ runningList' \in Seq(Proc)
           /\ proc' \in [Cpu -> Proc \cup {NoProc}]
           /\ HoldersSound'
           /\ RunningListSound'
  <1>1. /\ proc[c] \in Proc
        /\ proc'[c] = NoProc
        /\ \A d \in Cpu \ {c} : proc'[d] = proc[d]
        /\ proc' \in [Cpu -> Proc \cup {NoProc}]
    BY DEF PlaceInv, PlaceTypeOK
  <1>2. /\ runningList' \in Seq(Proc)
        /\ Distinct(runningList')
        /\ InQueue(runningList') = InQueue(runningList) \ {proc[c]}
    BY PurgeQueue DEF PlaceInv, PlaceTypeOK, OnePlace, RunningListSound
  <1>3. HoldersSound'
    <2> SUFFICES ASSUME NEW d \in Cpu, proc'[d] # NoProc
                 PROVE  /\ pcb'[proc'[d]] = "loaded"
                        /\ prio'[proc'[d]] \in Level
                        /\ \A r \in Level : proc'[d] \notin InQueue(ready'[r])
                        /\ \A e \in Cpu : proc'[e] = proc'[d] => e = d
      BY DEF HoldersSound, Queued, Level, InQueue
    <2>1. /\ d # c /\ proc'[d] = proc[d] /\ proc[d] \in Proc /\ proc[d] # proc[c]
      BY <1>1 DEF PlaceInv, PlaceTypeOK, OnePlace, HoldersSound
    <2>2. /\ pcb[proc[d]] = "loaded"
          /\ prio[proc[d]] \in Level
          /\ \A r \in Level : proc[d] \notin InQueue(ready[r])
          /\ \A e \in Cpu : proc[e] = proc[d] => e = d
      BY <2>1 DEF PlaceInv, OnePlace, HoldersSound, Queued
    <2> QED
      BY <2>1, <2>2, <1>1
  <1>4. RunningListSound'
    <2>1. \A x \in InQueue(runningList') : \E d \in Cpu : proc'[d] = x
      BY <1>1, <1>2 DEF PlaceInv, OnePlace, RunningListSound, Held
    <2> QED
      BY <2>1, <1>2 DEF RunningListSound, Held, Distinct, InQueue
  <1> QED
    BY <1>1, <1>2, <1>3, <1>4

LEMMA PutPlace ==
    ASSUME PlaceInv, NEW c \in Cpu, PutProc(c)
    PROVE  PlaceInv'
  <1> DEFINE p == proc[c]
  <1>1. /\ p \in Proc /\ p # NoProc
        /\ runningList' = Purge(runningList, p)
        /\ EnqueueReady(p, prio[p])
        /\ proc' = [proc EXCEPT ![c] = NoProc]
        /\ prio' = prio /\ pcb' = pcb
    BY DEF PutProc, PlaceInv, PlaceTypeOK
  <1>2. /\ pcb[p] = "loaded" /\ prio[p] \in Level /\ ~ Queued(p)
        /\ prio[p] \in Nat
    BY <1>1 DEF PlaceInv, OnePlace, HoldersSound, PlaceTypeOK
  <1>3. /\ ready' \in [Level -> Seq(Proc)]
        /\ \A q \in Level : Distinct(ready'[q])
        /\ \A q \in Level : \A x \in InQueue(ready'[q]) :
              x \in InQueue(ready[q]) \/ (x = p /\ q = prio[p])
    BY <1>1, <1>2, EnqueueReadySound DEF PlaceInv, OnePlace
  <1>4. /\ runningList' \in Seq(Proc)
        /\ proc' \in [Cpu -> Proc \cup {NoProc}]
        /\ HoldersSound'
        /\ RunningListSound'
    BY <1>1, <1>3, ReleasePlace
  <1>5. PlaceTypeOK'
    BY <1>1, <1>3, <1>4 DEF PlaceInv, PlaceTypeOK
  <1>6. QueuesSound'
    <2>1. \A q \in Level : \A x \in InQueue(ready'[q]) : pcb'[x] = "loaded" /\ prio'[x] = q
      BY <1>1, <1>2, <1>3 DEF PlaceInv, OnePlace, QueuesSound
    <2> QED
      BY <2>1, <1>3 DEF QueuesSound, Level, InQueue, Distinct
  <1> QED
    BY <1>4, <1>5, <1>6 DEF PlaceInv, OnePlace

LEMMA FinishPlace ==
    ASSUME PlaceInv, NEW c \in Cpu, FinishProc(c)
    PROVE  PlaceInv'
  <1> DEFINE p == proc[c]
  <1>1. /\ p \in Proc /\ p # NoProc
        /\ runningList' = Purge(runningList, p)
        /\ pcb' = [pcb EXCEPT ![p] = "freed"]
        /\ proc' = [proc EXCEPT ![c] = NoProc]
        /\ prio' = prio /\ ready' = ready
    BY DEF FinishProc, PlaceInv, PlaceTypeOK
  <1>2. \A r \in Level : p \notin InQueue(ready[r])
    BY <1>1 DEF PlaceInv, OnePlace, HoldersSound, Queued
  <1>3. \A x : x # p => pcb'[x] = pcb[x]
    BY <1>1
  <1>4. /\ runningList' \in Seq(Proc)
        /\ proc' \in [Cpu -> Proc \cup {NoProc}]
        /\ HoldersSound'
        /\ RunningListSound'
    BY <1>1, <1>3, ReleasePlace
  <1>5. PlaceTypeOK'
    BY <1>1, <1>4 DEF PlaceInv, PlaceTypeOK
  <1>6. QueuesSound'
    BY <1>1, <1>2, <1>3 DEF PlaceInv, OnePlace, QueuesSound, Level, InQueue, Distinct
  <1> QED
    BY <1>4, <1>5, <1>6 DEF PlaceInv, OnePlace

LEMMA AddPlace ==
    ASSUME PlaceInv, NEW p \in Proc, NEW pr \in Prios, AddProc(p, pr)
    PROVE  PlaceInv'
  <1>1. /\ pcb[p] = "unloaded"
        /\ pcb' = [pcb EXCEPT ![p] = "loaded"]
        /\ prio' = [prio EXCEPT ![p] = pr]
        /\ EnqueueReady(p, pr)
        /\ runningList' = runningList /\ proc' = proc
        /\ pr \in Nat
    BY SchedAssumption DEF AddProc
  <1>2. ~ Queued(p)
    BY <1>1 DEF PlaceInv, OnePlace, QueuesSound, Queued
  <1>3. /\ ready' \in [Level -> Seq(Proc)]
        /\ \A q \in Level : Distinct(ready'[q])
        /\ \A q \in Level : \A x \in InQueue(ready'[q]) :
              x \in InQueue(ready[q]) \/ (x = p /\ q = pr)
    BY <1>1, <1>2, EnqueueReadySound DEF PlaceInv, OnePlace
  <1>4. PlaceTypeOK'
    BY <1>1, <1>3 DEF PlaceInv, PlaceTypeOK
  <1>5. /\ pcb'[p] = "loaded" /\ prio'[p] = pr
        /\ \A x : x # p => pcb'[x] = pcb[x] /\ prio'[x] = prio[x]
    BY <1>1 DEF PlaceInv, PlaceTypeOK
  <1>6. QueuesSound'
    <2>1. ASSUME NEW q \in Level, NEW x \in InQueue(ready'[q])
          PROVE  pcb'[x] = "loaded" /\ prio'[x] = q
      <3>1. CASE x = p /\ q = pr
        BY <1>5, <3>1
      <3>2. CASE x \in InQueue(ready[q])
        <4>1. x # p
          BY <1>2, <3>2 DEF Queued
        <4>2. pcb[x] = "loaded" /\ prio[x] = q
          BY <3>2 DEF PlaceInv, OnePlace, QueuesSound
        <4>3. QED
          BY <1>5, <4>1, <4>2
      <3>3. QED
        BY <1>3, <3>1, <3>2
    <2> QED
      BY <2>1, <1>3 DEF QueuesSound, Level, InQueue, Distinct
  <1>7. HoldersSound'
    <2> SUFFICES ASSUME NEW d \in Cpu, proc[d] # NoProc
                 PROVE  /\ pcb'[proc[d]] = "loaded"
                        /\ prio'[proc[d]] \in Level
                        /\ \A r \in Level : proc[d] \notin InQueue(ready'[r])
                        /\ \A e \in Cpu : proc[e] = proc[d] => e = d
      BY <1>1 DEF HoldersSound, Queued, Level, InQueue
    <2>1. proc[d] # p
      BY <1>1 DEF PlaceInv, OnePlace, HoldersSound
    <2> QED
      BY <2>1, <1>3, <1>5 DEF PlaceInv, OnePlace, HoldersSound, Queued
  <1>8. RunningListSound'
    BY <1>1 DEF PlaceInv, OnePlace, RunningListSound, Held, Distinct, InQueue
  <1> QED
    BY <1>4, <1>6, <1>7, <1>8 DEF PlaceInv, OnePlace

LEMMA PlaceInit == SchedInit => PlaceInv
  <1> SUFFICES ASSUME SchedInit PROVE PlaceInv
    OBVIOUS
  <1>1. PlaceTypeOK
    BY DEF SchedInit, PlaceTypeOK
  <1>2. QueuesSound /\ RunningListSound
    BY DEF SchedInit, QueuesSound, RunningListSound, Distinct, InQueue
  <1>3. HoldersSound
    BY DEF SchedInit, HoldersSound
  <1> QED
    BY <1>1, <1>2, <1>3 DEF PlaceInv, OnePlace

LEMMA PlaceInductive ==
    PlaceInv /\ ScanInv /\ [SchedNext]_schedVars => PlaceInv'
  <1> SUFFICES ASSUME PlaceInv, ScanInv, [SchedNext]_schedVars
               PROVE  PlaceInv'
    OBVIOUS
  <1>1. ASSUME NEW c \in Cpu, Dispatch(c)
        PROVE  PlaceInv'
    BY <1>1, DispatchPlace DEF ScanInv, ScanTypeOK
  <1>2. ASSUME NEW c \in Cpu, PutProc(c)
        PROVE  PlaceInv'
    BY <1>2, PutPlace
  <1>3. ASSUME NEW c \in Cpu, FinishProc(c)
        PROVE  PlaceInv'
    BY <1>3, FinishPlace
  <1>4. ASSUME NEW p \in Proc, NEW pr \in Prios, AddProc(p, pr)
        PROVE  PlaceInv'
    BY <1>4, AddPlace
  <1>5. ASSUME UNCHANGED <<ready, runningList, prio, pcb, proc>>
        PROVE  PlaceInv'
    BY <1>5 DEF PlaceInv, PlaceTypeOK, OnePlace, QueuesSound, HoldersSound,
                RunningListSound, Queued, Held, Level, InQueue, Distinct
  <1>6. ASSUME NEW c \in Cpu, GetNone(c)
        PROVE  PlaceInv'
    BY <1>5, <1>6 DEF GetNone
  <1>7. CASE UNCHANGED schedVars
    BY <1>5, <1>7 DEF schedVars
  <1> QED
    BY <1>1, <1>2, <1>3, <1>4, <1>6, <1>7 DEF SchedNext, GetProc

SchedInv == ScanInv /\ PlaceInv

LEMMA SchedInvariant == SchedSpec => []SchedInv
  <1>1. SchedInit => SchedInv
    BY ScanInit, PlaceInit DEF SchedInv
  <1>2. SchedInv /\ [SchedNext]_schedVars => SchedInv'
    BY ScanInductive, PlaceInductive DEF SchedInv
  <1> QED
    BY <1>1, <1>2, PTL DEF SchedSpec

(* The scheduler's state always has its type: in particular the next scan  *)
(* starts at a level that exists.                                          *)
THEOREM AlwaysTypeOK == SchedSpec => []SchedTypeOK
  <1>1. SchedInv => SchedTypeOK
    BY DEF SchedInv, ScanInv, ScanTypeOK, PlaceInv, PlaceTypeOK, SchedTypeOK
  <1> QED
    BY <1>1, SchedInvariant, PTL

(* However many CPU threads dispatch, put back and finish processes, no    *)
(* process is ever queued twice, held by two of them, queued while held or *)
(* queued after its PCB is freed.                                          *)
THEOREM AlwaysOnePlace == SchedSpec => []OnePlace
  <1>1. SchedInv => OnePlace
    BY DEF SchedInv, PlaceInv
  <1> QED
    BY <1>1, SchedInvariant, PTL

-----------------------------------------------------------------------------
(***************************************************************************)
(* Lookups by pid.  A full queue drops a process, so a process can be lost *)
(* unless a queue holds all of them: the hypothesis EnoughRoom, which      *)
(* add_proc does not test.                                                 *)
(***************************************************************************)
EnoughRoom == IsFiniteSet(Proc) /\ Cardinality(Proc) <= MAX_QUEUE_SIZE

(* A queue without repetitions that misses a process is not full. *)
LEMMA RoomLeft ==
    ASSUME EnoughRoom, NEW s \in Seq(Proc), Distinct(s),
           NEW p \in Proc, p \notin InQueue(s)
    PROVE  ~ Full(s)
  <1> DEFINE D == 1 .. Len(s)
             R == Proc \ {p}
  <1>1. /\ IsFiniteSet(R)
        /\ Cardinality(R) = Cardinality(Proc) - 1
    BY FS_RemoveElement DEF EnoughRoom
  <1>2. Len(s) \in Nat /\ DOMAIN s = D /\ Cardinality(Proc) \in Nat
    BY FS_CardinalityType DEF EnoughRoom
  <1>3. Cardinality(D) = Len(s)
    <2> DEFINE n == Len(s)
    <2>1. n \in Int /\ n >= 0
      BY <1>2
    <2> HIDE DEF n
    <2>2. Cardinality(1 .. n) = IF 1 > n THEN 0 ELSE n - 1 + 1
      BY <2>1, FS_Interval
    <2>3. Cardinality(1 .. n) = n
      BY <2>1, <2>2
    <2> QED
      BY <2>3 DEF n
  <1>4. s \in [D -> Proc]
    OBVIOUS
  <1>5. \A i \in D : s[i] \in R
    BY <1>2, <1>4 DEF InQueue
  <1>6. s \in [D -> R]
    BY <1>4, <1>5
  <1>7. s \in Injection(D, R)
    BY <1>2, <1>6 DEF Injection, IsInjective, Distinct
  <1>8. Cardinality(D) <= Cardinality(R)
    BY <1>1, <1>7, FS_Injection
  <1> HIDE DEF D, R
  <1> QED
    BY <1>1, <1>2, <1>3, <1>8, QueueAssumption DEF EnoughRoom, Full

(* So it takes the process that is appended to it. *)
LEMMA EnqueueKeeps ==
    ASSUME EnoughRoom, NEW s \in Seq(Proc), Distinct(s),
           NEW p \in Proc, p \notin InQueue(s)
    PROVE  InQueue(Enqueue(s, p)) = InQueue(s) \cup {p}
  <1> DEFINE a == Append(s, p)
  <1>1. Enqueue(s, p) = a
    BY RoomLeft DEF Enqueue
  <1>2. /\ DOMAIN a = 1 .. Len(s) + 1
        /\ \A j \in 1 .. Len(s) : a[j] = s[j]
        /\ a[Len(s) + 1] = p
    OBVIOUS
  <1>3. DOMAIN s = 1 .. Len(s) /\ Len(s) \in Nat
    OBVIOUS
  <1>4. InQueue(s) \subseteq InQueue(a)
    BY <1>2, <1>3 DEF InQueue
  <1>5. p \in InQueue(a)
    BY <1>2, <1>3 DEF InQueue
  <1>6. InQueue(a) \subseteq InQueue(s) \cup {p}
    BY <1>1, EnqueueQueue
  <1> QED
    BY <1>1, <1>4, <1>5, <1>6

(* A held process is in the running list, and a loaded process of a usable *)
(* priority is held or queued: nothing is lost.                            *)
LookupInv ==
    /\ \A c \in Cpu : proc[c] # NoProc => proc[c] \in InQueue(runningList)
    /\ \A p \in Proc : pcb[p] = "loaded" /\ prio[p] \in Level => Held(p) \/ Queued(p)

(* The level of a process that is appended to its queue now lists it. *)
LEMMA EnqueueReadyKeeps ==
    ASSUME EnoughRoom, PlaceTypeOK, QueuesSound, NEW p \in Proc, NEW pr \in Nat,
           EnqueueReady(p, pr), ~ Queued(p)
    PROVE  /\ \A q \in Level : InQueue(ready[q]) \subseteq InQueue(ready'[q])
           /\ pr \in Level => p \in InQueue(ready'[pr])
  <1>1. CASE pr \in Level
    <2>1. pr < MAX_PRIO
      BY <1>1, SchedAssumption DEF Level
    <2>2. ready' = [ready EXCEPT ![pr] = Enqueue(ready[pr], p)]
      BY <2>1 DEF EnqueueReady
    <2>3. /\ ready'[pr] = Enqueue(ready[pr], p)
          /\ \A q \in Level \ {pr} : ready'[q] = ready[q]
      BY <1>1, <2>2 DEF PlaceTypeOK
    <2>4. ready[pr] \in Seq(Proc) /\ Distinct(ready[pr]) /\ p \notin InQueue(ready[pr])
      BY <1>1 DEF PlaceTypeOK, QueuesSound, Queued
    <2>5. InQueue(Enqueue(ready[pr], p)) = InQueue(ready[pr]) \cup {p}
      BY <2>4, EnqueueKeeps
    <2>6. ASSUME NEW q \in Level PROVE InQueue(ready[q]) \subseteq InQueue(ready'[q])
      BY <2>3, <2>5
    <2> QED
      BY <2>3, <2>5, <2>6
  <1>2. CASE pr \notin Level
    <2>1. ~ (pr < MAX_PRIO)
      BY <1>2, SchedAssumption DEF Level
    <2> QED
      BY <1>2, <2>1 DEF EnqueueReady
  <1> QED
    BY <1>1, <1>2

LEMMA DispatchLookup ==
    ASSUME EnoughRoom, PlaceInv, LookupInv, currentPrio \in Level,
           NEW c \in Cpu, Dispatch(c)
    PROVE  LookupInv'
  <1>1. PICK k \in Attempts, p \in Proc :
           /\ p \notin InQueue(runningList)
           /\ \A r \in Level : /\ Distinct(ready'[r])
                               /\ InQueue(ready'[r]) = InQueue(ready[r]) \ {p}
           /\ runningList' = Enqueue(runningList, p)
           /\ proc[c] = NoProc /\ proc'[c] = p
           /\ \A d \in Cpu \ {c} : proc'[d] = proc[d]
           /\ prio' = prio /\ pcb' = pcb
    BY DispatchMoves
  <1>2. InQueue(runningList') = InQueue(runningList) \cup {p}
    BY <1>1, EnqueueKeeps DEF PlaceInv, PlaceTypeOK, OnePlace, RunningListSound
  <1>3. \A d \in Cpu : proc'[d] # NoProc => proc'[d] \in InQueue(runningList')
    BY <1>1, <1>2 DEF LookupInv
  <1>4. ASSUME NEW x \in Proc, pcb'[x] = "loaded", prio'[x] \in Level, x # p
        PROVE  (\E d \in Cpu : proc'[d] = x) \/ \E r \in Level : x \in InQueue(ready'[r])
    <2>1. Held(x) \/ Queued(x)
      BY <1>1, <1>4 DEF LookupInv
    <2>2. CASE Held(x)
      BY <2>2, <1>1, SchedAssumption DEF Held
    <2>3. CASE Queued(x)
      BY <2>3, <1>1, <1>4 DEF Queued
    <2> QED
      BY <2>1, <2>2, <2>3
  <1>5. \E d \in Cpu : proc'[d] = p
    BY <1>1
  <1> QED
    BY <1>3, <1>4, <1>5 DEF LookupInv, Held, Queued, Level, InQueue

(* What put_proc and finish_proc leave of the others. *)
LEMMA ReleaseLookup ==
    ASSUME PlaceInv, LookupInv, NEW c \in Cpu, proc[c] # NoProc,
           runningList' = Purge(runningList, proc[c]),
           proc' = [proc EXCEPT ![c] = NoProc],
           prio' = prio,
           \A x \in Proc \ {proc[c]} : pcb'[x] = pcb[x],
           \A r \in Level : InQueue(ready[r]) \subseteq InQueue(ready'[r]),
           pcb'[proc[c]] = "loaded" => \E r \in Level : proc[c] \in InQueue(ready'[r])
    PROVE  LookupInv'
  <1>1. /\ proc[c] \in Proc
        /\ proc'[c] = NoProc
        /\ \A d \in Cpu \ {c} : proc'[d] = proc[d]
    BY DEF PlaceInv, PlaceTypeOK
  <1>2. InQueue(runningList') = InQueue(runningList) \ {proc[c]}
    BY PurgeQueue DEF PlaceInv, PlaceTypeOK, OnePlace, RunningListSound
  <1>3. ASSUME NEW d \in Cpu, proc'[d] # NoProc
        PROVE  proc'[d] \in InQueue(runningList')
    <2>1. d # c /\ proc'[d] = proc[d] /\ proc[d] # proc[c]
      BY <1>1, <1>3 DEF PlaceInv, OnePlace, HoldersSound
    <2> QED
      BY <2>1, <1>2, <1>3 DEF LookupInv
  <1>4. ASSUME NEW x \in Proc, pcb'[x] = "loaded", prio'[x] \in Level
        PROVE  (\E d \in Cpu : proc'[d] = x) \/ \E r \in Level : x \in InQueue(ready'[r])
    <2>1. CASE x = proc[c]
      BY <2>1, <1>4
    <2>2. CASE x # proc[c]
      <3>1. Held(x) \/ Queued(x)
        BY <1>4, <2>2 DEF LookupInv
      <3>2. CASE Held(x)
        BY <3>2, <2>2, <1>1 DEF Held
      <3>3. CASE Queued(x)
        BY <3>3 DEF Queued
      <3> QED
        BY <3>1, <3>2, <3>3
    <2> QED
      BY <2>1, <2>2
  <1> QED
    BY <1>3, <1>4 DEF LookupInv, Held, Queued, Level, InQueue

LEMMA PutLookup ==
    ASSUME EnoughRoom, PlaceInv, LookupInv, NEW c \in Cpu, PutProc(c)
    PROVE  LookupInv'
  <1> DEFINE p == proc[c]
  <1>1. /\ p \in Proc /\ p # NoProc
        /\ runningList' = Purge(runningList, p)
        /\ EnqueueReady(p, prio[p])
        /\ proc' = [proc EXCEPT ![c] = NoProc]
        /\ prio' = prio /\ pcb' = pcb
    BY DEF PutProc, PlaceInv, PlaceTypeOK
  <1>2. prio[p] \in Level /\ prio[p] \in Nat /\ ~ Queued(p)
    BY <1>1 DEF PlaceInv, OnePlace, HoldersSound, PlaceTypeOK
  <1>3. /\ \A q \in Level : InQueue(ready[q]) \subseteq InQueue(ready'[q])
        /\ p \in InQueue(ready'[prio[p]])
    BY <1>1, <1>2, EnqueueReadyKeeps DEF PlaceInv, OnePlace
  <1> QED
    BY <1>1, <1>2, <1>3, ReleaseLookup

LEMMA FinishLookup ==
    ASSUME PlaceInv, LookupInv, NEW c \in Cpu, FinishProc(c)
    PROVE  LookupInv'
  <1> DEFINE p == proc[c]
  <1>1. /\ p \in Proc /\ p # NoProc
        /\ runningList' = Purge(runningList, p)
        /\ pcb' = [pcb EXCEPT ![p] = "freed"]
        /\ proc' = [proc EXCEPT ![c] = NoProc]
        /\ prio' = prio /\ ready' = ready
    BY DEF FinishProc, PlaceInv, PlaceTypeOK
  <1>2. pcb'[p] # "loaded" /\ \A x : x # p => pcb'[x] = pcb[x]
    BY <1>1 DEF PlaceInv, PlaceTypeOK
  <1> QED
    BY <1>1, <1>2, ReleaseLookup

LEMMA AddLookup ==
    ASSUME EnoughRoom, PlaceInv, LookupInv, NEW p \in Proc, NEW pr \in Prios,
           AddProc(p, pr)
    PROVE  LookupInv'
  <1>1. /\ pcb[p] = "unloaded"
        /\ pcb' = [pcb EXCEPT ![p] = "loaded"]
        /\ prio' = [prio EXCEPT ![p] = pr]
        /\ EnqueueReady(p, pr)
        /\ runningList' = runningList /\ proc' = proc
        /\ pr \in Nat
    BY SchedAssumption DEF AddProc
  <1>2. ~ Queued(p)
    BY <1>1 DEF PlaceInv, OnePlace, QueuesSound, Queued
  <1>3. /\ \A q \in Level : InQueue(ready[q]) \subseteq InQueue(ready'[q])
        /\ pr \in Level => p \in InQueue(ready'[pr])
    BY <1>1, <1>2, EnqueueReadyKeeps DEF PlaceInv, OnePlace
  <1>4. /\ prio'[p] = pr
        /\ \A x : x # p => pcb'[x] = pcb[x] /\ prio'[x] = prio[x]
    BY <1>1 DEF PlaceInv, PlaceTypeOK
  <1>5. ASSUME NEW x \in Proc, pcb'[x] = "loaded", prio'[x] \in Level
        PROVE  (\E d \in Cpu : proc[d] = x) \/ \E r \in Level : x \in InQueue(ready'[r])
    <2>1. CASE x = p
      BY <2>1, <1>3, <1>4, <1>5
    <2>2. CASE x # p
      <3>1. Held(x) \/ Queued(x)
        BY <1>4, <1>5, <2>2 DEF LookupInv
      <3> QED
        BY <3>1, <1>3 DEF Held, Queued
    <2> QED
      BY <2>1, <2>2
  <1> QED
    BY <1>1, <1>5 DEF LookupInv, Held, Queued, Level, InQueue

LEMMA LookupInductive ==
    ASSUME EnoughRoom
    PROVE  SchedInv /\ LookupInv /\ [SchedNext]_schedVars => LookupInv'
  <1> SUFFICES ASSUME SchedInv, LookupInv, [SchedNext]_schedVars
               PROVE  LookupInv'
    OBVIOUS
  <1>0. PlaceInv /\ currentPrio \in Level
    BY DEF SchedInv, ScanInv, ScanTypeOK
  <1>1. ASSUME NEW c \in Cpu, Dispatch(c)
        PROVE  LookupInv'
    BY <1>0, <1>1, DispatchLookup
  <1>2. ASSUME NEW c \in Cpu, PutProc(c)
        PROVE  LookupInv'
    BY <1>0, <1>2, PutLookup
  <1>3. ASSUME NEW c \in Cpu, FinishProc(c)
        PROVE  LookupInv'
    BY <1>0, <1>3, FinishLookup
  <1>4. ASSUME NEW p \in Proc, NEW pr \in Prios, AddProc(p, pr)
        PROVE  LookupInv'
    BY <1>0, <1>4, AddLookup
  <1>5. ASSUME UNCHANGED <<ready, runningList, prio, pcb, proc>>
        PROVE  LookupInv'
    BY <1>5 DEF LookupInv, Queued, Held, Level, InQueue
  <1>6. ASSUME NEW c \in Cpu, GetNone(c)
        PROVE  LookupInv'
    BY <1>5, <1>6 DEF GetNone
  <1>7. CASE UNCHANGED schedVars
    BY <1>5, <1>7 DEF schedVars
  <1> QED
    BY <1>1, <1>2, <1>3, <1>4, <1>6, <1>7 DEF SchedNext, GetProc

(* If a queue has room for every process, a lookup by pid finds exactly    *)
(* the processes that are loaded with a usable priority, whatever the CPU  *)
(* threads are doing: none is lost between two queues, and none is found   *)
(* after its PCB is freed.                                                 *)
THEOREM AlwaysLookupExact ==
    ASSUME EnoughRoom
    PROVE  SchedSpec => []LookupExact
  <1>1. SchedInit => LookupInv
    BY SchedAssumption DEF SchedInit, LookupInv
  <1>2. SchedInv /\ LookupInv /\ [SchedNext]_schedVars => LookupInv'
    BY LookupInductive
  <1>3. SchedInv /\ LookupInv => LookupExact
    <2> SUFFICES ASSUME SchedInv, LookupInv, NEW p \in Proc
                 PROVE  (FindProcessByPid(p) = p)
                           <=> (pcb[p] = "loaded" /\ prio[p] \in Level)
      BY DEF LookupExact
    <2>1. FindProcessByPid(p) = p <=> p \in InQueue(runningList) \/ Queued(p)
      BY SchedAssumption DEF FindProcessByPid
    <2>2. p \in InQueue(runningList) => Held(p)
      BY DEF SchedInv, PlaceInv, OnePlace, RunningListSound
    <2>3. Held(p) => /\ p \in InQueue(runningList)
                     /\ pcb[p] = "loaded" /\ prio[p] \in Level
      BY SchedAssumption DEF SchedInv, PlaceInv, OnePlace, HoldersSound, Held, LookupInv
    <2>4. Queued(p) => pcb[p] = "loaded" /\ prio[p] \in Level
      BY DEF SchedInv, PlaceInv, OnePlace, QueuesSound, Queued
    <2> QED
      BY <2>1, <2>2, <2>3, <2>4 DEF LookupInv
  <1> QED
    BY <1>1, <1>2, <1>3, SchedInvariant, PTL DEF SchedSpec

-----------------------------------------------------------------------------
(***************************************************************************)
(* The scheduler implements the process pool: every step is a step of the  *)
(* pool or leaves the status of every process as it was.                   *)
(***************************************************************************)
StatusOf(p) == PoolStatus[p]

LEMMA StatusCases ==
    ASSUME PlaceInv, NEW p \in Proc
    PROVE  /\ pcb[p] = "unloaded" => StatusOf(p) = "new"
           /\ pcb[p] = "freed" => StatusOf(p) = "finished"
           /\ pcb[p] = "loaded" /\ prio[p] \notin Level => StatusOf(p) = "rejected"
           /\ pcb[p] = "loaded" /\ prio[p] \in Level /\ Held(p) => StatusOf(p) = "running"
           /\ pcb[p] = "loaded" /\ prio[p] \in Level /\ ~ Held(p) => StatusOf(p) = "ready"
  <1>1. CASE pcb[p] = "unloaded"
    BY <1>1 DEF StatusOf, PoolStatus
  <1>2. CASE pcb[p] = "freed"
    BY <1>2 DEF StatusOf, PoolStatus
  <1>3. CASE pcb[p] = "loaded" /\ prio[p] \notin Level
    BY <1>3 DEF StatusOf, PoolStatus
  <1>4. CASE pcb[p] = "loaded" /\ prio[p] \in Level
    BY <1>4 DEF StatusOf, PoolStatus
  <1> QED
    BY <1>1, <1>2, <1>3, <1>4 DEF PlaceInv, PlaceTypeOK

(* While CPU c holds none, fewer processes run than there are CPUs. *)
LEMMA RunningBelowCpus ==
    ASSUME IsFiniteSet(Cpu), PlaceInv, NEW c \in Cpu, proc[c] = NoProc
    PROVE  Cardinality(Pool!Running) < Cardinality(Cpu)
  <1> DEFINE D == {d \in Cpu : proc[d] # NoProc}
             H == {p \in Proc : Held(p)}
             f == [d \in D |-> proc[d]]
  <1>1. /\ IsFiniteSet(Cpu \ {c})
        /\ Cardinality(Cpu \ {c}) = Cardinality(Cpu) - 1
        /\ Cardinality(Cpu) \in Nat
    BY FS_RemoveElement, FS_CardinalityType
  <1>2. D \in SUBSET (Cpu \ {c})
    OBVIOUS
  <1>3. IsFiniteSet(D) /\ Cardinality(D) <= Cardinality(Cpu \ {c})
    BY <1>1, <1>2, FS_Subset
  <1>4. f \in Surjection(D, H)
    <2>1. f \in [D -> H]
      BY DEF PlaceInv, PlaceTypeOK, Held
    <2>2. \A p \in H : \E d \in D : f[d] = p
      BY SchedAssumption DEF Held
    <2> QED
      BY <2>1, <2>2 DEF Surjection
  <1>5. IsFiniteSet(H) /\ Cardinality(H) <= Cardinality(D)
    BY <1>3, <1>4, FS_Surjection
  <1>6. Pool!Running \in SUBSET H
    <2> SUFFICES ASSUME NEW p \in Proc, StatusOf(p) = "running"
                 PROVE  Held(p)
      BY DEF Pool!Running, StatusOf
    <2> QED
      BY StatusCases DEF PlaceInv, PlaceTypeOK
  <1>7. /\ IsFiniteSet(Pool!Running)
        /\ Cardinality(Pool!Running) <= Cardinality(H)
    BY <1>5, <1>6, FS_Subset
  <1>8. /\ Cardinality(D) \in Nat /\ Cardinality(H) \in Nat
        /\ Cardinality(Pool!Running) \in Nat
    BY <1>3, <1>5, <1>7, FS_CardinalityType
  <1> HIDE DEF D, H
  <1> QED
    BY <1>1, <1>3, <1>5, <1>7, <1>8

(* A step that changes the status of p alone. *)
LEMMA StatusOfOne ==
    ASSUME NEW p \in Proc, NEW s,
           \A x \in Proc \ {p} : StatusOf(x)' = StatusOf(x), StatusOf(p)' = s
    PROVE  PoolStatus' = [PoolStatus EXCEPT ![p] = s]
  <1> DEFINE new == PoolStatus'
             old == PoolStatus
  <1>1. new = [x \in Proc |-> new[x]] /\ old = [x \in Proc |-> old[x]]
    BY DEF PoolStatus
  <1>2. \A x \in Proc : new[x] = IF x = p THEN s ELSE old[x]
    BY DEF StatusOf
  <1> HIDE DEF new, old
  <1>3. new = [old EXCEPT ![p] = s]
    BY <1>1, <1>2
  <1> QED
    BY <1>3 DEF new, old

(* The pool counts with the same operator. *)
LEMMA PoolCardinality ==
    ASSUME NEW S
    PROVE  Pool!Cardinality(S) = Cardinality(S)
  BY DEF Pool!Cardinality, Cardinality

LEMMA DispatchPool ==
    ASSUME IsFiniteSet(Cpu), PlaceInv, PlaceInv', currentPrio \in Level,
           NEW c \in Cpu, Dispatch(c)
    PROVE  Pool!Next
  <1>1. PICK k \in Attempts, p \in Proc :
           /\ Scan(k) \in Level
           /\ pcb[p] = "loaded" /\ prio[p] = Scan(k)
           /\ p \notin InQueue(runningList) /\ \A d \in Cpu : proc[d] # p
           /\ \A r \in Level : /\ Distinct(ready'[r])
                               /\ InQueue(ready'[r]) = InQueue(ready[r]) \ {p}
           /\ runningList' = Enqueue(runningList, p)
           /\ proc[c] = NoProc /\ proc'[c] = p
           /\ \A d \in Cpu \ {c} : proc'[d] = proc[d]
           /\ prio' = prio /\ pcb' = pcb
    BY DispatchMoves
  <1>2. Held(p)' /\ ~ Held(p)
    BY <1>1 DEF Held
  <1>3. \A x \in Proc \ {p} : Held(x)' <=> Held(x)
    BY <1>1, SchedAssumption DEF Held
  <1>4. StatusOf(p) = "ready"
    BY <1>1, <1>2, StatusCases
  <1>5. StatusOf(p)' = "running"
    BY <1>1, <1>2 DEF StatusOf, PoolStatus, Level
  <1>6. \A x \in Proc \ {p} : StatusOf(x)' = StatusOf(x)
    BY <1>1, <1>3 DEF StatusOf, PoolStatus, Level
  <1>7. PoolStatus' = [PoolStatus EXCEPT ![p] = "running"]
    BY <1>5, <1>6, StatusOfOne
  <1>8. Pool!Cardinality(Pool!Running) < Pool!Cardinality(Cpu)
    BY <1>1, RunningBelowCpus, PoolCardinality
  <1>9. Pool!Run(p)
    BY <1>4, <1>7, <1>8 DEF Pool!Run, StatusOf
  <1> QED
    BY <1>9 DEF Pool!Next

(* put_proc and finish_proc: the process of c is no longer held, the       *)
(* others are held as before.                                              *)
LEMMA ReleaseHeld ==
    ASSUME PlaceInv, NEW c \in Cpu, NEW p \in Proc, proc[c] = p,
           proc' = [proc EXCEPT ![c] = NoProc]
    PROVE  /\ Held(p) /\ ~ Held(p)'
           /\ \A x \in Proc \ {p} : Held(x)' <=> Held(x)
           /\ pcb[p] = "loaded" /\ prio[p] \in Level
           /\ StatusOf(p) = "running"
  <1>1. /\ proc'[c] = NoProc /\ p # NoProc
        /\ \A d \in Cpu \ {c} : proc'[d] = proc[d]
        /\ \A d \in Cpu \ {c} : proc[d] # p
    BY SchedAssumption DEF PlaceInv, PlaceTypeOK, OnePlace, HoldersSound
  <1>2. Held(p)
    BY DEF Held
  <1>3. \A d \in Cpu : proc'[d] # p
    BY <1>1
  <1>4. \A x \in Proc \ {p} :
           (\E d \in Cpu : proc'[d] = x) <=> (\E d \in Cpu : proc[d] = x)
    BY <1>1, SchedAssumption
  <1>5. pcb[p] = "loaded" /\ prio[p] \in Level
    BY <1>1 DEF PlaceInv, OnePlace, HoldersSound
  <1>6. StatusOf(p) = "running"
    BY <1>2, <1>5, StatusCases
  <1> QED
    BY <1>2, <1>3, <1>4, <1>5, <1>6 DEF Held

LEMMA PutPool ==
    ASSUME PlaceInv, NEW c \in Cpu, PutProc(c)
    PROVE  Pool!Next
  <1>1. PICK p \in Proc : proc[c] = p
    BY DEF PutProc, PlaceInv, PlaceTypeOK
  <1>2. /\ proc' = [proc EXCEPT ![c] = NoProc]
        /\ prio' = prio /\ pcb' = pcb
    BY DEF PutProc
  <1>3. /\ ~ Held(p)' /\ StatusOf(p) = "running"
        /\ pcb[p] = "loaded" /\ prio[p] \in Level
        /\ \A x \in Proc \ {p} : Held(x)' <=> Held(x)
    BY <1>1, <1>2, ReleaseHeld
  <1>4. StatusOf(p)' = "ready"
    BY <1>2, <1>3 DEF StatusOf, PoolStatus, Level
  <1>5. \A x \in Proc \ {p} : StatusOf(x)' = StatusOf(x)
    BY <1>2, <1>3 DEF StatusOf, PoolStatus, Level
  <1>6. PoolStatus' = [PoolStatus EXCEPT ![p] = "ready"]
    BY <1>4, <1>5, StatusOfOne
  <1>7. Pool!Preempt(p)
    BY <1>3, <1>6 DEF Pool!Preempt, StatusOf
  <1> QED
    BY <1>7 DEF Pool!Next

LEMMA FinishPool ==
    ASSUME PlaceInv, NEW c \in Cpu, FinishProc(c)
    PROVE  Pool!Next
  <1>1. PICK p \in Proc : proc[c] = p
    BY DEF FinishProc, PlaceInv, PlaceTypeOK
  <1>2. /\ proc' = [proc EXCEPT ![c] = NoProc] /\ prio' = prio
        /\ pcb'[p] = "freed" /\ \A x \in Proc \ {p} : pcb'[x] = pcb[x]
    BY <1>1 DEF FinishProc, PlaceInv, PlaceTypeOK
  <1>3. /\ StatusOf(p) = "running"
        /\ \A x \in Proc \ {p} : Held(x)' <=> Held(x)
    BY <1>1, <1>2, ReleaseHeld
  <1>4. StatusOf(p)' = "finished"
    BY <1>2 DEF StatusOf, PoolStatus
  <1>5. \A x \in Proc \ {p} : StatusOf(x)' = StatusOf(x)
    BY <1>2, <1>3 DEF StatusOf, PoolStatus, Level
  <1>6. PoolStatus' = [PoolStatus EXCEPT ![p] = "finished"]
    BY <1>4, <1>5, StatusOfOne
  <1>7. Pool!Finish(p)
    BY <1>3, <1>6 DEF Pool!Finish, StatusOf
  <1> QED
    BY <1>7 DEF Pool!Next

LEMMA AddPool ==
    ASSUME PlaceInv, NEW p \in Proc, NEW pr \in Prios, AddProc(p, pr)
    PROVE  Pool!Next
  <1>1. /\ pcb[p] = "unloaded" /\ proc' = proc
        /\ pcb'[p] = "loaded" /\ prio'[p] = pr
        /\ \A x \in Proc \ {p} : pcb'[x] = pcb[x] /\ prio'[x] = prio[x]
    BY SchedAssumption DEF AddProc, PlaceInv, PlaceTypeOK
  <1>2. ~ Held(p)
    BY <1>1, SchedAssumption DEF PlaceInv, OnePlace, HoldersSound, Held
  <1>3. StatusOf(p) = "new"
    BY <1>1, StatusCases
  <1>4. \A x \in Proc : Held(x)' <=> Held(x)
    BY <1>1 DEF Held
  <1>5. \A x \in Proc \ {p} : StatusOf(x)' = StatusOf(x)
    BY <1>1, <1>4 DEF StatusOf, PoolStatus, Level
  <1>6. CASE pr \in Level
    <2>1. StatusOf(p)' = "ready"
      BY <1>1, <1>2, <1>4, <1>6 DEF StatusOf, PoolStatus, Level
    <2>2. PoolStatus' = [PoolStatus EXCEPT ![p] = "ready"]
      BY <2>1, <1>5, StatusOfOne
    <2> QED
      BY <1>3, <2>2 DEF Pool!Next, Pool!Admit, StatusOf
  <1>7. CASE pr \notin Level
    <2>1. StatusOf(p)' = "rejected"
      BY <1>1, <1>7 DEF StatusOf, PoolStatus, Level
    <2>2. PoolStatus' = [PoolStatus EXCEPT ![p] = "rejected"]
      BY <2>1, <1>5, StatusOfOne
    <2> QED
      BY <1>3, <2>2 DEF Pool!Next, Pool!Reject, StatusOf
  <1> QED
    BY <1>6, <1>7

LEMMA PoolStep ==
    ASSUME IsFiniteSet(Cpu)
    PROVE  SchedInv /\ [SchedNext]_schedVars => [Pool!Next]_PoolStatus
  <1> SUFFICES ASSUME SchedInv, [SchedNext]_schedVars
               PROVE  [Pool!Next]_PoolStatus
    OBVIOUS
  <1>0. PlaceInv /\ ScanInv /\ PlaceInv' /\ currentPrio \in Level
    BY PlaceInductive DEF SchedInv, ScanInv, ScanTypeOK
  <1>1. ASSUME NEW c \in Cpu, Dispatch(c)
        PROVE  Pool!Next
    BY <1>0, <1>1, DispatchPool
  <1>2. ASSUME NEW c \in Cpu, PutProc(c)
        PROVE  Pool!Next
    BY <1>0, <1>2, PutPool
  <1>3. ASSUME NEW c \in Cpu, FinishProc(c)
        PROVE  Pool!Next
    BY <1>0, <1>3, FinishPool
  <1>4. ASSUME NEW p \in Proc, NEW pr \in Prios, AddProc(p, pr)
        PROVE  Pool!Next
    BY <1>0, <1>4, AddPool
  <1>5. ASSUME UNCHANGED <<prio, pcb, proc>>
        PROVE  UNCHANGED PoolStatus
    BY <1>5 DEF PoolStatus, Level, Held
  <1>6. ASSUME NEW c \in Cpu, GetNone(c)
        PROVE  UNCHANGED PoolStatus
    BY <1>5, <1>6 DEF GetNone
  <1>7. CASE UNCHANGED schedVars
    BY <1>5, <1>7 DEF schedVars
  <1> QED
    BY <1>1, <1>2, <1>3, <1>4, <1>6, <1>7 DEF SchedNext, GetProc

PoolSafety == Pool!Init /\ [][Pool!Next]_PoolStatus

(* PoolSpec without its fairness: whatever the queues and the budgets do,  *)
(* a process is admitted once, is run only when ready and while a CPU is   *)
(* free, and is given back or finished only when running; a rejected or    *)
(* finished process never runs again.                                      *)
THEOREM ImplementsPool ==
    ASSUME IsFiniteSet(Cpu)
    PROVE  SchedSpec => PoolSafety
  <1>1. SchedInit => Pool!Init
    BY DEF SchedInit, Pool!Init, PoolStatus
  <1>2. SchedInv /\ [SchedNext]_schedVars => [Pool!Next]_PoolStatus
    BY PoolStep
  <1> QED
    BY <1>1, <1>2, SchedInvariant, PTL DEF SchedSpec, PoolSafety
=============================================================================

------------------------ MODULE SchedFairness_proofs ------------------------
(***************************************************************************)
(* How long the scan of get_mlq_proc keeps a level waiting, for any number *)
(* of levels, processes and CPU threads.  Both bounds follow from the      *)
(* order in which the scan meets the levels: what it can still give to the *)
(* levels before the waiting one shrinks with every dispatch.              *)
(***************************************************************************)
EXTENDS SchedFairness, Sched_proofs

-----------------------------------------------------------------------------
(* The watched scheduler is the scheduler. *)

LEMMA FairStep == [FairNext]_fairVars => [SchedNext]_schedVars
  BY DEF FairNext, fairVars, schedVars

LEMMA FairSchedInv == FairSpec => []SchedInv
  <1>1. FairInit => SchedInv
    BY ScanInit, PlaceInit DEF SchedInv, FairInit
  <1>2. SchedInv /\ [FairNext]_fairVars => SchedInv'
    BY FairStep, ScanInductive, PlaceInductive DEF SchedInv
  <1> QED
    BY <1>1, <1>2, PTL DEF FairSpec

-----------------------------------------------------------------------------
(* The order of the scan. *)

(* Attempt k is at or above currentPrio until it wraps, then below it. *)
LEMMA ScanAt ==
    ASSUME currentPrio \in Level, NEW k \in Attempts
    PROVE  /\ Scan(k) \in Level
           /\ Scan(k) = IF Wrapped(k) THEN currentPrio + k - MAX_PRIO ELSE currentPrio + k
           /\ Wrapped(k) <=> Scan(k) < currentPrio
  <1>1. /\ MAX_PRIO \in Nat \ {0}
        /\ currentPrio \in 0 .. MAX_PRIO - 1 /\ k \in 0 .. MAX_PRIO - 1
    BY SchedAssumption DEF Level, Attempts
  <1>2. currentPrio + k \in 0 .. 2 * MAX_PRIO - 1
    BY <1>1
  <1>3. Scan(k) = IF currentPrio + k < MAX_PRIO THEN currentPrio + k
                  ELSE currentPrio + k - MAX_PRIO
    <2> DEFINE a == currentPrio + k
    <2>1. a \in 0 .. 2 * MAX_PRIO - 1
      BY <1>2
    <2>2. Scan(k) = a % MAX_PRIO
      BY DEF Scan
    <2> HIDE DEF a
    <2>3. a % MAX_PRIO = IF a < MAX_PRIO THEN a ELSE a - MAX_PRIO
      BY <2>1, ModOnce
    <2>4. Scan(k) = IF a < MAX_PRIO THEN a ELSE a - MAX_PRIO
      BY <2>2, <2>3
    <2> QED
      BY <1>1, <2>4 DEF a
  <1> QED
    BY <1>1, <1>3 DEF Wrapped, Level

(* A level that waits and is not the one dispatched comes after it in the  *)
(* scan.                                                                   *)
LEMMA WaitingComesAfter ==
    ASSUME ScanInv, NEW k \in Attempts, FirstEligible(k),
           NEW q \in Level, ready[q] # <<>>, q # Scan(k)
    PROVE  \/ ~ Wrapped(k) /\ currentPrio <= Scan(k) /\ (q > Scan(k) \/ q < currentPrio)
           \/ Wrapped(k) /\ Scan(k) < q /\ q < currentPrio
  <1>0. /\ currentPrio \in Level /\ Level \subseteq Nat
        /\ MAX_PRIO \in Nat /\ k \in Nat
    BY LevelType, SchedAssumption DEF ScanInv, ScanTypeOK, Attempts
  <1>1. PICK j \in Attempts : Scan(j) = q
    BY <1>0, ScanReaches
  <1>2. UsedAt(j, q) < Slot(q)
    BY BudgetPositive DEF ScanInv, BudgetOpen, UsedAt
  <1>3. Eligible(j)
    BY <1>1, <1>2 DEF Eligible
  <1>4. ~ (j \in 0 .. k - 1) /\ j # k
    BY <1>1, <1>3 DEF FirstEligible
  <1>5. j > k
    BY <1>0, <1>4 DEF Attempts
  <1>6. /\ Scan(k) \in Nat
        /\ Scan(k) = IF Wrapped(k) THEN currentPrio + k - MAX_PRIO ELSE currentPrio + k
        /\ Wrapped(k) <=> Scan(k) < currentPrio
        /\ q = IF Wrapped(j) THEN currentPrio + j - MAX_PRIO ELSE currentPrio + j
        /\ Wrapped(j) <=> q < currentPrio
    BY <1>0, <1>1, ScanAt
  <1>7. j \in Nat /\ q \in Nat /\ currentPrio \in Nat
    BY <1>0 DEF Attempts
  <1>8. Wrapped(k) => Wrapped(j)
    BY <1>0, <1>5, <1>7 DEF Wrapped
  <1> QED
    BY <1>0, <1>5, <1>6, <1>7, <1>8

-----------------------------------------------------------------------------
(* What the history variables see of a step. *)

LEMMA DispatchWatched ==
    ASSUME SchedInv, NEW c \in Cpu, Dispatch(c)
    PROVE  \E k \in Attempts :
              /\ Scan(k) \in Level /\ FirstEligible(k) /\ Charge(k, Scan(k))
              /\ \A r \in Level \ {Scan(k)} : ready'[r] = ready[r]
              /\ Dispatched = {Scan(k)}
  <1>0. PlaceInv /\ currentPrio \in Level
    BY DEF SchedInv, ScanInv, ScanTypeOK
  <1>1. PICK k \in Attempts : \E p \in Proc :
           /\ Scan(k) \in Level /\ FirstEligible(k) /\ Charge(k, Scan(k))
           /\ p \in InQueue(ready[Scan(k)])
           /\ pcb[p] = "loaded" /\ prio[p] = Scan(k)
           /\ \A r \in Level \ {Scan(k)} : ready'[r] = ready[r]
           /\ proc[c] = NoProc /\ proc'[c] = p
           /\ \A d \in Cpu \ {c} : proc'[d] = proc[d]
    BY <1>0, DispatchMoves
  <1>2. PICK p \in Proc :
           /\ Scan(k) \in Level /\ FirstEligible(k) /\ Charge(k, Scan(k))
           /\ prio[p] = Scan(k)
           /\ \A r \in Level \ {Scan(k)} : ready'[r] = ready[r]
           /\ proc[c] = NoProc /\ proc'[c] = p
           /\ \A d \in Cpu \ {c} : proc'[d] = proc[d]
    BY <1>1
  <1>3. p # NoProc
    BY SchedAssumption
  <1>4. {d \in Cpu : proc[d] = NoProc /\ proc'[d] # NoProc} = {c}
    BY <1>2, <1>3
  <1>5. Dispatched = {Scan(k)}
    BY <1>2, <1>4 DEF Dispatched
  <1> QED
    BY <1>2, <1>5

(* Every other step dispatches none; only an empty get_proc touches the    *)
(* scan, and no queue that holds a process is emptied.                     *)
OtherStep ==
    /\ Dispatched = {}
    /\ \A q \in Level : ready[q] # <<>> => ready'[q] # <<>>
    /\ \/ UNCHANGED <<currentSlot, currentPrio>>
       \/ /\ currentSlot' = [q \in Level |-> 0] /\ currentPrio' = 0
          /\ \A q \in Level : ready[q] = <<>>

LEMMA NoneDispatched ==
    ASSUME \A d \in Cpu : proc[d] = NoProc => proc'[d] = NoProc
    PROVE  Dispatched = {}
  BY DEF Dispatched

LEMMA QueuesGrow ==
    ASSUME PlaceTypeOK, NEW p \in Proc, NEW pr \in Nat, EnqueueReady(p, pr)
    PROVE  \A q \in Level : ready[q] # <<>> => ready'[q] # <<>>
  <1>1. CASE pr < MAX_PRIO
    <2>1. pr \in Level
      BY <1>1, SchedAssumption DEF Level
    <2>2. ready'[pr] = Enqueue(ready[pr], p) /\ ready[pr] \in Seq(Proc)
      BY <1>1, <2>1 DEF EnqueueReady, PlaceTypeOK
    <2>3. \A q \in Level \ {pr} : ready'[q] = ready[q]
      BY <1>1, <2>1 DEF EnqueueReady, PlaceTypeOK
    <2>4. ready[pr] # <<>> => Enqueue(ready[pr], p) # <<>>
      BY <2>2 DEF Enqueue
    <2> QED
      BY <2>2, <2>3, <2>4
  <1>2. CASE ~ (pr < MAX_PRIO)
    BY <1>2 DEF EnqueueReady
  <1> QED
    BY <1>1, <1>2

LEMMA OtherWatched ==
    ASSUME SchedInv, SchedNext, ~ \E c \in Cpu : Dispatch(c)
    PROVE  OtherStep
  <1>0. PlaceTypeOK /\ HoldersSound
    BY DEF SchedInv, PlaceInv, OnePlace
  <1>1. ASSUME NEW c \in Cpu, GetNone(c)
        PROVE  OtherStep
    <2>1. \A q \in Level : ready[q] = <<>>
      BY <1>1, EmptyGet DEF SchedInv
    <2>2. Dispatched = {}
      BY <1>1, NoneDispatched DEF GetNone
    <2> QED
      BY <1>1, <2>1, <2>2 DEF OtherStep, GetNone
  <1>2. ASSUME NEW c \in Cpu, PutProc(c)
        PROVE  OtherStep
    <2>1. proc[c] \in Proc /\ prio[proc[c]] \in Nat
      BY <1>2, <1>0 DEF PlaceTypeOK, PutProc
    <2>2. \A q \in Level : ready[q] # <<>> => ready'[q] # <<>>
      BY <1>0, <1>2, <2>1, QueuesGrow DEF PutProc
    <2>3. Dispatched = {}
      BY <1>0, <1>2, NoneDispatched DEF PutProc, PlaceTypeOK
    <2> QED
      BY <1>2, <2>2, <2>3 DEF OtherStep, PutProc
  <1>3. ASSUME NEW c \in Cpu, FinishProc(c)
        PROVE  OtherStep
    <2>1. Dispatched = {}
      BY <1>0, <1>3, NoneDispatched DEF FinishProc, PlaceTypeOK
    <2> QED
      BY <1>3, <2>1 DEF OtherStep, FinishProc
  <1>4. ASSUME NEW p \in Proc, NEW pr \in Prios, AddProc(p, pr)
        PROVE  OtherStep
    <2>1. \A q \in Level : ready[q] # <<>> => ready'[q] # <<>>
      BY <1>0, <1>4, SchedAssumption, QueuesGrow DEF AddProc
    <2>2. Dispatched = {}
      BY <1>4, NoneDispatched DEF AddProc
    <2> QED
      BY <1>4, <2>1, <2>2 DEF OtherStep, AddProc
  <1> QED
    BY <1>1, <1>2, <1>3, <1>4 DEF SchedNext, GetProc

(* Every step of the watched scheduler is one of the two. *)
LEMMA WatchedCases ==
    ASSUME SchedInv, FairNext
    PROVE  \/ OtherStep
           \/ \E k \in Attempts :
                 /\ Scan(k) \in Level /\ FirstEligible(k) /\ Charge(k, Scan(k))
                 /\ \A r \in Level \ {Scan(k)} : ready'[r] = ready[r]
                 /\ Dispatched = {Scan(k)}
  <1>1. CASE \E c \in Cpu : Dispatch(c)
    BY <1>1, DispatchWatched
  <1>2. CASE ~ \E c \in Cpu : Dispatch(c)
    BY <1>2, OtherWatched DEF FairNext
  <1> QED
    BY <1>1, <1>2

-----------------------------------------------------------------------------
(***************************************************************************)
(* How often a level is dispatched in a row.  While q is dispatched before *)
(* others that wait, its streak is within what it used of its budget, and  *)
(* the scan still starts at or before q; once the budget is spent the scan *)
(* starts just after q, and the waiting level comes first.                 *)
(***************************************************************************)
StreakInv ==
    \A q \in Level :
        /\ streak[q] \in Nat
        /\ streak[q] > 0 =>
              /\ OtherWaits(q)
              /\ \/ currentPrio <= q /\ streak[q] <= currentSlot[q]
                 \/ currentPrio = (q + 1) % MAX_PRIO /\ streak[q] <= Slot(q)

LEMMA CappedBelow ==
    ASSUME NEW n \in Nat
    PROVE  Capped(n) \in Nat /\ Capped(n) <= n
  BY SchedAssumption DEF Capped, MaxCount

LEMMA NextLevel ==
    ASSUME NEW q \in Level
    PROVE  (q + 1) % MAX_PRIO = IF q + 1 < MAX_PRIO THEN q + 1 ELSE 0
  <1> DEFINE a == q + 1
  <1>1. a \in 0 .. 2 * MAX_PRIO - 1 /\ a <= MAX_PRIO /\ MAX_PRIO \in Nat
    BY SchedAssumption DEF Level
  <1> HIDE DEF a
  <1>2. a % MAX_PRIO = IF a < MAX_PRIO THEN a ELSE a - MAX_PRIO
    BY <1>1, ModOnce
  <1> QED
    BY <1>1, <1>2 DEF a

(* The streak of the level a dispatch takes its process from. *)
LEMMA StreakGrows ==
    ASSUME SchedInv, StreakInv, NEW k \in Attempts, NEW q \in Level, q = Scan(k),
           FirstEligible(k), Charge(k, q), OtherWaits(q),
           NEW n, n = Capped(streak[q] + 1)
    PROVE  /\ n \in Nat
           /\ \/ currentPrio' <= q /\ n <= currentSlot'[q]
              \/ currentPrio' = (q + 1) % MAX_PRIO /\ n <= Slot(q)
  <1> DEFINE used == UsedAt(k, q) + 1
  <1>0. /\ currentPrio \in Level /\ ScanInv /\ Level \subseteq Nat /\ 0 \in Level
        /\ MAX_PRIO \in Nat /\ streak[q] \in Nat
    BY LevelType, SchedAssumption DEF SchedInv, ScanInv, ScanTypeOK, StreakInv
  <1>1. n \in Nat /\ n <= streak[q] + 1
    BY <1>0, CappedBelow
  <1>2. UsedAt(k, q) \in Nat /\ used <= Slot(q) /\ Slot(q) \in Nat
    BY <1>0, BudgetPositive DEF ScanInv, ScanTypeOK, BudgetOpen, UsedAt
  <1>3. /\ currentSlot'[q] = IF used >= Slot(q) THEN 0 ELSE used
        /\ currentPrio' = IF used >= Slot(q) THEN (q + 1) % MAX_PRIO
                          ELSE IF Wrapped(k) THEN 0 ELSE currentPrio
    BY DEF Charge
  <1>4. Wrapped(k) <=> q < currentPrio
    BY <1>0, ScanAt
  <1>5. ~ Wrapped(k) => UsedAt(k, q) = currentSlot[q]
    BY DEF UsedAt
  <1>6. streak[q] <= UsedAt(k, q)
    <2>1. CASE streak[q] = 0
      BY <2>1, <1>2
    <2>2. CASE streak[q] > 0
      <3>1. PICK r \in Level : r # q /\ ready[r] # <<>>
        BY DEF OtherWaits
      <3>2. \/ ~ Wrapped(k) /\ currentPrio <= q /\ (r > q \/ r < currentPrio)
            \/ Wrapped(k) /\ q < r /\ r < currentPrio
        BY <1>0, <3>1, WaitingComesAfter
      <3>3. currentPrio # (q + 1) % MAX_PRIO
        <4>1. r \in Nat /\ r < MAX_PRIO /\ q \in Nat /\ currentPrio \in Nat
          BY <1>0 DEF Level
        <4> QED
          BY <1>0, <3>2, <4>1, NextLevel
      <3>4. currentPrio <= q /\ streak[q] <= currentSlot[q]
        BY <2>2, <3>3 DEF StreakInv
      <3>5. ~ Wrapped(k)
        BY <1>0, <1>4, <3>4
      <3> QED
        BY <1>5, <3>4, <3>5
    <2> QED
      BY <1>0, <2>1, <2>2
  <1>7. n <= used
    BY <1>0, <1>1, <1>2, <1>6
  <1>8. CASE used >= Slot(q)
    <2>1. currentPrio' = (q + 1) % MAX_PRIO
      BY <1>3, <1>8
    <2>2. n <= Slot(q)
      BY <1>1, <1>2, <1>7
    <2> QED
      BY <1>1, <2>1, <2>2
  <1>9. CASE ~ (used >= Slot(q))
    <2>1. currentPrio' <= q
      BY <1>0, <1>3, <1>4, <1>9
    <2> QED
      BY <1>1, <1>3, <1>7, <1>9, <2>1
  <1> QED
    BY <1>8, <1>9

LEMMA StreakInductive ==
    SchedInv /\ StreakInv /\ [FairNext]_fairVars => StreakInv'
  <1> SUFFICES ASSUME SchedInv, StreakInv, [FairNext]_fairVars
               PROVE  StreakInv'
    OBVIOUS
  <1>1. CASE UNCHANGED fairVars
    BY <1>1 DEF fairVars, schedVars, StreakInv, OtherWaits, Slot, Level
  <1>2. CASE FairNext
    <2>0. streak' = [q \in Level |->
             IF Dispatched = {} THEN streak[q]
             ELSE IF q \in Dispatched /\ OtherWaits(q) THEN Capped(streak[q] + 1)
             ELSE 0]
      BY <1>2 DEF FairNext, Watch
    <2>1. CASE OtherStep
      <3> SUFFICES ASSUME NEW q \in Level
                   PROVE  /\ streak'[q] \in Nat
                          /\ streak'[q] > 0 =>
                                /\ \E r \in Level \ {q} : ready'[r] # <<>>
                                /\ \/ currentPrio' <= q /\ streak'[q] <= currentSlot'[q]
                                   \/ currentPrio' = (q + 1) % MAX_PRIO
                                         /\ streak'[q] <= Slot(q)
        BY DEF StreakInv, OtherWaits, Slot, Level
      <3>1. streak'[q] = streak[q] /\ streak[q] \in Nat
        BY <2>0, <2>1 DEF OtherStep, StreakInv
      <3>2. ASSUME streak[q] > 0
            PROVE  /\ \E r \in Level \ {q} : ready'[r] # <<>>
                   /\ UNCHANGED <<currentSlot, currentPrio>>
        BY <2>1, <3>2 DEF OtherStep, StreakInv, OtherWaits
      <3> QED
        BY <3>1, <3>2 DEF StreakInv
    <2>2. ASSUME NEW k \in Attempts,
                 Scan(k) \in Level, FirstEligible(k), Charge(k, Scan(k)),
                 \A r \in Level \ {Scan(k)} : ready'[r] = ready[r],
                 Dispatched = {Scan(k)}
          PROVE  StreakInv'
      <3> SUFFICES ASSUME NEW q \in Level
                   PROVE  /\ streak'[q] \in Nat
                          /\ streak'[q] > 0 =>
                                /\ \E r \in Level \ {q} : ready'[r] # <<>>
                                /\ \/ currentPrio' <= q /\ streak'[q] <= currentSlot'[q]
                                   \/ currentPrio' = (q + 1) % MAX_PRIO
                                         /\ streak'[q] <= Slot(q)
        BY DEF StreakInv, OtherWaits, Slot, Level
      <3>1. CASE q = Scan(k) /\ OtherWaits(q)
        <4>1. streak'[q] = Capped(streak[q] + 1)
          BY <2>0, <2>2, <3>1
        <4>2. \E r \in Level \ {q} : ready'[r] # <<>>
          BY <2>2, <3>1 DEF OtherWaits
        <4> QED
          BY <2>2, <3>1, <4>1, <4>2, StreakGrows
      <3>2. CASE ~ (q = Scan(k) /\ OtherWaits(q))
        <4>1. streak'[q] = 0
          BY <2>0, <2>2, <3>2
        <4> QED
          BY <4>1
      <3> QED
        BY <3>1, <3>2
    <2> QED
      BY <1>2, <2>1, <2>2, WatchedCases
  <1> QED
    BY <1>1, <1>2

(* For any number of levels, a level is not dispatched more often in a row *)
(* than its budget allows while another level has a process waiting.       *)
THEOREM AlwaysBudgetRespected == FairSpec => []BudgetRespected
  <1>1. FairInit => StreakInv
    BY DEF FairInit, StreakInv
  <1>2. SchedInv /\ StreakInv /\ [FairNext]_fairVars => StreakInv'
    BY StreakInductive
  <1>3. SchedInv /\ StreakInv => BudgetRespected
    <2> SUFFICES ASSUME SchedInv, StreakInv, NEW q \in Level
                 PROVE  streak[q] <= Slot(q)
      BY DEF BudgetRespected
    <2>1. /\ currentSlot[q] \in Nat /\ currentSlot[q] < Slot(q)
          /\ Slot(q) \in Nat /\ Slot(q) > 0 /\ streak[q] \in Nat
      BY BudgetPositive DEF SchedInv, ScanInv, ScanTypeOK, BudgetOpen, StreakInv
    <2> QED
      BY <2>1 DEF StreakInv
  <1> QED
    BY <1>1, <1>2, <1>3, FairSchedInv, PTL DEF FairSpec

-----------------------------------------------------------------------------
(***************************************************************************)
(* How often a waiting level is passed over.  Sums of budgets are prefix   *)
(* sums, doubled so that the closed form of a full round is an integer:    *)
(* Full2(i) is twice the budget of the levels below i, and a function f     *)
(* with Prefix(f, s) is twice what the levels below i have left when s     *)
(* says what they used, up to a constant.                                  *)
(***************************************************************************)
Full2(i) == i * (2 * MAX_PRIO - i + 1)

Edge == 0 .. MAX_PRIO

Prefix(f, s) ==
    /\ f \in [Edge -> Int]
    /\ \A i \in Level : f[i + 1] = f[i] + 2 * (Slot(i) - s[i])
    /\ \A i, j \in Edge : i <= j => /\ f[i] <= f[j]
                                   /\ f[j] - f[i] <= Full2(j) - Full2(i)

(* Twice the dispatches the scan may still make of other levels before it  *)
(* reaches q, when it starts at level u.                                   *)
Ahead(f, u, q) ==
    IF u <= q THEN f[q] - f[u] ELSE f[MAX_PRIO] - f[u] + Full2(q)

BypassInv ==
    /\ \A q \in Level : bypass[q] \in Nat
    /\ \E f \in [Edge -> Int] :
          /\ Prefix(f, currentSlot)
          /\ \A q \in Level :
                2 * bypass[q] + Ahead(f, currentPrio, q) <= Full2(MAX_PRIO) - 2 * Slot(q)

LEMMA EdgeType ==
    /\ Edge \subseteq Nat /\ Level \subseteq Edge /\ 0 \in Edge /\ MAX_PRIO \in Edge
    /\ \A i \in Level : i + 1 \in Edge /\ Slot(i) \in Nat /\ Slot(i) > 0
  BY SchedAssumption DEF Edge, Level, Slot

LEMMA Full2Values ==
    /\ Full2(0) = 0
    /\ Full2(MAX_PRIO) = MAX_PRIO * (MAX_PRIO + 1)
    /\ \A i \in Edge : Full2(i) \in Int
    /\ \A i \in Level : Full2(i + 1) = Full2(i) + 2 * Slot(i)
    /\ \A i, j \in Edge : i <= j => Full2(i) <= Full2(j)
  <1>0. MAX_PRIO \in Nat \ {0}
    BY SchedAssumption
  <1>1. Full2(0) = 0
    BY <1>0 DEF Full2
  <1>2. Full2(MAX_PRIO) = MAX_PRIO * (MAX_PRIO + 1)
    BY <1>0 DEF Full2
  <1>3. \A i \in Edge : Full2(i) \in Int
    BY <1>0 DEF Full2, Edge
  <1>4. ASSUME NEW i \in Level PROVE Full2(i + 1) = Full2(i) + 2 * Slot(i)
    <2>1. i \in Int /\ MAX_PRIO \in Int
      BY <1>0 DEF Level
    <2>2. (i + 1) * (2 * MAX_PRIO - (i + 1) + 1)
             = i * (2 * MAX_PRIO - i + 1) + 2 * (MAX_PRIO - i)
      BY <2>1
    <2> QED
      BY <2>2 DEF Full2, Slot
  <1>5. ASSUME NEW i \in Edge, NEW j \in Edge, i <= j PROVE Full2(i) <= Full2(j)
    <2>1. i \in Int /\ j \in Int /\ MAX_PRIO \in Int /\ i <= MAX_PRIO /\ j <= MAX_PRIO
      BY <1>0 DEF Edge
    <2> DEFINE a == j - i
               b == 2 * MAX_PRIO + 1 - i - j
    <2>2. a \in Nat /\ b \in Nat
      BY <1>5, <2>1
    <2>3. j * (2 * MAX_PRIO - j + 1) - i * (2 * MAX_PRIO - i + 1) = a * b
      BY <2>1
    <2>4. a * b >= 0
      <3> HIDE DEF a, b
      <3> QED
        BY <2>2
    <2>5. Full2(j) - Full2(i) >= 0
      BY <2>3, <2>4 DEF Full2
    <2>6. Full2(i) \in Int /\ Full2(j) \in Int
      BY <1>3
    <2> QED
      BY <2>5, <2>6
  <1> QED
    BY <1>1, <1>2, <1>3, <1>4, <1>5

(* With every budget unused the sums are the full ones. *)
LEMMA PrefixFresh ==
    ASSUME NEW s \in [Level -> Nat], \A i \in Level : s[i] = 0
    PROVE  Prefix([i \in Edge |-> Full2(i)], s)
  <1> DEFINE f == [i \in Edge |-> Full2(i)]
  <1>1. f \in [Edge -> Int] /\ \A i \in Edge : f[i] = Full2(i)
    BY Full2Values
  <1> HIDE DEF f
  <1>2. \A i \in Level : f[i + 1] = f[i] + 2 * (Slot(i) - s[i])
    BY <1>1, EdgeType, Full2Values
  <1>3. \A i, j \in Edge : i <= j => /\ f[i] <= f[j]
                                   /\ f[j] - f[i] <= Full2(j) - Full2(i)
    BY <1>1, Full2Values
  <1> QED
    BY <1>1, <1>2, <1>3 DEF Prefix, f

(* Changing what level r has used shifts the sums above r. *)
Shifted(f, s, r, v) ==
    [i \in Edge |-> IF i <= r THEN f[i] ELSE f[i] + 2 * (s[r] - v)]

LEMMA PrefixShifted ==
    ASSUME NEW f, NEW s \in [Level -> Nat], Prefix(f, s),
           NEW r \in Level, NEW v \in Nat, v < Slot(r)
    PROVE  Prefix(Shifted(f, s, r, v), [s EXCEPT ![r] = v])
  <1> DEFINE g == Shifted(f, s, r, v)
             t == [s EXCEPT ![r] = v]
             d == 2 * (s[r] - v)
  <1>0. /\ f \in [Edge -> Int] /\ r \in Nat /\ s[r] \in Nat /\ d \in Int
        /\ r \in Edge /\ r + 1 \in Edge /\ Slot(r) \in Nat
        /\ f[r] \in Int /\ f[r + 1] \in Int
    BY EdgeType DEF Prefix
  <1>1. /\ g \in [Edge -> Int]
        /\ \A i \in Edge : g[i] = IF i <= r THEN f[i] ELSE f[i] + d
    BY <1>0, EdgeType DEF Shifted
  <1>2. t[r] = v /\ \A i \in Level \ {r} : t[i] = s[i]
    OBVIOUS
  <1>3. f[r + 1] = f[r] + 2 * (Slot(r) - s[r])
    BY DEF Prefix
  <1>4. f[r + 1] + d = f[r] + 2 * (Slot(r) - v)
    BY <1>0, <1>3
  <1> HIDE DEF g, t
  <1>5. ASSUME NEW i \in Level PROVE g[i + 1] = g[i] + 2 * (Slot(i) - t[i])
    <2>1. /\ i \in Edge /\ i + 1 \in Edge /\ i \in Nat /\ Slot(i) \in Nat /\ s[i] \in Nat
          /\ f[i] \in Int /\ f[i + 1] \in Int
      BY <1>0, EdgeType
    <2>2. f[i + 1] = f[i] + 2 * (Slot(i) - s[i])
      BY DEF Prefix
    <2>3. CASE i = r
      <3>1. g[i + 1] = f[r + 1] + d /\ g[i] = f[r]
        BY <1>0, <1>1, <2>1, <2>3
      <3> QED
        BY <1>2, <1>4, <2>3, <3>1
    <2>4. CASE i # r
      <3>1. t[i] = s[i]
        BY <1>2, <2>4
      <3>2. CASE i < r
        <4>1. g[i + 1] = f[i + 1] /\ g[i] = f[i]
          BY <1>0, <1>1, <2>1, <3>2
        <4> QED
          BY <4>1, <2>2, <3>1
      <3>3. CASE i > r
        <4>1. g[i + 1] = f[i + 1] + d /\ g[i] = f[i] + d
          BY <1>0, <1>1, <2>1, <3>3
        <4> HIDE DEF d
        <4> QED
          BY <1>0, <4>1, <2>1, <2>2, <3>1
      <3> QED
        BY <1>0, <2>1, <2>4, <3>2, <3>3
    <2> QED
      BY <2>3, <2>4
  <1>6. ASSUME NEW i \in Edge, NEW j \in Edge, i <= j
        PROVE  g[i] <= g[j] /\ g[j] - g[i] <= Full2(j) - Full2(i)
    <2>0. /\ i \in Nat /\ j \in Nat /\ f[i] \in Int /\ f[j] \in Int
          /\ Full2(i) \in Int /\ Full2(j) \in Int
          /\ Full2(r) \in Int /\ Full2(r + 1) \in Int
      BY <1>0, EdgeType, Full2Values
    <2>1. f[i] <= f[j] /\ f[j] - f[i] <= Full2(j) - Full2(i)
      BY <1>6 DEF Prefix
    <2>2. CASE j <= r
      <3>1. g[i] = f[i] /\ g[j] = f[j]
        BY <1>0, <1>1, <1>6, <2>0, <2>2
      <3> QED
        BY <2>1, <3>1
    <2>3. CASE i > r
      <3>1. g[i] = f[i] + d /\ g[j] = f[j] + d
        BY <1>0, <1>1, <1>6, <2>0, <2>3
      <3> HIDE DEF d
      <3> QED
        BY <1>0, <2>0, <2>1, <3>1
    <2>4. CASE i <= r /\ ~ (j <= r)
      <3>1. g[i] = f[i] /\ g[j] = f[j] + d
        BY <1>1, <2>4
      <3>2. r + 1 <= j
        BY <1>0, <2>0, <2>4
      <3>3. /\ f[i] <= f[r] /\ f[r] - f[i] <= Full2(r) - Full2(i)
            /\ f[r + 1] <= f[j] /\ f[j] - f[r + 1] <= Full2(j) - Full2(r + 1)
        BY <1>0, <2>4, <3>2 DEF Prefix
      <3>4. Full2(r + 1) = Full2(r) + 2 * Slot(r)
        BY Full2Values
      <3>5. f[j] + d - f[i] = (f[j] - f[r + 1]) + 2 * (Slot(r) - v) + (f[r] - f[i])
        <4> HIDE DEF d
        <4> QED
          BY <1>0, <1>4, <2>0
      <3>6. 0 <= 2 * (Slot(r) - v) /\ 2 * (Slot(r) - v) <= 2 * Slot(r)
        BY <1>0
      <3> HIDE DEF d
      <3> QED
        BY <1>0, <2>0, <3>1, <3>3, <3>4, <3>5, <3>6
    <2> QED
      BY <1>0, <2>0, <2>2, <2>3, <2>4
  <1> QED
    BY <1>1, <1>5, <1>6 DEF Prefix, g, t

(* Whatever is left, it is no more than a full round without level q. *)
LEMMA AheadMax ==
    ASSUME NEW f, NEW s, Prefix(f, s), NEW u \in Level, NEW q \in Level
    PROVE  /\ Ahead(f, u, q) \in Int
           /\ 0 <= Ahead(f, u, q)
           /\ Ahead(f, u, q) <= Full2(MAX_PRIO) - 2 * Slot(q)
  <1>0. /\ u \in Nat /\ q \in Nat /\ u \in Edge /\ q \in Edge /\ q + 1 \in Edge
        /\ 0 \in Edge /\ MAX_PRIO \in Edge /\ MAX_PRIO \in Nat
        /\ u <= MAX_PRIO /\ q + 1 <= MAX_PRIO
        /\ Slot(q) \in Nat
    BY EdgeType DEF Level
  <1>1. /\ f[q] \in Int /\ f[u] \in Int /\ f[MAX_PRIO] \in Int
    BY <1>0 DEF Prefix
  <1>2. /\ Full2(q) \in Int /\ Full2(u) \in Int /\ Full2(q + 1) \in Int
        /\ Full2(MAX_PRIO) \in Int /\ Full2(0) = 0
    BY <1>0, Full2Values
  <1>3. /\ Full2(q + 1) = Full2(q) + 2 * Slot(q)
        /\ Full2(q + 1) <= Full2(MAX_PRIO) /\ 0 <= Full2(u) /\ 0 <= Full2(q)
    BY <1>0, Full2Values
  <1>4. CASE u <= q
    <2>1. f[u] <= f[q] /\ f[q] - f[u] <= Full2(q) - Full2(u)
      BY <1>0, <1>4 DEF Prefix
    <2>2. Ahead(f, u, q) = f[q] - f[u]
      BY <1>4 DEF Ahead
    <2> QED
      BY <1>0, <1>1, <1>2, <1>3, <2>1, <2>2
  <1>5. CASE ~ (u <= q)
    <2>1. f[u] <= f[MAX_PRIO] /\ f[MAX_PRIO] - f[u] <= Full2(MAX_PRIO) - Full2(u)
      BY <1>0 DEF Prefix
    <2>2. Ahead(f, u, q) = f[MAX_PRIO] - f[u] + Full2(q)
      BY <1>5 DEF Ahead
    <2>3. q + 1 <= u
      BY <1>0, <1>5
    <2>4. Full2(q + 1) <= Full2(u)
      BY <1>0, <2>3, Full2Values
    <2> QED
      BY <1>0, <1>1, <1>2, <1>3, <2>1, <2>2, <2>4
  <1> QED
    BY <1>4, <1>5

(* A scan that wraps gives up what was left above where it started. *)
LEMMA AheadWrapped ==
    ASSUME NEW f, NEW s, Prefix(f, s), NEW u \in Level, NEW q \in Level, q < u
    PROVE  Ahead([i \in Edge |-> Full2(i)], 0, q) <= Ahead(f, u, q)
  <1>1. /\ u \in Nat /\ q \in Nat /\ u \in Edge /\ q \in Edge
        /\ 0 \in Edge /\ MAX_PRIO \in Edge /\ u <= MAX_PRIO
    BY EdgeType, SchedAssumption DEF Level
  <1>2. f[u] \in Int /\ f[MAX_PRIO] \in Int /\ f[u] <= f[MAX_PRIO]
    BY <1>1 DEF Prefix
  <1>3. Full2(q) \in Int /\ Full2(0) = 0
    BY <1>1, Full2Values
  <1>4. Ahead(f, u, q) = f[MAX_PRIO] - f[u] + Full2(q)
    BY <1>1 DEF Ahead
  <1>5. Ahead([i \in Edge |-> Full2(i)], 0, q) = Full2(q) - Full2(0)
    BY <1>1 DEF Ahead
  <1> QED
    BY <1>2, <1>3, <1>4, <1>5

(* A dispatch of level r, met before the waiting level q, costs one of the *)
(* dispatches that were left before q.                                     *)
LEMMA AheadCharged ==
    ASSUME NEW f, NEW s \in [Level -> Nat], Prefix(f, s),
           NEW u \in Level, NEW q \in Level, NEW r \in Level,
           u <= r, q > r \/ q < u, s[r] < Slot(r),
           NEW v, v = IF s[r] + 1 >= Slot(r) THEN 0 ELSE s[r] + 1,
           NEW w, w = IF s[r] + 1 >= Slot(r) THEN (r + 1) % MAX_PRIO ELSE u
    PROVE  Ahead(Shifted(f, s, r, v), w, q) + 2 <= Ahead(f, u, q)
  <1> DEFINE g == Shifted(f, s, r, v)
  <1>0. /\ u \in Nat /\ q \in Nat /\ r \in Nat /\ u \in Edge /\ q \in Edge
        /\ r \in Edge /\ r + 1 \in Edge /\ 0 \in Edge
        /\ MAX_PRIO \in Edge /\ MAX_PRIO \in Nat
        /\ u < MAX_PRIO /\ q < MAX_PRIO /\ r < MAX_PRIO
        /\ Slot(r) \in Nat /\ s[r] \in Nat
    <2>1. /\ u \in Edge /\ q \in Edge /\ r \in Edge /\ r + 1 \in Edge
          /\ 0 \in Edge /\ MAX_PRIO \in Edge
      BY EdgeType
    <2>2. Slot(r) \in Nat /\ s[r] \in Nat
      BY EdgeType
    <2>3. /\ u \in Nat /\ q \in Nat /\ r \in Nat /\ MAX_PRIO \in Nat
          /\ u < MAX_PRIO /\ q < MAX_PRIO /\ r < MAX_PRIO
      BY SchedAssumption DEF Level
    <2> QED
      BY <2>1, <2>2, <2>3
  <1>1. /\ f[q] \in Int /\ f[u] \in Int /\ f[r] \in Int /\ f[r + 1] \in Int
        /\ f[MAX_PRIO] \in Int /\ f[0] \in Int
    BY <1>0 DEF Prefix
  <1>2. /\ f[r + 1] = f[r] + 2 * (Slot(r) - s[r])
        /\ f[u] <= f[r] /\ f[r + 1] <= f[MAX_PRIO]
    BY <1>0 DEF Prefix
  <1>3. Full2(q) \in Int /\ Full2(0) = 0
    BY <1>0, Full2Values
  <1>4. \A i \in Edge : g[i] = IF i <= r THEN f[i] ELSE f[i] + 2 * (s[r] - v)
    BY DEF Shifted
  <1> HIDE DEF g
  <1>5. CASE ~ (s[r] + 1 >= Slot(r))
    <2>1. v = s[r] + 1 /\ w = u
      BY <1>5
    <2>2. 2 * (s[r] - v) = 0 - 2
      BY <1>0, <2>1
    <2>3. \A i \in Edge : g[i] = IF i <= r THEN f[i] ELSE f[i] + (0 - 2)
      BY <1>4, <2>2
    <2>4. g[u] = f[u] /\ g[MAX_PRIO] = f[MAX_PRIO] + (0 - 2)
      BY <1>0, <2>3
    <2>5. CASE q > r
      <3>1. g[q] = f[q] + (0 - 2) /\ u <= q
        BY <1>0, <2>3, <2>5
      <3> QED
        BY <1>1, <2>1, <2>4, <3>1 DEF Ahead, g
    <2>6. CASE q < u
      <3>1. ~ (u <= q)
        BY <1>0, <2>6
      <3> QED
        BY <1>1, <1>3, <2>1, <2>4, <3>1 DEF Ahead, g
    <2> QED
      BY <2>5, <2>6
  <1>6. CASE s[r] + 1 >= Slot(r)
    <2>1. v = 0 /\ s[r] + 1 = Slot(r)
      BY <1>0, <1>6
    <2>2. f[r + 1] = f[r] + 2
      BY <1>0, <1>1, <1>2, <2>1
    <2>3. w = IF r + 1 < MAX_PRIO THEN r + 1 ELSE 0
      BY <1>6, NextLevel
    <2>4. \A i \in Edge : g[i] = IF i <= r THEN f[i] ELSE f[i] + 2 * s[r]
      BY <1>0, <1>4, <2>1
    <2>5. CASE r + 1 < MAX_PRIO
      <3>1. w = r + 1
        BY <2>3, <2>5
      <3>2. /\ g[r + 1] = f[r + 1] + 2 * s[r]
            /\ g[MAX_PRIO] = f[MAX_PRIO] + 2 * s[r]
        BY <1>0, <2>4
      <3>3. CASE q > r
        <4>1. g[q] = f[q] + 2 * s[r] /\ r + 1 <= q /\ u <= q
          BY <1>0, <2>4, <3>3
        <4>2. Ahead(g, w, q) = g[q] - g[r + 1] /\ Ahead(f, u, q) = f[q] - f[u]
          BY <3>1, <4>1 DEF Ahead
        <4>3. g[q] - g[r + 1] = f[q] - f[r + 1]
          BY <1>0, <1>1, <3>2, <4>1
        <4> QED
          BY <1>1, <1>2, <2>2, <4>2, <4>3 DEF g
      <3>4. CASE q < u
        <4>1. ~ (r + 1 <= q) /\ ~ (u <= q)
          BY <1>0, <3>4
        <4>2. /\ Ahead(g, w, q) = g[MAX_PRIO] - g[r + 1] + Full2(q)
              /\ Ahead(f, u, q) = f[MAX_PRIO] - f[u] + Full2(q)
          BY <3>1, <4>1 DEF Ahead
        <4>3. g[MAX_PRIO] - g[r + 1] = f[MAX_PRIO] - f[r + 1]
          BY <1>0, <1>1, <3>2
        <4> QED
          BY <1>1, <1>2, <1>3, <2>2, <4>2, <4>3 DEF g
      <3> QED
        BY <3>3, <3>4
    <2>6. CASE ~ (r + 1 < MAX_PRIO)
      <3>1. w = 0 /\ r + 1 = MAX_PRIO
        BY <1>0, <2>3, <2>6
      <3>2. q < u /\ q <= r /\ 0 <= q /\ ~ (u <= q) /\ 0 <= r
        BY <1>0, <3>1
      <3>3. g[q] = f[q] /\ g[0] = f[0]
        BY <1>0, <2>4, <3>2
      <3>4. f[q] - f[0] <= Full2(q) - Full2(0)
        BY <1>0, <3>2 DEF Prefix
      <3>5. /\ Ahead(g, w, q) = g[q] - g[0]
            /\ Ahead(f, u, q) = f[MAX_PRIO] - f[u] + Full2(q)
        BY <3>1, <3>2 DEF Ahead
      <3>6. f[MAX_PRIO] = f[r] + 2
        BY <2>2, <3>1
      <3> QED
        BY <1>1, <1>2, <1>3, <3>3, <3>4, <3>5, <3>6 DEF g
    <2> QED
      BY <2>5, <2>6
  <1> QED
    BY <1>5, <1>6

(* A step that dispatches none: nothing is given away, and a round that    *)
(* begins afresh finds no level waiting.                                   *)
LEMMA OtherBypass ==
    ASSUME SchedInv, BypassInv, OtherStep, FairNext
    PROVE  BypassInv'
  <1> DEFINE Fresh == [i \in Edge |-> Full2(i)]
  <1>0. /\ currentPrio \in Level /\ 0 \in Level
        /\ currentSlot \in [Level -> Nat]
        /\ \A q \in Level : Slot(q) \in Nat
    BY LevelType, BudgetPositive DEF SchedInv, ScanInv, ScanTypeOK
  <1>1. bypass' = [q \in Level |->
           IF ready[q] = <<>> \/ q \in {} THEN 0 ELSE Capped(bypass[q] + Cardinality({}))]
    BY DEF FairNext, Watch, OtherStep
  <1>2. ASSUME NEW q \in Level
        PROVE  /\ bypass'[q] \in Nat
               /\ \/ bypass'[q] = 0
                  \/ ready[q] # <<>> /\ bypass'[q] <= bypass[q]
    <2>1. bypass[q] \in Nat
      BY DEF BypassInv
    <2>2. Cardinality({}) = 0
      BY FS_EmptySet
    <2>3. bypass[q] + Cardinality({}) = bypass[q]
      BY <2>1, <2>2
    <2>4. Capped(bypass[q]) \in Nat /\ Capped(bypass[q]) <= bypass[q]
      BY <2>1, CappedBelow
    <2> QED
      BY <1>1, <2>3, <2>4
  <1>3. Full2(MAX_PRIO) \in Int
    BY Full2Values, EdgeType
  <1>4. CASE UNCHANGED <<currentSlot, currentPrio>>
    <2>1. PICK f \in [Edge -> Int] :
             /\ Prefix(f, currentSlot)
             /\ \A q \in Level :
                   2 * bypass[q] + Ahead(f, currentPrio, q)
                      <= Full2(MAX_PRIO) - 2 * Slot(q)
      BY DEF BypassInv
    <2>2. ASSUME NEW q \in Level
          PROVE  2 * bypass'[q] + Ahead(f, currentPrio, q)
                    <= Full2(MAX_PRIO) - 2 * Slot(q)
      <3>1. /\ Ahead(f, currentPrio, q) \in Int
            /\ Ahead(f, currentPrio, q) <= Full2(MAX_PRIO) - 2 * Slot(q)
        BY <1>0, <2>1, AheadMax
      <3>2. 2 * bypass[q] + Ahead(f, currentPrio, q)
               <= Full2(MAX_PRIO) - 2 * Slot(q)
        BY <2>1
      <3>3. bypass[q] \in Nat /\ Slot(q) \in Nat
        BY <1>0 DEF BypassInv
      <3>4. bypass'[q] \in Nat /\ (bypass'[q] = 0 \/ bypass'[q] <= bypass[q])
        BY <1>2
      <3> QED
        BY <1>3, <3>1, <3>2, <3>3, <3>4
    <2>3. /\ Prefix(f, currentSlot')
          /\ \A q \in Level :
                2 * bypass'[q] + Ahead(f, currentPrio', q)
                   <= Full2(MAX_PRIO) - 2 * Slot(q)
      BY <1>4, <2>1, <2>2
    <2> QED
      BY <1>2, <2>3 DEF BypassInv, Level, Edge, Prefix, Ahead, Full2, Slot
  <1>5. CASE /\ currentSlot' = [q \in Level |-> 0] /\ currentPrio' = 0
             /\ \A q \in Level : ready[q] = <<>>
    <2>1. Prefix(Fresh, currentSlot')
      BY <1>5, PrefixFresh
    <2>2. Fresh \in [Edge -> Int]
      BY Full2Values
    <2> HIDE DEF Fresh
    <2>3. ASSUME NEW q \in Level
          PROVE  2 * bypass'[q] + Ahead(Fresh, 0, q) <= Full2(MAX_PRIO) - 2 * Slot(q)
      <3>1. /\ Ahead(Fresh, 0, q) \in Int
            /\ Ahead(Fresh, 0, q) <= Full2(MAX_PRIO) - 2 * Slot(q)
        BY <1>0, <2>1, AheadMax
      <3>2. bypass'[q] = 0
        BY <1>2, <1>5
      <3> QED
        BY <3>1, <3>2
    <2>4. /\ Prefix(Fresh, currentSlot')
          /\ \A q \in Level :
                2 * bypass'[q] + Ahead(Fresh, currentPrio', q)
                   <= Full2(MAX_PRIO) - 2 * Slot(q)
      BY <1>5, <2>1, <2>3
    <2> QED
      BY <1>2, <2>2, <2>4 DEF BypassInv, Level, Edge, Prefix, Ahead, Full2, Slot
  <1> QED
    BY <1>4, <1>5 DEF OtherStep

(* A dispatch of level r = Scan(k): a level that waits and is not r loses  *)
(* one of the dispatches before it and counts one more.                    *)
LEMMA DispatchBypass ==
    ASSUME SchedInv, BypassInv, FairNext, NEW k \in Attempts, NEW r \in Level,
           r = Scan(k), FirstEligible(k), Charge(k, r), Dispatched = {r}
    PROVE  BypassInv'
  <1> DEFINE s == [q \in Level |-> UsedAt(k, q)]
             u == IF Wrapped(k) THEN 0 ELSE currentPrio
             v == IF s[r] + 1 >= Slot(r) THEN 0 ELSE s[r] + 1
             Fresh == [i \in Edge |-> Full2(i)]
  <1>0. /\ ScanInv /\ currentPrio \in Level /\ 0 \in Level /\ Level \subseteq Nat
        /\ currentSlot \in [Level -> Nat]
        /\ \A q \in Level : Slot(q) \in Nat /\ Slot(q) > 0
        /\ Full2(MAX_PRIO) \in Int
    BY LevelType, BudgetPositive, Full2Values, EdgeType DEF SchedInv, ScanInv, ScanTypeOK
  <1>1. s \in [Level -> Nat] /\ \A q \in Level : s[q] < Slot(q)
    BY <1>0 DEF ScanInv, BudgetOpen, UsedAt
  <1>2. /\ s[r] = UsedAt(k, r)
        /\ Wrapped(k) => \A q \in Level : s[q] = 0
        /\ ~ Wrapped(k) => s = currentSlot
    BY <1>0 DEF UsedAt
  <1>3. Wrapped(k) <=> r < currentPrio
    BY <1>0, ScanAt
  <1>4. u \in Level /\ u <= r
    BY <1>0, <1>3
  <1>5. /\ currentSlot' = [s EXCEPT ![r] = v]
        /\ currentPrio' = IF s[r] + 1 >= Slot(r) THEN (r + 1) % MAX_PRIO ELSE u
    BY <1>0, <1>1, <1>2 DEF Charge
  <1>6. v \in Nat /\ v < Slot(r)
    BY <1>0, <1>1
  <1>7. bypass' = [q \in Level |->
           IF ready[q] = <<>> \/ q = r THEN 0 ELSE Capped(bypass[q] + 1)]
    <2>1. Cardinality({r}) = 1
      BY FS_Singleton
    <2> QED
      BY <2>1 DEF FairNext, Watch
  <1>8. PICK f \in [Edge -> Int] :
           /\ Prefix(f, currentSlot)
           /\ \A q \in Level :
                 2 * bypass[q] + Ahead(f, currentPrio, q)
                    <= Full2(MAX_PRIO) - 2 * Slot(q)
    BY DEF BypassInv
  <1> DEFINE f0 == IF Wrapped(k) THEN Fresh ELSE f
             g == Shifted(f0, s, r, v)
  <1>9. Prefix(f0, s)
    <2>1. CASE Wrapped(k)
      <3>1. Prefix(Fresh, s)
        BY <1>1, <1>2, <2>1, PrefixFresh
      <3> QED
        BY <2>1, <3>1
    <2>2. CASE ~ Wrapped(k)
      BY <2>2, <1>2, <1>8
    <2> QED
      BY <2>1, <2>2
  <1>10. currentPrio' \in Level
    BY <1>0, ScanLevel, ChargeOpen DEF ScanInv, ScanTypeOK
  <1>11. ASSUME NEW q \in Level, ready[q] # <<>>, q # r
         PROVE  /\ q > r \/ q < u
                /\ Ahead(f0, u, q) <= Ahead(f, currentPrio, q)
                /\ Ahead(f0, u, q) \in Int /\ Ahead(f, currentPrio, q) \in Int
    <2>1. \/ ~ Wrapped(k) /\ currentPrio <= r /\ (q > r \/ q < currentPrio)
          \/ Wrapped(k) /\ r < q /\ q < currentPrio
      BY <1>0, <1>11, WaitingComesAfter
    <2>2. Ahead(f0, u, q) \in Int /\ Ahead(f, currentPrio, q) \in Int
      <3> HIDE DEF f0, u, s
      <3> QED
        BY <1>0, <1>4, <1>8, <1>9, AheadMax
    <2>3. CASE ~ Wrapped(k)
      <3>1. f0 = f /\ u = currentPrio
        BY <2>3
      <3> HIDE DEF f0, u
      <3> QED
        BY <2>1, <2>2, <2>3, <3>1
    <2>4. CASE Wrapped(k)
      <3>1. Ahead(Fresh, 0, q) <= Ahead(f, currentPrio, q)
        BY <1>0, <1>8, <2>1, <2>4, AheadWrapped
      <3>2. f0 = Fresh /\ u = 0
        BY <2>4
      <3> HIDE DEF f0, u, Fresh
      <3> QED
        BY <2>1, <2>2, <2>4, <3>1, <3>2
    <2> QED
      BY <2>3, <2>4
  <1> HIDE DEF s, u, f0, Fresh
  <1>12. Prefix(g, currentSlot')
    BY <1>1, <1>5, <1>6, <1>9, PrefixShifted
  <1>13. g \in [Edge -> Int]
    BY <1>12 DEF Prefix
  <1>14. ASSUME NEW q \in Level, ready[q] # <<>>, q # r
         PROVE  Ahead(g, currentPrio', q) + 2 <= Ahead(f0, u, q)
    <2> DEFINE w == IF s[r] + 1 >= Slot(r) THEN (r + 1) % MAX_PRIO ELSE u
    <2>1. s[r] < Slot(r) /\ (q > r \/ q < u)
      BY <1>1, <1>11, <1>14
    <2>2. Ahead(Shifted(f0, s, r, v), w, q) + 2 <= Ahead(f0, u, q)
      BY <1>1, <1>4, <1>9, <2>1, AheadCharged
    <2> QED
      BY <1>5, <2>2
  <1> HIDE DEF g, v
  <1>15. ASSUME NEW q \in Level
         PROVE  /\ bypass'[q] \in Nat
                /\ 2 * bypass'[q] + Ahead(g, currentPrio', q)
                      <= Full2(MAX_PRIO) - 2 * Slot(q)
    <2>1. /\ Ahead(g, currentPrio', q) \in Int
          /\ Ahead(g, currentPrio', q) <= Full2(MAX_PRIO) - 2 * Slot(q)
      BY <1>10, <1>12, AheadMax
    <2>2. CASE ready[q] = <<>> \/ q = r
      <3>1. bypass'[q] = 0
        BY <1>7, <2>2
      <3> QED
        BY <2>1, <3>1
    <2>3. CASE ready[q] # <<>> /\ q # r
      <3>1. bypass'[q] = Capped(bypass[q] + 1) /\ bypass[q] \in Nat
        BY <1>7, <2>3 DEF BypassInv
      <3>2. bypass'[q] \in Nat /\ bypass'[q] <= bypass[q] + 1
        BY <3>1, CappedBelow
      <3>3. /\ Ahead(g, currentPrio', q) + 2 <= Ahead(f0, u, q)
            /\ Ahead(f0, u, q) <= Ahead(f, currentPrio, q)
            /\ Ahead(f0, u, q) \in Int /\ Ahead(f, currentPrio, q) \in Int
        BY <1>11, <1>14, <2>3
      <3>4. 2 * bypass[q] + Ahead(f, currentPrio, q)
               <= Full2(MAX_PRIO) - 2 * Slot(q)
        BY <1>8
      <3>5. Slot(q) \in Nat
        BY <1>0
      <3> QED
        BY <1>0, <2>1, <3>1, <3>2, <3>3, <3>4, <3>5
    <2> QED
      BY <2>2, <2>3
  <1> QED
    BY <1>12, <1>13, <1>15 DEF BypassInv, Level, Edge, Prefix, Ahead, Full2, Slot

LEMMA BypassInductive ==
    SchedInv /\ BypassInv /\ [FairNext]_fairVars => BypassInv'
  <1> SUFFICES ASSUME SchedInv, BypassInv, [FairNext]_fairVars
               PROVE  BypassInv'
    OBVIOUS
  <1>1. CASE UNCHANGED fairVars
    BY <1>1 DEF fairVars, schedVars, BypassInv, Level, Edge, Prefix, Ahead, Full2, Slot
  <1>2. CASE FairNext
    BY <1>2, WatchedCases, OtherBypass, DispatchBypass
  <1> QED
    BY <1>1, <1>2

LEMMA BypassInit == FairInit => BypassInv
  <1> SUFFICES ASSUME FairInit PROVE BypassInv
    OBVIOUS
  <1> DEFINE Fresh == [i \in Edge |-> Full2(i)]
  <1>1. /\ currentSlot \in [Level -> Nat] /\ \A q \in Level : currentSlot[q] = 0
        /\ currentPrio = 0 /\ 0 \in Level
        /\ \A q \in Level : bypass[q] = 0
    BY LevelType DEF FairInit, SchedInit
  <1>2. Prefix(Fresh, currentSlot)
    BY <1>1, PrefixFresh
  <1>3. Fresh \in [Edge -> Int]
    BY Full2Values
  <1> HIDE DEF Fresh
  <1>4. ASSUME NEW q \in Level
        PROVE  /\ bypass[q] \in Nat
               /\ 2 * bypass[q] + Ahead(Fresh, currentPrio, q)
                     <= Full2(MAX_PRIO) - 2 * Slot(q)
    <2>1. /\ Ahead(Fresh, currentPrio, q) \in Int
          /\ Ahead(Fresh, currentPrio, q) <= Full2(MAX_PRIO) - 2 * Slot(q)
      BY <1>1, <1>2, AheadMax
    <2> QED
      BY <1>1, <2>1
  <1> QED
    BY <1>2, <1>3, <1>4 DEF BypassInv

(* For any number of levels: while a level waits, the other levels are     *)
(* dispatched at most as often as their budgets in one full round, the     *)
(* whole round being MAX_PRIO * (MAX_PRIO + 1) / 2 dispatches; no backlog  *)
(* of budgets carried over from earlier rounds, and no arrival, adds to it.*)
THEOREM AlwaysBypassBounded == FairSpec => []BypassBounded
  <1>1. FairInit => BypassInv
    BY BypassInit
  <1>2. SchedInv /\ BypassInv /\ [FairNext]_fairVars => BypassInv'
    BY BypassInductive
  <1>3. SchedInv /\ BypassInv => BypassBounded
    <2> SUFFICES ASSUME SchedInv, BypassInv, NEW q \in Level
                 PROVE  bypass[q] + Slot(q) <= (MAX_PRIO * (MAX_PRIO + 1)) \div 2
      BY DEF BypassBounded
    <2>1. PICK f \in [Edge -> Int] :
             /\ Prefix(f, currentSlot)
             /\ 2 * bypass[q] + Ahead(f, currentPrio, q)
                   <= Full2(MAX_PRIO) - 2 * Slot(q)
      BY DEF BypassInv
    <2>2. Ahead(f, currentPrio, q) \in Int /\ 0 <= Ahead(f, currentPrio, q)
      BY <2>1, AheadMax DEF SchedInv, ScanInv, ScanTypeOK
    <2>3. bypass[q] \in Nat /\ Slot(q) \in Nat /\ Full2(MAX_PRIO) \in Int
      BY BudgetPositive, Full2Values, EdgeType DEF BypassInv
    <2>4. 2 * (bypass[q] + Slot(q)) <= Full2(MAX_PRIO)
      BY <2>1, <2>2, <2>3
    <2>5. Full2(MAX_PRIO) = MAX_PRIO * (MAX_PRIO + 1)
      BY Full2Values
    <2>6. ASSUME NEW a \in Int, NEW b \in Int, 2 * a <= b
          PROVE  a <= b \div 2
      BY <2>6
    <2>7. bypass[q] + Slot(q) <= Full2(MAX_PRIO) \div 2
      BY <2>3, <2>4, <2>6
    <2> QED
      BY <2>5, <2>7
  <1> QED
    BY <1>1, <1>2, <1>3, FairSchedInv, PTL DEF FairSpec
=============================================================================

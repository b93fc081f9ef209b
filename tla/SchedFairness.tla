--------------------------- MODULE SchedFairness ---------------------------
(***************************************************************************)
(* How long the scan of get_mlq_proc may keep a level waiting.  Two        *)
(* history variables watch the scheduler and change nothing in it.         *)
(***************************************************************************)
EXTENDS Sched, FiniteSets

VARIABLES
    bypass,     \* bypass[q]: dispatches of other levels while q waited
    streak      \* streak[q]: dispatches of q in a row while another waited

fairVars == <<schedVars, bypass, streak>>

FairInit ==
    /\ SchedInit
    /\ bypass = [q \in Level |-> 0]
    /\ streak = [q \in Level |-> 0]

(* The levels this step takes a process from: one, or none. *)
Dispatched ==
    {prio[proc'[c]] : c \in {d \in Cpu : proc[d] = NoProc /\ proc'[d] # NoProc}}

(* Bound: the counters stop here, past the limits stated below. *)
MaxCount == MAX_PRIO * (MAX_PRIO + 1)

Capped(n) == IF n > MaxCount THEN MaxCount ELSE n

OtherWaits(q) == \E r \in Level \ {q} : ready[r] # <<>>

Watch ==
    /\ bypass' = [q \in Level |->
          IF ready[q] = <<>> \/ q \in Dispatched THEN 0
          ELSE Capped(bypass[q] + Cardinality(Dispatched))]
    /\ streak' = [q \in Level |->
          IF Dispatched = {} THEN streak[q]
          ELSE IF q \in Dispatched /\ OtherWaits(q) THEN Capped(streak[q] + 1)
          ELSE 0]

FairNext == SchedNext /\ Watch

FairSpec == FairInit /\ [][FairNext]_fairVars /\ SchedFairness

(***************************************************************************)
(* While a level waits, every other level is dispatched at most its budget *)
(* of times before the scan reaches the waiting one, whatever budgets were *)
(* carried over from earlier rounds and whoever arrives meanwhile: the     *)
(* budgets of all levels sum to MAX_PRIO * (MAX_PRIO + 1) / 2.             *)
(***************************************************************************)
BypassBounded ==
    \A q \in Level :
        bypass[q] + Slot(q) <= (MAX_PRIO * (MAX_PRIO + 1)) \div 2

(* A level is not dispatched more often in a row than its budget allows    *)
(* while another level has a process waiting (sched.tex: slot[prio] =      *)
(* MAX_PRIO - prio dispatches before the scan moves on).                   *)
BudgetRespected == \A q \in Level : streak[q] <= Slot(q)
=============================================================================

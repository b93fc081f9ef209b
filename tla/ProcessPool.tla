---------------------------- MODULE ProcessPool ----------------------------
(***************************************************************************)
(* What a process scheduler promises its clients, whatever its queues and  *)
(* its policy: a process is admitted once, is run by at most one CPU, is   *)
(* given back or finished by that CPU, and if CPUs keep becoming free a    *)
(* ready process is eventually run.                                        *)
(***************************************************************************)
EXTENDS Naturals, FiniteSets

CONSTANTS Proc, Cpu

VARIABLE status     \* status[p]: where process p is in its life

Running == {p \in Proc : status[p] = "running"}

Init == status = [p \in Proc |-> "new"]

Admit(p) ==
    /\ status[p] = "new"
    /\ status' = [status EXCEPT ![p] = "ready"]

(* A process of a priority the scheduler does not know never runs. *)
Reject(p) ==
    /\ status[p] = "new"
    /\ status' = [status EXCEPT ![p] = "rejected"]

Run(p) ==
    /\ status[p] = "ready"
    /\ Cardinality(Running) < Cardinality(Cpu)
    /\ status' = [status EXCEPT ![p] = "running"]

Preempt(p) ==
    /\ status[p] = "running"
    /\ status' = [status EXCEPT ![p] = "ready"]

Finish(p) ==
    /\ status[p] = "running"
    /\ status' = [status EXCEPT ![p] = "finished"]

Next == \E p \in Proc :
            Admit(p) \/ Reject(p) \/ Run(p) \/ Preempt(p) \/ Finish(p)

Fairness == \A p \in Proc : SF_status(Run(p))

Spec == Init /\ [][Next]_status /\ Fairness
=============================================================================

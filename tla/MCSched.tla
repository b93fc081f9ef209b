------------------------------ MODULE MCSched ------------------------------
(* The scheduler alone under its most general client, on three processes,  *)
(* two CPUs and three levels with budgets 3, 2 and 1.                      *)
EXTENDS Sched

CONSTANTS p1, p2, p3, c1, c2

MCProc == {p1, p2, p3}
MCCpu == {c1, c2}
MCPrios == 0 .. MAX_PRIO    \* MAX_PRIO itself is the first invalid priority
=============================================================================

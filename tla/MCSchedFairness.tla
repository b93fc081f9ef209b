-------------------------- MODULE MCSchedFairness --------------------------
(* The same instance as MCSched, watched by the history variables. *)
EXTENDS SchedFairness

CONSTANTS p1, p2, p3, c1, c2

MCProc == {p1, p2, p3}
MCCpu == {c1, c2}
MCPrios == 0 .. MAX_PRIO    \* MAX_PRIO itself is the first invalid priority
=============================================================================

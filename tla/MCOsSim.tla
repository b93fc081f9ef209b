------------------------------ MODULE MCOsSim ------------------------------
(* Two CPUs, a loader and a few short programs. *)
EXTENDS OsSim

CONSTANTS c1, c2

MCCpu == {c1, c2}
MCProc == 1 .. NumProcesses
MCDevice == MCCpu \cup {Loader}
MCPrios == 0 .. MAX_PRIO - 1
MCSizes == {0, 3}       \* an empty program and one above the quantum
MCStartTimes == {0, MaxTime}
=============================================================================

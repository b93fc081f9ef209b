------------------------------ MODULE MCMemory ------------------------------
(* Pages of three bytes, of which two are told apart in a frame; a process *)
(* with one region id and one other process.                               *)
EXTENDS Memory

CONSTANTS self, other

MCProcess == {self, other}
MCRgid == {0}
MCSize == {2, 4}
MCMine == {3}   \* a byte with its sign bit set
MCTheirs == {2}
=============================================================================

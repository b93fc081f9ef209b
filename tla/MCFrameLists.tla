---------------------------- MODULE MCFrameLists ----------------------------
(* Two CPUs and fewer frames than their calls ask for. *)
EXTENDS FrameLists

CONSTANTS c1, c2

MCCpu == {c1, c2}
=============================================================================

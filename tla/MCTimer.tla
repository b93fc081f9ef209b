------------------------------ MODULE MCTimer ------------------------------
(* Two CPUs and the loader as the attached devices. *)
EXTENDS Timer

CONSTANTS c1, c2, loader

MCDevice == {c1, c2, loader}
=============================================================================

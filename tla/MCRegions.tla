----------------------------- MODULE MCRegions -----------------------------
(* Three region ids, pages of four bytes. *)
EXTENDS Regions

MCRgid == 0 .. 2

(* Sizes below, at and above a page. *)
MCSize == {0, 2, 4, 5}
=============================================================================

------------------------------ MODULE MCPaging ------------------------------
(* Three processes that together ask for more pages than there are frames.   *)
EXTENDS Paging, TLC

CONSTANTS p1, p2, p3

MCProcess == {p1, p2, p3}
MCOffset == {0}
MCValue == {0, 1}
MCSymmetry == Permutations(MCProcess)
=============================================================================

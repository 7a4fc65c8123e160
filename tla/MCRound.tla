------------------------------ MODULE MCRound ------------------------------
(* The seller, its buyers, and the order they joined in.                   *)
EXTENDS Round

CONSTANTS p1, p2, p3, p4

One == <<p1>>
Two == <<p1, p2>>
Three == <<p1, p2, p3>>
Four == <<p1, p2, p3, p4>>
=============================================================================

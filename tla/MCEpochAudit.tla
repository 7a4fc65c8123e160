---------------------------- MODULE MCEpochAudit ----------------------------
(* The seller p1 sold to p2 and p3; a latecomer has traded nothing.        *)
EXTENDS EpochAudit

CONSTANTS p1, p2, p3, p4

Two == <<p1, p2>>
Three == <<p1, p2, p3>>
TwoBooks == [t \in Tab |-> IF t \in {p1, p2} THEN 2 ELSE 0]
ThreeBooks == [t \in Tab |-> CASE t = p1 -> 3 [] t = p2 -> 2 [] t = p3 -> 1 [] OTHER -> 0]
=============================================================================

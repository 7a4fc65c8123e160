----------------------------- MODULE MCAuction -----------------------------
(* The relay on a small instance: the tabs are interchangeable.            *)
EXTENDS Auction, TLC

CONSTANT AuditTabs   \* how many tabs there may have been when an audit is touched

\* An hour below zero: Go's remainder is negative there.
Hours == {-1}

TabSymmetry == Permutations(Tab)

\* Rounds and audits hardly share state: with more tabs than AuditTabs only
\* rounds are played.
AuditsBounded ==
  Cardinality(issued) > AuditTabs =>
    epoch = "open" /\ chainPos = 0 /\ epochPartials = NoBlobs

BoundedSpec == Init /\ [][Next /\ AuditsBounded']_vars
=============================================================================

-------------------------- MODULE MCSessionRunner --------------------------
(* SessionRunner for TLC, with a pipeline of the examples' shape: a setup  *)
(* phase, one that collects, a computation, another that collects.         *)
EXTENDS SessionRunner

CONSTANTS p1, p2, p3, admin

Two == {p1, p2}
Three == {p1, p2, p3}
Collects == {2, 4}
=============================================================================

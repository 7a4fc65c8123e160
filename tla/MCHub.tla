------------------------------- MODULE MCHub -------------------------------
(* Hub for TLC: one pseudonym that opens two connections, in any order and  *)
(* overlapping; pseudonyms share nothing but the broadcasts.               *)
EXTENDS Hub

CONSTANTS alice, nobody

OneName == {alice}
=============================================================================

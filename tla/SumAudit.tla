------------------------------ MODULE SumAudit ------------------------------
(***************************************************************************)
(* What the energy auction promises of an epoch audit: it is over a set of *)
(* parties fixed when it starts, it ends with the verdict on exactly their *)
(* positions or is abandoned without one, and it is reported once.         *)
(***************************************************************************)
EXTENDS Integers, FiniteSets

CONSTANTS Party, Balances(_)  \* does the sum of a set of positions come to zero?

VARIABLES stage, parties, verdict

avars == <<stage, parties, verdict>>

AInit == stage = "ready" /\ parties = {} /\ verdict = "none"

Freeze(S) ==
  /\ stage = "ready"
  /\ stage' = "audit" /\ parties' = S /\ verdict' = "none"

Abandon ==
  /\ stage = "audit"
  /\ stage' = "ready" /\ parties' = {} /\ UNCHANGED verdict

Report ==
  /\ stage = "audit"
  /\ stage' = "done" /\ UNCHANGED parties
  /\ verdict' = IF Balances(parties) THEN "balance" ELSE "imbalance"

Renew ==
  /\ stage = "done"
  /\ stage' = "open" /\ parties' = {} /\ verdict' = "none"

ANext == Abandon \/ Report \/ Renew \/ \E S \in SUBSET Party : Freeze(S)

ASpec == AInit /\ [][ANext]_avars
=============================================================================

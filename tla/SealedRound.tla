---------------------------- MODULE SealedRound ----------------------------
(***************************************************************************)
(* What the energy auction promises of its rounds: a round is opened,      *)
(* collects one sealed bid from every buyer, is ranked only once all of    *)
(* them are in, names a winner among those who sealed, and is settled once *)
(* before the next one opens.                                              *)
(***************************************************************************)
EXTENDS Integers

CONSTANTS Buyer, NoWinner

VARIABLES stage, round, sealed, winner, settledRounds

rvars == <<stage, round, sealed, winner, settledRounds>>

RInit ==
  /\ stage = "idle"
  /\ round = 0
  /\ sealed = {}
  /\ winner = NoWinner
  /\ settledRounds = 0

Open ==
  /\ stage = "idle"
  /\ stage' = "collecting"
  /\ round' = round + 1
  /\ UNCHANGED <<sealed, winner, settledRounds>>

Seal(b) ==
  /\ stage = "collecting"
  /\ sealed' = sealed \cup {b}
  /\ stage' = IF sealed' = Buyer THEN "ranking" ELSE stage
  /\ UNCHANGED <<round, winner, settledRounds>>

Announce(b) ==
  /\ stage = "ranking"
  /\ b \in sealed
  /\ winner' = b
  /\ stage' = "offered"
  /\ UNCHANGED <<round, sealed, settledRounds>>

Decide ==
  /\ stage = "offered"
  /\ stage' = "idle"
  /\ sealed' = {}
  /\ winner' = NoWinner
  /\ settledRounds' = settledRounds + 1
  /\ UNCHANGED round

RNext == Open \/ Decide \/ \E b \in Buyer : Seal(b) \/ Announce(b)

RSpec == RInit /\ [][RNext]_rvars
=============================================================================

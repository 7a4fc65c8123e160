------------------------------- MODULE Voting -------------------------------
(***************************************************************************)
(* The voting example.  Its pipeline with shuffle runs an onion round      *)
(* (pkg/ares/phase/anon, pkg/ares/onion): every participant sends an onion *)
(* with a layer for each, and the service's hook passes the batch from     *)
(* peeler to peeler (peelRelayIfNeeded).  Hooks run on the senders'        *)
(* goroutines after the dispatch, and a participant may send its onion     *)
(* again.  The plain pipeline goes straight to the ballots and the tally.  *)
(* What follows the shuffle in the other is in module Lineage.             *)
(*                                                                         *)
(* A batch is [layer, of]: the peeler whose layer is outermost, and for    *)
(* each participant which of its onions is in the batch.  The order of a   *)
(* batch, which the peelers permute, is left out.  SendTo delivers in      *)
(* order (module Hub has its losses).                                      *)
(***************************************************************************)
EXTENDS Integers, Sequences, FiniteSets, FiniteSetsExt, TLC

CONSTANTS
  NumVoters,   \* the participants are 1 .. NumVoters, in peel order
  MaxOnions,   \* bound: onions a participant builds
  Picks,       \* choices on a ballot
  Weights      \* weights on a ballot

VARIABLES
  voteStage,   \* gossip, verifying; submitting, settled
  onion,       \* bucketOnions: participant -> number of its onion, 0 for none
  memo,        \* client: participant -> the onion its selfMemo is of
  relayDue,    \* participants whose hook has yet to run
  mail,        \* participant -> the batches sent to it
  peels,       \* bucketPeels: the participants in it
  ballots,     \* bucketBallots: voter -> the ballot
  tally        \* CtxVoteTally, <<>> until it is set

votingVars == <<voteStage, onion, memo, relayDue, mail, peels, ballots, tally>>
shuffleVars == <<onion, memo, relayDue, mail, peels>>

Voter == 1 .. NumVoters

VotingInit ==
  /\ voteStage \in {"gossip", "submitting"}
  /\ onion = [p \in Voter |-> 0] /\ memo = [p \in Voter |-> 0]
  /\ relayDue = {} /\ mail = [p \in Voter |-> <<>>] /\ peels = {}
  /\ ballots = <<>> /\ tally = <<>>

-----------------------------------------------------------------------------
(* The shuffle.                                                            *)

\* A client builds an onion, with its own layer remembered, and sends it; after
\* the shuffle the phase no longer consumes it.
BuildOnion(p) ==
  /\ voteStage \in {"gossip", "verifying"}
  /\ memo[p] < MaxOnions /\ p \notin relayDue
  /\ memo' = [memo EXCEPT ![p] = @ + 1]
  /\ onion' = IF voteStage = "gossip" THEN [onion EXCEPT ![p] = memo'[p]] ELSE onion
  /\ relayDue' = relayDue \cup {p}
  /\ UNCHANGED <<voteStage, mail, peels, ballots, tally>>

Send(p, batch) == mail' = [mail EXCEPT ![p] = Append(@, batch)]
assembleBatch == [layer |-> 1, of |-> onion]


\* The hook after onion.batch: with all onions in, the chain starts, once more
\* for every onion.batch from then on.
RelayBatch(p) ==
  /\ p \in relayDue /\ relayDue' = relayDue \ {p}
  /\ IF \A q \in Voter : onion[q] # 0 THEN Send(1, assembleBatch) ELSE UNCHANGED mail
  /\ UNCHANGED <<voteStage, onion, memo, peels, ballots, tally>>

\* Mutant: the batch goes back to the first peeler.
relayBack(p, rest, batch) == [rest EXCEPT ![1] = Append(@, batch)]
\* The hook after onion.peel_forward: to the next peeler, if there is one.
relay(p, rest, batch) ==
  IF p < NumVoters THEN [rest EXCEPT ![p + 1] = Append(@, batch)] ELSE rest

PeelFails(p, batch) == batch.layer # p \/ batch.of[p] # memo[p]

\* PeelBatch, shuffle and onion.peel_forward.  A batch without the client's own
\* latest onion is an error of the client, which then sends nothing.  PhaseGShuffle
\* counts the distinct peelers.
Peel(p) ==
  /\ mail[p] # <<>> /\ p \notin relayDue
  /\ LET batch == Head(mail[p])
         rest == [mail EXCEPT ![p] = Tail(@)]
     IN IF PeelFails(p, batch)
        THEN mail' = rest /\ UNCHANGED <<peels, voteStage>>
        ELSE /\ mail' = relay(p, rest, [batch EXCEPT !.layer = @ + 1])
             /\ peels' = IF voteStage = "gossip" THEN peels \cup {p} ELSE peels
             /\ voteStage' = IF peels' = Voter THEN "verifying" ELSE voteStage
  /\ UNCHANGED <<onion, memo, relayDue, ballots, tally>>

-----------------------------------------------------------------------------
(* The ballots.                                                            *)

\* PhaseSubmitVote.Exit: a weight that is not positive counts as 1.
Ballot(b) == [b EXCEPT !.weight = IF @ <= 0 THEN 1 ELSE @]
WeightFor(votes, c) ==
  MapThenSumSet(LAMBDA v : votes[v].weight, {v \in DOMAIN votes : votes[v].choice = c})

\* PhaseTally.Enter walks the choices in order and keeps the first maximum.
pick(votes) ==
  LET cs == {votes[v].choice : v \in DOMAIN votes}
  IN CHOOSE c \in cs : \A d \in cs :
       /\ WeightFor(votes, d) <= WeightFor(votes, c)
       /\ d < c => WeightFor(votes, d) < WeightFor(votes, c)

PhaseTally(votes) ==
  [winner |-> pick(votes), weight |-> WeightFor(votes, pick(votes)),
   ballots |-> Cardinality(DOMAIN votes)]

Malformed == [choice |-> 0, weight |-> 0]   \* a ballot that does not parse

\* With a malformed ballot in the bucket Exit fails, and the phase stays until
\* another message comes.
SubmitVote(v, b) ==
  /\ voteStage = "submitting"
  /\ ballots' = (v :> b) @@ ballots
  /\ IF DOMAIN ballots' = Voter /\ \A u \in Voter : ballots'[u] # Malformed
     THEN /\ tally' = PhaseTally([u \in Voter |-> Ballot(ballots'[u])])
          /\ voteStage' = "settled"
     ELSE UNCHANGED <<tally, voteStage>>
  /\ UNCHANGED shuffleVars

VotingNext ==
  \/ \E p \in Voter : BuildOnion(p) \/ RelayBatch(p) \/ Peel(p)
  \/ \E v \in Voter, b \in [choice : Picks, weight : Weights] \cup {Malformed} : SubmitVote(v, b)

-----------------------------------------------------------------------------
(* Properties.                                                             *)

\* Every batch a peeler is sent has that peeler's layer outermost and one onion
\* of every participant, through restarted chains and repeated onions.
BatchPeelable ==
  \A p \in Voter : \A i \in DOMAIN mail[p] :
    mail[p][i].layer = p /\ \A q \in Voter : mail[p][i].of[q] # 0

\* The shuffle ends: however the hooks interleave and whoever sends its onion
\* again, some chain gets through all the peelers.
ShuffleEnds == []<>(voteStage # "gossip")

=============================================================================

----------------------------- MODULE AppPhases -----------------------------
(***************************************************************************)
(* The phases of the example applications that rank encrypted values:      *)
(* sealed_bid_auction, ride_share and recurring_cohort_ranking, and what   *)
(* Compose checks when a pipeline is built from them                       *)
(* (pkg/ares/phase/runner.go).                                             *)
(*                                                                         *)
(* The applications' context keys of the same meaning share a name here.   *)
(***************************************************************************)
EXTENDS Integers, Sequences, FiniteSets, TLC

-----------------------------------------------------------------------------
(* Phases as Compose sees them.  A key is <<name, type, depth>>: the depth *)
(* a producer declares, or the depth_min a consumer asks for (0: none).    *)

Declared(name, entry, leave, consumes, requires, provides) ==
  [name |-> name, entry |-> entry, leave |-> leave, consumes |-> consumes,
   requires |-> requires, provides |-> provides]

Participants3 == <<"participants", "[]string", 0>>
Contract3(depth) == <<"contract", "OpenFHEContract", depth>>
PublicKey3 == <<"pk", "[]byte", 0>>
Shares3 == <<"shares", "map[string][]byte", 0>>
EvalKeys3 == <<"ek", "OpenFHEEvalKeys", 0>>

PhaseInvitation ==
  Declared("auction-invitation", "AUCTION_INVITING", "AUCTION_LOCKED", {}, {},
        {Participants3, Contract3(10)})
PhaseKeygen ==
  Declared("auction-keygen", "AUCTION_LOCKED", "AUCTION_BIDDING", {"auction.keygen.share"},
        {Participants3, Contract3(4)}, {PublicKey3, Shares3, EvalKeys3})
PhaseScalarBid ==
  Declared("auction-scalar-bid", "AUCTION_BIDDING", "AUCTION_SCORING", {"auction.bid"},
        {Participants3, PublicKey3, Contract3(0)}, {<<"inputs", "map[string][]byte", 0>>})
PhaseArgmax ==
  Declared("auction-argmax-scoring", "AUCTION_SCORING", "AUCTION_DECRYPTING", {},
        {Participants3, Contract3(8), EvalKeys3, <<"inputs", "map[string][]byte", 0>>},
        {<<"masks", "[]byte", 0>>})
PhaseDecrypt ==
  Declared("auction-threshold-decrypt", "AUCTION_DECRYPTING", "AUCTION_SETTLED",
        {"auction.decrypt.partial"}, {Participants3, Shares3, <<"masks", "[]byte", 0>>},
        {<<"result", "WinnerBid", 0>>})
PhaseSettlement ==
  Declared("auction-settlement", "AUCTION_SETTLED", "", {}, {<<"result", "WinnerBid", 0>>},
        {<<"transcript", "SignedTranscript", 0>>})
AuctionPipeline ==
  <<PhaseInvitation, PhaseKeygen, PhaseScalarBid, PhaseArgmax, PhaseDecrypt, PhaseSettlement>>

RideInvite ==
  Declared("ride-invite", "RIDE_INVITE", "RIDE_KEYGEN", {}, {},
        {Participants3, <<"roles", "map[string]string", 0>>, Contract3(12)})
RideKeygen ==
  Declared("ride-keygen", "RIDE_KEYGEN", "RIDE_SUBMIT", {"ride.keygen.share"},
        {Participants3, Contract3(4)}, {PublicKey3, Shares3, EvalKeys3})
RideSubmit ==
  Declared("ride-submit", "RIDE_SUBMIT", "RIDE_SCORE", {"ride.bid", "ride.request"},
        {Participants3, <<"roles", "map[string]string", 0>>, PublicKey3, Contract3(0)},
        {<<"inputs", "RideShareBids", 0>>})
RideScore ==
  Declared("ride-score", "RIDE_SCORE", "RIDE_DECRYPT", {},
        {Participants3, Contract3(0), EvalKeys3, <<"inputs", "RideShareBids", 0>>},
        {<<"masks", "[]byte", 0>>})
RideDecrypt ==
  Declared("ride-decrypt", "RIDE_DECRYPT", "RIDE_SETTLE", {"ride.decrypt.partial"},
        {Participants3, Shares3, <<"masks", "[]byte", 0>>}, {<<"result", "RideShareResult", 0>>})
RideSettle ==
  Declared("ride-settle", "RIDE_SETTLE", "", {}, {<<"result", "RideShareResult", 0>>},
        {<<"transcript", "SignedTranscript", 0>>})
RidePipeline == <<RideInvite, RideKeygen, RideSubmit, RideScore, RideDecrypt, RideSettle>>

PhaseCohortForm ==
  Declared("cohort-form", "COHORT_FORMING", "COHORT_KEYGEN", {}, {},
        {Participants3, <<"cohort", "string", 0>>})
PhaseCohortKeygen ==
  Declared("cohort-keygen", "COHORT_KEYGEN", "COHORT_SEALED", {"cohort.keygen.share"},
        {Participants3}, {PublicKey3, Shares3, EvalKeys3, Contract3(10)})
\* No phase claims COHORT_SEALED.
FormationPipeline == <<PhaseCohortForm, PhaseCohortKeygen>>

weeklyKeySeeder ==
  Declared("weekly-key-seeder", "WEEKLY_SEEDED", "RANKING_INVITING", {}, {},
        {Participants3, PublicKey3, Shares3, EvalKeys3, Contract3(30)})
PhaseRankingInvitation ==
  Declared("ranking-invitation", "RANKING_INVITING", "RANKING_LOCKED", {},
        {Participants3}, {Participants3})
PhasePreSharedKeyLookup ==
  Declared("ranking-key-lookup", "RANKING_LOCKED", "RANKING_BIDDING", {},
        {PublicKey3, Shares3, EvalKeys3}, {})
PhaseSubmitRating ==
  Declared("ranking-submit-rating", "RANKING_BIDDING", "RANKING_SCORING", {"ranking.rating"},
        {Participants3}, {<<"inputs", "map[string][]byte", 0>>})
PhaseArgmaxScoring ==
  Declared("ranking-argmax-scoring", "RANKING_SCORING", "RANKING_DECRYPT", {},
        {Participants3, Contract3(8), EvalKeys3, <<"inputs", "map[string][]byte", 0>>},
        {<<"masks", "[]byte", 0>>})
PhaseThresholdDecrypt ==
  Declared("ranking-threshold-decrypt", "RANKING_DECRYPT", "RANKING_SETTLED",
        {"ranking.decrypt.partial"}, {Participants3, Shares3, <<"masks", "[]byte", 0>>},
        {<<"result", "WinnerRating", 0>>})
PhaseSettleRanking ==
  Declared("ranking-settle", "RANKING_SETTLED", "", {}, {<<"result", "WinnerRating", 0>>},
        {<<"transcript", "SignedTranscript", 0>>})
WeeklyPipeline ==
  <<PhaseRankingInvitation, PhasePreSharedKeyLookup, PhaseSubmitRating, PhaseArgmaxScoring,
    PhaseThresholdDecrypt, PhaseSettleRanking>>
\* The service puts the seeder in front.
WeeklyService == <<weeklyKeySeeder>> \o WeeklyPipeline

-----------------------------------------------------------------------------
(* Compose.                                                                *)

\* What the phases before the i-th provide; a later producer replaces an earlier one.
provided(phases, i) ==
  {t \in UNION {phases[j].provides : j \in 1 .. i - 1} :
     \E j \in 1 .. i - 1 : /\ t \in phases[j].provides
                           /\ \A k \in j + 1 .. i - 1 : \A u \in phases[k].provides : u[1] # t[1]}

checkConstraints(want, got) == want[3] # 0 => got[3] # 0 /\ got[3] >= want[3]

validateRequires(reqs, given) ==
  \A want \in reqs : \E got \in given :
    got[1] = want[1] /\ got[2] = want[2] /\ checkConstraints(want, got)

Compose(phases) ==
  /\ phases # <<>>
  /\ \A i, j \in DOMAIN phases :
       i # j => phases[i].name # phases[j].name /\ phases[i].entry # phases[j].entry
  /\ \A i \in DOMAIN phases :
       /\ validateRequires(phases[i].requires, provided(phases, i))
       /\ phases[i].entry # ""
       /\ i > 1 => phases[i - 1].leave = phases[i].entry
=============================================================================

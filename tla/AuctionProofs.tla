--------------------------- MODULE AuctionProofs ---------------------------
(***************************************************************************)
(* The invariants of the relay, proved for any number of tabs, seats,      *)
(* trades and slots.  The conjunction of the six is inductive as it is:    *)
(* BidsLive needs the roster (who holds a seat) and AuditParty needs it    *)
(* too (a message comes from a connected tab, so the frozen set is not     *)
(* empty).                                                                 *)
(***************************************************************************)
EXTENDS Auction, FiniteSetTheorems, SequenceTheorems, TLAPS

PeerRec == [role : {"none", "seller", "buyer", "full"},
            seat : Seat \cup {-1}, sealed : BOOLEAN]
TradeRec == [slot : 0 .. (Day - 1), price : Price \cup {0},
             accepted : BOOLEAN, bidders : Nat, seat : Seat]

-----------------------------------------------------------------------------
\* buyerCount is a number: there are finitely many tabs.
LEMMA BuyerCountNat == buyerCount \in Nat
<1>1. IsFiniteSet(Buyers)
  BY TabAssumption, FS_Subset DEF Buyers
<1> QED
  BY <1>1, FS_CardinalityType DEF buyerCount

\* The number of stored bids is a number, at most one bid per seat.
LEMMA StoredNat == \A b : Cardinality(Stored(b)) \in Nat
<1> TAKE b
<1>1. IsFiniteSet(Seat)
  BY SizeAssumption, FS_Interval DEF Seat
<1>2. IsFiniteSet(Stored(b))
  BY <1>1, FS_Subset DEF Stored
<1> QED
  BY <1>2, FS_CardinalityType

\* Seating yields a well-formed peer: a new buyer's seat is below MaxBuyers.
LEMMA SeatingType == Seating \in PeerRec
<1>1. buyerCount \in Nat
  BY BuyerCountNat
<1>2. CASE ~HasSeller
  BY <1>2 DEF Seating, PeerRec
<1>3. CASE HasSeller /\ buyerCount < MaxBuyers
  <2>1. buyerCount \in Seat
    BY <1>1, <1>3, SizeAssumption DEF Seat
  <2> QED
    BY <1>3, <2>1 DEF Seating, PeerRec
<1>4. CASE HasSeller /\ ~(buyerCount < MaxBuyers)
  BY <1>4 DEF Seating, PeerRec
<1> QED
  BY <1>2, <1>3, <1>4

\* Removing the first occurrence of id from a duplicate-free sequence leaves a
\* duplicate-free sequence of the other members.
LEMMA WithoutFacts ==
  ASSUME NEW s \in Seq(Tab), NEW id
  PROVE  /\ Without(s, id) \in Seq(Tab)
         /\ (\A i, j \in 1 .. Len(s) : s[i] = s[j] => i = j) =>
              /\ Members(Without(s, id)) = Members(s) \ {id}
              /\ \A i, j \in 1 .. Len(Without(s, id)) :
                   Without(s, id)[i] = Without(s, id)[j] => i = j
<1>1. CASE id \notin Members(s)
  BY <1>1 DEF Without, Members
<1>2. CASE id \in Members(s)
  <2> DEFINE m == CHOOSE j \in 1 .. Len(s) :
                    s[j] = id /\ \A k \in 1 .. (j - 1) : s[k] # id
             w == [j \in 1 .. (Len(s) - 1) |-> IF j < m THEN s[j] ELSE s[j + 1]]
  <2>1. Without(s, id) = w
    BY <1>2 DEF Without
  <2>2. PICK p \in 1 .. Len(s) : s[p] = id
    BY <1>2 DEF Members
  <2>3. Len(s) \in Nat /\ \A j \in 1 .. Len(s) : s[j] \in Tab
    OBVIOUS
  <2>4. \A j \in 1 .. (Len(s) - 1) : w[j] \in Tab
    <3> HIDE DEF m
    <3> TAKE j \in 1 .. (Len(s) - 1)
    <3>1. w[j] = s[j] \/ w[j] = s[j + 1]
      OBVIOUS
    <3>2. j \in 1 .. Len(s) /\ j + 1 \in 1 .. Len(s)
      BY <2>3
    <3> QED
      BY <2>3, <3>1, <3>2
  <2>5. Len(s) - 1 \in Nat
    BY <2>2, <2>3
  <2>6. w \in [1 .. (Len(s) - 1) -> Tab]
    <3> HIDE DEF m
    <3> QED
      BY <2>4
  <2>7. w \in Seq(Tab)
    BY <2>5, <2>6, SeqDef
  <2>8. Len(w) = Len(s) - 1
    <3> HIDE DEF m
    <3> QED
      BY <2>5, <2>7, LenProperties
  <2>9. ASSUME \A i, j \in 1 .. Len(s) : s[i] = s[j] => i = j
        PROVE  /\ Members(w) = Members(s) \ {id}
               /\ \A i, j \in 1 .. Len(w) : w[i] = w[j] => i = j
    <3>1. m = p
      BY <2>2, <2>9
    <3> HIDE DEF m
    <3>2. \A j \in 1 .. Len(w) : w[j] = IF j < p THEN s[j] ELSE s[j + 1]
      BY <2>8, <3>1
    <3> HIDE DEF w
    <3>3. \A j \in 1 .. Len(w) : w[j] \in Members(s) \ {id}
      <4> TAKE j \in 1 .. Len(w)
      <4> DEFINE k == IF j < p THEN j ELSE j + 1
      <4>1. k \in 1 .. Len(s) /\ k # p
        BY <2>3, <2>8
      <4>2. w[j] = s[k]
        BY <3>2
      <4> HIDE DEF k
      <4>3. s[k] # id
        BY <2>2, <2>9, <4>1
      <4> QED
        BY <4>1, <4>2, <4>3 DEF Members
    <3>4. ASSUME NEW k \in 1 .. Len(s), s[k] # id
          PROVE  s[k] \in Members(w)
      <4>1. CASE k < p
        <5>1. k \in 1 .. Len(w) /\ w[k] = s[k]
          BY <2>3, <2>8, <3>2, <4>1
        <5> QED
          BY <5>1 DEF Members
      <4>2. CASE ~(k < p)
        <5>1. k # p
          BY <2>2, <3>4
        <5>2. k - 1 \in 1 .. Len(w) /\ w[k - 1] = s[k]
          BY <2>3, <2>8, <3>2, <4>2, <5>1
        <5> QED
          BY <5>2 DEF Members
      <4> QED
        BY <4>1, <4>2
    <3>5. Members(w) = Members(s) \ {id}
      BY <3>3, <3>4 DEF Members
    <3>6. \A i, j \in 1 .. Len(w) : w[i] = w[j] => i = j
      BY <2>3, <2>8, <2>9, <3>2
    <3> QED
      BY <3>5, <3>6
  <2> QED
    BY <2>1, <2>7, <2>9
<1> QED
  BY <1>1, <1>2

-----------------------------------------------------------------------------
\* What resetLocked leaves is well typed when the peers it is given are.
LEMMA ResetType ==
  ASSUME NEW ps \in [Tab -> PeerRec],
         NEW ph \in {"waiting", "bidding", "evaluating", "offer", "settled"},
         resetLocked(ps, ph)
  PROVE  /\ phase' \in {"waiting", "bidding", "evaluating", "offer", "settled"}
         /\ hasKeys' \in BOOLEAN
         /\ bids' \in [Seat -> Bid \cup {None}]
         /\ winnerSeat' \in Seat \cup {-1}
         /\ priceCt' \in Price \cup {0}
         /\ peers' \in [Tab -> PeerRec]
BY DEF resetLocked, NoBids, Unsealed, PeerRec

LEMMA UnsealedType ==
  ASSUME NEW ps \in [Tab -> PeerRec]
  PROVE  Unsealed(ps) \in [Tab -> PeerRec]
BY DEF Unsealed, PeerRec

\* Sealing one peer keeps the peers well typed.
LEMMA SealedType ==
  ASSUME NEW ps \in [Tab -> PeerRec], NEW id \in Tab
  PROVE  [ps EXCEPT ![id].sealed = TRUE] \in [Tab -> PeerRec]
<1>1. [ps[id] EXCEPT !.sealed = TRUE] \in PeerRec
  BY DEF PeerRec
<1> QED
  BY <1>1

LEMMA NoBlobsType == NoBlobs \in [Tab -> Blob \cup {None}]
BY DEF NoBlobs

\* TypeOK is inductive: every method of Auction keeps it.
LEMMA TypeStep ==
  ASSUME TypeOK, [Next]_vars
  PROVE  TypeOK'
<1> USE DEF PeerRec, TradeRec
<1>1. ASSUME NEW id \in Tab, Join(id) PROVE TypeOK'
  <2>1. peers' \in [Tab -> PeerRec]
    BY <1>1, SeatingType DEF Join, TypeOK
  <2> QED
    BY <1>1, <2>1 DEF Join, TypeOK, roundVars, epochVars, auditVars
<1>2. ASSUME NEW id \in Tab, Leave(id) PROVE TypeOK'
  <2> DEFINE rest == [peers EXCEPT ![id] = Gone]
  <2>1. rest \in [Tab -> PeerRec]
    BY DEF TypeOK, Gone
  <2>2. order' \in Seq(Tab)
    BY <1>2, WithoutFacts DEF Leave, TypeOK
  <2>3. /\ phase' \in {"waiting", "bidding", "evaluating", "offer", "settled"}
        /\ hasKeys' \in BOOLEAN
        /\ bids' \in [Seat -> Bid \cup {None}]
        /\ winnerSeat' \in Seat \cup {-1}
        /\ priceCt' \in Price \cup {0}
        /\ peers' \in [Tab -> PeerRec]
    <3>1. CASE resetLocked(rest, "waiting")
      <4> HIDE DEF rest
      <4> QED
        BY <3>1, <2>1, ResetType
    <3>2. CASE peers' = rest /\ UNCHANGED roundVars
      BY <3>2, <2>1 DEF TypeOK, roundVars
    <3> QED
      BY <1>2, <3>1, <3>2 DEF Leave
  <2>4. /\ epoch' \in {"open", "ready", "audit", "done"}
        /\ epochTotals' \in [Tab -> Blob \cup {None}]
        /\ epochPartials' \in [Tab -> Blob \cup {None}]
        /\ chainPos' \in Nat
        /\ epochParty' \in Seq(Tab)
        /\ epochAbort' \in BOOLEAN
    <3>1. CASE epoch = "audit" /\ id \in Members(epochParty)
      BY <1>2, <3>1 DEF Leave, AbortAudit, NoBlobs
    <3>2. CASE ~(epoch = "audit" /\ id \in Members(epochParty))
      BY <1>2, <3>2 DEF Leave, AbortAudit, TypeOK, auditVars
    <3> QED
      BY <3>1, <3>2
  <2> QED
    BY <1>2, <2>2, <2>3, <2>4 DEF Leave, TypeOK
<1>3. CASE PublishKeys
  <2>1. peers' \in [Tab -> PeerRec]
    BY <1>3, UnsealedType DEF PublishKeys, TypeOK
  <2> QED
    BY <1>3, <2>1, SizeAssumption
       DEF PublishKeys, TypeOK, NoBids, epochVars, auditVars
<1>4. ASSUME NEW id \in Tab, NEW k \in 1 .. MaxKeyID, SubmitBid(id, k) PROVE TypeOK'
  <2>1. CASE BidAccepted(id, k)
    <3>1. [by |-> id, key |-> k] \in Bid
      BY DEF Bid
    <3>2. bids' \in [Seat -> Bid \cup {None}]
      BY <1>4, <2>1, <3>1 DEF SubmitBid, TypeOK
    <3>3. peers' \in [Tab -> PeerRec]
      <4>1. peers \in [Tab -> PeerRec]
        BY DEF TypeOK
      <4>2. peers' = [peers EXCEPT ![id].sealed = TRUE]
        BY <1>4, <2>1 DEF SubmitBid
      <4> HIDE DEF PeerRec
      <4> QED
        BY <4>1, <4>2, SealedType
    <3>4. phase' \in {phase, "evaluating"}
      BY <1>4, <2>1 DEF SubmitBid
    <3> QED
      BY <1>4, <2>1, <3>2, <3>3, <3>4 DEF SubmitBid, TypeOK, epochVars, auditVars
  <2>2. CASE ~BidAccepted(id, k)
    BY <1>4, <2>2
       DEF SubmitBid, TypeOK, vars, membership, roundVars, epochVars, auditVars
  <2> QED
    BY <2>1, <2>2
<1>5. CASE SetMasks
  BY <1>5 DEF SetMasks, TypeOK, membership, epochVars, auditVars
<1>6. ASSUME NEW seat \in Seat, NEW price \in Price, Offer(seat, price) PROVE TypeOK'
  BY <1>6 DEF Offer, TypeOK, membership, epochVars, auditVars
<1>7. ASSUME NEW accepted \in BOOLEAN, Settle(accepted) PROVE TypeOK'
  <2>1. CASE winnerSeat < 0
    BY <1>7, <2>1 DEF Settle, TypeOK, vars, membership, roundVars, epochVars, auditVars
  <2>2. CASE ~(winnerSeat < 0)
    <3> DEFINE t == [slot |-> hour, price |-> priceCt, accepted |-> accepted,
                     bidders |-> Cardinality(Stored(bids)), seat |-> winnerSeat]
    <3>1. winnerSeat \in Seat
      BY <2>2 DEF TypeOK
    <3>2. t \in TradeRec
      BY <3>1, StoredNat DEF TypeOK
    <3>3. trades \in Seq(TradeRec) /\ <<t>> \in Seq(TradeRec)
      BY <3>2 DEF TypeOK
    <3>4. <<t>> \o trades \in Seq(TradeRec)
      <4> HIDE DEF t, TradeRec
      <4> QED
        BY <3>3, ConcatProperties
    <3>5. trades' = <<t>> \o trades
      BY <1>7, <2>2 DEF Settle
    <3>6. trades' \in Seq(TradeRec)
      BY <3>4, <3>5
    <3>7. hour' \in 0 .. (Day - 1)
      BY <1>7, <2>2, SizeAssumption DEF Settle, TypeOK
    <3>8. /\ phase' \in {"waiting", "bidding", "evaluating", "offer", "settled"}
          /\ hasKeys' \in BOOLEAN
          /\ bids' \in [Seat -> Bid \cup {None}]
          /\ winnerSeat' \in Seat \cup {-1}
          /\ priceCt' \in Price \cup {0}
          /\ peers' \in [Tab -> PeerRec]
      BY <1>7, <2>2, ResetType DEF Settle, TypeOK
    <3>9. epoch' \in {"open", "ready", "audit", "done"}
      BY <1>7, <2>2 DEF Settle, TypeOK
    <3> QED
      BY <1>7, <2>2, <3>6, <3>7, <3>8, <3>9 DEF Settle, TypeOK, auditVars
  <2> QED
    BY <2>1, <2>2
<1>8. CASE Reset
  BY <1>8, ResetType DEF Reset, TypeOK, epochVars, auditVars
<1>9. ASSUME NEW h \in HourInput, SetHour(h) PROVE TypeOK'
  <2>1. h \in Int
    BY InputAssumption
  <2>2. GoRem(h, Day) \in Int
    BY <2>1, SizeAssumption DEF GoRem
  <2>3. hour' \in 0 .. (Day - 1)
    BY <1>9, <2>2, SizeAssumption DEF SetHour
  <2> QED
    BY <1>9, <2>3, ResetType DEF SetHour, TypeOK, epochVars, auditVars
<1>10. CASE StartEpochChain
  <2>1. CASE epoch = "audit"
    BY <1>10, <2>1
       DEF StartEpochChain, TypeOK, vars, membership, roundVars, epochVars, auditVars
  <2>2. CASE epoch # "audit"
    <3>1. epochTotals' \in [Tab -> Blob \cup {None}]
      BY <1>10, <2>2, NoBlobsType DEF StartEpochChain
    <3>2. epochPartials' \in [Tab -> Blob \cup {None}]
      BY <1>10, <2>2, NoBlobsType DEF StartEpochChain
    <3>3. /\ epochParty' \in Seq(Tab) /\ epoch' = "audit" /\ epochAbort' = FALSE
          /\ epochKey' = None /\ epochOpened' = FALSE /\ chainPos' = 0
          /\ UNCHANGED <<membership, roundVars, hour, keyID, trades, epochOK>>
      BY <1>10, <2>2 DEF StartEpochChain, TypeOK
    <3> QED
      BY <3>1, <3>2, <3>3 DEF TypeOK, membership, roundVars
  <2> QED
    BY <2>1, <2>2
<1>11. ASSUME NEW pk \in Blob, AdvanceEpochChain(pk) PROVE TypeOK'
  BY <1>11 DEF AdvanceEpochChain, TypeOK, membership, roundVars
<1>12. ASSUME NEW id \in Tab, NEW ct \in Blob, SubmitEpochTotal(id, ct) PROVE TypeOK'
  <2>1. CASE epoch # "audit"
    BY SMTT(30), <1>12, <2>1
       DEF SubmitEpochTotal, TypeOK, vars, membership, roundVars, epochVars, auditVars
  <2>2. CASE epoch = "audit"
    <3>1. /\ epochTotals' = [epochTotals EXCEPT ![id] = ct]
          /\ UNCHANGED <<membership, roundVars, hour, keyID, trades, epoch, epochKey,
                         epochPartials, epochOK, epochOpened, chainPos, epochParty,
                         epochAbort>>
      BY <1>12, <2>2 DEF SubmitEpochTotal
    <3>2. epochTotals' \in [Tab -> Blob \cup {None}]
      BY <3>1 DEF TypeOK
    <3> QED
      BY <3>1, <3>2 DEF TypeOK, membership, roundVars
  <2> QED
    BY <2>1, <2>2
<1>13. ASSUME NEW id \in Tab, NEW ct \in Blob, SubmitEpochPartial(id, ct) PROVE TypeOK'
  BY <1>13 DEF SubmitEpochPartial, TypeOK, membership, roundVars
<1>14. ASSUME NEW ok \in BOOLEAN, CloseEpoch(ok) PROVE TypeOK'
  BY <1>14 DEF CloseEpoch, TypeOK, membership, roundVars, auditVars
<1>15. CASE NewEpoch
  <2>1. resetLocked(peers, "waiting") /\ peers \in [Tab -> PeerRec]
    BY <1>15 DEF NewEpoch, TypeOK
  <2>2. /\ phase' \in {"waiting", "bidding", "evaluating", "offer", "settled"}
        /\ hasKeys' \in BOOLEAN
        /\ bids' \in [Seat -> Bid \cup {None}]
        /\ winnerSeat' \in Seat \cup {-1}
        /\ priceCt' \in Price \cup {0}
        /\ peers' \in [Tab -> PeerRec]
    BY <2>1, ResetType
  <2>3. trades' \in Seq(TradeRec)
    BY <1>15 DEF NewEpoch
  <2> QED
    <3>1. epochTotals' \in [Tab -> Blob \cup {None}]
      BY <1>15, NoBlobsType DEF NewEpoch
    <3>2. epochPartials' \in [Tab -> Blob \cup {None}]
      BY <1>15, NoBlobsType DEF NewEpoch
    <3>3. epochParty' \in Seq(Tab)
      BY <1>15 DEF NewEpoch
    <3>4. /\ epoch' = "open" /\ epochAbort' = FALSE
          /\ epochKey' = None /\ epochOpened' = FALSE /\ epochOK' = FALSE
          /\ chainPos' = 0 /\ UNCHANGED <<issued, order, hour, keyID>>
      BY <1>15 DEF NewEpoch
    <3> QED
      BY <2>2, <2>3, <3>1, <3>2, <3>3, <3>4 DEF TypeOK
<1>16. CASE UNCHANGED vars
  BY <1>16 DEF TypeOK, vars, membership, roundVars, epochVars, auditVars
<1> QED
  BY <1>1, <1>2, <1>3, <1>4, <1>5, <1>6, <1>7, <1>8, <1>9, <1>10, <1>11, <1>12,
     <1>13, <1>14, <1>15, <1>16 DEF Next, RoundMessage, EpochMessage, Connected

LEMMA TypeInit == Init => TypeOK
<1> SUFFICES ASSUME Init PROVE TypeOK
  OBVIOUS
<1>1. peers \in [Tab -> PeerRec]
  BY DEF Init, Gone, PeerRec
<1>2. bids \in [Seat -> Bid \cup {None}]
  BY DEF Init, NoBids
<1>3. trades \in Seq(TradeRec) /\ order \in Seq(Tab) /\ epochParty \in Seq(Tab)
  BY DEF Init
<1>4. hour \in 0 .. (Day - 1) /\ keyID \in 0 .. MaxKeyID
  BY SizeAssumption DEF Init
<1> QED
  BY <1>1, <1>2, <1>3, <1>4 DEF Init, TypeOK, NoBlobs, PeerRec, TradeRec

\* Type correctness of the relay, for any constants.
THEOREM TypeCorrect == Spec => []TypeOK
BY TypeInit, TypeStep, PTL DEF Spec

-----------------------------------------------------------------------------
\* Apart from Join and Leave a step keeps the roles, the seats, the ids and
\* their order; it can only clear seals, or set the seal of a buyer.
RolesKept ==
  /\ UNCHANGED <<issued, order>>
  /\ \A t \in Tab : /\ peers'[t].role = peers[t].role
                    /\ peers'[t].seat = peers[t].seat
                    /\ peers'[t].sealed => peers[t].sealed \/ peers[t].role = "buyer"

LEMMA UnsealedFacts ==
  ASSUME NEW ps \in [Tab -> PeerRec], NEW t \in Tab
  PROVE  /\ Unsealed(ps)[t].role = ps[t].role
         /\ Unsealed(ps)[t].seat = ps[t].seat
         /\ Unsealed(ps)[t].sealed = FALSE
BY DEF Unsealed, PeerRec

LEMMA MessageKeepsRoles ==
  ASSUME TypeOK, NEW id \in Tab, RoundMessage(id) \/ EpochMessage(id)
  PROVE  RolesKept
<1>0. peers \in [Tab -> PeerRec]
  BY DEF TypeOK, PeerRec
<1>1. CASE peers' = Unsealed(peers) /\ UNCHANGED <<issued, order>>
  BY <1>0, <1>1, UnsealedFacts DEF RolesKept
<1>2. CASE UNCHANGED <<issued, order, peers>>
  BY <1>2 DEF RolesKept
<1>3. ASSUME NEW k \in 1 .. MaxKeyID, SubmitBid(id, k), BidAccepted(id, k)
      PROVE  RolesKept
  <2>1. peers' = [peers EXCEPT ![id].sealed = TRUE] /\ UNCHANGED <<issued, order>>
    BY <1>3 DEF SubmitBid
  <2>2. \A t \in Tab : peers[t] \in PeerRec
    BY <1>0
  <2> QED
    BY <1>0, <1>3, <2>1, <2>2 DEF RolesKept, BidAccepted, PeerRec
<1>4. ASSUME RoundMessage(id)
      PROVE  \/ peers' = Unsealed(peers) /\ UNCHANGED <<issued, order>>
             \/ UNCHANGED <<issued, order, peers>>
             \/ \E k \in 1 .. MaxKeyID : SubmitBid(id, k) /\ BidAccepted(id, k)
  BY <1>4 DEF RoundMessage, PublishKeys, SubmitBid, SetMasks, Offer, Settle, Reset,
              SetHour, resetLocked, vars, membership
<1>5. ASSUME EpochMessage(id)
      PROVE  \/ peers' = Unsealed(peers) /\ UNCHANGED <<issued, order>>
             \/ UNCHANGED <<issued, order, peers>>
  BY <1>5 DEF EpochMessage, StartEpochChain, AdvanceEpochChain, SubmitEpochTotal,
              SubmitEpochPartial, CloseEpoch, NewEpoch, resetLocked, vars, membership
<1> QED
  BY <1>1, <1>2, <1>3, <1>4, <1>5

LEMMA RosterStep ==
  ASSUME TypeOK, TypeOK', RosterInv, [Next]_vars
  PROVE  RosterInv'
<1>1. CASE RolesKept
  <2>1. /\ UNCHANGED <<issued, order>>
        /\ \A t \in Tab : /\ peers'[t].role = peers[t].role
                          /\ peers'[t].seat = peers[t].seat
                          /\ peers'[t].sealed => peers[t].sealed \/ peers[t].role = "buyer"
    BY <1>1 DEF RolesKept
  <2>2. Connected' = Connected
    BY <2>1 DEF Connected
  <2>3. Members(order)' = Members(order)
    BY <2>1 DEF Members
  <2>4. \A t, u \in Tab : peers'[t].role = "seller" /\ peers'[u].role = "seller" => t = u
    BY <2>1 DEF RosterInv
  <2>5. \A t \in Tab : IF peers'[t].role = "buyer" THEN peers'[t].seat \in Seat
                       ELSE peers'[t].seat = -1 /\ ~peers'[t].sealed
    BY <2>1 DEF RosterInv
  <2> QED
    BY <2>1, <2>2, <2>3, <2>4, <2>5 DEF RosterInv
<1>2. ASSUME NEW id \in Tab, Join(id) PROVE RosterInv'
  <2>1. /\ id \notin issued /\ peers[id].role = "none" /\ id \notin Members(order)
        /\ issued' = issued \cup {id}
        /\ order' = Append(order, id)
    BY <1>2 DEF Join, RosterInv, Connected
  <2>2. \A t \in Tab \ {id} : peers'[t] = peers[t]
    BY <1>2 DEF Join, TypeOK
  <2>3. peers'[id] = Seating
    BY <1>2 DEF Join, TypeOK
  <2>4. /\ peers'[id].role \in {"seller", "buyer", "full"}
        /\ peers'[id].role = "seller" => ~HasSeller
        /\ IF peers'[id].role = "buyer" THEN peers'[id].seat \in Seat
           ELSE peers'[id].seat = -1 /\ ~peers'[id].sealed
    <3>1. CASE ~HasSeller
      BY <2>3, <3>1 DEF Seating
    <3>2. CASE HasSeller /\ buyerCount < MaxBuyers
      <4>1. buyerCount \in Seat
        BY <3>2, BuyerCountNat, SizeAssumption DEF Seat
      <4> QED
        BY <2>3, <3>2, <4>1 DEF Seating
    <3>3. CASE HasSeller /\ ~(buyerCount < MaxBuyers)
      BY <2>3, <3>3 DEF Seating
    <3> QED
      BY <3>1, <3>2, <3>3
  <2>5. Members(order') = Members(order) \cup {id}
    <3>1. Len(order) \in Nat /\ Len(order') = Len(order) + 1
      BY <2>1 DEF TypeOK
    <3>2. order'[Len(order) + 1] = id /\ \A i \in 1 .. Len(order) : order'[i] = order[i]
      BY SMTT(30), <2>1 DEF TypeOK
    <3>3. \A i \in 1 .. Len(order') : order'[i] \in Members(order) \cup {id}
      BY <3>1, <3>2 DEF Members
    <3>4. id \in Members(order')
      BY <3>1, <3>2 DEF Members
    <3>5. \A i \in 1 .. Len(order) : order[i] \in Members(order')
      BY <3>1, <3>2 DEF Members
    <3> QED
      BY <3>3, <3>4, <3>5 DEF Members
  <2>6. Connected' = Connected \cup {id}
    BY <2>2, <2>4 DEF Connected
  <2>7. \A i, j \in 1 .. Len(order') : order'[i] = order'[j] => i = j
    <3>1. Len(order') = Len(order) + 1 /\ order'[Len(order) + 1] = id
      BY SMTT(30), <2>1 DEF TypeOK
    <3>2. \A i \in 1 .. Len(order) : order'[i] = order[i] /\ order[i] # id
      <4>1. order \in Seq(Tab)
        BY DEF TypeOK
      <4>2. \A i \in 1 .. Len(order) : order[i] # id
        BY <2>1 DEF Members
      <4>3. \A i \in 1 .. Len(order) : order'[i] = order[i]
        BY <2>1, <4>1
      <4> QED
        BY <4>2, <4>3
    <3>3. \A i, j \in 1 .. Len(order) : order[i] = order[j] => i = j
      BY DEF RosterInv
    <3>4. Len(order) \in Nat
      BY DEF TypeOK
    <3> QED
      BY <3>1, <3>2, <3>3, <3>4
  <2>8. \A t, u \in Tab : peers'[t].role = "seller" /\ peers'[u].role = "seller" => t = u
    BY <2>2, <2>4 DEF RosterInv, HasSeller
  <2>9. \A t \in Tab : IF peers'[t].role = "buyer" THEN peers'[t].seat \in Seat
                       ELSE peers'[t].seat = -1 /\ ~peers'[t].sealed
    BY <2>2, <2>4 DEF RosterInv
  <2>10. Members(order') = Connected' /\ Connected' \subseteq issued'
    BY <2>1, <2>5, <2>6 DEF RosterInv
  <2> QED
    BY <2>7, <2>8, <2>9, <2>10 DEF RosterInv, Members
<1>3. ASSUME NEW id \in Tab, Leave(id) PROVE RosterInv'
  <2> DEFINE rest == [peers EXCEPT ![id] = Gone]
  <2>1. rest \in [Tab -> PeerRec]
    BY DEF TypeOK, Gone, PeerRec
  <2>2. peers' = rest \/ peers' = Unsealed(rest)
    BY <1>3 DEF Leave, resetLocked
  <2>3. \A t \in Tab : /\ peers'[t].role = rest[t].role
                       /\ peers'[t].seat = rest[t].seat
                       /\ peers'[t].sealed => rest[t].sealed
    <3> HIDE DEF rest
    <3> QED
      BY <2>1, <2>2, UnsealedFacts
  <2>4. /\ peers'[id].role = "none" /\ peers'[id].seat = -1 /\ ~peers'[id].sealed
        /\ \A t \in Tab \ {id} : /\ peers'[t].role = peers[t].role
                                 /\ peers'[t].seat = peers[t].seat
                                 /\ peers'[t].sealed => peers[t].sealed
    BY <2>3 DEF TypeOK, Gone
  <2>5. order' = Without(order, id) /\ issued' = issued
    BY <1>3 DEF Leave
  <2>6. order \in Seq(Tab) /\ \A i, j \in 1 .. Len(order) : order[i] = order[j] => i = j
    BY DEF TypeOK, RosterInv
  <2>7. /\ Members(order') = Members(order) \ {id}
        /\ \A i, j \in 1 .. Len(order') : order'[i] = order'[j] => i = j
    BY <2>5, <2>6, WithoutFacts
  <2>8. Connected' = Connected \ {id}
    BY <2>4 DEF Connected
  <2>9. Members(order') = Connected' /\ Connected' \subseteq issued'
    BY <2>5, <2>7, <2>8 DEF RosterInv
  <2>10. \A t, u \in Tab : peers'[t].role = "seller" /\ peers'[u].role = "seller" => t = u
    BY <2>4 DEF RosterInv
  <2>11. \A t \in Tab : IF peers'[t].role = "buyer" THEN peers'[t].seat \in Seat
                        ELSE peers'[t].seat = -1 /\ ~peers'[t].sealed
    BY <2>4 DEF RosterInv
  <2> QED
    BY <2>7, <2>9, <2>10, <2>11 DEF RosterInv, Members
<1>4. CASE UNCHANGED vars
  <2>1. RolesKept
    BY <1>4 DEF RolesKept, vars, membership
  <2> QED
    BY <1>1, <2>1
<1> QED
  BY <1>1, <1>2, <1>3, <1>4, MessageKeepsRoles DEF Next, Connected

-----------------------------------------------------------------------------
\* Without bids there are no seals to answer for.
LEMMA NoBidsLive ==
  ASSUME bids' = NoBids, \A t \in Tab : ~peers'[t].sealed
  PROVE  BidsLive'
BY DEF BidsLive, NoBids, Stored

LEMMA BidsLiveStep ==
  ASSUME TypeOK, TypeOK', RosterInv, BidsLive, [Next]_vars
  PROVE  BidsLive'
<1>0. peers \in [Tab -> PeerRec] /\ bids \in [Seat -> Bid \cup {None}]
  BY DEF TypeOK, PeerRec
<1>1. CASE UNCHANGED <<bids, peers, keyID>>
  BY <1>1 DEF BidsLive, Stored
<1>2. CASE bids' = NoBids /\ peers' = Unsealed(peers)
  BY <1>0, <1>2, NoBidsLive, UnsealedFacts
<1>3. ASSUME NEW id \in Tab, Join(id) PROVE BidsLive'
  <2>1. \A t \in Tab \ {id} : peers'[t] = peers[t]
    BY <1>3 DEF Join, TypeOK
  <2>2. peers[id].role = "none" /\ ~peers'[id].sealed
    <3>1. peers[id].role = "none"
      BY <1>3 DEF Join, RosterInv, Connected
    <3>2. peers'[id] = Seating
      BY <1>3 DEF Join, TypeOK
    <3>3. ~Seating.sealed
      BY DEF Seating
    <3> QED
      BY <3>1, <3>2, <3>3
  <2>3. \A s \in Stored(bids) : bids[s].by \in Tab \ {id}
    BY <1>0, <2>2 DEF BidsLive, Stored, Bid
  <2>4. bids' = bids /\ keyID' = keyID
    BY <1>3 DEF Join, roundVars
  <2> QED
    <3>1. Stored(bids') = Stored(bids)
      BY <2>4
    <3>2. ASSUME NEW s \in Stored(bids)
          PROVE  bids'[s] = bids[s] /\ peers'[bids[s].by] = peers[bids[s].by]
      BY <2>1, <2>3, <2>4
    <3>3. ASSUME NEW t \in Tab, peers'[t].sealed
          PROVE  t # id /\ peers'[t] = peers[t]
      BY <2>1, <2>2, <3>3
    <3> QED
      BY <2>4, <3>1, <3>2, <3>3 DEF BidsLive
<1>4. ASSUME NEW id \in Tab, Leave(id) PROVE BidsLive'
  <2> DEFINE rest == [peers EXCEPT ![id] = Gone]
  <2>1. rest \in [Tab -> PeerRec]
    BY DEF TypeOK, Gone, PeerRec
  <2>2. CASE resetLocked(rest, "waiting")
    <3>1. bids' = NoBids /\ peers' = Unsealed(rest)
      BY <2>2 DEF resetLocked
    <3> HIDE DEF rest
    <3> QED
      BY <2>1, <3>1, NoBidsLive, UnsealedFacts
  <2>3. CASE ~peers[id].sealed /\ peers' = rest /\ UNCHANGED roundVars
    <3>1. /\ \A t \in Tab \ {id} : peers'[t] = peers[t]
          /\ ~peers'[id].sealed
      BY <1>0, <2>3 DEF Gone
    <3>2. \A s \in Stored(bids) : bids[s].by \in Tab \ {id}
      BY <1>0, <2>3 DEF BidsLive, Stored, Bid
    <3>3. bids' = bids /\ keyID' = keyID
      BY <1>4, <2>3 DEF Leave, roundVars
    <3> QED
      BY <3>1, <3>2, <3>3 DEF BidsLive, Stored
  <2> QED
    BY <1>4, <2>2, <2>3 DEF Leave
<1>5. ASSUME NEW id \in Tab, NEW k \in 1 .. MaxKeyID, SubmitBid(id, k), BidAccepted(id, k)
      PROVE  BidsLive'
  <2> DEFINE here == peers[id].seat
  <2>1. peers[id].role = "buyer" /\ k = keyID /\ here \in Seat
    BY <1>5 DEF BidAccepted, RosterInv
  <2>2. /\ bids' = [bids EXCEPT ![here] = [by |-> id, key |-> k]]
        /\ peers' = [peers EXCEPT ![id].sealed = TRUE]
        /\ keyID' = keyID
    BY <1>5 DEF SubmitBid
  <2>3. /\ bids'[here] = [by |-> id, key |-> k]
        /\ \A s \in Seat \ {here} : bids'[s] = bids[s]
    BY <1>0, <2>1, <2>2
  <2>4. /\ peers'[id].role = "buyer" /\ peers'[id].seat = here /\ peers'[id].sealed
        /\ \A t \in Tab \ {id} : peers'[t] = peers[t]
    BY <1>0, <2>1, <2>2 DEF PeerRec
  <2>5. bids'[here] # None
    BY SMTT(30), <2>3, NoneAssumption DEF Bid
  <2>6. ASSUME NEW s \in Stored(bids')
        PROVE  /\ bids'[s].key = keyID' /\ peers'[bids'[s].by].role = "buyer"
               /\ peers'[bids'[s].by].seat = s /\ peers'[bids'[s].by].sealed
    <3>1. CASE s = here
      BY <2>1, <2>2, <2>3, <2>4, <3>1
    <3>2. CASE s # here
      <4>1. s \in Stored(bids) /\ bids'[s] = bids[s] /\ bids[s].by \in Tab
        BY <1>0, <2>3, <2>6, <3>2 DEF Stored, Bid
      <4> QED
        BY <2>2, <2>4, <3>2, <4>1 DEF BidsLive
    <3> QED
      BY <3>1, <3>2
  <2>7. \A t \in Tab : peers'[t].sealed => bids'[peers'[t].seat] # None
    <3> TAKE t \in Tab
    <3> SUFFICES ASSUME peers'[t].sealed, t # id PROVE bids'[peers'[t].seat] # None
      BY <2>4, <2>5
    <3>1. peers'[t] = peers[t] /\ bids[peers[t].seat] # None /\ peers[t].seat \in Seat
      BY <2>4 DEF BidsLive, RosterInv
    <3> QED
      BY <2>3, <2>5, <3>1
  <2> QED
    BY <2>6, <2>7 DEF BidsLive, Stored
<1>6. ASSUME NEW id \in Tab, RoundMessage(id)
      PROVE  \/ UNCHANGED <<bids, peers, keyID>>
             \/ bids' = NoBids /\ peers' = Unsealed(peers)
             \/ \E k \in 1 .. MaxKeyID : SubmitBid(id, k) /\ BidAccepted(id, k)
  BY <1>6 DEF RoundMessage, PublishKeys, SubmitBid, SetMasks, Offer, Settle, Reset,
              SetHour, resetLocked, vars, membership, roundVars
<1>7. ASSUME NEW id \in Tab, EpochMessage(id)
      PROVE  \/ UNCHANGED <<bids, peers, keyID>>
             \/ bids' = NoBids /\ peers' = Unsealed(peers)
  BY <1>7 DEF EpochMessage, StartEpochChain, AdvanceEpochChain, SubmitEpochTotal,
              SubmitEpochPartial, CloseEpoch, NewEpoch, resetLocked, vars, membership,
              roundVars
<1>8. CASE UNCHANGED vars
  BY <1>1, <1>8 DEF vars, membership, roundVars
<1> QED
  BY <1>1, <1>2, <1>3, <1>4, <1>5, <1>6, <1>7, <1>8 DEF Next, Connected

-----------------------------------------------------------------------------
\* A reset leaves nothing of the round behind.
LEMMA ResetShape ==
  ASSUME NEW ps, NEW ph \in {"waiting", "settled"}, resetLocked(ps, ph)
  PROVE  RoundShape'
BY DEF resetLocked, RoundShape, NoBids, Stored

LEMMA RoundShapeStep ==
  ASSUME TypeOK, RosterInv, RoundShape, [Next]_vars
  PROVE  RoundShape'
<1>1. CASE UNCHANGED roundVars
  BY <1>1 DEF roundVars, RoundShape, Stored
<1>2. ASSUME NEW id \in Tab, Leave(id) PROVE RoundShape'
  BY <1>1, <1>2, ResetShape DEF Leave
<1>3. CASE PublishKeys
  BY <1>3 DEF PublishKeys, RoundShape
<1>4. ASSUME NEW id \in Tab, NEW k \in 1 .. MaxKeyID, SubmitBid(id, k) PROVE RoundShape'
  <2>1. CASE BidAccepted(id, k)
    <3>1. phase' \in {"bidding", "evaluating"} /\ UNCHANGED <<hasKeys, winnerSeat, priceCt>>
      BY <1>4, <2>1 DEF SubmitBid, BidAccepted
    <3>2. hasKeys /\ winnerSeat = -1
      BY <2>1 DEF BidAccepted, RoundShape
    <3>3. peers[id].seat \in Seat
      BY <2>1 DEF BidAccepted, RosterInv
    <3>4. bids'[peers[id].seat] = [by |-> id, key |-> k]
      BY <1>4, <2>1, <3>3 DEF SubmitBid, TypeOK
    <3>5. peers[id].seat \in Stored(bids')
      BY <3>3, <3>4, NoneAssumption DEF Stored, Bid
    <3> QED
      BY <3>1, <3>2, <3>5 DEF RoundShape, Stored
  <2>2. CASE ~BidAccepted(id, k)
    BY <1>1, <1>4, <2>2 DEF SubmitBid, vars
  <2> QED
    BY <2>1, <2>2
<1>5. CASE SetMasks
  BY <1>5 DEF SetMasks, RoundShape
<1>6. ASSUME NEW seat \in Seat, NEW price \in Price, Offer(seat, price) PROVE RoundShape'
  BY <1>6 DEF Offer, RoundShape
<1>7. ASSUME NEW accepted \in BOOLEAN, Settle(accepted) PROVE RoundShape'
  BY <1>1, <1>7, ResetShape DEF Settle, vars
<1>8. CASE Reset
  BY <1>8, ResetShape DEF Reset
<1>9. ASSUME NEW h \in HourInput, SetHour(h) PROVE RoundShape'
  BY <1>9, ResetShape DEF SetHour
<1>10. CASE NewEpoch
  BY <1>10, ResetShape DEF NewEpoch
<1>11. ASSUME NEW id \in Tab, EpochMessage(id), ~NewEpoch PROVE UNCHANGED roundVars
  BY <1>11 DEF EpochMessage, StartEpochChain, AdvanceEpochChain, SubmitEpochTotal,
               SubmitEpochPartial, CloseEpoch, vars
<1>12. ASSUME NEW id \in Tab, Join(id) PROVE UNCHANGED roundVars
  BY <1>12 DEF Join
<1> QED
  BY <1>1, <1>2, <1>3, <1>4, <1>5, <1>6, <1>7, <1>8, <1>9, <1>10, <1>11, <1>12
     DEF Next, RoundMessage, Connected, vars

-----------------------------------------------------------------------------
LEMMA AuditPartyStep ==
  ASSUME TypeOK, RosterInv, AuditParty, [Next]_vars
  PROVE  AuditParty'
<1>1. ASSUME UNCHANGED <<epoch, epochParty>>, Connected \subseteq Connected'
      PROVE  AuditParty'
  BY <1>1 DEF AuditParty, Members
<1>2. CASE epoch' # "audit"
  BY <1>2 DEF AuditParty
<1>3. ASSUME NEW id \in Tab, Join(id) PROVE AuditParty'
  <2>1. Connected \subseteq Connected'
    <3>1. \A t \in Tab \ {id} : peers'[t] = peers[t]
      BY <1>3 DEF Join, TypeOK
    <3>2. peers[id].role = "none"
      BY <1>3 DEF Join, RosterInv, Connected
    <3> QED
      BY <3>1, <3>2 DEF Connected
  <2> QED
    BY <1>1, <1>3, <2>1 DEF Join, epochVars, auditVars
<1>4. ASSUME NEW id \in Tab, Leave(id) PROVE AuditParty'
  <2>1. CASE epoch = "audit" /\ id \in Members(epochParty)
    BY <1>2, <1>4, <2>1 DEF Leave, AbortAudit
  <2>2. CASE ~(epoch = "audit" /\ id \in Members(epochParty))
    <3> DEFINE rest == [peers EXCEPT ![id] = Gone]
    <3>1. UNCHANGED <<epoch, epochParty>>
      BY <1>4, <2>2 DEF Leave, AbortAudit, auditVars
    <3>2. rest \in [Tab -> PeerRec] /\ (peers' = rest \/ peers' = Unsealed(rest))
      BY <1>4 DEF TypeOK, Gone, PeerRec, Leave, resetLocked
    <3>3. \A t \in Tab : peers'[t].role = rest[t].role
      <4> HIDE DEF rest
      <4> QED
        BY <3>2, UnsealedFacts
    <3>4. \A t \in Tab \ {id} : peers'[t].role = peers[t].role
      BY <3>3 DEF TypeOK
    <3>5. Connected \ {id} \subseteq Connected'
      BY <3>4 DEF Connected
    <3> QED
      BY <2>2, <3>1, <3>5 DEF AuditParty, Members
  <2> QED
    BY <2>1, <2>2
<1>5. ASSUME NEW id \in Connected, StartEpochChain PROVE AuditParty'
  <2>1. CASE epoch = "audit"
    BY <1>1, <1>5, <2>1
       DEF StartEpochChain, vars, epochVars, auditVars, membership, Connected
  <2>2. CASE epoch # "audit"
    <3>1. epochParty' = order /\ UNCHANGED <<order, peers>>
      BY <1>5, <2>2 DEF StartEpochChain, membership
    <3>2. id \in Members(order)
      BY <1>5 DEF RosterInv
    <3>3. order # <<>>
      BY <3>2 DEF Members
    <3> QED
      BY <3>1, <3>3 DEF AuditParty, RosterInv, Members, Connected
  <2> QED
    BY <2>1, <2>2
<1>6. ASSUME NEW id \in Tab, RoundMessage(id) \/ EpochMessage(id), ~StartEpochChain
      PROVE  AuditParty'
  <2>1. Connected = Connected'
    BY <1>6, MessageKeepsRoles DEF RolesKept, Connected
  <2>2. UNCHANGED epochParty \/ epoch' # "audit"
    BY <1>6 DEF RoundMessage, PublishKeys, SubmitBid, SetMasks, Offer, Settle, Reset,
                SetHour, EpochMessage, AdvanceEpochChain, SubmitEpochTotal,
                SubmitEpochPartial, CloseEpoch, NewEpoch, vars, epochVars, auditVars
  <2>3. epoch' = "audit" => epoch = "audit"
    BY <1>6 DEF RoundMessage, PublishKeys, SubmitBid, SetMasks, Offer, Settle, Reset,
                SetHour, EpochMessage, AdvanceEpochChain, SubmitEpochTotal,
                SubmitEpochPartial, CloseEpoch, NewEpoch, vars, epochVars, auditVars
  <2> QED
    BY <2>1, <2>2, <2>3 DEF AuditParty, Members
<1>7. CASE UNCHANGED vars
  BY <1>1, <1>7 DEF vars, epochVars, auditVars, membership, Connected
<1> QED
  BY <1>3, <1>4, <1>5, <1>6, <1>7 DEF Next, Connected

LEMMA AuditShapeStep ==
  ASSUME TypeOK, AuditShape, [Next]_vars
  PROVE  AuditShape'
<1>1. CASE UNCHANGED <<epoch, epochTotals, epochOpened>>
  BY <1>1 DEF AuditShape
<1>2. ASSUME NEW id \in Tab, Leave(id) PROVE AuditShape'
  <2>1. CASE epoch = "audit" /\ id \in Members(epochParty)
    BY <1>2, <2>1 DEF Leave, AbortAudit, AuditShape, NoBlobs
  <2>2. CASE ~(epoch = "audit" /\ id \in Members(epochParty))
    BY <1>1, <1>2, <2>2 DEF Leave, AbortAudit, auditVars
  <2> QED
    BY <2>1, <2>2
<1>3. ASSUME NEW accepted \in BOOLEAN, Settle(accepted) PROVE AuditShape'
  <2>1. UNCHANGED <<epochTotals, epochOpened>>
    BY <1>3 DEF Settle, vars, epochVars, auditVars
  <2>2. epoch' = epoch \/ (epoch = "open" /\ epoch' = "ready")
    BY <1>3 DEF Settle, vars, epochVars
  <2> QED
    BY <2>1, <2>2 DEF AuditShape
<1>4. CASE StartEpochChain
  <2>1. CASE epoch = "audit"
    BY <1>1, <1>4, <2>1 DEF StartEpochChain, vars, epochVars, auditVars
  <2>2. CASE epoch # "audit"
    BY <1>4, <2>2 DEF StartEpochChain, AuditShape
  <2> QED
    BY <2>1, <2>2
<1>5. ASSUME NEW id \in Tab, NEW ct \in Blob, SubmitEpochTotal(id, ct) PROVE AuditShape'
  <2>1. CASE epoch = "audit"
    BY <1>5, <2>1 DEF SubmitEpochTotal, AuditShape
  <2>2. CASE epoch # "audit"
    BY <1>1, <1>5, <2>2 DEF SubmitEpochTotal, vars, epochVars, auditVars
  <2> QED
    BY <2>1, <2>2
<1>6. ASSUME NEW ok \in BOOLEAN, CloseEpoch(ok) PROVE AuditShape'
  BY <1>6 DEF CloseEpoch, AuditShape
<1>7. CASE NewEpoch
  BY <1>7 DEF NewEpoch, AuditShape, NoBlobs
<1>8. ASSUME NEW ct \in Blob, NEW id \in Tab, AdvanceEpochChain(ct) \/ SubmitEpochPartial(id, ct)
      PROVE  UNCHANGED <<epoch, epochTotals, epochOpened>>
  BY <1>8 DEF AdvanceEpochChain, SubmitEpochPartial
<1>9. ASSUME NEW id \in Tab, RoundMessage(id), \A accepted \in BOOLEAN : ~Settle(accepted)
      PROVE  UNCHANGED <<epoch, epochTotals, epochOpened>>
  BY <1>9 DEF RoundMessage, PublishKeys, SubmitBid, SetMasks, Offer, Reset, SetHour,
              vars, epochVars, auditVars
<1>10. ASSUME NEW id \in Tab, Join(id) PROVE UNCHANGED <<epoch, epochTotals, epochOpened>>
  BY <1>10 DEF Join, epochVars, auditVars
<1>11. CASE UNCHANGED vars
  BY <1>1, <1>11 DEF vars, epochVars, auditVars
<1> QED
  BY <1>1, <1>2, <1>3, <1>4, <1>5, <1>6, <1>7, <1>8, <1>9, <1>10, <1>11
     DEF Next, EpochMessage, Connected

-----------------------------------------------------------------------------
LEMMA RelayInit == Init => RelayInv
<1> SUFFICES ASSUME Init PROVE RelayInv
  OBVIOUS
<1>1. TypeOK
  BY TypeInit
<1>2. \A t \in Tab : peers[t] = Gone
  BY DEF Init
<1>3. Connected = {} /\ Members(order) = {}
  BY <1>2 DEF Connected, Gone, Init, Members
<1>4. RosterInv
  BY <1>2, <1>3 DEF RosterInv, Gone, Init
<1>5. BidsLive
  BY <1>2 DEF BidsLive, Gone, Init, NoBids, Stored
<1>6. RoundShape /\ AuditParty /\ AuditShape
  BY DEF RoundShape, AuditParty, AuditShape, Init, NoBids, NoBlobs, Stored
<1> QED
  BY <1>1, <1>4, <1>5, <1>6 DEF RelayInv

LEMMA RelayStep == RelayInv /\ [Next]_vars => RelayInv'
<1> SUFFICES ASSUME RelayInv, [Next]_vars PROVE RelayInv'
  OBVIOUS
<1>1. TypeOK'
  BY TypeStep DEF RelayInv
<1> QED
  BY <1>1, RosterStep, BidsLiveStep, RoundShapeStep, AuditPartyStep, AuditShapeStep
     DEF RelayInv

\* The inductive invariant of the relay, for any constants.
THEOREM RelayCorrect == Spec => []RelayInv
BY RelayInit, RelayStep, PTL DEF Spec

\* Order and peers agree and there is one seller, however tabs come and go.
THEOREM RosterCorrect == Spec => []RosterInv
<1>1. RelayInv => RosterInv
  BY DEF RelayInv
<1> QED
  BY <1>1, RelayCorrect, PTL

\* Every stored bid is of the running round and of a buyer still in its seat.
THEOREM BidsCorrect == Spec => []BidsLive
<1>1. RelayInv => BidsLive
  BY DEF RelayInv
<1> QED
  BY <1>1, RelayCorrect, PTL

\* Nothing of a round outlives it.
THEOREM RoundCorrect == Spec => []RoundShape
<1>1. RelayInv => RoundShape
  BY DEF RelayInv
<1> QED
  BY <1>1, RelayCorrect, PTL

\* A running audit's frozen set is connected, without repetition, not empty.
THEOREM AuditCorrect == Spec => []AuditParty
<1>1. RelayInv => AuditParty
  BY DEF RelayInv
<1> QED
  BY <1>1, RelayCorrect, PTL

\* A result is shown only for a finished audit, and totals never outlive one.
THEOREM AuditShapeCorrect == Spec => []AuditShape
<1>1. RelayInv => AuditShape
  BY DEF RelayInv
<1> QED
  BY <1>1, RelayCorrect, PTL

-----------------------------------------------------------------------------
\* The step OneTradePerOffer allows.
TradeStep ==
  trades' # trades =>
    \/ trades' = <<>> /\ epoch' = "open"
    \/ /\ Tail(trades') = trades
       /\ trades'[1].seat = winnerSeat /\ trades'[1].slot = hour
       /\ winnerSeat' = -1 /\ hour' = (hour + 1) % Day

LEMMA TradeStepHolds ==
  ASSUME TypeOK, [Next]_vars
  PROVE  TradeStep
<1>1. CASE UNCHANGED trades
  BY <1>1 DEF TradeStep
<1>2. ASSUME NEW accepted \in BOOLEAN, Settle(accepted) PROVE TradeStep
  <2>1. CASE winnerSeat < 0
    BY <1>1, <1>2, <2>1 DEF Settle, vars
  <2>2. CASE ~(winnerSeat < 0)
    <3> DEFINE t == [slot |-> hour, price |-> priceCt, accepted |-> accepted,
                     bidders |-> Cardinality(Stored(bids)), seat |-> winnerSeat]
    <3>1. /\ trades' = <<t>> \o trades /\ hour' = (hour + 1) % Day
          /\ winnerSeat' = -1
      BY <1>2, <2>2 DEF Settle, resetLocked
    <3>2. t.seat = winnerSeat /\ t.slot = hour
      OBVIOUS
    <3>3. trades \in Seq(TradeRec)
      BY DEF TypeOK, TradeRec
    <3> HIDE DEF t, TradeRec
    <3>4. (<<t>> \o trades)[1] = t /\ Tail(<<t>> \o trades) = trades
      BY <3>3
    <3> QED
      BY <3>1, <3>2, <3>4 DEF TradeStep
  <2> QED
    BY <2>1, <2>2
<1>3. CASE NewEpoch
  BY <1>3 DEF NewEpoch, TradeStep
<1>4. ASSUME NEW id \in Tab, RoundMessage(id), \A accepted \in BOOLEAN : ~Settle(accepted)
      PROVE  UNCHANGED trades
  BY <1>4 DEF RoundMessage, PublishKeys, SubmitBid, SetMasks, Offer, Reset, SetHour, vars
<1>5. ASSUME NEW id \in Tab, EpochMessage(id), ~NewEpoch PROVE UNCHANGED trades
  BY <1>5 DEF EpochMessage, StartEpochChain, AdvanceEpochChain, SubmitEpochTotal,
              SubmitEpochPartial, CloseEpoch, vars
<1>6. ASSUME NEW id \in Tab, Join(id) \/ Leave(id) PROVE UNCHANGED trades
  BY <1>6 DEF Join, Leave
<1> QED
  BY <1>1, <1>2, <1>3, <1>4, <1>5, <1>6 DEF Next, Connected, vars

\* The log: one entry per settled offer, in slot order, cleared only whole.
THEOREM TradesCorrect == Spec => OneTradePerOffer
<1>1. TypeOK /\ [Next]_vars => [TradeStep]_vars
  BY TradeStepHolds
<1>2. Spec => [][TradeStep]_vars
  BY <1>1, TypeCorrect, PTL DEF Spec
<1> QED
  BY <1>2 DEF OneTradePerOffer, TradeStep

-----------------------------------------------------------------------------
\* The step StrandedForCause allows.
StrandStep ==
  ~Stranded /\ Stranded' =>
    \/ \E t \in Buyers : ~peers[t].sealed /\ t \notin Connected'
    \/ ~SeatsUnique

\* Bids stored under seats of their own are as many as the buyers they are of.
LEMMA SeatsCount ==
  ASSUME NEW B, NEW b, NEW f \in [B -> Stored(b)], \A t, u \in B : f[t] = f[u] => t = u
  PROVE  Cardinality(B) <= Cardinality(Stored(b))
<1>1. f \in Injection(B, Stored(b))
  BY DEF Injection, IsInjective
<1>2. IsFiniteSet(Seat)
  BY SizeAssumption, FS_Interval DEF Seat
<1>3. IsFiniteSet(Stored(b))
  BY <1>2, FS_Subset DEF Stored
<1> QED
  BY <1>1, <1>3, FS_Injection

LEMMA StrandStepHolds ==
  ASSUME RelayInv, RelayInv', [Next]_vars
  PROVE  StrandStep
<1>0. peers \in [Tab -> PeerRec] /\ peers' \in [Tab -> PeerRec]
  BY DEF RelayInv, TypeOK, PeerRec
<1>1. CASE UNCHANGED <<peers, phase>>
  BY <1>1 DEF StrandStep, Stranded, Buyers
<1>2. CASE phase' # "bidding"
  BY <1>2 DEF StrandStep, Stranded
<1>3. CASE peers' = Unsealed(peers)
  BY <1>0, <1>3, UnsealedFacts DEF StrandStep, Stranded, Buyers
<1>4. ASSUME NEW id \in Tab, Join(id) PROVE StrandStep
  <2>1. /\ peers' = [peers EXCEPT ![id] = Seating] /\ UNCHANGED phase
        /\ id \notin Buyers
    BY <1>4 DEF Join, RelayInv, RosterInv, Connected, Buyers, roundVars
  <2>2. ~Seating.sealed
    BY DEF Seating
  <2>3. peers'[id] = Seating /\ \A t \in Tab \ {id} : peers'[t] = peers[t]
    BY <1>0, <2>1
  <2>4. ASSUME Stranded' PROVE Buyers' = Buyers
    <3>1. peers'[id].role # "buyer"
      BY <2>2, <2>3, <2>4 DEF Stranded, Buyers
    <3> QED
      BY <2>1, <2>3, <3>1 DEF Buyers
  <2> QED
    BY <2>1, <2>3, <2>4 DEF StrandStep, Stranded, Buyers
<1>5. ASSUME NEW id \in Tab, Leave(id), phase' = "bidding" PROVE StrandStep
  <2>1. /\ peers' = [peers EXCEPT ![id] = Gone] /\ UNCHANGED phase
        /\ ~peers[id].sealed
    BY <1>5 DEF Leave, resetLocked, roundVars
  <2>2. peers'[id] = Gone /\ \A t \in Tab \ {id} : peers'[t] = peers[t]
    BY <1>0, <2>1
  <2>3. id \notin Connected' /\ Buyers' = Buyers \ {id}
    <3>0. Gone.role = "none"
      BY DEF Gone
    <3>1. peers'[id].role = "none"
      BY <2>2, <3>0
    <3>2. id \notin Connected'
      BY <3>1 DEF Connected
    <3>3. \A t \in Tab : t \in Buyers' <=> t \in Buyers /\ t # id
      BY <2>2, <3>1 DEF Buyers
    <3> QED
      BY <3>2, <3>3 DEF Buyers
  <2>4. ASSUME ~Stranded, Stranded' PROVE id \in Buyers
    <3>1. SUFFICES ASSUME id \notin Buyers PROVE FALSE
      OBVIOUS
    <3>2. Buyers' = Buyers /\ \A t \in Buyers : peers'[t] = peers[t]
      BY <2>2, <2>3, <3>1 DEF Buyers
    <3> QED
      BY <2>1, <2>4, <3>2 DEF Stranded
  <2> QED
    BY <2>1, <2>3, <2>4 DEF StrandStep
<1>6. ASSUME NEW id \in Tab, NEW k \in 1 .. MaxKeyID, SubmitBid(id, k), BidAccepted(id, k)
      PROVE  StrandStep
  <2>1. /\ peers' = [peers EXCEPT ![id].sealed = TRUE]
        /\ phase' = IF Cardinality(Stored(bids')) < buyerCount THEN phase ELSE "evaluating"
    BY <1>6 DEF SubmitBid
  <2>2. \A t \in Tab : peers'[t].role = peers[t].role /\ peers'[t].seat = peers[t].seat
    BY <1>0, <2>1 DEF PeerRec
  <2>3. Buyers' = Buyers /\ buyerCount' = buyerCount
    BY <2>2 DEF Buyers, buyerCount
  <2>4. buyerCount \in Nat /\ Cardinality(Stored(bids')) \in Nat
    BY BuyerCountNat, StoredNat
  <2>5. CASE SeatsUnique /\ Stranded'
    <3> DEFINE f == [t \in Buyers |-> peers'[t].seat]
    <3>1. \A t \in Buyers : peers'[t].seat \in Stored(bids')
      BY <2>3, <2>5 DEF Stranded, RelayInv, RosterInv, BidsLive, Stored, Buyers
    <3>2. f \in [Buyers -> Stored(bids')] /\ \A t, u \in Buyers : f[t] = f[u] => t = u
      BY <2>2, <2>5, <3>1 DEF SeatsUnique, Buyers
    <3> HIDE DEF f
    <3>3. buyerCount <= Cardinality(Stored(bids'))
      BY <3>2, SeatsCount DEF buyerCount
    <3>4. ~(Cardinality(Stored(bids')) < buyerCount)
      BY <2>4, <3>3
    <3> QED
      BY <1>2, <2>1, <3>4
  <2> QED
    BY <2>5 DEF StrandStep
<1>7. ASSUME NEW id \in Tab, RoundMessage(id)
      PROVE  \/ UNCHANGED <<peers, phase>> \/ phase' # "bidding" \/ peers' = Unsealed(peers)
             \/ \E k \in 1 .. MaxKeyID : SubmitBid(id, k) /\ BidAccepted(id, k)
  BY <1>7 DEF RoundMessage, PublishKeys, SubmitBid, SetMasks, Offer, Settle, Reset,
              SetHour, resetLocked, vars, membership, roundVars
<1>8. ASSUME NEW id \in Tab, EpochMessage(id)
      PROVE  UNCHANGED <<peers, phase>> \/ peers' = Unsealed(peers)
  BY <1>8 DEF EpochMessage, StartEpochChain, AdvanceEpochChain, SubmitEpochTotal,
              SubmitEpochPartial, CloseEpoch, NewEpoch, resetLocked, vars, membership,
              roundVars
<1>9. CASE UNCHANGED vars
  BY <1>1, <1>9 DEF vars, membership, roundVars
<1> QED
  BY <1>1, <1>2, <1>3, <1>4, <1>5, <1>6, <1>7, <1>8, <1>9 DEF Next, Connected

\* A round is stranded only by a buyer that leaves without a bid or by a seat
\* two buyers share.
THEOREM StrandedCorrect == Spec => StrandedForCause
<1>1. RelayInv /\ RelayInv' /\ [Next]_vars => [StrandStep]_vars
  BY StrandStepHolds
<1>2. Spec => [][StrandStep]_vars
  BY <1>1, RelayCorrect, PTL DEF Spec
<1> QED
  BY <1>2 DEF StrandedForCause, StrandStep
=============================================================================

------------------------------ MODULE Auction ------------------------------
(***************************************************************************)
(* The state of the energy-auction relay and one action per method of its  *)
(* Auction type (examples/energy_auction/auction.go).  Every method takes  *)
(* a.mu, so a method is one atomic step.  The relay does not restrict who  *)
(* sends which message when; Next lets any connected tab's message arrive  *)
(* at any time, and the modules that add the tabs narrow that down.        *)
(*                                                                         *)
(* Ciphertexts and keys are opaque to the relay.  A stored bid is reduced  *)
(* to who sealed it and under which round key; epoch key, totals and       *)
(* shares are values of Blob; maps are total functions with None for an    *)
(* absent key.  pubKey and evalKey are set and cleared together and are    *)
(* one flag; masks is written and never read, and is left out, as are the  *)
(* wall-clock time of a trade and the figure epochNet.                     *)
(***************************************************************************)
EXTENDS Integers, Sequences, FiniteSets

CONSTANTS
  Tab,        \* connection ids the hub can hand out ("p1", "p2", ...)
  None,       \* the absent entry of a map
  Blob,       \* opaque epoch material: keys, totals, decryption shares
  Price,      \* prices an offer can carry
  HourInput,  \* hours a tab can ask for
  MaxBuyers,  \* auction.go: MaxBuyers = 5
  EpochSize,  \* auction.go: EpochSize = 5
  Day,        \* delivery slots in a day: 24 in the code
  StartHour,  \* NewAuction: 13
  MaxKeyID,   \* bound on keyID
  MaxTrades,  \* bound on the length of the log
  MaxChain    \* bound on chainPos

Seat == 0 .. (MaxBuyers - 1)
Bid == [by : Tab, key : 1 .. MaxKeyID]

ASSUME SizeAssumption ==
  /\ MaxBuyers \in Nat \ {0}
  /\ EpochSize \in Nat \ {0}
  /\ Day \in Nat \ {0}
  /\ StartHour \in 0 .. (Day - 1)
  /\ MaxKeyID \in Nat
  /\ MaxTrades \in Nat
  /\ MaxChain \in Nat
ASSUME TabAssumption == IsFiniteSet(Tab)
ASSUME NoneAssumption == None \notin Tab /\ None \notin Blob /\ None \notin Bid
ASSUME InputAssumption == Price \subseteq Nat /\ HourInput \subseteq Int

VARIABLES
  issued,        \* ids the hub has handed out; none is handed out twice
  hour, phase,
  peers,         \* id -> role, seat, sealed; role "none" when not connected
  order,         \* connected ids in the order they joined
  hasKeys,       \* pubKey and evalKey are held
  bids,          \* seat -> Bid or None
  keyID, winnerSeat, priceCt,
  trades,        \* the log, newest first
  epoch, epochKey, epochTotals, epochOK, epochOpened,
  chainPos, epochPartials, epochParty, epochAbort

membership == <<issued, peers, order>>
roundVars == <<phase, hasKeys, bids, winnerSeat, priceCt>>
auditVars == <<epochTotals, epochPartials, epochParty, chainPos, epochAbort>>
epochVars == <<auditVars, epoch, epochKey, epochOK, epochOpened>>
vars == <<membership, roundVars, epochVars, hour, keyID, trades>>

-----------------------------------------------------------------------------
Gone == [role |-> "none", seat |-> -1, sealed |-> FALSE]
NoBids == [s \in Seat |-> None]
NoBlobs == [t \in Tab |-> None]

Members(s) == {s[i] : i \in 1 .. Len(s)}

Connected == {t \in Tab : peers[t].role # "none"}
Buyers == {t \in Tab : peers[t].role = "buyer"}
HasSeller == \E t \in Tab : peers[t].role = "seller"
buyerCount == Cardinality(Buyers)
Stored(b) == {s \in Seat : b[s] # None}

\* The slice surgery of Leave: drop the first entry equal to id.
Without(s, id) ==
  IF id \in Members(s)
    THEN LET i == CHOOSE j \in 1 .. Len(s) :
                    s[j] = id /\ \A k \in 1 .. (j - 1) : s[k] # id
         IN  [j \in 1 .. (Len(s) - 1) |-> IF j < i THEN s[j] ELSE s[j + 1]]
    ELSE s

\* The buyer that runs the argmax: the first one in join order.
Evaluator ==
  IF \E i \in 1 .. Len(order) : peers[order[i]].role = "buyer"
    THEN order[CHOOSE i \in 1 .. Len(order) :
                 /\ peers[order[i]].role = "buyer"
                 /\ \A k \in 1 .. (i - 1) : peers[order[k]].role # "buyer"]
    ELSE None

\* The seats handed to the evaluator and to the seller, in ascending order.
OrderedBids ==
  [i \in 1 .. Cardinality(Stored(bids)) |->
     CHOOSE s \in Stored(bids) : Cardinality({r \in Stored(bids) : r < s}) = i - 1]

SellerID ==
  IF HasSeller THEN CHOOSE t \in Tab : peers[t].role = "seller" ELSE None

\* A map iteration: when two buyers share the seat either can be found.
PeersAtSeat(seat) == {t \in Buyers : peers[t].seat = seat}

\* Go's remainder takes the sign of the dividend.
GoRem(a, b) == IF a >= 0 THEN a % b ELSE -((-a) % b)

Unsealed(ps) == [t \in Tab |-> [ps[t] EXCEPT !.sealed = FALSE]]

\* resetLocked over the peers ps, leaving the auction in phase ph.
resetLocked(ps, ph) ==
  /\ phase' = ph
  /\ hasKeys' = FALSE
  /\ bids' = NoBids
  /\ winnerSeat' = -1
  /\ priceCt' = 0
  /\ peers' = Unsealed(ps)

-----------------------------------------------------------------------------
Init ==
  /\ issued = {}
  /\ hour = StartHour
  /\ phase = "waiting"
  /\ peers = [t \in Tab |-> Gone]
  /\ order = <<>>
  /\ hasKeys = FALSE
  /\ bids = NoBids
  /\ keyID = 0
  /\ winnerSeat = -1
  /\ priceCt = 0
  /\ trades = <<>>
  /\ epoch = "open"
  /\ epochKey = None
  /\ epochTotals = NoBlobs
  /\ epochOK = FALSE
  /\ epochOpened = FALSE
  /\ chainPos = 0
  /\ epochPartials = NoBlobs
  /\ epochParty = <<>>
  /\ epochAbort = FALSE

Seating ==
  CASE ~HasSeller -> [role |-> "seller", seat |-> -1, sealed |-> FALSE]
    [] HasSeller /\ buyerCount < MaxBuyers ->
         [role |-> "buyer", seat |-> buyerCount, sealed |-> FALSE]
    [] OTHER -> [role |-> "full", seat |-> -1, sealed |-> FALSE]

\* The hub hands out a fresh id and the relay seats it.
Join(id) ==
  /\ id \in Tab \ issued
  /\ issued' = issued \cup {id}
  /\ peers' = [peers EXCEPT ![id] = Seating]
  /\ order' = Append(order, id)
  /\ UNCHANGED <<roundVars, epochVars, hour, keyID, trades>>

\* An audit that loses one of its parties is abandoned.
AbortAudit(id) ==
  IF epoch = "audit" /\ id \in Members(epochParty)
    THEN /\ epoch' = "ready"
         /\ epochAbort' = TRUE
         /\ epochParty' = <<>>
         /\ epochTotals' = NoBlobs
         /\ epochPartials' = NoBlobs
         /\ chainPos' = 0
    ELSE UNCHANGED <<auditVars, epoch>>

Leave(id) ==
  /\ id \in Connected
  /\ order' = Without(order, id)
  /\ LET rest == [peers EXCEPT ![id] = Gone]
     IN  IF peers[id].role = "seller" \/ peers[id].sealed
           THEN resetLocked(rest, "waiting")
           ELSE peers' = rest /\ UNCHANGED roundVars
  /\ AbortAudit(id)
  /\ UNCHANGED <<issued, hour, keyID, trades, epochKey, epochOK, epochOpened>>

Reset ==
  /\ resetLocked(peers, "waiting")
  /\ UNCHANGED <<issued, order, epochVars, hour, keyID, trades>>

SetHour(h) ==
  /\ hour' = (GoRem(h, Day) + Day) % Day
  /\ resetLocked(peers, "waiting")
  /\ UNCHANGED <<issued, order, epochVars, keyID, trades>>

PublishKeys ==
  /\ keyID < MaxKeyID
  /\ hasKeys' = TRUE
  /\ keyID' = keyID + 1
  /\ bids' = NoBids
  /\ winnerSeat' = -1
  /\ peers' = Unsealed(peers)
  /\ phase' = "bidding"
  /\ UNCHANGED <<issued, order, epochVars, hour, priceCt, trades>>

\* Mutant: the phase alone decides, whatever key the bid names.
BidAcceptedAnyKey(id, k) == peers[id].role = "buyer" /\ phase = "bidding"

BidAccepted(id, k) ==
  peers[id].role = "buyer" /\ phase = "bidding" /\ k = keyID

\* Mutant: the bidding closes one bid early.
SubmitBidEarly(id, k) ==
  IF BidAccepted(id, k)
    THEN /\ bids' = [bids EXCEPT ![peers[id].seat] = [by |-> id, key |-> k]]
         /\ peers' = [peers EXCEPT ![id].sealed = TRUE]
         /\ phase' = IF Cardinality(Stored(bids')) < buyerCount - 1
                       THEN phase ELSE "evaluating"
         /\ UNCHANGED <<issued, order, epochVars, hour, keyID, trades,
                        hasKeys, winnerSeat, priceCt>>
    ELSE UNCHANGED vars

\* Mutant: the bidding stays open for one bid more.
SubmitBidLate(id, k) ==
  IF BidAccepted(id, k)
    THEN /\ bids' = [bids EXCEPT ![peers[id].seat] = [by |-> id, key |-> k]]
         /\ peers' = [peers EXCEPT ![id].sealed = TRUE]
         /\ phase' = IF Cardinality(Stored(bids')) <= buyerCount
                       THEN phase ELSE "evaluating"
         /\ UNCHANGED <<issued, order, epochVars, hour, keyID, trades,
                        hasKeys, winnerSeat, priceCt>>
    ELSE UNCHANGED vars

\* SubmitBid; the last seat to seal closes the bidding.
SubmitBid(id, k) ==
  IF BidAccepted(id, k)
    THEN /\ bids' = [bids EXCEPT ![peers[id].seat] = [by |-> id, key |-> k]]
         /\ peers' = [peers EXCEPT ![id].sealed = TRUE]
         /\ phase' = IF Cardinality(Stored(bids')) < buyerCount
                       THEN phase ELSE "evaluating"
         /\ UNCHANGED <<issued, order, epochVars, hour, keyID, trades,
                        hasKeys, winnerSeat, priceCt>>
    ELSE UNCHANGED vars

SetMasks ==
  /\ phase' = "offer"
  /\ UNCHANGED <<membership, epochVars, hour, keyID, trades,
                 hasKeys, bids, winnerSeat, priceCt>>

Offer(seat, price) ==
  /\ winnerSeat' = seat
  /\ priceCt' = price
  /\ phase' = "offer"
  /\ UNCHANGED <<membership, epochVars, hour, keyID, trades, hasKeys, bids>>

\* Settle; without a winner it does nothing.
Settle(accepted) ==
  IF winnerSeat < 0
    THEN UNCHANGED vars
    ELSE /\ Len(trades) < MaxTrades
         /\ trades' = <<[slot |-> hour, price |-> priceCt, accepted |-> accepted,
                         bidders |-> Cardinality(Stored(bids)),
                         seat |-> winnerSeat]>> \o trades
         /\ hour' = (hour + 1) % Day
         /\ resetLocked(peers, "settled")
         /\ epoch' = IF epoch = "open" /\ Len(trades') >= EpochSize
                       THEN "ready" ELSE epoch
         /\ UNCHANGED <<issued, order, keyID, auditVars, epochKey,
                        epochOK, epochOpened>>

\* StartEpochChain; a press while the audit runs is ignored.
StartEpochChain ==
  IF epoch = "audit"
    THEN UNCHANGED vars
    ELSE /\ epoch' = "audit"
         /\ epochParty' = order
         /\ epochAbort' = FALSE
         /\ epochKey' = None
         /\ epochTotals' = NoBlobs
         /\ epochPartials' = NoBlobs
         /\ epochOpened' = FALSE
         /\ chainPos' = 0
         /\ UNCHANGED <<membership, roundVars, hour, keyID, trades, epochOK>>

AdvanceEpochChain(pk) ==
  /\ chainPos < MaxChain
  /\ epochKey' = pk
  /\ chainPos' = chainPos + 1
  /\ UNCHANGED <<membership, roundVars, hour, keyID, trades, epoch, epochTotals,
                 epochOK, epochOpened, epochPartials, epochParty, epochAbort>>

ChainDone == chainPos >= Len(epochParty)

SubmitEpochPartial(id, ct) ==
  /\ epochPartials' = [epochPartials EXCEPT ![id] = ct]
  /\ UNCHANGED <<membership, roundVars, hour, keyID, trades, epoch, epochKey,
                 epochTotals, epochOK, epochOpened, chainPos, epochParty, epochAbort>>

\* SubmitEpochTotal; refused outside an audit.
SubmitEpochTotal(id, ct) ==
  IF epoch = "audit"
    THEN /\ epochTotals' = [epochTotals EXCEPT ![id] = ct]
         /\ UNCHANGED <<membership, roundVars, hour, keyID, trades, epoch, epochKey,
                        epochPartials, epochOK, epochOpened, chainPos, epochParty,
                        epochAbort>>
    ELSE UNCHANGED vars

\* Mutant: one contribution is enough.
haveAllLockedAny(m) == \E id \in Members(epochParty) : m[id] # None

haveAllLocked(m) ==
  Len(epochParty) > 0 /\ \A id \in Members(epochParty) : m[id] # None

\* EpochCiphertexts and EpochPartials: the parties' entries in party order.
OfParty(m) ==
  LET present == {i \in 1 .. Len(epochParty) : m[epochParty[i]] # None}
  IN  [j \in 1 .. Cardinality(present) |->
         m[epochParty[CHOOSE i \in present :
                        Cardinality({k \in present : k < i}) = j - 1]]]

CloseEpoch(ok) ==
  /\ epochOK' = ok
  /\ epochOpened' = TRUE
  /\ epoch' = "done"
  /\ UNCHANGED <<membership, roundVars, hour, keyID, trades, auditVars, epochKey>>

NewEpoch ==
  /\ trades' = <<>>
  /\ epoch' = "open"
  /\ epochKey' = None
  /\ epochTotals' = NoBlobs
  /\ epochOK' = FALSE
  /\ epochOpened' = FALSE
  /\ chainPos' = 0
  /\ epochPartials' = NoBlobs
  /\ epochParty' = <<>>
  /\ epochAbort' = FALSE
  /\ resetLocked(peers, "waiting")
  /\ UNCHANGED <<issued, order, hour, keyID>>

-----------------------------------------------------------------------------
RoundMessage(id) ==
  \/ PublishKeys
  \/ \E k \in 1 .. MaxKeyID : SubmitBid(id, k)
  \/ SetMasks
  \/ \E seat \in Seat, price \in Price : Offer(seat, price)
  \/ \E accepted \in BOOLEAN : Settle(accepted)
  \/ Reset
  \/ \E h \in HourInput : SetHour(h)

EpochMessage(id) ==
  \/ StartEpochChain
  \/ \E ct \in Blob :
       \/ AdvanceEpochChain(ct)
       \/ SubmitEpochTotal(id, ct)
       \/ SubmitEpochPartial(id, ct)
  \/ \E ok \in BOOLEAN : CloseEpoch(ok)
  \/ NewEpoch

Next ==
  \/ \E id \in Tab : Join(id) \/ Leave(id)
  \/ \E id \in Connected : RoundMessage(id) \/ EpochMessage(id)

Spec == Init /\ [][Next]_vars

-----------------------------------------------------------------------------
(* Properties.                                                             *)

TypeOK ==
  /\ issued \subseteq Tab
  /\ hour \in 0 .. (Day - 1)
  /\ phase \in {"waiting", "bidding", "evaluating", "offer", "settled"}
  /\ peers \in [Tab -> [role : {"none", "seller", "buyer", "full"},
                        seat : Seat \cup {-1}, sealed : BOOLEAN]]
  /\ order \in Seq(Tab)
  /\ hasKeys \in BOOLEAN
  /\ bids \in [Seat -> Bid \cup {None}]
  /\ keyID \in 0 .. MaxKeyID
  /\ winnerSeat \in Seat \cup {-1}
  /\ priceCt \in Price \cup {0}
  /\ trades \in Seq([slot : 0 .. (Day - 1), price : Price \cup {0},
                     accepted : BOOLEAN, bidders : Nat, seat : Seat])
  /\ epoch \in {"open", "ready", "audit", "done"}
  /\ epochKey \in Blob \cup {None}
  /\ epochTotals \in [Tab -> Blob \cup {None}]
  /\ epochOK \in BOOLEAN
  /\ epochOpened \in BOOLEAN
  /\ chainPos \in Nat
  /\ epochPartials \in [Tab -> Blob \cup {None}]
  /\ epochParty \in Seq(Tab)
  /\ epochAbort \in BOOLEAN

\* The roster (Join, Leave): order lists exactly the connected tabs, each
\* once; there is never a second seller; a buyer has a seat and no other tab
\* has one; only buyers are sealed.
RosterInv ==
  /\ Members(order) = Connected
  /\ \A i, j \in 1 .. Len(order) : order[i] = order[j] => i = j
  /\ Connected \subseteq issued
  /\ \A t, u \in Tab : peers[t].role = "seller" /\ peers[u].role = "seller" => t = u
  /\ \A t \in Tab : IF peers[t].role = "buyer" THEN peers[t].seat \in Seat
                     ELSE peers[t].seat = -1 /\ ~peers[t].sealed

\* The bids the evaluator is handed (SubmitBid, PublishKeys, Leave): each was
\* sealed under the key of the running round, by a buyer that is still
\* connected, still in that seat and shown as sealed; and a buyer shown as
\* sealed has a bid under its seat.  So a round key, once replaced, and a
\* bidder, once gone, leave no ciphertext behind.
BidsLive ==
  /\ \A s \in Stored(bids) :
       /\ bids[s].key = keyID
       /\ peers[bids[s].by].role = "buyer"
       /\ peers[bids[s].by].seat = s
       /\ peers[bids[s].by].sealed
  /\ \A t \in Tab : peers[t].sealed => bids[peers[t].seat] # None

\* What each phase implies about the round (resetLocked, PublishKeys, Settle):
\* nothing of a round outlives it, and no winner is recorded before the offer.
RoundShape ==
  /\ phase \in {"waiting", "settled"} =>
       ~hasKeys /\ Stored(bids) = {} /\ winnerSeat = -1 /\ priceCt = 0
  /\ phase \in {"bidding", "evaluating"} => hasKeys /\ winnerSeat = -1
  /\ phase = "evaluating" => Stored(bids) # {}

\* The frozen set of an audit (StartEpochChain, Leave, NewEpoch): while the
\* audit runs it is not empty, names nobody twice and nobody who has left.
AuditParty ==
  epoch = "audit" =>
    /\ epochParty # <<>>
    /\ Members(epochParty) \subseteq Connected
    /\ \A i, j \in 1 .. Len(epochParty) : epochParty[i] = epochParty[j] => i = j

\* What the state of the audit implies (StartEpochChain, CloseEpoch, Leave,
\* NewEpoch): a result is shown exactly when the audit is done, and sealed
\* totals are held only during an audit and after it, never carried over an
\* abort or into the next epoch.
AuditShape ==
  /\ epochOpened <=> epoch = "done"
  /\ epoch \in {"open", "ready"} => \A t \in Tab : epochTotals[t] = None

\* Roster, bids, round and audit agree with one another after every method, in
\* whatever order the tabs' messages, arrivals and departures call them.  This is
\* the inductive invariant: bids are live because the roster lists a tab once,
\* and so is the frozen set of an audit.
RelayInv ==
  TypeOK /\ RosterInv /\ BidsLive /\ RoundShape /\ AuditParty /\ AuditShape

\* The log (Settle, NewEpoch): a trade is added only for the winner an offer
\* named, that winner cannot be settled again, the hour it clears moves on by
\* one, and entries leave the log only together, when a new epoch starts.
OneTradePerOffer ==
  [][trades' # trades =>
       \/ trades' = <<>> /\ epoch' = "open"
       \/ /\ Tail(trades') = trades
          /\ trades'[1].seat = winnerSeat /\ trades'[1].slot = hour
          /\ winnerSeat' = -1 /\ hour' = (hour + 1) % Day]_vars

\* A seat names one buyer (Join hands out buyerCount as the seat; PeerAtSeat
\* resolves the winning seat to the tab that is told it won).
SeatsUnique ==
  \A t, u \in Buyers : peers[t].seat = peers[u].seat => t = u

\* Bidding is open and everybody who could bid has: nothing closes it.
Stranded == phase = "bidding" /\ Buyers # {} /\ \A t \in Buyers : peers[t].sealed

\* A round stops waiting for bids without going on to the evaluation for two
\* causes only: the last buyer without a bid has left (Leave resets the round
\* for a sealed one), or two buyers share a seat, whose bids SubmitBid counts
\* as one.
StrandedForCause ==
  [][~Stranded /\ Stranded' =>
       \/ \E t \in Buyers : ~peers[t].sealed /\ t \notin Connected'
       \/ ~SeatsUnique]_vars

=============================================================================

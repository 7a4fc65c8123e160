------------------------------- MODULE Relay -------------------------------
(***************************************************************************)
(* The energy-auction relay as a server (examples/energy_auction/main.go): *)
(* the state of module Auction, the hub of connections, and the goroutine  *)
(* that serves each connection.                                            *)
(*                                                                         *)
(* A goroutine handles one message at a time.  Between two uses of a lock  *)
(* any other goroutine may run, so a handler is a list of instructions in  *)
(* busy[t], executed one per step: a method of Auction, a look-up, or a    *)
(* write to a socket.  The first instruction is taken together with the    *)
(* read of the message.  A socket is FIFO in each direction.               *)
(*                                                                         *)
(* No tab sends "reset" or "hour"; their methods are covered by Auction.   *)
(***************************************************************************)
EXTENDS Auction

CONSTANTS
  Bursts,   \* are the writes of one loop over the connections one step?
  Quick,    \* is a broadcast, from its snapshot to its last write, one step?
  Renders   \* the tabs whose pages, as modelled, depend on state messages

VARIABLES
  hubOrder,      \* hub.order; hub.conns has the same ids
  busy,          \* tab -> what its goroutine still has to do
  up, down,      \* tab -> messages to and from the relay
  live,          \* tabs whose page is open
  published      \* the round keys the relay has published, by keyID

wireVars == <<hubOrder, busy, up, down>>
relayVars == <<vars, wireVars, live, published>>

-----------------------------------------------------------------------------
\* What Snapshot puts in a state message, as far as a tab uses it.
Snapshot == [phase |-> phase, key |-> keyID, winner |-> winnerSeat,
             buyers |-> buyerCount, epoch |-> epoch]
NoSnapshot == [phase |-> "none", key |-> 0, winner |-> -1, buyers |-> 0,
               epoch |-> "none"]

\* Instructions: what to do, with the message it is about.
Do(what, m) == [do |-> what, msg |-> m]
Broadcast == [do |-> "broadcast"]
Send(to, m) == <<[do |-> "send", to |-> to, msg |-> m]>>
SendAll(m) ==
  IF Bursts THEN Send(Members(hubOrder), m)
  ELSE [i \in 1 .. Len(hubOrder) |-> Send({hubOrder[i]}, m)[1]]
ToEvaluator(m) == Do("toeval", m)

KeysProgram(m) ==
  <<Do("publish", m), Broadcast, Do("pubkeys", m),
    ToEvaluator([type |-> "evalkey", key |-> m.key])>>

\* The instructions of hub.handle, and of serveWS when the socket closes.
Program(m) ==
  CASE m.type = "keys"   -> KeysProgram(m)
    [] m.type = "masks"  -> <<Do("setmasks", m), Do("tomasks", m), Broadcast>>
    [] m.type \in {"bid", "epochchained", "epochtotal", "epochpartial"} ->
         <<Do(m.type, m)>>
    [] m.type \in {"offer", "settle", "epochstart", "epochresult"} ->
         <<Do(m.type, m), Broadcast>>
    [] m.type = "epochsummed" -> <<Do("all", [type |-> "epochdecrypt", sum |-> m.sum])>>
    [] m.type = "newepoch" ->
         <<Do("newepoch", m), Do("all", [type |-> "epochreset"]), Broadcast>>
    [] m.type = "close"  -> <<Do("drop", m), Do("leave", m), Broadcast>>

\* The goroutine of t is in a handler, or reads its next message and enters one.
Idle(t) == busy[t] = <<>>
Todo(t) == IF ~Idle(t) THEN busy[t]
           ELSE IF up[t] # <<>> THEN Program(Head(up[t])) ELSE <<>>
At(t, what) == Todo(t) # <<>> /\ Head(Todo(t)).do = what
Now(t) == Head(Todo(t)).msg

\* The current instruction of t is done; the ones it unfolds into come next.
Then(t, more) ==
  /\ busy' = [busy EXCEPT ![t] = more \o Tail(Todo(t))]
  /\ up' = IF Idle(t) THEN [up EXCEPT ![t] = Tail(@)] ELSE up
  /\ UNCHANGED live
\* An instruction that changes nothing else.
Look(t, more) == Then(t, more) /\ UNCHANGED <<vars, hubOrder, down, published>>
\* An instruction that calls a method of Auction.
Call(t, more) == Then(t, more) /\ UNCHANGED <<hubOrder, down, published>>

-----------------------------------------------------------------------------
\* A state message is marshalled as it is written: its peers are pointers.
Marshal(to, m) ==
  IF m.type = "state"
    THEN [type |-> "state", snap |-> m.snap, sealed |-> peers[to].sealed] ELSE m

\* hub.send to each of these; a message for a connection that is gone is dropped.
Deliver(to, m) ==
  down' = [c \in Tab |-> IF /\ c \in to \cap Members(hubOrder) \cap live
                            /\ m.type = "state" => c \in Renders
                           THEN Append(down[c], Marshal(c, m)) ELSE down[c]]

DoSend(t) ==
  /\ At(t, "send")
  /\ Deliver(Head(Todo(t)).to, Now(t))
  /\ Then(t, <<>>)
  /\ UNCHANGED <<vars, hubOrder, published>>

\* hub.broadcast: the snapshot and the list of ids are taken, then written out.
DoBroadcast(t) ==
  /\ At(t, "broadcast")
  /\ LET m == [type |-> "state", snap |-> Snapshot]
     IN  IF Quick
           THEN /\ Deliver(Members(hubOrder), m)
                /\ Then(t, <<>>)
                /\ UNCHANGED <<vars, hubOrder, published>>
           ELSE Look(t, SendAll(m))

\* A loop over peerIDs.
DoAll(t) ==
  /\ At(t, "all")
  /\ Look(t, SendAll(Now(t)))

\* Evaluator takes no lock.  While a Join or a Leave is under way it can see
\* the slice half shifted, and so any buyer or none.
EvaluatorSeen ==
  {Evaluator} \cup
    (IF \E g \in Tab : At(g, "join") \/ At(g, "leave") THEN Buyers \cup {None} ELSE {})

DoToEvaluator(t) ==
  /\ At(t, "toeval")
  /\ \E ev \in EvaluatorSeen : Look(t, IF ev = None THEN <<>> ELSE Send({ev}, Now(t)))

-----------------------------------------------------------------------------
(* The round.                                                              *)

DoPublish(t) ==
  /\ At(t, "publish")
  /\ PublishKeys
  /\ published' = Append(published, Now(t).key)
  /\ Then(t, <<>>)
  /\ UNCHANGED <<hubOrder, down>>

\* The public key goes to every tab under the id KeyID reports by now.
DoPubkeys(t) ==
  /\ At(t, "pubkeys")
  /\ Look(t, SendAll([type |-> "pubkey", key |-> Now(t).key, id |-> keyID]))

\* SubmitBid: refused, stored, or the last of the round.
DoBid(t) ==
  /\ At(t, "bid")
  /\ SubmitBid(t, Now(t).key)
  /\ Call(t, CASE ~BidAccepted(t, Now(t).key) ->
                    Append(Send({t}, [type |-> "bidrejected"]), Broadcast)
               [] BidAccepted(t, Now(t).key) /\ phase' = "bidding" -> <<Broadcast>>
               [] OTHER -> <<Broadcast, [do |-> "evaluate"]>>)

\* The stored ciphertexts, in seat order, with their seats.
Ciphertexts ==
  [i \in 1 .. Len(OrderedBids) |->
     [seat |-> OrderedBids[i], ct |-> published[bids[OrderedBids[i]].key]]]

DoEvaluate(t) ==
  /\ At(t, "evaluate")
  /\ Look(t, <<ToEvaluator([type |-> "evaluate", cts |-> Ciphertexts])>>)

DoSetMasks(t) ==
  /\ At(t, "setmasks")
  /\ SetMasks
  /\ Call(t, <<>>)

\* The masks go to the seller with the ciphertexts stored by now.
DoToMasks(t) ==
  /\ At(t, "tomasks")
  /\ Look(t, IF SellerID = None THEN <<>>
             ELSE Send({SellerID}, [type |-> "masks", masks |-> Now(t).masks,
                                    cts |-> Ciphertexts]))

DoOffer(t) ==
  /\ At(t, "offer")
  /\ \E price \in Price : Offer(Now(t).seat, price)
  /\ Call(t, <<>>)

DoSettle(t) ==
  /\ At(t, "settle")
  /\ Settle(Now(t).ok)
  /\ Call(t, IF Now(t).ok /\ winnerSeat >= 0
               THEN <<Do("won", [seat |-> winnerSeat])>> ELSE <<>>)

\* Mutant: every buyer is told.
DoWonAll(t) ==
  /\ At(t, "won")
  /\ Look(t, Send(Buyers, [type |-> "won"]))

\* The winner is told: whichever buyer PeerAtSeat finds in the seat by now.
DoWon(t) ==
  /\ At(t, "won")
  /\ LET found == PeersAtSeat(Now(t).seat)
     IN  IF found = {} THEN Look(t, <<>>)
         ELSE \E w \in found : Look(t, Send({w}, [type |-> "won"]))

-----------------------------------------------------------------------------
(* The epoch audit.                                                        *)

DoEpochStart(t) ==
  /\ At(t, "epochstart")
  /\ StartEpochChain
  /\ Call(t, IF epoch = "audit" \/ order = <<>> THEN <<>>
             ELSE Send({order[1]}, [type |-> "epochchain", key |-> {}]))

DoEpochChained(t) ==
  /\ At(t, "epochchained")
  /\ AdvanceEpochChain(Now(t).key)
  /\ Call(t, IF ChainDone'
               THEN <<Broadcast, Do("all", [type |-> "epochkey", key |-> Now(t).key])>>
               ELSE Append(Send({epochParty[chainPos' + 1]},
                                [type |-> "epochchain", key |-> Now(t).key]), Broadcast))

\* Mutant: the totals are counted before this one is stored.
DoEpochTotalStale(t) ==
  /\ At(t, "epochtotal")
  /\ SubmitEpochTotal(t, Now(t).ct)
  /\ Call(t, IF epoch = "audit" /\ haveAllLocked(epochTotals)
               THEN <<[do |-> "epochsum"], Broadcast>> ELSE <<Broadcast>>)

DoEpochTotal(t) ==
  /\ At(t, "epochtotal")
  /\ SubmitEpochTotal(t, Now(t).ct)
  /\ Call(t, IF epoch = "audit" /\ haveAllLocked(epochTotals')
               THEN <<[do |-> "epochsum"], Broadcast>> ELSE <<Broadcast>>)

DoEpochSum(t) ==
  /\ At(t, "epochsum")
  /\ Look(t, <<ToEvaluator([type |-> "epochsum", cts |-> OfParty(epochTotals)])>>)

\* Mutant: the first share already has the tabs fuse.
DoEpochPartialAny(t) ==
  /\ At(t, "epochpartial")
  /\ SubmitEpochPartial(t, Now(t).part)
  /\ Call(t, <<[do |-> "epochfuse"], Broadcast>>)

DoEpochPartial(t) ==
  /\ At(t, "epochpartial")
  /\ SubmitEpochPartial(t, Now(t).part)
  /\ Call(t, IF haveAllLocked(epochPartials')
               THEN <<[do |-> "epochfuse"], Broadcast>> ELSE <<Broadcast>>)

DoEpochFuse(t) ==
  /\ At(t, "epochfuse")
  /\ Look(t, SendAll([type |-> "epochfuse", parts |-> OfParty(epochPartials)]))

DoEpochResult(t) ==
  /\ At(t, "epochresult")
  /\ CloseEpoch(Now(t).ok)
  /\ Call(t, <<>>)

DoNewEpoch(t) ==
  /\ At(t, "newepoch")
  /\ NewEpoch
  /\ Call(t, <<>>)

-----------------------------------------------------------------------------
(* Connections: serveWS.                                                   *)

\* A new connection is entered in the hub before it is seated.
Connect(t) ==
  /\ t \notin issued /\ t \notin live /\ Idle(t)
  /\ live' = live \cup {t}
  /\ hubOrder' = Append(hubOrder, t)
  /\ busy' = [busy EXCEPT ![t] = <<Do("join", [type |-> "join"]), Broadcast>>]
  /\ UNCHANGED <<vars, up, down, published>>

DoJoin(t) ==
  /\ At(t, "join")
  /\ Join(t)
  /\ Call(t, <<>>)

\* The deferred function of serveWS: first the hub forgets the connection.
DoDrop(t) ==
  /\ At(t, "drop")
  /\ hubOrder' = Without(hubOrder, t)
  /\ Then(t, <<>>)
  /\ UNCHANGED <<vars, down, published>>

DoLeave(t) ==
  /\ At(t, "leave")
  /\ Leave(t)
  /\ Call(t, <<>>)

\* One step of the goroutine that serves t.
Goroutine(t) ==
  \/ DoSend(t) \/ DoBroadcast(t) \/ DoAll(t) \/ DoToEvaluator(t)
  \/ DoPublish(t) \/ DoPubkeys(t) \/ DoBid(t) \/ DoEvaluate(t)
  \/ DoSetMasks(t) \/ DoToMasks(t) \/ DoOffer(t) \/ DoSettle(t) \/ DoWon(t)
  \/ DoEpochStart(t) \/ DoEpochChained(t) \/ DoEpochTotal(t) \/ DoEpochSum(t)
  \/ DoEpochPartial(t) \/ DoEpochFuse(t) \/ DoEpochResult(t) \/ DoNewEpoch(t)
  \/ DoJoin(t) \/ DoDrop(t) \/ DoLeave(t)

\* The roster when the tabs of early have joined in that order.
Seated(early) ==
  [t \in Tab |->
     IF t \notin Members(early) THEN Gone
     ELSE LET i == CHOOSE j \in 1 .. Len(early) : early[j] = t
          IN  [role |-> IF i = 1 THEN "seller" ELSE "buyer",
               seat |-> IF i = 1 THEN -1 ELSE i - 2, sealed |-> FALSE]]

\* The tabs of early are connected, nothing is on its way.
RelayInit(early) ==
  /\ issued = Members(early) /\ order = early /\ peers = Seated(early)
  /\ hour = StartHour /\ phase = "waiting"
  /\ hasKeys = FALSE /\ bids = NoBids /\ keyID = 0 /\ winnerSeat = -1 /\ priceCt = 0
  /\ epochKey = None /\ epochTotals = NoBlobs /\ epochOK = FALSE
  /\ epochOpened = FALSE /\ chainPos = 0 /\ epochPartials = NoBlobs
  /\ epochParty = <<>> /\ epochAbort = FALSE
  /\ hubOrder = early /\ live = Members(early) /\ published = <<>>
  /\ busy = [t \in Tab |-> <<>>]
  /\ up = [t \in Tab |-> <<>>] /\ down = [t \in Tab |-> <<>>]

-----------------------------------------------------------------------------
(* The browser's end of a socket, common to everything a tab does.         *)

\* send: on a socket that is open.
Tell(t, m) == up' = [up EXCEPT ![t] = Append(@, m)]

Take(t, type) ==
  /\ t \in live /\ down[t] # <<>> /\ Head(down[t]).type = type
  /\ down' = [down EXCEPT ![t] = Tail(@)]

\* The page is closed: what it has sent is still read, the rest is lost.
Shut(t) ==
  /\ t \in live
  /\ live' = live \ {t}
  /\ down' = [down EXCEPT ![t] = <<>>]
  /\ Tell(t, [type |-> "close"])
  /\ UNCHANGED <<vars, hubOrder, busy, published>>
=============================================================================

------------------------------- MODULE Round -------------------------------
(***************************************************************************)
(* A round of the energy auction end to end: the relay of module Relay and *)
(* the browser tabs (examples/energy_auction/static/index.html).           *)
(*                                                                         *)
(* A tab handles a message in one step up to its first await; what follows *)
(* the await waits in tasks[t] and runs later, after other messages.       *)
(* Keys are numbered in the order the sellers mint them; a ciphertext is   *)
(* the number of the key it is sealed under.                               *)
(***************************************************************************)
EXTENDS Relay

CONSTANTS
  Early,       \* the tabs connected when the model starts, in join order
  Loaded,      \* the tabs whose WebAssembly module is loaded by then
  Twice,       \* the buttons that are pressed up to twice a round, the others once
  MaxCloses    \* bound on the tabs that close

VARIABLES
  ready,         \* tabs whose FHE module is loaded
  view,          \* tab -> last state message (st), with the tab's own seal
  pubKey, pubKeyID, resealPending,
  evalKey,       \* the relin key a tab has imported, 0 if none
  secret,        \* the key a tab's session can open, 0 if none
  tasks,         \* tab -> continuations of its awaits, in timer order
  minted,        \* keys minted so far
  pressed,       \* tab -> the presses of its buttons
  net            \* tab -> myNet, counted in accepted trades

keyVars == <<pubKey, pubKeyID, resealPending, evalKey, secret, minted>>
tabVars == <<ready, view, tasks, pressed, net, keyVars>>
rdVars == <<relayVars, tabVars>>

\* What the relay's goroutines, and the browser's network stack, leave alone.
Serve(t) == Goroutine(t) /\ UNCHANGED tabVars
relaySide == <<vars, hubOrder, busy, live, published>>

-----------------------------------------------------------------------------
\* Role and seat in a state message are fixed once the tab is seated.
ActsAsSeller(t) == t \in live \cap ready /\ view[t].snap.phase # "none" /\ peers[t].role = "seller"
ActsAsBuyer(t) == t \in live \cap ready /\ view[t].snap.phase # "none" /\ peers[t].role = "buyer"

Await(t, task) == tasks' = [tasks EXCEPT ![t] = Append(@, task)]

\* Mutant: off by one, the first key never counts.
keyReadySecond(key, id, snap) == key # 0 /\ snap.key > 1 /\ id = snap.key

keyReady(key, id, snap) == key # 0 /\ snap.key > 0 /\ id = snap.key

OnState(t) ==
  /\ Take(t, "state")
  /\ view' = [view EXCEPT ![t] = [snap |-> Head(down[t]).snap,
                                  sealed |-> Head(down[t]).sealed]]
  /\ UNCHANGED <<relaySide, up, ready, tasks, pressed, net, keyVars>>

\* Before its module is loaded a tab ignores everything else.
OnIgnored(t) ==
  /\ t \notin ready
  /\ \E type \in {"pubkey", "bidrejected", "evalkey", "evaluate", "masks", "won"} :
       Take(t, type)
  /\ UNCHANGED <<relaySide, up, tabVars>>

\* The round key; a tab that owes a bid seals it at once if it can.
OnPubkey(t) ==
  /\ t \in ready
  /\ Take(t, "pubkey")
  /\ LET m == Head(down[t])
     IN  /\ pubKey' = [pubKey EXCEPT ![t] = m.key]
         /\ pubKeyID' = [pubKeyID EXCEPT ![t] = m.id]
         /\ IF resealPending[t] /\ keyReady(m.key, m.id, view[t].snap)
              THEN Await(t, [do |-> "seal"]) ELSE UNCHANGED tasks
  /\ resealPending' = [resealPending EXCEPT ![t] = FALSE]
  /\ UNCHANGED <<relaySide, up, ready, view, pressed, net,
                 evalKey, secret, minted>>

\* Mutant: the id of the retired key is dropped and the key is kept.
OnBidRejectedKeepsKey(t) ==
  /\ t \in ready
  /\ Take(t, "bidrejected")
  /\ pubKeyID' = [pubKeyID EXCEPT ![t] = 0]
  /\ resealPending' = [resealPending EXCEPT ![t] = TRUE]
  /\ UNCHANGED <<relaySide, up, ready, view, tasks, pressed, net,
                 pubKey, evalKey, secret, minted>>

OnBidRejected(t) ==
  /\ t \in ready
  /\ Take(t, "bidrejected")
  /\ pubKey' = [pubKey EXCEPT ![t] = 0]
  /\ pubKeyID' = [pubKeyID EXCEPT ![t] = 0]
  /\ resealPending' = [resealPending EXCEPT ![t] = TRUE]
  /\ UNCHANGED <<relaySide, up, ready, view, tasks, pressed, net,
                 evalKey, secret, minted>>

OnEvalkey(t) ==
  /\ t \in ready
  /\ Take(t, "evalkey")
  /\ evalKey' = [evalKey EXCEPT ![t] = Head(down[t]).key]
  /\ UNCHANGED <<relaySide, up, ready, view, tasks, pressed, net,
                 pubKey, pubKeyID, resealPending, secret, minted>>

\* Both long computations start with an await.
OnEvaluate(t) ==
  /\ t \in ready
  /\ Take(t, "evaluate")
  /\ Await(t, [do |-> "argmax", cts |-> Head(down[t]).cts])
  /\ UNCHANGED <<relaySide, up, ready, view, pressed, net, keyVars>>

OnMasks(t) ==
  /\ t \in ready
  /\ Take(t, "masks")
  /\ Await(t, [do |-> "open", masks |-> Head(down[t]).masks, cts |-> Head(down[t]).cts])
  /\ UNCHANGED <<relaySide, up, ready, view, pressed, net, keyVars>>

OnWon(t) ==
  /\ t \in ready
  /\ Take(t, "won")
  /\ net' = [net EXCEPT ![t] = @ + 1]
  /\ UNCHANGED <<relaySide, up, ready, view, tasks, pressed,
                 keyVars>>

Resume(t, what) ==
  /\ t \in live /\ tasks[t] # <<>> /\ Head(tasks[t]).do = what
  /\ tasks' = [tasks EXCEPT ![t] = Tail(@)]

\* sealBid after its await: the key and its id are read now.  Encrypting
\* without a key throws and nothing is sent.
SealResumes(t) ==
  /\ Resume(t, "seal")
  /\ IF pubKey[t] = 0 THEN UNCHANGED up
     ELSE Tell(t, [type |-> "bid", ct |-> pubKey[t], key |-> pubKeyID[t]])
  /\ UNCHANGED <<relaySide, down, ready, view, pressed, net, keyVars>>

\* The blind argmax.  A lone bid gets a mask under the tab's public key.  An empty
\* list is left out of the message and the tab throws.  OpenFHE refuses to compare
\* ciphertexts of different keys, and to multiply comparisons (of three bids or
\* more) without the relin key of theirs: the tab throws as well.
CanRank(t, cts) ==
  IF Len(cts) < 2 THEN cts # <<>> /\ pubKey[t] # 0
  ELSE /\ \A i \in 1 .. Len(cts) : cts[i].ct = cts[1].ct
       /\ Len(cts) > 2 => evalKey[t] = cts[1].ct

ArgmaxResumes(t) ==
  /\ Resume(t, "argmax")
  /\ LET cts == Head(tasks[t]).cts
     IN  IF ~CanRank(t, cts) THEN UNCHANGED up
         ELSE Tell(t, [type |-> "masks",
                       masks |-> IF Len(cts) < 2 THEN [n |-> 1, key |-> pubKey[t]]
                                 ELSE [n |-> Len(cts), key |-> cts[1].ct]])
  /\ UNCHANGED <<relaySide, down, ready, view, pressed, net, keyVars>>

\* The seller opens the masks and the winning bid with the secret it has now.
\* Any mask can be the largest; without a ciphertext for it the tab throws.
OpenResumes(t) ==
  /\ Resume(t, "open")
  /\ LET j == Head(tasks[t])
     IN  \E win \in 1 .. j.masks.n :
           IF win > Len(j.cts) THEN UNCHANGED up
           ELSE Tell(t, [type |-> "offer", seat |-> j.cts[win].seat,
                         right |-> /\ j.masks.key = secret[t]
                                   /\ j.cts[win].ct = secret[t]])
  /\ UNCHANGED <<relaySide, down, ready, view, pressed, net, keyVars>>


\* sellerStart after its await: a new key pair replaces the one the tab had.
StartResumes(t) ==
  /\ Resume(t, "start")
  /\ minted' = minted + 1
  /\ secret' = [secret EXCEPT ![t] = minted']
  /\ Tell(t, [type |-> "keys", key |-> minted'])
  /\ UNCHANGED <<relaySide, down, ready, view, pressed, net,
                 pubKey, pubKeyID, resealPending, evalKey>>

Starting ==
  Cardinality({x \in Tab \X (1 .. MaxKeyID) :
                 x[2] <= Len(tasks[x[1]]) /\ tasks[x[1]][x[2]].do = "start"})

\* A press of a button, shown for the round the tab sees.  A button stays
\* enabled until a state message takes it away, so it can be pressed twice.
Press(t, button) ==
  LET k == view[t].snap.key
      n == Cardinality({x \in pressed[t] : x[1] = button /\ x[2] = k})
  IN  /\ n < IF button \in Twice THEN 2 ELSE 1
      /\ pressed' = [pressed EXCEPT ![t] = @ \cup {<<button, k, n>>}]

ClickStart(t) ==
  /\ ActsAsSeller(t)
  /\ view[t].snap.phase \in {"waiting", "settled"} /\ view[t].snap.buyers > 0
  /\ minted + Starting < MaxKeyID
  /\ Press(t, "start")
  /\ Await(t, [do |-> "start"])
  /\ UNCHANGED <<relaySide, up, down, ready, view, net, keyVars>>

ClickSeal(t) ==
  /\ ActsAsBuyer(t)
  /\ view[t].snap.phase = "bidding" /\ ~view[t].sealed
  /\ keyReady(pubKey[t], pubKeyID[t], view[t].snap)
  /\ Press(t, "seal")
  /\ Await(t, [do |-> "seal"])
  /\ UNCHANGED <<relaySide, up, down, ready, view, net, keyVars>>

\* ACCEPT books the price in the seller's own ledger before it is sent.
ClickDecide(t, ok) ==
  /\ ActsAsSeller(t)
  /\ view[t].snap.phase = "offer" /\ view[t].snap.winner >= 0
  /\ Press(t, "decide")
  /\ net' = IF ok THEN [net EXCEPT ![t] = @ + 1] ELSE net
  /\ Tell(t, [type |-> "settle", ok |-> ok])
  /\ UNCHANGED <<relaySide, down, ready, view, tasks, keyVars>>

Load(t) ==
  /\ t \in live \ ready
  /\ ready' = ready \cup {t}
  /\ UNCHANGED <<relaySide, up, down, view, tasks, pressed, net, keyVars>>

Open(t) == Connect(t) /\ UNCHANGED tabVars

Close(t) ==
  /\ Cardinality(issued \ live) < MaxCloses
  /\ Shut(t)
  /\ tasks' = [tasks EXCEPT ![t] = <<>>]
  /\ UNCHANGED <<ready, view, pressed, net, keyVars>>

OnMessage(t) ==
  \/ OnState(t) \/ OnIgnored(t) \/ OnPubkey(t) \/ OnBidRejected(t)
  \/ OnEvalkey(t) \/ OnEvaluate(t) \/ OnMasks(t) \/ OnWon(t)
Continue(t) ==
  SealResumes(t) \/ ArgmaxResumes(t) \/ OpenResumes(t) \/ StartResumes(t)
User(t) ==
  \/ Open(t) \/ Load(t) \/ Close(t)
  \/ ClickStart(t) \/ ClickSeal(t)
  \/ \E ok \in BOOLEAN : ClickDecide(t, ok)

-----------------------------------------------------------------------------
\* The tabs of Early are seated and see the auction at rest.
RoundInit ==
  /\ RelayInit(Early) /\ trades = <<>> /\ epoch = "open"
  /\ ready = Loaded
  /\ view = [t \in Tab |-> [snap |-> IF t \in Members(Early) THEN Snapshot ELSE NoSnapshot,
                            sealed |-> FALSE]]
  /\ pubKey = [t \in Tab |-> 0] /\ pubKeyID = [t \in Tab |-> 0]
  /\ resealPending = [t \in Tab |-> FALSE]
  /\ evalKey = [t \in Tab |-> 0] /\ secret = [t \in Tab |-> 0]
  /\ tasks = [t \in Tab |-> <<>>] /\ pressed = [t \in Tab |-> {}]
  /\ net = [t \in Tab |-> 0]
  /\ minted = 0

RoundNext == \E t \in Tab : Serve(t) \/ OnMessage(t) \/ Continue(t) \/ User(t)

RoundSpec == RoundInit /\ [][RoundNext]_rdVars

\* The Go scheduler runs every goroutine, the browser runs its event loop, and
\* the users press the buttons of the round they are shown.  Nobody is obliged
\* to open, load or close a page.
Fair ==
  \A t \in Tab :
    /\ WF_rdVars(Serve(t))
    /\ WF_rdVars(OnMessage(t))
    /\ WF_rdVars(Continue(t))
    /\ WF_rdVars(ClickStart(t))
    /\ WF_rdVars(ClickSeal(t))
    /\ WF_rdVars(\E ok \in BOOLEAN : ClickDecide(t, ok))

FairRoundSpec == RoundSpec /\ Fair

-----------------------------------------------------------------------------
(* Properties.                                                             *)

InFlightUp(type) ==
  UNION {{m \in Members(up[t]) : m.type = type} : t \in Tab}
InFlightDown(type) ==
  UNION {{m \in Members(down[t]) : m.type = type} : t \in Tab}
  \cup UNION {{i.msg : i \in {j \in Members(busy[t]) : j.do = "send" /\ j.msg.type = type}}
              : t \in Tab}

Names(id, key) == id \in 1 .. Len(published) /\ published[id] = key

\* Keys and their ids (main.go "keys", index.html pubkey and sealBid): wherever a
\* key travels or is held next to an id, it is the key the relay published
\* under that id, and a bid is sealed under the key it names.
KeyLabel ==
  /\ \A m \in InFlightDown("pubkey") : Names(m.id, m.key)
  /\ \A t \in Tab : pubKey[t] # 0 => Names(pubKeyID[t], pubKey[t])
  /\ \A m \in InFlightUp("bid") : Names(m.key, m.ct)
  /\ \A t \in Tab : At(t, "bid") => Names(Now(t).key, Now(t).ct)


\* The relay and the tabs implement the promise of SealedRound.
Promise == INSTANCE SealedRound WITH
  Buyer <- Members(Early) \ {Early[1]},
  NoWinner <- None,
  stage <- CASE phase \in {"waiting", "settled"} -> "idle"
             [] phase = "bidding" -> "collecting"
             [] phase = "evaluating" -> "ranking"
             [] phase = "offer" -> IF winnerSeat = -1 THEN "ranking" ELSE "offered",
  round <- keyID,
  sealed <- {t \in Tab : peers[t].sealed},
  winner <- IF winnerSeat = -1 THEN None ELSE CHOOSE t \in PeersAtSeat(winnerSeat) : TRUE,
  settledRounds <- Len(trades)
RoundPromise == Promise!RSpec

\* The ledgers (index.html won and ACCEPT; the sum the epoch audit opens): once
\* nothing is on its way, the seller has booked what the buyers have.
AtRest == \A t \in Tab : Idle(t) /\ up[t] = <<>> /\ down[t] = <<>>
Balanced ==
  AtRest =>
    \A s \in Tab : peers[s].role = "seller" =>
      net[s] = Cardinality({x \in (Tab \ {s}) \X (1 .. MaxTrades) : x[2] <= net[x[1]]})

\* A round that was opened reaches an offer, unless it is abandoned.
ReachesOffer == phase = "bidding" ~> (winnerSeat >= 0 \/ phase = "waiting")

\* A round whose bids are all in is ranked (main.go bid, index.html evaluate):
\* the relay is never left evaluating with nothing on its way and no tab busy.
SealedIsRanked == AtRest /\ (\A t \in Tab : tasks[t] = <<>>) => phase # "evaluating"

=============================================================================

----------------------------- MODULE EpochAudit -----------------------------
(***************************************************************************)
(* The epoch audit end to end: the relay of module Relay and what the tabs *)
(* do with its messages (examples/energy_auction/static/index.html), from  *)
(* CLEAR EPOCH to the verdict.  None of these handlers awaits anything, so *)
(* each is one step.                                                       *)
(*                                                                         *)
(* Key shares are numbered as the tabs draw them.  A joint key is the set  *)
(* of the shares folded into it; a sealed total is the key, whose total it *)
(* is and the signed figure; a decryption share is the sum it opens and    *)
(* the key share used.  Shares that are not exactly those of the key, or   *)
(* totals under different keys, give noise or throw.                       *)
(***************************************************************************)
EXTENDS Relay, FiniteSetsExt, SequencesExt

CONSTANTS
  Early,       \* the tabs connected when the model starts, in join order
  Loaded,      \* the tabs whose WebAssembly module is loaded by then
  Ledger,      \* tab -> myNet when the epoch is ready to be audited
  MaxPresses,  \* bounds on the presses of CLEAR EPOCH
  MaxRenewals, \* and of NEW EPOCH
  MaxCloses    \* bound on the tabs that close

VARIABLES
  ready,    \* tabs whose FHE module is loaded
  view,     \* tab -> the last state message
  cleared,  \* tabs whose CLEAR EPOCH is greyed out until the next render
  share,    \* tab -> the key share of its epoch session, 0 if none
  drawn,    \* key shares drawn so far
  net,      \* tab -> myNet
  presses   \* presses of the two buttons

pageVars == <<ready, view, cleared, share, drawn, net, presses>>
eaVars == <<relayVars, pageVars>>
relaySide == <<vars, hubOrder, busy, live, published>>

Serve(t) == Goroutine(t) /\ UNCHANGED pageVars

-----------------------------------------------------------------------------
(* The tabs.                                                               *)

\* myRole, read from the last state message.
IsSeller(t) == view[t] # NoSnapshot /\ peers[t].role = "seller"

Handles(t, type) == t \in ready /\ Take(t, type) /\ UNCHANGED relaySide
Msg(t) == Head(down[t])

\* A state message renders the buttons anew.
OnState(t) ==
  /\ Take(t, "state")
  /\ view' = [view EXCEPT ![t] = Msg(t).snap]
  /\ cleared' = cleared \ {t}
  /\ UNCHANGED <<relaySide, up, ready, share, drawn, net, presses>>

OnIgnored(t) ==
  /\ t \notin ready
  /\ \E type \in {"epochchain", "epochkey", "epochsum", "epochdecrypt", "epochfuse",
                  "epochreset"} : Take(t, type)
  /\ UNCHANGED <<relaySide, up, pageVars>>

\* keyGenFirst or keyGenNext: either way the tab's share is replaced.
OnEpochChain(t) ==
  /\ Handles(t, "epochchain")
  /\ drawn' = drawn + 1
  /\ share' = [share EXCEPT ![t] = drawn']
  /\ Tell(t, [type |-> "epochchained", key |-> Msg(t).key \cup {drawn'}])
  /\ UNCHANGED <<ready, view, cleared, net, presses>>

\* Mutant: the seller's takings are not negated.
SignedUnsigned(t) == net[t]

\* Buyers are positive, the seller negative.
Signed(t) == IF IsSeller(t) THEN -net[t] ELSE net[t]

OnEpochKey(t) ==
  /\ Handles(t, "epochkey")
  /\ Tell(t, [type |-> "epochtotal",
              ct |-> [key |-> Msg(t).key, of |-> {t}, net |-> Signed(t)]])
  /\ UNCHANGED pageVars

\* The sum of sealed totals; {} stands for the key of noise.
Added(cts) ==
  LET keys == {cts[i].key : i \in 1 .. Len(cts)}
  IN  [key |-> IF Cardinality(keys) = 1 THEN cts[1].key ELSE {},
       of |-> UNION {cts[i].of : i \in 1 .. Len(cts)},
       net |-> FoldLeft(LAMBDA acc, ct : acc + ct.net, 0, cts)]

\* Without a first ciphertext the handler throws; adding totals under
\* different keys may throw as well.
OnEpochSum(t) ==
  /\ Handles(t, "epochsum")
  /\ \/ Msg(t).cts # <<>> /\ Tell(t, [type |-> "epochsummed", sum |-> Added(Msg(t).cts)])
     \/ (Msg(t).cts = <<>> \/ Added(Msg(t).cts).key = {}) /\ UNCHANGED up
  /\ UNCHANGED pageVars

\* Without a share the handler throws.
OnEpochDecrypt(t) ==
  /\ Handles(t, "epochdecrypt")
  /\ IF share[t] = 0 THEN UNCHANGED up
     ELSE Tell(t, [type |-> "epochpartial",
                   part |-> [sum |-> Msg(t).sum, share |-> share[t]]])
  /\ UNCHANGED pageVars

\* Do these decryption shares open the sum they are of?
Opens(parts) ==
  /\ parts # <<>>
  /\ \A i \in 1 .. Len(parts) : parts[i].sum = parts[1].sum
  /\ {parts[i].share : i \in 1 .. Len(parts)} = parts[1].sum.key
  /\ Cardinality(parts[1].sum.key) = Len(parts)

\* Every tab fuses; the seller alone reports.  Noise is never near zero.
OnEpochFuse(t) ==
  /\ Handles(t, "epochfuse")
  /\ IF ~IsSeller(t) \/ Msg(t).parts = <<>> THEN UNCHANGED up
     ELSE \/ Tell(t, [type |-> "epochresult", opens |-> Opens(Msg(t).parts),
                      of |-> Msg(t).parts[1].sum.of,
                      ok |-> Opens(Msg(t).parts) /\ Msg(t).parts[1].sum.net = 0])
          \/ ~Opens(Msg(t).parts) /\ UNCHANGED up
  /\ UNCHANGED pageVars

\* Mutant: the tab keeps last epoch's figure.
OnEpochResetKeepsNet(t) ==
  /\ Handles(t, "epochreset")
  /\ share' = [share EXCEPT ![t] = 0]
  /\ UNCHANGED <<up, ready, view, cleared, drawn, net, presses>>

OnEpochReset(t) ==
  /\ Handles(t, "epochreset")
  /\ net' = [net EXCEPT ![t] = 0]
  /\ share' = [share EXCEPT ![t] = 0]
  /\ UNCHANGED <<up, ready, view, cleared, drawn, presses>>

\* CLEAR EPOCH greys itself out; the next render brings it back.
ClickClear(t) ==
  /\ t \in live \cap ready /\ IsSeller(t) /\ view[t].epoch = "ready" /\ t \notin cleared
  /\ presses.clear < MaxPresses
  /\ presses' = [presses EXCEPT !.clear = @ + 1]
  /\ cleared' = cleared \cup {t}
  /\ Tell(t, [type |-> "epochstart"])
  /\ UNCHANGED <<relaySide, down, ready, view, share, drawn, net>>

ClickNewEpoch(t) ==
  /\ t \in live \cap ready /\ IsSeller(t) /\ view[t].epoch = "done"
  /\ presses.renew < MaxRenewals
  /\ presses' = [presses EXCEPT !.renew = @ + 1]
  /\ Tell(t, [type |-> "newepoch"])
  /\ UNCHANGED <<relaySide, down, ready, view, cleared, share, drawn, net>>

Load(t) ==
  /\ t \in live \ ready
  /\ ready' = ready \cup {t}
  /\ UNCHANGED <<relaySide, up, down, view, cleared, share, drawn, net, presses>>

Open(t) == Connect(t) /\ UNCHANGED pageVars

Close(t) ==
  /\ Cardinality(issued \ live) < MaxCloses
  /\ Shut(t)
  /\ UNCHANGED pageVars

OnMessage(t) ==
  \/ OnState(t) \/ OnIgnored(t) \/ OnEpochChain(t) \/ OnEpochKey(t) \/ OnEpochSum(t)
  \/ OnEpochDecrypt(t) \/ OnEpochFuse(t) \/ OnEpochReset(t)
User(t) == Open(t) \/ Load(t) \/ Close(t) \/ ClickClear(t) \/ ClickNewEpoch(t)

-----------------------------------------------------------------------------
\* The epoch's trades are settled, the books are ready to be audited.
AuditInit ==
  /\ RelayInit(Early) /\ epoch = "ready"
  /\ trades = [i \in 1 .. EpochSize |->
                 [slot |-> 0, price |-> 0, accepted |-> TRUE, bidders |-> 1, seat |-> 0]]
  /\ ready = Loaded
  /\ view = [t \in Tab |-> IF t \in Members(Early) THEN Snapshot ELSE NoSnapshot]
  /\ cleared = {} /\ share = [t \in Tab |-> 0] /\ drawn = 0
  /\ net = Ledger /\ presses = [clear |-> 0, renew |-> 0]

AuditNext == \E t \in Tab : Serve(t) \/ OnMessage(t) \/ User(t)

AuditSpec == AuditInit /\ [][AuditNext]_eaVars

\* Goroutines and event loops run; the seller presses the button it is shown.
FairAuditSpec ==
  /\ AuditSpec
  /\ \A t \in Tab : /\ WF_eaVars(Serve(t))
                    /\ WF_eaVars(OnMessage(t))
                    /\ WF_eaVars(ClickClear(t))

-----------------------------------------------------------------------------
(* Properties.                                                             *)

Results == UNION {{m \in Members(up[t]) : m.type = "epochresult"} : t \in Tab}

\* The figure the seller reports (index.html epochfuse): the decryption shares
\* it was fused from are exactly those of the key the summed totals were
\* sealed under, so what is announced is a sum and not noise.
SharesOpenSum == \A m \in Results : m.opens

\* Only the sum is ever opened (auction.go EpochCiphertexts): no decryption
\* share is asked for a ciphertext with fewer totals in it than its key has
\* shares, and so none for one party's own total among several.
WholeSum ==
  \A t \in Tab : \A m \in Members(down[t]) :
    m.type = "epochdecrypt" => Cardinality(m.sum.of) = Cardinality(m.sum.key)

\* The sum of the positions of a set of tabs, by the ledgers of the epoch.
Net(S) == MapThenSumSet(LAMBDA t : IF t = Early[1] THEN -Ledger[t] ELSE Ledger[t], S)

\* The audit implements the promise of SumAudit: over a frozen set, with the
\* verdict on that set's positions, once.
Promise == INSTANCE SumAudit WITH
  Party <- Tab,
  Balances <- LAMBDA S : Net(S) = 0,
  stage <- epoch,
  parties <- Members(epochParty),
  verdict <- IF ~epochOpened THEN "none" ELSE IF epochOK THEN "balance" ELSE "imbalance"
AuditPromise == Promise!ASpec

\* An audit that nobody leaves is reported.
AuditReported == epoch = "audit" ~> epoch = "done"

\* After NEW EPOCH, once nothing is on its way, every tab's ledger is empty
\* (main.go newepoch, index.html epochreset).
AtRest == \A t \in Tab : Idle(t) /\ up[t] = <<>> /\ down[t] = <<>>
LedgersReset == AtRest /\ epoch = "open" => \A t \in live : net[t] = 0
=============================================================================

---------------------------- MODULE MCComponents ----------------------------
(***************************************************************************)
(* Parts of the system that share no state, side by side for TLC: `part'   *)
(* says which of them a behaviour is of.  The variables of the others keep *)
(* one value at which they have nothing to do, so that the states add up.  *)
(***************************************************************************)
EXTENDS MCBridge, KeyTables, Artifacts, LogStream, Inbox, Lineage, Clearing, AppSession, Admission

VARIABLE part

Ticks == {-1, 1, 2, 3, 4, 6}   \* prices: between, on and outside the buckets' ticks

\* A call that has returned, offers nobody clears.
BridgeRest == fn = "" /\ todo = <<>> /\ heap = EmptyBag /\ defers = <<>> /\ exit = "ok"
ClearRest ==
  LET offer == CHOOSE o \in Offers : TRUE
  IN asks = [s \in Sellers |-> offer] /\ bids = [b \in Buyers |-> offer] /\ cleared = Nowhere

PartInit ==
  /\ part \in {"bridge", "keys", "store", "log", "inbox", "lineage", "clearing", "app", "admission"}
  /\ KeysInit /\ StoreInit /\ LogInit /\ InboxInit /\ LineageInit
  /\ AppInit /\ (part # "app" => app = "ride" /\ appHelper = "up")
  /\ AdmissionInit /\ (part # "admission" => real /\ computes)
  /\ IF part = "bridge" THEN BridgeInit ELSE BridgeRest
  /\ IF part = "clearing" THEN ClearInit ELSE ClearRest

BridgeStep == part = "bridge" /\ BridgeNext
  /\ UNCHANGED <<part, keyVars, storeVars, logVars, inboxVars, lineageVars, clearVars, appVars, admissionVars>>
KeysStep == part = "keys" /\ KeysNext
  /\ UNCHANGED <<part, bridgeVars, storeVars, logVars, inboxVars, lineageVars, clearVars, appVars, admissionVars>>
StoreStep == part = "store" /\ StoreNext
  /\ UNCHANGED <<part, bridgeVars, keyVars, logVars, inboxVars, lineageVars, clearVars, appVars, admissionVars>>
LogStep == part = "log" /\ LogNext
  /\ UNCHANGED <<part, bridgeVars, keyVars, storeVars, inboxVars, lineageVars, clearVars, appVars, admissionVars>>
InboxStep == part = "inbox" /\ InboxNext
  /\ UNCHANGED <<part, bridgeVars, keyVars, storeVars, logVars, lineageVars, clearVars, appVars, admissionVars>>
LineageStep == part = "lineage" /\ LineageNext
  /\ UNCHANGED <<part, bridgeVars, keyVars, storeVars, logVars, inboxVars, clearVars, appVars, admissionVars>>
ClearStep == part = "clearing" /\ ClearNext
  /\ UNCHANGED <<part, bridgeVars, keyVars, storeVars, logVars, inboxVars, lineageVars, appVars, admissionVars>>
AppStep == part = "app" /\ AppNext
  /\ UNCHANGED <<part, bridgeVars, keyVars, storeVars, logVars, inboxVars, lineageVars, clearVars, admissionVars>>
AdmissionStep == part = "admission" /\ AdmissionNext
  /\ UNCHANGED <<part, bridgeVars, keyVars, storeVars, logVars, inboxVars, lineageVars, clearVars, appVars>>

PartNext ==
  \/ BridgeStep \/ KeysStep \/ StoreStep \/ LogStep \/ InboxStep \/ LineageStep \/ ClearStep
  \/ AppStep \/ AdmissionStep

PartSpec ==
  PartInit /\ [][PartNext]_<<part, bridgeVars, keyVars, storeVars, logVars, inboxVars, lineageVars,
                             clearVars, appVars, admissionVars>>
=============================================================================

------------------------------- MODULE Lineage -------------------------------
(***************************************************************************)
(* The lineage of a session (pkg/ares/lineage, phase/runner_lineage.go):   *)
(* every message carries a signed node of a hash DAG, which the runner     *)
(* verifies and stores before it hands the message to the phase, and every *)
(* phase's output is committed as a node over the nodes it came from.  The *)
(* session is the anonymous prelude of the voting example: the shuffle,    *)
(* PhaseGVerify, which collects one slot submission per participant and    *)
(* binds the assembled list to their nodes, and an application's last      *)
(* phase, which may require that list (the voting example's does not: it   *)
(* passes structs from phase to phase, and only its transcript is bytes).  *)
(*                                                                         *)
(* Hashes are ideal: a node's hash is the record of what is hashed, which  *)
(* leaves out who produced it, and a payload is the set of its entries.    *)
(* Several connections run at once; the store locks one operation at a     *)
(* time.  The runner's own races are those of module SessionRunner, and a  *)
(* message is handled in one step here.                                    *)
(***************************************************************************)
EXTENDS Naturals, SequencesExt, FiniteSets

CONSTANTS Peers, SlotPayloads, MaxMessages

VARIABLES
  lineageStore,    \* the nodes, in Append order
  clearedSessions, \* the sessions whose nodes were dropped
  inflight,        \* peer -> the message its connection is handling, and how far
  sent,            \* peer -> messages sent so far
  bucketSlots,     \* peer -> the payload accumulated
  lineageState,    \* "gossip", "verifying", "submitting" or "none"
  assembled,       \* the slot list in the context, {} before
  acceptedHashes   \* the hashes of the messages a phase took

lineageVars == <<lineageStore, clearedSessions, inflight, sent, bucketSlots, lineageState,
                 assembled, acceptedHashes>>

Runner == "runner"
NoMessage == [at |-> "none"]

\* DeriveNodeHash: session, phase, role, payload and parents.
DeriveNodeHash(session, phase, role, payload, parents) ==
  [session |-> session, phase |-> phase, role |-> role, payload |-> payload, parents |-> parents]
\* Commit: the canonical hash and the producer's signature over it.
Commit(session, phase, role, payload, parents, signer) ==
  [hash |-> DeriveNodeHash(session, phase, role, payload, parents),
   producer |-> signer, signed |-> TRUE, known |-> TRUE]

\* The store: Append refuses a hash it has, Get, WalkSession, Clear.
Hashes(nodes) == {nodes[i].hash : i \in DOMAIN nodes}
InStore(h) == h \in Hashes(lineageStore)
AppendOnce(nodes, node) == IF node.hash \in Hashes(nodes) THEN nodes ELSE Append(nodes, node)
WalkSession(session) == SelectSeq(lineageStore, LAMBDA n : n.hash.session = session)

-----------------------------------------------------------------------------
(* What a peer sends: a payload and a node, which need not belong together.*)

SlotSubmission(peer, payload, parents) ==
  Commit("s", "anon-g-verify", "slot-submission", payload, parents, peer)

\* A frame in order, one signed with an unknown algorithm or a bad signature,
\* one whose payload was changed on the way, and ones naming a parent that may
\* or may not be stored: the result of an earlier session "t", or a submission
\* of this one that may not have come yet.
Earlier == DeriveNodeHash("t", "settle", "result", {"r"}, {})
Frames(peer) ==
  LET bad == SlotSubmission(peer, {"bad"}, {})
      named == CHOOSE x \in SlotPayloads : TRUE
  IN  {[payload |-> {x}, node |-> SlotSubmission(peer, {x}, {})] : x \in SlotPayloads}
      \cup {[payload |-> {named}, node |-> SlotSubmission(peer, {named}, {h})] :
              h \in {Earlier, SlotSubmission(peer, {named}, {}).hash}}
      \cup {[payload |-> {"bad"}, node |-> [bad EXCEPT !.known = FALSE]],
            [payload |-> {"bad"}, node |-> [bad EXCEPT !.signed = FALSE]],
            [payload |-> {"changed"}, node |-> bad]}

-----------------------------------------------------------------------------
(* HandleLineageMessage.                                                   *)

Handled(peer) == inflight' = [inflight EXCEPT ![peer] = NoMessage]
Reach(peer, l) == inflight' = [inflight EXCEPT ![peer].at = l]

\* Verify: algorithm, payload hash, node hash, signature.
Verify(f) == f.node.known /\ f.node.hash.payload = f.payload /\ f.node.signed

ParentsStored(node) == \A h \in node.hash.parents : InStore(h)

\* A frame arrives and is verified, then its parents are looked up; one that
\* fails goes to the application's failure hook and no further.
HandleLineageMessage(peer) ==
  /\ inflight[peer] = NoMessage /\ sent[peer] < MaxMessages
  /\ \E f \in Frames(peer) :
       IF Verify(f) /\ ParentsStored(f.node)
       THEN inflight' = [inflight EXCEPT ![peer] =
                           [at |-> "append", payload |-> f.payload, node |-> f.node]]
       ELSE UNCHANGED inflight
  /\ sent' = [sent EXCEPT ![peer] = @ + 1]
  /\ UNCHANGED <<lineageStore, clearedSessions, bucketSlots, lineageState, assembled,
                 acceptedHashes>>

\* A node that is already stored is fine.
AppendNode(peer) ==
  /\ inflight[peer].at = "append"
  /\ lineageStore' = AppendOnce(lineageStore, inflight[peer].node)
  /\ Reach(peer, "handle")
  /\ UNCHANGED <<clearedSessions, sent, bucketSlots, lineageState, assembled,
                 acceptedHashes>>
\* PhaseGVerify.Exit: one entry per sender, no slot twice; the list is bound to
\* every slot-submission node of the session.
ListParents == {n.hash : n \in {x \in Range(WalkSession("s")) : x.hash.role = "slot-submission"}}
CommitArtifact(list, parents) == Commit("s", "anon-g-verify", "assembled", list, parents, Runner)

\* resolveParents: for each required value of bytes the first node of the session
\* with that payload; then the phase's own output is committed.
resolveParents(nodes, required) ==
  {nodes[i].hash : i \in {j \in DOMAIN nodes :
     /\ nodes[j].hash.session = "s" /\ nodes[j].hash.payload \in required
     /\ \A k \in 1 .. j - 1 : nodes[k].hash.session = "s" =>
          nodes[k].hash.payload # nodes[j].hash.payload}}
commitPhaseOutputs(nodes, required) ==
  AppendOnce(nodes,
             Commit("s", "settle", "transcript", {"tr"}, resolveParents(nodes, required), Runner))

\* HandleMessage: refused outside its phase; the last submission completes the
\* phase, and a list with a duplicate slot fails its Exit, which a corrected
\* submission repeats.
HandleMessage(peer) ==
  LET slots == [bucketSlots EXCEPT ![peer] = inflight[peer].payload]
      list == UNION Range(slots)
      quorum == \A p \in Peers : slots[p] # {}
  IN  /\ inflight[peer].at = "handle"
      /\ Handled(peer)
      /\ IF lineageState # "verifying"
         THEN UNCHANGED <<bucketSlots, acceptedHashes, lineageState, assembled, lineageStore>>
         ELSE /\ bucketSlots' = slots
              /\ acceptedHashes' = acceptedHashes \cup {inflight[peer].node.hash}
              /\ IF quorum /\ Cardinality(list) = Cardinality(Peers)
                 THEN /\ lineageState' = "submitting"
                      /\ assembled' = list
                      /\ lineageStore' = AppendOnce(lineageStore, CommitArtifact(list, ListParents))
                 ELSE UNCHANGED <<lineageState, assembled, lineageStore>>
      /\ UNCHANGED <<clearedSessions, sent>>

-----------------------------------------------------------------------------
(* The shuffle ends; the last phase ends; an earlier session is cleared.   *)

PhaseGShuffleExit ==
  /\ lineageState = "gossip"
  /\ lineageState' = "verifying"
  /\ UNCHANGED <<lineageStore, clearedSessions, inflight, sent, bucketSlots, assembled,
                 acceptedHashes>>

LastPhaseExit ==
  /\ lineageState = "submitting"
  /\ lineageState' = "none"
  /\ \E required \in {{}, {assembled}} :
       lineageStore' = commitPhaseOutputs(lineageStore, required)
  /\ UNCHANGED <<clearedSessions, inflight, sent, bucketSlots, assembled, acceptedHashes>>

ClearSession ==
  /\ "t" \notin clearedSessions
  /\ lineageStore' = SelectSeq(lineageStore, LAMBDA n : n.hash.session # "t")
  /\ clearedSessions' = clearedSessions \cup {"t"}
  /\ UNCHANGED <<inflight, sent, bucketSlots, lineageState, assembled, acceptedHashes>>

LineageInit ==
  /\ lineageStore = <<[hash |-> Earlier, producer |-> Runner, signed |-> TRUE, known |-> TRUE]>>
  /\ clearedSessions = {}
  /\ inflight = [p \in Peers |-> NoMessage] /\ sent = [p \in Peers |-> 0]
  /\ bucketSlots = [p \in Peers |-> {}]
  /\ lineageState = "gossip" /\ assembled = {} /\ acceptedHashes = {}

LineageNext ==
  \/ \E p \in Peers : HandleLineageMessage(p) \/ AppendNode(p) \/ HandleMessage(p)
  \/ PhaseGShuffleExit \/ LastPhaseExit \/ ClearSession

LineageSpec == LineageInit /\ [][LineageNext]_lineageVars

-----------------------------------------------------------------------------
(* Properties.                                                             *)

=============================================================================

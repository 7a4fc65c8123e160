----------------------------- MODULE AppSession -----------------------------
(***************************************************************************)
(* One session of an example application, from the trigger's Start to the  *)
(* settlement: the hooks of its phases (AppPhases), run by the runner's    *)
(* HandleMessage, advance and AdvanceToState with callers taking turns     *)
(* (SessionRunner has the interleavings; here the hooks have their data).  *)
(* Senders may repeat themselves, outsiders may send, payloads may not     *)
(* parse, and the helper process may die.                                  *)
(***************************************************************************)
EXTENDS AppPhases

CONSTANTS
  Participant,   \* the pseudonyms invited
  Outsider       \* connected pseudonyms that were not

VARIABLES
  app,         \* the application: a name in DOMAIN Pipeline
  appHelper,   \* the contract helper: "none" (stub mode), "up" or "down"
  context,     \* the SessionContext: a function on the keys set
  phaseAt,     \* the current phase, 0 before Start and after the last Exit
  going,       \* advance or AdvanceToState is walking
  buckets,     \* the accumulated messages, by phase
  made         \* key bundles the helper has made

appVars == <<app, appHelper, context, phaseAt, going, buckets, made>>

Pipeline == [auction |-> AuctionPipeline, ride |-> RidePipeline,
             formation |-> FormationPipeline, weekly |-> WeeklyService,
             bare |-> WeeklyPipeline]
Current == Pipeline[app][phaseAt]

-----------------------------------------------------------------------------
(* Hooks: [ok, ctx, made].                                                 *)

SetKey(c, k, v) == (k :> v) @@ c
Fine(c) == [ok |-> TRUE, ctx |-> c, made |-> made]
Failed(c) == [ok |-> FALSE, ctx |-> c, made |-> made]

\* Key material is known by where it came from.  TryGet[[]byte] and len > 0:
\* an attribute left "" stays a string, and is not bytes.
HasBytes(c, k) == k \in DOMAIN c /\ c[k].from # "attr-empty"
readContractParams(c) == "contract" \in DOMAIN c /\ c.contract = "full"
readRideContractParams(c) == readContractParams(c)
readCohortContractParams(c) == readContractParams(c)
\* A payload that does not parse, or that the helper cannot use, is "bad".
decodes(payload) == payload = "good"
decodeRatingCiphertext(payload) == decodes(payload)
decodeRideBid(payload) == decodes(payload)

\* KeygenChain in the helper.
NewBundle(c, shares, n) ==
  [ok |-> TRUE, made |-> n,
   ctx |-> [pk |-> [from |-> "helper", n |-> n], ek |-> [from |-> "helper", n |-> n],
            shares |-> shares] @@ c]
StubBundle(c, shares) ==
  [pk |-> [from |-> "stub", n |-> 0], ek |-> [from |-> "stub", n |-> 0], shares |-> shares] @@ c


PhaseKeygenExit(c, shares) ==
  CASE HasBytes(c, "pk") /\ HasBytes(c, "ek") -> Fine(SetKey(c, "shares", shares))
    [] OTHER ->
       CASE appHelper = "none" -> Fine(StubBundle(c, shares))
         [] appHelper = "up" /\ readContractParams(c) -> NewBundle(c, shares, made + 1)
         [] OTHER -> Failed(c)

RideKeygenExit(c, shares) == PhaseKeygenExit(c, shares)

\* Without a readable contract the cohort's defaults apply; a contract is
\* recorded where there was none.
PhaseCohortKeygenExit(c, shares) ==
  LET sealed(d) == IF "contract" \in DOMAIN d THEN d ELSE SetKey(d, "contract", "full")
  IN CASE HasBytes(c, "pk") /\ HasBytes(c, "ek") -> Fine(sealed(SetKey(c, "shares", shares)))
       [] OTHER ->
          CASE appHelper = "none" -> Fine(SetKey(StubBundle(c, shares), "contract", "full"))
            [] appHelper = "up" ->
                 [NewBundle(c, shares, made + 1) EXCEPT !.ctx = sealed(@)]
            [] OTHER -> Failed(c)

\* Only what is set counts, an empty attribute too.
PhasePreSharedKeyLookupEnter(c) ==
  IF {"pk", "shares", "ek"} \subseteq DOMAIN c THEN Fine(c) ELSE Failed(c)

\* ScalarBid, Submit and SubmitRating.
SubmitExit(c, inputs) == Fine(SetKey(c, "inputs", inputs))


\* The scores are masks in the order of the bidders' names.
PhaseArgmaxEnter(c, bids) ==
  IF \/ appHelper = "none"
     \/ /\ appHelper = "up" /\ readContractParams(c) /\ HasBytes(c, "ek")
        /\ \A b \in DOMAIN bids : decodes(bids[b])
        /\ Cardinality(DOMAIN bids) >= 2
  THEN Fine(SetKey(c, "masks", DOMAIN bids)) ELSE Failed(c)

PhaseScoreEnter(c, bids) == PhaseArgmaxEnter(c, bids)
PhaseArgmaxScoringEnter(c, ratings) == PhaseArgmaxEnter(c, ratings)

Fused(c, partials) ==
  IF \/ appHelper = "none"
     \/ /\ appHelper = "up" /\ readContractParams(c)
        /\ \A s \in DOMAIN partials : decodes(partials[s])
  THEN Fine(SetKey(c, "result", IF appHelper = "none" THEN {} ELSE DOMAIN partials)) ELSE Failed(c)

PhaseDecryptExit(c, partials) == Fused(c, partials)
RideDecryptExit(c, partials) == Fused(c, partials)
\* The weekly service composes the stub, with a helper or without.
PhaseThresholdDecryptExit(c) == Fine(SetKey(c, "result", {}))

PhaseSettlementEnter(c) == Fine(SetKey(c, "transcript", c.result))

ExitOf(i, c) ==
  LET p == Pipeline[app][i].name
  IN CASE p = "auction-keygen" -> PhaseKeygenExit(c, buckets[i])
       [] p = "ride-keygen" -> RideKeygenExit(c, buckets[i])
       [] p = "cohort-keygen" -> PhaseCohortKeygenExit(c, buckets[i])
       [] p \in {"auction-scalar-bid", "ride-submit", "ranking-submit-rating"} ->
            SubmitExit(c, buckets[i])
       [] p = "auction-threshold-decrypt" -> PhaseDecryptExit(c, buckets[i])
       [] p = "ride-decrypt" -> RideDecryptExit(c, buckets[i])
       [] p = "ranking-threshold-decrypt" -> PhaseThresholdDecryptExit(c)
       [] OTHER -> Fine(c)

EnterOf(i, c) ==
  LET p == Pipeline[app][i].name
  IN CASE p = "ranking-key-lookup" -> PhasePreSharedKeyLookupEnter(c)
       [] p = "auction-argmax-scoring" -> PhaseArgmaxEnter(c, buckets[i - 1])
       [] p = "ride-score" -> PhaseScoreEnter(c, buckets[i - 1])
       [] p = "ranking-argmax-scoring" -> PhaseArgmaxScoringEnter(c, buckets[i - 1])
       [] p \in {"auction-settlement", "ride-settle", "ranking-settle"} -> PhaseSettlementEnter(c)
       [] OTHER -> Fine(c)

-----------------------------------------------------------------------------
(* The triggers.  attrs is what the admin POST supplies.                   *)

Seeded == [from |-> "seed", n |-> 0]
Unset == [from |-> "attr-empty", n |-> 0]
Attrs ==
  LET choices == [pk : {<<>>, <<Seeded>>}, ek : {<<>>, <<Seeded>>, <<Unset>>},
                  shares : {<<>>, <<[p \in Participant |-> "good"]>>},
                  contract : {<<>>, <<"partial">>}]
  IN {[k \in {j \in DOMAIN a : a[j] # <<>>} |-> a[k][1]] : a \in choices}

auctionStart(attrs) == attrs @@ [participants |-> Participant, contract |-> "full"]
rideShareStart(attrs) ==
  attrs @@ [participants |-> Participant, contract |-> "full", roles |-> "default"]
formationStart(attrs) == attrs @@ [participants |-> Participant, contract |-> "full"]
weeklyStart(attrs) == attrs @@ [participants |-> Participant, contract |-> "full"]
weeklyAccepts(attrs) == {"pk", "shares", "ek"} \subseteq DOMAIN attrs

AppInit ==
  /\ app \in DOMAIN Pipeline
  /\ appHelper \in {"none", "up"}
  /\ context = <<>> /\ phaseAt = 0 /\ going = FALSE /\ made = 0
  /\ buckets = [i \in DOMAIN Pipeline[app] |-> <<>>]

\* The service starts only if Compose accepts its pipeline.  BeginSession enters
\* the first phase, the attributes are set, and AdvanceToState walks on to the
\* first phase that consumes messages.
StartSession(attrs) ==
  /\ context = <<>> /\ Compose(Pipeline[app])
  /\ app = "ride" => Cardinality(Participant) >= 2
  /\ app = "weekly" => weeklyAccepts(attrs)
  /\ context' = CASE app = "auction" -> auctionStart(attrs)
                  [] app = "ride" -> rideShareStart(attrs)
                  [] app = "formation" -> formationStart(attrs)
                  [] app = "weekly" -> weeklyStart(attrs)
                  [] OTHER -> attrs @@ [participants |-> Participant]
  /\ phaseAt' = 1 /\ going' = TRUE
  /\ UNCHANGED <<app, appHelper, buckets, made>>

-----------------------------------------------------------------------------
(* The runner.                                                             *)

AccumulateMessage(bucket, from, payload) == SetKey(bucket, from, payload)
QuorumReached(bucket, n) == Cardinality(DOMAIN bucket) >= n

HandleAppMessage(from, payload) ==
  /\ phaseAt # 0 /\ ~going /\ Current.consumes # {}
  /\ LET bucket == AccumulateMessage(buckets[phaseAt], from, payload)
     IN /\ buckets' = [buckets EXCEPT ![phaseAt] = bucket]
        /\ going' = QuorumReached(bucket, Cardinality(context.participants))
  /\ UNCHANGED <<app, appHelper, context, phaseAt, made>>

\* Mutant: one hop without the cascade past phases that consume no messages.
HopOnce ==
  /\ going
  /\ going' = FALSE /\ phaseAt' = IF Current.leave = "" THEN 0 ELSE phaseAt + 1
  /\ context' = ExitOf(phaseAt, context).ctx
  /\ UNCHANGED <<app, appHelper, buckets, made>>

\* One hop of the walk: Exit, and if that succeeds, Enter of the phase that
\* claims the exit state.  A phase whose Enter fails stays the current one.
Hop ==
  /\ going
  /\ LET left == ExitOf(phaseAt, context)
         claimed == \E i \in DOMAIN Pipeline[app] : Pipeline[app][i].entry = Current.leave
         entered == EnterOf(phaseAt + 1, left.ctx)
     IN CASE ~left.ok -> going' = FALSE /\ UNCHANGED <<context, phaseAt>>
          [] left.ok /\ Current.leave = "" ->
               going' = FALSE /\ phaseAt' = 0 /\ context' = left.ctx
          [] left.ok /\ Current.leave # "" /\ ~claimed ->
               going' = FALSE /\ context' = left.ctx /\ UNCHANGED phaseAt
          [] OTHER ->
               /\ phaseAt' = phaseAt + 1 /\ context' = entered.ctx
               /\ going' = (entered.ok /\ Pipeline[app][phaseAt + 1].consumes = {})
  /\ made' = ExitOf(phaseAt, context).made
  /\ UNCHANGED <<app, appHelper, buckets>>

HelperDies ==
  /\ appHelper = "up" /\ context # <<>> /\ phaseAt # 0
  /\ appHelper' = "down"
  /\ UNCHANGED <<app, context, phaseAt, going, buckets, made>>

AppNext ==
  \/ \E attrs \in Attrs : StartSession(attrs)
  \/ \E from \in Participant \cup Outsider, payload \in {"good", "bad"} :
       HandleAppMessage(from, payload)
  \/ Hop \/ HelperDies

AppSpec == AppInit /\ [][AppNext]_appVars

-----------------------------------------------------------------------------
(* Properties.                                                             *)

\* What a phase declares in Requires is in the context whenever the session is
\* in that phase: the producers Compose counted on have really run, and the
\* triggers set what the first phases only promise.
RequiresHold ==
  phaseAt # 0 => \A key \in Current.requires : key[1] \in DOMAIN context

\* Past keygen the public key the inputs are encrypted under and the evaluation
\* keys of the scoring come from one bundle, unless the weekly operator seeded
\* an empty evaluation key: never a seeded half with a generated one.
BundleOneOrigin ==
  phaseAt # 0 /\ Current.name \in {"auction-scalar-bid", "ride-submit", "ranking-submit-rating"} =>
    \/ context.pk = context.ek
    \/ app = "weekly" /\ context.ek = Unset



\* A session does not rest for nothing.  It rests in a phase that takes no
\* messages, where nothing can move it on, only in helper mode and after a failure
\* the code reports: an unusable input, a contract without parameters, an empty
\* evaluation key, a dead helper.  And it rests in a phase that has a message from
\* everyone only if that phase's Exit failed for such a reason, or the cohort is
\* sealed already.
RestsForCause ==
  phaseAt # 0 /\ ~going =>
    /\ Current.consumes = {} =>
         \/ appHelper = "down"
         \/ /\ appHelper = "up"
            /\ \/ context.contract # "full"
               \/ ~HasBytes(context, "ek")
               \/ \E s \in DOMAIN context.inputs : ~decodes(context.inputs[s])
    /\ Current.consumes # {} /\ Participant \subseteq DOMAIN buckets[phaseAt] =>
         \/ app = "formation" /\ HasBytes(context, "pk") /\ HasBytes(context, "ek")
         \/ appHelper = "down"
         \/ /\ appHelper = "up"
            /\ \/ context.contract # "full"
               \/ /\ Current.name \in {"auction-threshold-decrypt", "ride-decrypt"}
                  /\ \E s \in DOMAIN buckets[phaseAt] : ~decodes(buckets[phaseAt][s])
=============================================================================

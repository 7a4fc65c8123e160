----------------------------- MODULE MCProgress -----------------------------
(***************************************************************************)
(* The concurrent parts of the system in which something must eventually   *)
(* happen, side by side for TLC: `part' says which of them a behaviour is  *)
(* of.  The variables of the others keep one value, so that the states add *)
(* up.  Fairness is stated here, for the part that runs.                   *)
(***************************************************************************)
EXTENDS MCHub, MCSessionRunner, Voting, HelperClient, UnionPool

VARIABLE part

\* Weights: one that counts as given, one that counts more, one that is not positive.
SomeWeights == {-1, 1, 2}

\* A scoring that returned at once.
PoolRest ==
  /\ comparators = 0 /\ conc = 0 /\ poolStage = "err" /\ unionCtx = "none" /\ keysIn = FALSE
  /\ nextJob = 1 /\ fed = FALSE /\ lane = <<>> /\ poolResults = <<>> /\ closed = FALSE
  /\ stored = {} /\ firstErr = 0

PartInit ==
  /\ part \in {"hub", "runner", "voting", "helper", "pool"}
  /\ HubInit /\ Init
  /\ VotingInit /\ (part # "voting" => voteStage = "submitting")
  /\ HelperInit /\ (part # "helper" => chain.n = 1 /\ chain.scheme = "ckks")
  /\ IF part = "pool" THEN PoolInit ELSE PoolRest

HubStep == part = "hub" /\ HubNext
  /\ UNCHANGED <<part, srVars, votingVars, helperVars, poolVars>>
RunnerStep == part = "runner" /\ Next
  /\ UNCHANGED <<part, hubVars, votingVars, helperVars, poolVars>>
VotingStep == part = "voting" /\ VotingNext
  /\ UNCHANGED <<part, hubVars, srVars, helperVars, poolVars>>
HelperStep == part = "helper" /\ HelperNext
  /\ UNCHANGED <<part, hubVars, srVars, votingVars, poolVars>>
PoolStep == part = "pool" /\ PoolNext
  /\ UNCHANGED <<part, hubVars, srVars, votingVars, helperVars>>

PartNext == HubStep \/ RunnerStep \/ VotingStep \/ HelperStep \/ PoolStep

PartSpec ==
  PartInit /\ [][PartNext]_<<part, hubVars, srVars, votingVars, helperVars, poolVars>>

-----------------------------------------------------------------------------
(* Fairness.                                                               *)

\* The pumps run on, and on a dead connection the ping ticker fires.
HubFairness ==
  \A c \in Conn : /\ WF_hubVars(part = "hub" /\ readPump(c))
                  /\ WF_hubVars(part = "hub" /\ socket[c] = "down" /\ GiveUp(c))

\* A call of the runner under way goes on.
CallGoesOn ==
  \/ pc[Trigger] # "idle" /\ Starting
  \/ \E a \in Actor : Loop(a)
  \/ \E s \in Sender : Handling(s)
\* Steps of which a session has finitely many: the trigger gets its turn, and a
\* hook that fails now and then succeeds.
Nearer == AdvanceToState \/ ((\E a \in Actor : Exit(a)) /\ exited' # exited)
\* Those whose message moves a phase: who is not heard yet, or anyone once all are.
Wanted(p) == {s \in Sender : s \in got[p] => got[p] = Sender}
\* One of them sends what the phase shown collects (the clients poll the state
\* and answer it), and the phase accepts.
Answers == state \in Consuming /\ \E s \in Wanted(state) : Receive(s, state)
Accepts ==
  \E s \in Sender : at[s] \in Phase /\ s \in Wanted(at[s]) /\ OnMessage(s) /\ pc'[s] = "check"

\* Goroutines run on, get their turn where they take turns, and participants
\* keep answering, sooner or later with a message the hooks accept.
RunnerFairness ==
  /\ WF_srVars(part = "runner" /\ CallGoesOn)
  /\ SF_srVars(part = "runner" /\ Nearer)
  /\ SF_srVars(part = "runner" /\ Answers)
  /\ SF_srVars(part = "runner" /\ Accepts)

\* Every participant sends an onion, reads its mail, and hooks run.
VotingFairness ==
  \A p \in Voter :
    /\ WF_votingVars(part = "voting" /\ memo[p] = 0 /\ BuildOnion(p))
    /\ WF_votingVars(part = "voting" /\ (RelayBatch(p) \/ Peel(p)))

\* Goroutines run and the daemon serves.
HelperFairness ==
  /\ WF_helperVars(part = "helper" /\ (runDaemon \/ DaemonExits))
  /\ WF_helperVars(part = "helper" /\ \E g \in Callers : CallEncode(g) \/ CallDecode(g))
  /\ WF_helperVars(part = "helper" /\ \E c \in Closers : CloseStdin(c) \/ CloseWait(c))

\* The goroutines run.
PoolFairness == WF_poolVars(part = "pool" /\ PoolNext)

-----------------------------------------------------------------------------
\* Both goroutines of a connection end once it is down (PumpsEnd of Hub).
HubPumpsEnd == HubFairness => PumpsEnd

\* An invited session ends or stops at a hook that failed (Completes of
\* SessionRunner).
RunnerCompletes == RunnerFairness => Completes


\* Calls of the helper and its Close return (HelperReturns of HelperClient).
HelperCallsReturn == HelperFairness => HelperReturns

\* Every scoring of a union returns (UnionReturns of UnionPool).
PoolReturns == PoolFairness => UnionReturns
=============================================================================

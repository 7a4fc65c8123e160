----------------------------- MODULE Admission -----------------------------
(***************************************************************************)
(* A session of the bounded_admission example: participants submit         *)
(* encrypted vectors, the bound-check phase (pkg/ares/phase/boundcheck)    *)
(* computes a check ciphertext for each, everyone partially decrypts every *)
(* check, and the session settles if all the inputs are in bound.  The     *)
(* runner's HandleMessage is one step (SessionRunner has its               *)
(* interleavings); the hook the service runs after every dispatch, which   *)
(* sends the challenge, runs on the sender's own goroutine.                *)
(***************************************************************************)
EXTENDS Naturals, FiniteSets, TLC

CONSTANTS
  Party,      \* the participants
  Stranger    \* connected pseudonyms that are not

VARIABLES
  real,        \* the trigger had all three keys and set the handle and fuse
  computes,    \* CtxInputDim is the circuit's, and it can evaluate every input
  stage,       \* submitting, checking or settled
  inputs,      \* bucketInputs: sender -> "in" or "out" of bound
  checks,      \* CtxBoundCheckCiphers: the parties that have one
  replies,     \* bucketPartials: sender -> [ok, of: the checks it decrypted]
  results,     \* CtxAdmissionResults: the parties with a violation recorded
  sentinel,    \* _admission_challenges_sent
  hook,        \* sender -> where its challengeUnicastIfNeeded is
  sends,       \* ghost: sender -> challenges its hook sent to everybody
  short        \* ghost: participants that replied without all the checks

admissionVars ==
  <<real, computes, stage, inputs, checks, replies, results, sentinel, hook, sends, short>>

Anyone == Party \cup Stranger
Complete(bucket) == Cardinality(DOMAIN bucket) >= Cardinality(Party)

-----------------------------------------------------------------------------
(* Hooks of the phases.                                                    *)

\* boundcheck.Phase.Enter: nothing without a handle, an error if the dimension
\* is wrong or the circuit cannot evaluate some input; no ciphertext is kept then.
boundcheckEnter(submitted) ==
  IF real /\ computes THEN DOMAIN submitted ELSE {}

Withholding ==
  {s \in Party : s \notin DOMAIN replies' \/ ~(Party \subseteq replies'[s].of)}
WithheldFrom ==
  {p \in Party : \E s \in Party : s \notin DOMAIN replies' \/ p \notin replies'[s].of}
OutOfBound == {p \in Party \ WithheldFrom : p \in DOMAIN inputs /\ inputs[p] = "out"}
\* Only complete quorums are fused and classified; every sender that left out
\* an entry is a violator.
violators == Withholding \cup OutOfBound

\* boundcheck.Phase.Exit, then PhaseSettle: a reply that does not decode or
\* fuse, and a violation, end with an error in the same phase.
boundcheckExit ==
  IF ~real THEN stage' = "settled" /\ UNCHANGED results
  ELSE IF \E s \in DOMAIN replies' : ~replies'[s].ok THEN UNCHANGED <<stage, results>>
  ELSE /\ stage' = IF violators = {} THEN "settled" ELSE stage
       /\ results' = results \cup violators

-----------------------------------------------------------------------------
(* Messages.                                                               *)

AdmissionInit ==
  /\ real \in BOOLEAN /\ computes \in BOOLEAN
  /\ stage = "submitting" /\ inputs = <<>> /\ checks = {} /\ replies = <<>> /\ results = {}
  /\ sentinel = FALSE /\ hook = [s \in Anyone |-> "idle"]
  /\ sends = [s \in Anyone |-> 0] /\ short = {}

\* The sender's readPump has returned from the hook of its last message.  A hook
\* that is bound to find the flag set, or never any ciphertexts, returns at once.
From(s) ==
  /\ hook[s] = "idle"
  /\ hook' = [hook EXCEPT ![s] = IF sentinel \/ ~real \/ ~computes THEN "idle" ELSE "due"]

SubmitInput(s, value) ==
  /\ stage = "submitting" /\ From(s)
  /\ inputs' = (s :> value) @@ inputs
  /\ IF Complete(inputs') THEN stage' = "checking" /\ checks' = boundcheckEnter(inputs')
     ELSE UNCHANGED <<stage, checks>>
  /\ UNCHANGED <<real, computes, replies, results, sentinel, sends, short>>

\* A reply decodes, with entries for checks of participants the sender
\* has been sent (other entries are never read), or does not.
BoundPartial(s, ok, of) ==
  /\ stage = "checking" /\ From(s)
  /\ of # {} => \E t \in Anyone : sends[t] > 0
  /\ replies' = (s :> [ok |-> ok, of |-> of]) @@ replies
  /\ IF Complete(replies') THEN boundcheckExit ELSE UNCHANGED <<stage, results>>
  /\ short' = IF Party \subseteq of THEN short ELSE short \cup ({s} \cap Party)
  /\ UNCHANGED <<real, computes, inputs, checks, sentinel, sends>>

-----------------------------------------------------------------------------
(* challengeUnicastIfNeeded.                                               *)

HookAt(s, here, next) == hook[s] = here /\ hook' = [hook EXCEPT ![s] = next]

HookNeeded == ~sentinel /\ checks # {}

HookCheck(s) ==
  /\ HookAt(s, "due", IF HookNeeded THEN "send" ELSE "idle")
  /\ UNCHANGED <<real, computes, stage, inputs, checks, replies, results, sentinel, sends, short>>

HookSend(s) ==
  /\ HookAt(s, "send", "mark")
  /\ sends' = [sends EXCEPT ![s] = @ + 1]
  /\ UNCHANGED <<real, computes, stage, inputs, checks, replies, results, sentinel, short>>

HookMark(s) ==
  /\ HookAt(s, "mark", "idle")
  /\ sentinel' = TRUE
  /\ UNCHANGED <<real, computes, stage, inputs, checks, replies, results, sends, short>>

\* What a stranger's input and reply contain is never read, only whether the
\* reply decodes.
AdmissionNext ==
  \/ \E p \in Party :
       \/ \E value \in {"in", "out"} : SubmitInput(p, value)
       \/ \E of \in SUBSET (checks \cap Party) : BoundPartial(p, TRUE, of)
  \/ \E s \in Stranger : SubmitInput(s, "in") \/ BoundPartial(s, TRUE, {})
  \/ \E s \in Anyone :
       BoundPartial(s, FALSE, {}) \/ HookCheck(s) \/ HookSend(s) \/ HookMark(s)

AdmissionSpec == AdmissionInit /\ [][AdmissionNext]_admissionVars

-----------------------------------------------------------------------------
(* Properties.                                                             *)

\* A session with crypto settles only when every participant submitted an input
\* in bound and has replied with a partial of every participant's check: no
\* order of replies, repetitions or strangers admits an unchecked input.
AdmittedClean ==
  stage = "settled" /\ real =>
    \A p \in Party : /\ p \in DOMAIN inputs /\ inputs[p] = "in"
                     /\ p \in DOMAIN replies /\ Party \subseteq replies[p].of

\* A violation is recorded against a participant only for an input out of bound
\* or a reply that left out a check, unless no complete set of checks existed or
\* a stranger's reply was counted in the place of one that had yet to come.
FlaggedForCause ==
  \A p \in results :
    \/ p \in DOMAIN inputs /\ inputs[p] = "out"
    \/ p \in short
    \/ ~(Party \subseteq checks)
    \/ DOMAIN replies \cap Stranger # {}

\* Once the flag is set the challenge has gone out, and no goroutine ever sends
\* it twice.  (Two goroutines that both look before either sets the flag send it
\* once each.)
ChallengeSent ==
  /\ sentinel => \E s \in Anyone : sends[s] > 0
  /\ \A s \in Anyone : sends[s] <= 1

=============================================================================

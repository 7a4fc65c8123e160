---------------------------- MODULE HelperClient ----------------------------
(***************************************************************************)
(* The client of the OpenFHE helper (pkg/ares/crypto/helperclient): one    *)
(* daemon behind a pair of pipes, one request in flight at a time, several *)
(* goroutines that call, any of which may close the client, and a daemon   *)
(* that may die.  One goroutine starts the client and runs KeygenChain,    *)
(* the whole distributed key generation for n parties; another calls one   *)
(* operation on whatever material there is.                                *)
(***************************************************************************)
EXTENDS HelperOps

CONSTANTS MaxParties, Closers

VARIABLES
  mu,        \* who holds Client.mu, "" if nobody
  done,      \* Client.done
  stdin,     \* the daemon's standard input is open
  daemon,    \* "up", "exited" at the end of its input, or "killed"
  pipe,      \* requests written and not read, answers written and not read
  served,    \* requests answered
  callAt,    \* where a goroutine's call, or its Close, is
  req,       \* the request of a caller
  res,       \* what its last call returned
  chain      \* KeygenChain: scheme, n, where it is and what it has

helperVars == <<mu, done, stdin, daemon, pipe, served, callAt, req, res, chain>>
Callers == {"chain", "app"}
NoCall == [who |-> "", ans |-> Refused]

-----------------------------------------------------------------------------
(* What each method sends.                                                 *)

Version == Request("version", <<>>, <<>>, FALSE, 0)
KeygenFirst == Request("keygen_first", <<>>, <<>>, FALSE, 0)
BFVKeygenFirst == Request("bfv_keygen_first", <<>>, <<>>, FALSE, 0)
KeygenNext(prev) == Request("keygen_next", <<prev>>, <<>>, FALSE, 0)
BFVKeygenNext(prev) == Request("bfv_keygen_next", <<prev>>, <<>>, FALSE, 0)
EncryptProfile(pk, n) == Request("encrypt_profile", <<pk>>, <<>>, FALSE, n)
BFVEncryptIntVector(pk, n) == Request("bfv_encrypt_int_vector", <<pk>>, <<>>, FALSE, n)
EvalKeyRound1Lead(sk) == Request("evalkey_round1_lead", <<sk>>, <<>>, FALSE, 0)
BFVEvalKeyRound1Lead(sk) == Request("bfv_evalkey_round1_lead", <<sk>>, <<>>, FALSE, 0)
EvalKeyRound1Participant(sk, mult, sum, pk) ==
  Request("evalkey_round1_participant", <<sk, mult, sum, pk>>, <<>>, FALSE, 0)
BFVEvalKeyRound1Participant(sk, mult, sum, pk) ==
  Request("bfv_evalkey_round1_participant", <<sk, mult, sum, pk>>, <<>>, FALSE, 0)
CombineEvalKeyRound1(pks, mults, sums) ==
  Request("combine_evalkey_round1", <<>>, <<pks, mults, sums>>, FALSE, 0)
BFVCombineEvalKeyRound1(pks, mults, sums) ==
  Request("bfv_combine_evalkey_round1", <<>>, <<pks, mults, sums>>, FALSE, 0)
EvalKeyRound2Participant(sk, joined, pk, lead) ==
  Request("evalkey_round2_participant", <<sk, joined, pk>>, <<>>, lead, 0)
BFVEvalKeyRound2Participant(sk, joined, pk, lead) ==
  Request("bfv_evalkey_round2_participant", <<sk, joined, pk>>, <<>>, lead, 0)
CombineEvalKeyRound2(pk, shares, sumFinal) ==
  Request("combine_evalkey_round2", <<pk, sumFinal>>, <<shares>>, FALSE, 0)
BFVCombineEvalKeyRound2(pk, shares, sumFinal) ==
  Request("bfv_combine_evalkey_round2", <<pk, sumFinal>>, <<shares>>, FALSE, 0)
PartialDecrypt(ct, sk, lead) == Request("partial_decrypt", <<ct, sk>>, <<>>, lead, 0)
BFVPartialDecrypt(ct, sk, lead) == Request("bfv_partial_decrypt", <<ct, sk>>, <<>>, lead, 0)
FusePartials(partials, n) == Request("fuse_partials", <<>>, <<partials>>, FALSE, n)
BFVFusePartials(partials, n) == Request("bfv_fuse_partials_int", <<>>, <<partials>>, FALSE, n)
EvalAdd(a, b) == Request("eval_add", <<a, b>>, <<>>, FALSE, 0)
EvalSub(a, b) == Request("eval_sub", <<a, b>>, <<>>, FALSE, 0)
EvalMult(key, a, b) == Request("eval_mult", <<a, b, key>>, <<>>, FALSE, 0)
EvalConstMult(a) == Request("eval_const_mult", <<a>>, <<>>, FALSE, 0)
EvalPoly(key, a, degree) == Request("eval_poly", <<key, a>>, <<>>, FALSE, degree)
Argmax(key, cts, degree) == Request("argmax", <<key>>, <<cts>>, FALSE, degree)
BFVEvalProductSum(mult, sum, a, b, n) ==
  Request("bfv_eval_product_sum", <<mult, sum, a, b>>, <<>>, FALSE, n)
\* Two operations of the daemon no method calls.
SplitRotShare(share) == Request("split_rot_share", <<share>>, <<>>, FALSE, 0)
ReconstructRotShare(a, b) == Request("reconstruct_rot_share", <<a, b>>, <<>>, FALSE, 0)
\* The coefficients it gives eval_poly: none, they are left to the helper.
SharpenChebyshev == 0

-----------------------------------------------------------------------------
(* KeygenChain: the next request it makes, and what it keeps of an answer. *)

Pubs == [i \in DOMAIN chain.shares |-> chain.shares[i][1]]
Sec(i) == chain.shares[i][2]
\* Mutant: the lead's own key.
FirstPublicKey == Pubs[1]
FinalPublicKey == Pubs[chain.n]
\* Round-1 shares of every slot; the lead's are the bases.
Mults == [i \in DOMAIN chain.round1 |-> chain.round1[i][1]]
Sums == [i \in DOMAIN chain.round1 |-> chain.round1[i][2]]

KeygenChain ==
  LET slot == Len(chain.shares) + 1
      r1 == Len(chain.round1) + 1
      r2 == Len(chain.round2) + 1
  IN  CASE chain.at = "version" -> Version
        [] chain.at = "keygen" /\ slot = 1 -> KeygenFirst
        [] chain.at = "keygen" /\ slot > 1 -> KeygenNext(Pubs[slot - 1])
        [] chain.at = "round1" /\ r1 = 1 -> EvalKeyRound1Lead(Sec(1))
        [] chain.at = "round1" /\ r1 > 1 ->
             EvalKeyRound1Participant(Sec(r1), Mults[1], Sums[1], Pubs[r1])
        [] chain.at = "combine1" -> CombineEvalKeyRound1(Pubs, Mults, Sums)
        [] chain.at = "round2" ->
             EvalKeyRound2Participant(Sec(r2), chain.joined[1], FinalPublicKey, r2 = 1)
        [] chain.at = "combine2" ->
             CombineEvalKeyRound2(FinalPublicKey, chain.round2, chain.joined[2])

BFVKeygenChain ==
  LET slot == Len(chain.shares) + 1
      r1 == Len(chain.round1) + 1
      r2 == Len(chain.round2) + 1
  IN  CASE chain.at = "version" -> Version
        [] chain.at = "keygen" /\ slot = 1 -> BFVKeygenFirst
        [] chain.at = "keygen" /\ slot > 1 -> BFVKeygenNext(Pubs[slot - 1])
        [] chain.at = "round1" /\ r1 = 1 -> BFVEvalKeyRound1Lead(Sec(1))
        [] chain.at = "round1" /\ r1 > 1 ->
             BFVEvalKeyRound1Participant(Sec(r1), Mults[1], Sums[1], Pubs[r1])
        [] chain.at = "combine1" -> BFVCombineEvalKeyRound1(Pubs, Mults, Sums)
        [] chain.at = "round2" ->
             BFVEvalKeyRound2Participant(Sec(r2), chain.joined[1], FinalPublicKey, r2 = 1)
        [] chain.at = "combine2" ->
             BFVCombineEvalKeyRound2(FinalPublicKey, chain.round2, chain.joined[2])

\* An error ends the chain; Start ignores the error of its version probe.
KeygenChainStep(ans) ==
  LET Grown(field, to, x) ==
        [chain EXCEPT ![field] = Append(@, x),
                      !.at = IF Len(chain[field]) + 1 = chain.n THEN to ELSE @]
  IN  IF chain.at = "version" THEN [chain EXCEPT !.at = IF chain.n < 2 THEN "failed" ELSE "keygen"]
      ELSE IF ~ans.ok THEN [chain EXCEPT !.at = "failed"]
      ELSE CASE chain.at = "keygen" -> Grown("shares", "round1", ans.out)
             [] chain.at = "round1" -> Grown("round1", "combine1", ans.out)
             [] chain.at = "combine1" -> [chain EXCEPT !.joined = ans.out, !.at = "round2"]
             [] chain.at = "round2" -> Grown("round2", "combine2", ans.out[1])
             [] chain.at = "combine2" -> [chain EXCEPT !.evalKeys = ans.out, !.at = "done"]

\* What the other goroutine may call: every method, with the material of a
\* finished chain or with a blob that is missing.
AppRequests ==
  LET pk == FinalPublicKey
      key == chain.evalKeys[1]
      sum == chain.evalKeys[2]
      ct == Ciphertext(chain.scheme, pk.by, "m")
      part == [ct EXCEPT !.by = Sec(1).by, !.lead = TRUE]
      ckks == {EncryptProfile(pk, 1), EvalAdd(ct, ct), EvalSub(ct, ct), EvalMult(key, ct, ct),
               EvalConstMult(ct), EvalPoly(key, ct, 3), EvalPoly(key, ct, SharpenChebyshev),
               Argmax(key, <<ct, ct>>, 3), Argmax(key, <<ct>>, 3),
               PartialDecrypt(ct, Sec(1), TRUE), FusePartials(<<part>>, 1),
               SplitRotShare(sum),
               ReconstructRotShare([sum EXCEPT !.kind = "sum a"], [sum EXCEPT !.kind = "sum b"])}
      bfv == {BFVEncryptIntVector(pk, 1), BFVPartialDecrypt(ct, Sec(1), TRUE),
              BFVFusePartials(<<part>>, 1), BFVEvalProductSum(key, sum, ct, ct, 1)}
  IN  {Version, KeygenNext(NoBlob), EncryptProfile(NoBlob, 1)}
      \cup IF chain.at = "done" THEN ckks \cup bfv ELSE {}

-----------------------------------------------------------------------------
(* The client and the daemon.                                              *)

HelperInit ==
  /\ mu = "" /\ done = FALSE /\ stdin = TRUE /\ daemon = "up"
  /\ pipe = [in |-> <<>>, out |-> <<>>] /\ served = 0
  /\ callAt = [g \in Callers \cup Closers |-> "idle"]
  /\ req = [g \in Callers |-> Version]
  /\ res = [g \in Callers |-> NoCall]
  /\ \E s \in {"ckks", "bfv"}, n \in 1 .. MaxParties :
       chain = [scheme |-> s, n |-> n, at |-> "version", shares |-> <<>>, round1 |-> <<>>,
                joined |-> <<>>, round2 |-> <<>>, evalKeys |-> <<>>]

Started == chain.at # "version"
Become(g, l) == callAt' = [callAt EXCEPT ![g] = l]

\* A goroutine calls a method.
Ask(g, r) ==
  /\ callAt[g] = "idle"
  /\ req' = [req EXCEPT ![g] = r]
  /\ Become(g, "lock")
  /\ UNCHANGED <<mu, done, stdin, daemon, pipe, served, res, chain>>

AskChain ==
  /\ chain.at \notin {"done", "failed"}
  /\ Ask("chain", IF chain.scheme = "ckks" THEN KeygenChain ELSE BFVKeygenChain)

AskApp == Started /\ res["app"] = NoCall /\ \E r \in AppRequests : Ask("app", r)

\* A call returns: the mutex is released and the caller goes on.
ReturnCall(g, answer) ==
  /\ mu' = ""
  /\ res' = [res EXCEPT ![g] = answer]
  /\ chain' = IF g = "chain" THEN KeygenChainStep(answer.ans) ELSE chain
  /\ Become(g, "idle")

CallError(g) == [who |-> g, ans |-> Refused]

\* Mutant: a closed client refuses and keeps the mutex.
CallLockKept(g) ==
  /\ callAt[g] = "lock" /\ mu = ""
  /\ mu' = g
  /\ Become(g, IF done THEN "idle" ELSE "encode")
  /\ UNCHANGED <<done, stdin, daemon, pipe, served, req, res, chain>>

\* call: the mutex, held to the end of the round trip; a closed client refuses.
CallLock(g) ==
  /\ callAt[g] = "lock" /\ mu = ""
  /\ IF done THEN ReturnCall(g, CallError(g))
     ELSE mu' = g /\ Become(g, "encode") /\ UNCHANGED <<res, chain>>
  /\ UNCHANGED <<done, stdin, daemon, pipe, served, req>>

CallEncode(g) ==
  /\ callAt[g] = "encode"
  /\ IF stdin /\ daemon = "up"
     THEN /\ pipe' = [pipe EXCEPT !.in = Append(@, [who |-> g, req |-> req[g]])]
          /\ Become(g, "decode")
          /\ UNCHANGED <<mu, res, chain>>
     ELSE ReturnCall(g, CallError(g)) /\ UNCHANGED pipe
  /\ UNCHANGED <<done, stdin, daemon, served, req>>

\* Mutant: the application stops waiting, and its answer stays in the pipe.
CallDecodeGivesUp(g) ==
  /\ callAt[g] = "decode"
  /\ \/ /\ pipe.out # <<>>
        /\ ReturnCall(g, Head(pipe.out))
        /\ pipe' = [pipe EXCEPT !.out = Tail(@)]
     \/ /\ pipe.out = <<>> /\ (daemon # "up" \/ g = "app")
        /\ ReturnCall(g, CallError(g))
        /\ UNCHANGED pipe
  /\ UNCHANGED <<done, stdin, daemon, served, req>>

\* The next envelope, or the end of the output of a daemon that is gone.
CallDecode(g) ==
  /\ callAt[g] = "decode"
  /\ \/ /\ pipe.out # <<>>
        /\ ReturnCall(g, Head(pipe.out))
        /\ pipe' = [pipe EXCEPT !.out = Tail(@)]
     \/ /\ pipe.out = <<>> /\ daemon # "up"
        /\ ReturnCall(g, CallError(g))
        /\ UNCHANGED pipe
  /\ UNCHANGED <<done, stdin, daemon, served, req>>

\* Close: marks the client, then closes the input and waits for the exit.  A
\* later Close returns at once.
CloseLock(c) ==
  /\ Started /\ callAt[c] \in {"idle", "waited"} /\ mu = ""
  /\ done' = TRUE
  /\ Become(c, IF done THEN "closed" ELSE "stdin")
  /\ UNCHANGED <<mu, stdin, daemon, pipe, served, req, res, chain>>

CloseStdin(c) ==
  /\ callAt[c] = "stdin"
  /\ stdin' = FALSE
  /\ Become(c, "wait")
  /\ UNCHANGED <<mu, done, daemon, pipe, served, req, res, chain>>

CloseWait(c) ==
  /\ callAt[c] = "wait" /\ daemon # "up"
  /\ Become(c, "waited")
  /\ UNCHANGED <<mu, done, stdin, daemon, pipe, served, req, res, chain>>

\* runDaemon: one request, one envelope.
runDaemon ==
  /\ daemon = "up" /\ pipe.in # <<>>
  /\ LET r == Head(pipe.in)
     IN  pipe' = [in |-> Tail(pipe.in),
                  out |-> Append(pipe.out, [who |-> r.who, ans |-> run(r.req, served + 1)])]
  /\ served' = served + 1
  /\ UNCHANGED <<mu, done, stdin, daemon, callAt, req, res, chain>>

DaemonExits ==
  /\ daemon = "up" /\ ~stdin /\ pipe.in = <<>>
  /\ daemon' = "exited"
  /\ UNCHANGED <<mu, done, stdin, pipe, served, callAt, req, res, chain>>

\* It crashes, or the context it was started under is cancelled.
DaemonDies ==
  /\ daemon = "up"
  /\ daemon' = "killed"
  /\ UNCHANGED <<mu, done, stdin, pipe, served, callAt, req, res, chain>>

HelperNext ==
  \/ AskChain \/ AskApp \/ runDaemon \/ DaemonExits \/ DaemonDies
  \/ \E g \in Callers : CallLock(g) \/ CallEncode(g) \/ CallDecode(g)
  \/ \E c \in Closers : CloseLock(c) \/ CloseStdin(c) \/ CloseWait(c)

-----------------------------------------------------------------------------
(* Properties.                                                             *)

\* Whatever the interleaving of goroutines, closes and a dying daemon, a call
\* returns the answer to its own request (client.go: "Methods are
\* concurrency-safe").
OwnAnswer == \A g \in Callers : res[g] # NoCall => res[g].who = g

\* Everything the daemon says of requests made one after the other.
Reply(r) == run(r, 0).out[1]
Partials(ct, S) ==
  LET Of(i) == IF chain.scheme = "ckks" THEN PartialDecrypt(ct, Sec(i), i = 1)
               ELSE BFVPartialDecrypt(ct, Sec(i), i = 1)
      kept == {i \in 1 .. chain.n : i \in S}
      Nth(k) == CHOOSE i \in kept : Cardinality({j \in kept : j <= i}) = k
  IN  [k \in 1 .. Cardinality(kept) |-> Reply(Of(Nth(k)))]
Opened(ct, S) ==
  Reply(IF chain.scheme = "ckks" THEN FusePartials(Partials(ct, S), 1)
        ELSE BFVFusePartials(Partials(ct, S), 1)).m

\* KeygenChain gives every party what it takes: what is encrypted under the
\* joint public key and multiplied with the joint evaluation key opens with
\* the partial decryptions of all n slots, and with no fewer.  It fails only
\* if the client was closed, the daemon died, or n < 2.
ChainOpens ==
  /\ chain.at = "failed" => done \/ daemon = "killed" \/ chain.n < 2
  /\ chain.at = "done" =>
       LET ckks == chain.scheme = "ckks"
           ct == Reply(IF ckks THEN EncryptProfile(FinalPublicKey, 1)
                       ELSE BFVEncryptIntVector(FinalPublicKey, 1))
           key == chain.evalKeys[1]
           product == Reply(IF ckks THEN EvalMult(key, ct, ct)
                            ELSE BFVEvalProductSum(key, chain.evalKeys[2], ct, ct, 1))
       IN  \A S \in SUBSET (1 .. chain.n) \ {{}} :
             (Opened(product, S) = "product") <=> (S = 1 .. chain.n)

\* A call that got the mutex returns and so lets it go, and the Close that ends
\* the client comes back, even if the daemon dies under them.
HelperReturns ==
  /\ []<>(mu = "")
  /\ \A c \in Closers : []<>(callAt[c] \notin {"stdin", "wait"})
=============================================================================

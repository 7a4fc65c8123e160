---------------------------- MODULE BridgeFuse -----------------------------
(***************************************************************************)
(* Payload fusion and union scoring (bridge.go) as programs of Bridge.  A  *)
(* request r has the counts of its per-candidate slices (n ciphertexts,    *)
(* brownies, coords, packages, payloads, distances), and says whether the  *)
(* initiator's ciphertext, positive sizes (dims) and the two eval keys     *)
(* (mult, sum) are there, and which candidates' ciphertexts are non-empty  *)
(* (cts: "none", "some" or "all").                                         *)
(***************************************************************************)
EXTENDS BridgeFolds

\* A check of contents, whose outcome the counts do not decide.
Inspect == Call(<<>>, {})

requirePlainPayloadMode(r) == Require(r.payloads = 0)
flattenCandidatePackages == Inspect
Options == CString("comparator") \o CString("schedule")

\* concatCandidateCiphertexts: an empty candidate adds nothing to the blob.
candidateBlob(r) == AddressOf(r.cts # "none") \o AddressOf(r.n > 0)
Metadata(r) == Require(r.brownies = r.n /\ r.coords = r.n /\ r.packages = r.n)
PlainArguments(r) ==
  candidateBlob(r) \o AddressOf(r.coords > 0) \o AddressOf(r.brownies > 0) \o AddressOf(r.packages > 0)

FullFusePayloadCKKS(r) ==
  requirePlainPayloadMode(r) \o Require(r.initiator) \o Require(r.n > 0) \o Metadata(r)
    \o Require(r.mult /\ r.sum) \o Require(r.dims) \o Require(r.cts = "all")
    \o flattenCandidatePackages \o Options \o PlainArguments(r)
    \o Held(<<"out">>, {"comparator", "schedule"})

\* The eval keys are given together or are in the context already; an
\* eval-mult key alone is taken too.
FullFusePayloadCKKSWithContext(ctx, r) ==
  requirePlainPayloadMode(r) \o Require(ctx) \o Require(r.n > 0 /\ r.initiator) \o Metadata(r)
    \o Require(r.mult \/ ~r.sum) \o Require(r.dims)
    \o flattenCandidatePackages \o Options \o PlainArguments(r)
    \o Call(<<"out">>, {"comparator", "schedule"}) \o Free("out")

\* More chunks than the length table holds: the result is freed and refused.
ChunkedOut == Call(<<"out">>, {"comparator", "schedule"}) \o CallUndo(<<>>, {}, <<"out">>) \o Free("out")
ChunkedFusePayloadCKKS(r) ==
  requirePlainPayloadMode(r) \o Require(r.initiator) \o Require(r.n > 0) \o Metadata(r)
    \o Require(r.mult /\ r.sum) \o Require(r.dims)
    \o flattenCandidatePackages \o Options \o PlainArguments(r) \o ChunkedOut
ChunkedFusePayloadCKKSWithContext(ctx, r) ==
  requirePlainPayloadMode(r) \o Require(ctx) \o Require(r.n > 0 /\ r.initiator) \o Metadata(r)
    \o Require(r.mult \/ ~r.sum) \o Require(r.dims)
    \o flattenCandidatePackages \o Options \o PlainArguments(r) \o ChunkedOut

\* Coordinates and encrypted distances exclude each other; the chunks of each
\* candidate are inspected one by one.
flattenEncryptedPayloadCiphertexts(r, requireEvalKeys) ==
  Require(r.initiator) \o Require(r.n > 0) \o Require(r.brownies = r.n)
    \o Require(IF r.distances = 0 THEN r.coords = r.n ELSE r.coords = 0)
    \o Require(r.packages = 0) \o Require(r.dims)
    \o Require(IF requireEvalKeys THEN r.mult /\ r.sum ELSE r.mult = r.sum)
    \o Inspect \o Require(r.payloads = r.n) \o Inspect
flattenEncryptedDistanceCiphertexts(r) ==
  Require(r.distances = r.n) \o Require(r.coords = 0) \o Inspect

\* The chunk count and the chunk lengths the C side reports are checked.
EncryptedOut(uses) == Held(<<"out">>, uses) \o Inspect \o Inspect

chunkedFuseEncryptedPayloadCKKS(given, r) ==
  Require(r.distances = 0) \o flattenEncryptedPayloadCiphertexts(r, ~given)
    \o Require(r.cts = "all") \o Options \o candidateBlob(r) \o AddressOf(r.coords > 0)
    \o AddressOf(r.brownies > 0) \o AddressOf(r.payloads > 0)
    \o EncryptedOut({"comparator", "schedule"})
ChunkedFuseEncryptedPayloadCKKS(r) == chunkedFuseEncryptedPayloadCKKS(FALSE, r)
ChunkedFuseEncryptedPayloadCKKSWithContext(ctx, r) ==
  Require(ctx) \o chunkedFuseEncryptedPayloadCKKS(TRUE, r)

chunkedFuseEncryptedInputsCKKS(given, r) ==
  flattenEncryptedPayloadCiphertexts(r, ~given) \o flattenEncryptedDistanceCiphertexts(r)
    \o Require(r.cts = "all") \o Options \o candidateBlob(r) \o AddressOf(r.distances > 0)
    \o AddressOf(r.brownies > 0) \o AddressOf(r.payloads > 0)
    \o EncryptedOut({"comparator", "schedule"})

\* An EncryptedInputFuseRequest has neither coordinates nor packages.
fullFuseRequest(r) == [r EXCEPT !.coords = 0, !.packages = 0]
encryptedInputFuseRequestFromFull(r) == [r EXCEPT !.coords = 0, !.packages = 0]
ChunkedFuseEncryptedInputsCKKS(r) == chunkedFuseEncryptedInputsCKKS(FALSE, fullFuseRequest(r))
ChunkedFuseEncryptedInputsCKKSWithContext(ctx, r) ==
  Require(ctx) \o chunkedFuseEncryptedInputsCKKS(TRUE, fullFuseRequest(r))

FullFusePayloadCKKSWithEvalSumRefs(r, pks, byParty, resolve) ==
  Require(r.mult) \o createContractContext \o Inline(insertEvalSumPerIndexLazy(pks, byParty, resolve))
    \o FullFusePayloadCKKSWithContext(TRUE, [r EXCEPT !.sum = FALSE])

-----------------------------------------------------------------------------
(* Union scoring: every comparator's fusion on one context.                *)

unionComparatorRequest(r, preinserted) ==
  IF preinserted THEN [r EXCEPT !.mult = FALSE, !.sum = FALSE] ELSE r

chunkedUnionComparatorWithContext(r, preinserted) ==
  ChunkedFusePayloadCKKSWithContext(TRUE, unionComparatorRequest(r, preinserted))
chunkedEncryptedUnionComparatorWithContext(r, preinserted) ==
  ChunkedFuseEncryptedPayloadCKKSWithContext(TRUE, unionComparatorRequest(r, preinserted))
chunkedEncryptedInputUnionComparatorWithContext(r, preinserted) ==
  ChunkedFuseEncryptedInputsCKKSWithContext(TRUE,
    encryptedInputFuseRequestFromFull(unionComparatorRequest(r, preinserted)))

insertUnionEvalKeys(r) == Require(r.mult /\ r.sum) \o EvalKeys

\* One lane after the other; with more concurrency the lanes run as in
\* module UnionPool.
Lanes(n, fuse) == Loop(n, LAMBDA i : Inline(fuse))

\* concurrent: the clamped concurrency is above one, so the keys go in first.
\* `fuse' is the program of one comparator.
UnionScore(r, n, concurrent, fuse) ==
  Require(n > 0) \o createContractContext
    \o (IF concurrent THEN Inline(insertUnionEvalKeys(r)) ELSE <<>>)
    \o Lanes(n, fuse)
ChunkedUnionScoreCKKSWithConcurrency(r, n, concurrent) ==
  UnionScore(r, n, concurrent, chunkedUnionComparatorWithContext(r, concurrent))
ChunkedUnionScoreEncryptedPayloadCKKSWithConcurrency(r, n, concurrent) ==
  UnionScore(r, n, concurrent, chunkedEncryptedUnionComparatorWithContext(r, concurrent))
ChunkedUnionScoreEncryptedInputsCKKSWithConcurrency(r, n, concurrent) ==
  UnionScore(fullFuseRequest(r), n, concurrent,
             chunkedEncryptedInputUnionComparatorWithContext(fullFuseRequest(r), concurrent))
ChunkedUnionScoreCKKS(r, n) == ChunkedUnionScoreCKKSWithConcurrency(r, n, FALSE)
ChunkedUnionScoreEncryptedPayloadCKKS(r, n) ==
  ChunkedUnionScoreEncryptedPayloadCKKSWithConcurrency(r, n, FALSE)
ChunkedUnionScoreEncryptedInputsCKKS(r, n) ==
  ChunkedUnionScoreEncryptedInputsCKKSWithConcurrency(r, n, FALSE)

\* The keys always go in first, the eval-sum key from the parties' shares.
UnionScoreRefs(r, n, byParty, fuse) ==
  Require(n > 0) \o Require(r.mult) \o createContractContext \o insertKey("multKey")
    \o Inline(insertEvalSumPerIndexLazy(Len(byParty), byParty, TRUE)) \o Lanes(n, fuse)
ChunkedUnionScoreCKKSWithEvalSumRefs(r, n, byParty) ==
  UnionScoreRefs(r, n, byParty, chunkedUnionComparatorWithContext(r, TRUE))
ChunkedUnionScoreEncryptedPayloadCKKSWithEvalSumRefs(r, n, byParty) ==
  UnionScoreRefs(r, n, byParty, chunkedEncryptedUnionComparatorWithContext(r, TRUE))
ChunkedUnionScoreEncryptedInputsCKKSWithEvalSumRefs(r, n, byParty) ==
  UnionScoreRefs(fullFuseRequest(r), n, byParty,
                 chunkedEncryptedInputUnionComparatorWithContext(fullFuseRequest(r), TRUE))

-----------------------------------------------------------------------------
(* Properties.                                                             *)

\* When a call has returned, by whatever path (an error at any step, or a
\* panic, included), every handle it obtained is freed or was given to the
\* caller.  The one exception: SingleKeySoftArgmin defers the frees of its
\* ciphertexts after the loop that encrypts them, so an encryption that fails
\* loses the ones before it.
Released ==
  Returned /\ heap # EmptyBag =>
    fn = "SingleKeySoftArgmin" /\ exit = "err" /\ BagToSet(heap) = {"cts"}

\* bridge.go has it that a function MUST guard against an empty slice at its
\* entry.  These do not: a key combination with a caller's context and no shares,
\* a decryption of no slots, the plain fusions on a context or in chunks when
\* every candidate is empty (and the union scorings made of them), and the
\* resident measurement.
Unguarded ==
  {"CombineEvalMultSwitchSharesWithContext", "CombineEvalKeyRound2WithContext", "SingleKeyDecrypt",
   "FullFusePayloadCKKSWithContext", "FullFusePayloadCKKSWithEvalSumRefs", "ChunkedFusePayloadCKKS",
   "ChunkedFusePayloadCKKSWithContext", "ChunkedUnionScoreCKKS", "ChunkedUnionScoreCKKSWithConcurrency",
   "ChunkedUnionScoreCKKSWithEvalSumRefs", "benchResidentCombineRound1"}

\* No call brings the process down.  No path frees a handle twice, or passes to C
\* one that is freed already or was never obtained: explicit frees on the error
\* paths and deferred ones never meet.  And the slices whose address is taken are
\* non-empty by then, whatever the lengths of the arguments, but in Unguarded.
NoCrash == exit # "fault" /\ (exit = "panic" => fn \in Unguarded)

\* The folds keep the accumulator and one share, and the per-index ones the
\* combined map besides, however many parties and indices there are; only the
\* reference path (combineEvalSumAllAtOnce, which runIncrementalCombineCheck
\* runs too) and the resident measurement hold every share.
RotKeysLive == FoldFunction(+, 0, [k \in RotKeys |-> CopiesIn(k, heap)])
BoundedResidency ==
  fn \notin {"combineEvalSumAllAtOnce", "runIncrementalCombineCheck", "benchResidentCombineRound1"} =>
    RotKeysLive <= IF BagIn("final", heap) THEN 3 ELSE 2
=============================================================================

----------------------------- MODULE BridgeOps -----------------------------
(***************************************************************************)
(* The functions of pkg/ares/crypto/cgo/bridge.go as programs of module    *)
(* Bridge.  A parameter is what the function asks of its argument: the     *)
(* length of a slice of blobs or of numbers, or (a BOOLEAN) whether the    *)
(* blobs it requires are there.  Handles keep the names of the variables.  *)
(***************************************************************************)
EXTENDS Bridge

-----------------------------------------------------------------------------
(* Contexts and the byte encodings of handles.                             *)

\* Either with the deferred FreeCryptoContext its callers follow it by.
createContractContext == Held(<<"ctx">>, {})
createBFVContractContext == Held(<<"ctx">>, {})

\* serializePublicKey and the others: the C buffer is copied and freed.
serialize(h) == Inline(Call(<<"data">>, {h}) \o Defer("data"))

\* deserializePublicKey and the others, which refuse an empty blob as they
\* refuse a malformed one; the caller defers the free.
deserialize(h) == Held(<<h>>, {})

\* Mutant: the shares already decoded are not freed when a later one fails.
deserializeAllLeaks(h, n) == Loop(n, LAMBDA i : Call(<<h>>, {})) \o DeferAll(h)

\* deserializePublicKeys and the others: a failure frees the earlier ones.
deserializeAll(h, n) ==
  Loop(n, LAMBDA i : CallUndo(<<h>>, {}, [j \in 1 .. i - 1 |-> h])) \o DeferAll(h)

-----------------------------------------------------------------------------
(* The threshold key chain.  The CKKS and the BFV function differ in the   *)
(* context alone, and the WithContext ones are given it.                   *)

KeyPair(uses) == Held(<<"pk", "sk">>, uses) \o serialize("pk") \o serialize("sk")
DistributedKeyGenFirst == createContractContext \o KeyPair({})
BFVDistributedKeyGenFirst == createBFVContractContext \o KeyPair({})
BFVDistributedKeyGenNext(prev) ==
  Require(prev) \o createBFVContractContext \o deserialize("prev") \o KeyPair({"prev"})
DistributedKeyGenNext(prev) ==
  Require(prev) \o createContractContext \o deserialize("prev") \o KeyPair({"prev"})

evalKeyRound1LeadWithContext ==
  deserialize("sk") \o Held(<<"mult">>, {"sk"}) \o serialize("mult")
    \o Held(<<"sum">>, {"sk"}) \o serialize("sum")
EvalKeyRound1Lead == createContractContext \o evalKeyRound1LeadWithContext
BFVEvalKeyRound1Lead == createBFVContractContext \o evalKeyRound1LeadWithContext

EvalKeyRound1ParticipantWithContext ==
  deserialize("sk") \o deserialize("multBase") \o deserialize("sumBase") \o deserialize("ownPK")
    \o Held(<<"multShare">>, {"sk", "multBase"}) \o serialize("multShare")
    \o Held(<<"sumShare">>, {"sk", "sumBase", "ownPK"}) \o serialize("sumShare")
EvalKeyRound1Participant == createContractContext \o EvalKeyRound1ParticipantWithContext
BFVEvalKeyRound1Participant == createBFVContractContext \o EvalKeyRound1ParticipantWithContext

EvalMultKeyGenLeadWithContext ==
  deserialize("sk") \o Held(<<"mult">>, {"sk"}) \o serialize("mult")
EvalMultKeySwitchShareWithContext ==
  deserialize("sk") \o deserialize("multBase")
    \o Held(<<"multShare">>, {"sk", "multBase"}) \o serialize("multShare")

\* The joined eval-mult key of the switch shares.
CombineEvalMultSwitchSharesWithContext(pks, mults) ==
  deserializeAll("pks", pks) \o deserializeAll("multShares", mults)
    \o AddressOf(pks > 0) \o AddressOf(mults > 0)
    \o Held(<<"joined">>, {"pks", "multShares"}) \o serialize("joined")
CombineEvalMultSwitchShares(pks, mults) ==
  Require(pks > 0 /\ pks = mults) \o createContractContext
    \o CombineEvalMultSwitchSharesWithContext(pks, mults)

EvalKeyRound2ParticipantWithContext ==
  deserialize("sk") \o deserialize("joined") \o deserialize("finalPK")
    \o Held(<<"finalShare">>, {"sk", "joined", "finalPK"}) \o serialize("finalShare")
EvalKeyRound2Participant == createContractContext \o EvalKeyRound2ParticipantWithContext
BFVEvalKeyRound2Participant == createBFVContractContext \o EvalKeyRound2ParticipantWithContext

Round2(ctx, shares) ==
  Require(shares > 0) \o ctx \o deserialize("finalPK") \o deserializeAll("finalShares", shares)
    \o AddressOf(shares > 0)
    \o Held(<<"final">>, {"finalPK", "finalShares"}) \o serialize("final")
CombineEvalKeyRound2(shares) == Round2(createContractContext, shares)
BFVCombineEvalKeyRound2(shares) == Round2(createBFVContractContext, shares)

\* Reads the eval-sum key only to check it, and frees the final key by hand.
CombineEvalKeyRound2WithContext(shares) ==
  deserialize("finalPK") \o deserializeAll("finalShares", shares) \o deserialize("sumFinal")
    \o AddressOf(shares > 0) \o Call(<<"final">>, {"finalPK", "finalShares"})
    \o Enter \o CallUndo(<<"data">>, {"final"}, <<"final">>) \o Defer("data") \o Leave
    \o Free("final")

StreamedEvalSumKeyGenLeadWithContext ==
  deserialize("sk") \o Held(<<"sum">>, {"sk"}) \o serialize("sum")
StreamedEvalSumKeyShareWithContext ==
  deserialize("sk") \o deserialize("sumBase") \o deserialize("ownPK")
    \o Held(<<"sumShare">>, {"sk", "sumBase", "ownPK"}) \o serialize("sumShare")

\* The count first, then the indices.
MinimalRotationIndicesWithContext(count) ==
  Call(<<>>, {}) \o (IF count = 0 THEN <<>> ELSE AddressOf(count > 0) \o Call(<<>>, {}))
GeneratePerIndexEvalSumKeyWithContext ==
  deserialize("sk") \o Held(<<"key">>, {"sk"}) \o serialize("key")
GeneratePerIndexEvalSumKeysWithContext(count) ==
  Inline(MinimalRotationIndicesWithContext(count))
    \o Loop(count, LAMBDA i : Inline(GeneratePerIndexEvalSumKeyWithContext))
GeneratePerIndexEvalSumShareWithContext ==
  deserialize("sk") \o deserialize("base") \o deserialize("ownPK")
    \o Held(<<"share">>, {"sk", "base", "ownPK"}) \o serialize("share")
GeneratePerIndexEvalSumSharesWithContext(bases) ==
  Require(bases > 0) \o Loop(bases, LAMBDA i : Inline(GeneratePerIndexEvalSumShareWithContext))

-----------------------------------------------------------------------------
(* Evaluation.                                                             *)

\* A serialized eval key is decoded and entered into OpenFHE's key table.
insertKey(h) == deserialize(h) \o Call(<<>>, {h})
EvalKeys == insertKey("multKey") \o insertKey("sumKey")

evalProductSumInContext ==
  deserialize("left") \o deserialize("right") \o Held(<<"product">>, {"left", "right"})
    \o Held(<<"sum">>, {"product"}) \o serialize("sum")
EvalProductSumForContract(keys, nSlots) ==
  Require(keys) \o Require(nSlots > 0) \o createContractContext \o EvalKeys
    \o Inline(evalProductSumInContext)
EvalProductSumBFVForContract(keys, nSlots) ==
  Require(keys) \o Require(nSlots > 0) \o createBFVContractContext \o EvalKeys
    \o evalProductSumInContext

\* The operands, the eval-mult key if there is one, one operation.
evalBinaryCKKS(key, cts) ==
  Require(cts) \o createContractContext \o (IF key THEN insertKey("multKey") ELSE <<>>)
    \o deserialize("a") \o deserialize("b") \o Held(<<"out">>, {"a", "b"}) \o serialize("out")
EvalAddCKKSForContract(cts) == evalBinaryCKKS(FALSE, cts)
EvalSubCKKSForContract(cts) == evalBinaryCKKS(FALSE, cts)
EvalMultCKKSForContract(key, cts) == Require(key) \o evalBinaryCKKS(key, cts)

EvalAtIndexCKKSForContract(given, index) ==
  Require(given) \o Require(index # 0) \o createContractContext \o insertKey("sumKey")
    \o deserialize("in") \o Held(<<"out">>, {"in"}) \o serialize("out")
EvalConstMultCKKSForContract(ct) ==
  Require(ct) \o createContractContext \o deserialize("ctH") \o Held(<<"out">>, {"ctH"})
    \o serialize("out")

\* The inputs are freed by a defer made before the loop that fills them.
EvalArgmaxCKKSForContract(cts, key, coeffs) ==
  Require(cts >= 2) \o Require(key) \o Require(coeffs >= 2) \o createContractContext
    \o insertKey("multKey") \o DeferAll("handles")
    \o Loop(cts, LAMBDA i : Call(<<"handles">>, {}))
    \o AddressOf(cts > 0) \o AddressOf(coeffs > 0)
    \o Call([i \in 1 .. cts |-> "outHandles"], {"handles"}) \o DeferAll("outHandles")
    \o Loop(cts, LAMBDA i : serialize("outHandles"))

\* hasNonConstantTerm: only the degrees above zero matter.
EvalPolyCKKSForContract(ct, key, coeffs, hasNonConstantTerm) ==
  Require(ct) \o Require(coeffs > 0) \o Require(key \/ ~hasNonConstantTerm)
    \o createContractContext \o (IF key THEN insertKey("multKey") ELSE <<>>)
    \o deserialize("ct") \o AddressOf(coeffs > 0) \o Held(<<"out">>, {"ct"}) \o serialize("out")

RoundTripCiphertext(ct) ==
  Require(ct) \o createContractContext \o deserialize("ctH") \o serialize("ctH")

Encrypt(ctx, pk, values) ==
  Require(pk) \o Require(values > 0) \o ctx \o deserialize("pk") \o AddressOf(values > 0)
    \o Held(<<"ct">>, {"pk"}) \o serialize("ct")
EncryptCKKSForContract(pk, values) == Encrypt(createContractContext, pk, values)
EncryptBFVForContract(pk, values) == Encrypt(createBFVContractContext, pk, values)

\* The result comes as bytes; a result of length zero is freed and refused.
ResultBytes(uses) == Held(<<"out">>, uses)
EncryptRepeatedScalarCKKSForContract(pk) ==
  Require(pk) \o createContractContext \o deserialize("pk") \o ResultBytes({"pk"})
EncryptRepeatedScalarBFVForContract(pk) ==
  Require(pk) \o createBFVContractContext \o deserialize("pk") \o ResultBytes({"pk"})
SquaredDistance(ctx, given) ==
  Require(given) \o ctx \o insertKey("multKey") \o AddressOf(given) \o ResultBytes({})
EncryptedSquaredDistanceCKKSForContract(given) == SquaredDistance(createContractContext, given)
EncryptedSquaredDistanceBFVForContract(given) == SquaredDistance(createBFVContractContext, given)

\* The three tables are C memory; an empty ciphertext is refused while the
\* ciphertexts are pinned, one table after the other.
BlindFusePayloadBFVForContract(given, n, metadata, coeffs) ==
  Require(given) \o Require(n >= 2) \o Require(metadata = n) \o Require(coeffs > 0)
    \o Held(<<"profileTable">>, {}) \o Held(<<"distanceTable">>, {}) \o Held(<<"payloadTable">>, {})
    \o Loop(3, LAMBDA i : Call(<<>>, {})) \o AddressOf(n > 0) \o AddressOf(metadata > 0)
    \o AddressOf(coeffs > 0)
    \o ResultBytes({"profileTable", "distanceTable", "payloadTable"})

PartialDecrypt(ctx, given) ==
  Require(given) \o ctx \o deserialize("ct") \o deserialize("sk")
    \o Held(<<"partial">>, {"ct", "sk"}) \o serialize("partial")
PartialDecryptCKKSForContract(given) == PartialDecrypt(createContractContext, given)
PartialDecryptBFVForContract(given) == PartialDecrypt(createBFVContractContext, given)

FusePartials(ctx, partials, nSlots) ==
  Require(partials > 0) \o Require(nSlots > 0) \o ctx \o deserializeAll("handles", partials)
    \o AddressOf(partials > 0) \o AddressOf(nSlots > 0) \o Call(<<>>, {"handles"})
FuseCKKSPartialsForContract(partials, nSlots) ==
  FusePartials(createContractContext, partials, nSlots)
FuseBFVPartialsForContract(partials, nSlots) ==
  FusePartials(createBFVContractContext, partials, nSlots)

-----------------------------------------------------------------------------
(* One key instead of shares, and the self tests.                          *)

\* The ciphertexts are deferred only once all of them exist, unlike the
\* inputs of EvalArgmaxCKKSForContract.
SingleKeySoftArgmin(scores) ==
  Require(scores >= 2) \o createContractContext \o Held(<<"pk", "sk">>, {}) \o Call(<<>>, {"sk"})
    \o Loop(scores, LAMBDA i : Call(<<"cts">>, {"pk"})) \o DeferAll("cts")
    \o Call([i \in 1 .. scores |-> "masks"], {"cts"}) \o DeferAll("masks")
    \o Loop(scores, LAMBDA i : Call(<<>>, {"masks", "sk"}))

SingleKeyGen == createContractContext \o Held(<<"cPk", "cSk">>, {}) \o serialize("cPk") \o serialize("cSk")
SingleKeyGenWithEvalKey ==
  createContractContext \o Held(<<"cPk", "cSk">>, {}) \o Held(<<"cEvalMultKey">>, {"cSk"})
    \o serialize("cPk") \o serialize("cSk") \o serialize("cEvalMultKey")
SingleKeyDecrypt(nSlots) ==
  createContractContext \o deserialize("cSk") \o deserialize("cCt") \o AddressOf(nSlots > 0)
    \o Call(<<>>, {"cCt", "cSk"})
SingleKeyEncrypt(pk) ==
  Require(pk) \o createContractContext \o deserialize("cPk") \o Held(<<"ct">>, {"cPk"}) \o serialize("ct")

\* The scores, with the prices encrypted here or brought encrypted (price),
\* and the masks over them.  scaledPrice is freed by hand, whatever EvalAdd says.
ScoresAndMasks(key, n, metadata, pk, price) ==
  Require(key) \o Require(n >= 2) \o Require(metadata = n) \o Require(pk)
    \o createContractContext \o deserialize("cPk") \o insertKey("cEvalMultKey")
    \o Loop(n, LAMBDA i :
         Held(<<"offCt">>, {"cPk"}) \o price \o Call(<<"scaledPrice">>, {"pCt"})
           \o CallUndo(<<"scores">>, {"scaledPrice", "offCt"}, <<"scaledPrice">>)
           \o Free("scaledPrice") \o Defer("scores"))
    \o AddressOf(n > 0) \o Call([i \in 1 .. n |-> "cMasks"], {"scores"}) \o DeferAll("cMasks")
    \o Loop(n, LAMBDA i : serialize("cMasks"))
singleKeyAuctionServer(key, n, metadata, pk) ==
  ScoresAndMasks(key, n, metadata, pk, Held(<<"pCt">>, {"cPk"}))
SingleKeyAuctionServer(n, metadata, pk) == singleKeyAuctionServer(FALSE, n, metadata, pk)
SingleKeyAuctionServerWithEvalKey(key, n, metadata, pk) == singleKeyAuctionServer(key, n, metadata, pk)
singleKeyAuctionServerEnc(key, n, metadata, pk) ==
  ScoresAndMasks(key, n, metadata, pk, deserialize("pCt"))
SingleKeyAuctionServerEnc(n, metadata, pk) == singleKeyAuctionServerEnc(FALSE, n, metadata, pk)
SingleKeyAuctionServerEncWithEvalKey(key, n, metadata, pk) ==
  singleKeyAuctionServerEnc(key, n, metadata, pk)

SingleKeyAuctionDecrypt(masks, sk) ==
  Require(masks >= 2) \o Require(sk) \o createContractContext \o deserialize("cSk")
    \o Loop(masks, LAMBDA i :
         Call(<<"cCt">>, {}) \o CallUndo(<<>>, {"cCt", "cSk"}, <<"cCt">>) \o Free("cCt"))

\* The two results are the caller's.
SchemeSwitchingArgmin == Call(<<"minCt", "argminCt">>, {}) \o Give("minCt") \o Give("argminCt")

\* CryptoContext: its handle is the caller's until Close.
NewCryptoContext == Call(<<"ctx">>, {}) \o Give("ctx")

\* The outcome checks at the end (length and accuracy) can refuse.
ThresholdSmokeCKKS(parties) ==
  Require(parties >= 2) \o createContractContext
    \o Loop(parties, LAMBDA i : Held(<<"pks", "sks">>, IF i = 1 THEN {} ELSE {"pks"}))
    \o Loop(parties, LAMBDA i : Held(<<"multShare">>, {"sks"}) \o Held(<<"rotShare">>, {"sks"}))
    \o Held(<<"pkData">>, {"pks"}) \o Held(<<"pkRoundTrip">>, {"pkData"}) \o Held(<<"ct">>, {"pkRoundTrip"})
    \o Held(<<"ctData">>, {"ct"}) \o Held(<<"ctRoundTrip">>, {"ctData"})
    \o Held(<<"doubled">>, {"ctRoundTrip"}) \o Held(<<"restored">>, {"doubled"})
    \o Held(<<"squared">>, {"restored"}) \o Held(<<"summed">>, {"squared"})
    \o Loop(parties, LAMBDA i : Held(<<"partials">>, {"summed", "sks"}))
    \o AddressOf(parties > 0) \o Call(<<>>, {"partials"}) \o Call(<<>>, {})

\* metadata: coordinates, brownies and packages are one per candidate.
ScoreCandidatesCKKS(dim, candidates, metadata, packageBytes) ==
  Require(dim > 0) \o Require(candidates > 0) \o Call(<<>>, {}) \o Require(metadata = candidates)
    \o Require(packageBytes > 0) \o Call(<<>>, {})
    \o CString("distanceFunction") \o CString("comparator") \o CString("maskMode")
    \o CString("selectorSchedule")
    \o AddressOf(dim > 0) \o AddressOf(candidates > 0) \o AddressOf(metadata > 0)
    \o AddressOf(packageBytes > 0)
    \o Call(<<>>, {"distanceFunction", "comparator", "maskMode", "selectorSchedule"})
=============================================================================

------------------------------ MODULE MCBridge ------------------------------
(***************************************************************************)
(* The calls of the bridge that are checked: every function, with the      *)
(* lengths of its slices from Counts, and a fusion request that is good,   *)
(* or wrong in one or two of its fields.                                   *)
(***************************************************************************)
EXTENDS BridgeFuse

B == BOOLEAN
Counts == {0, 1, 3}
Few == {0, 2}

NoArgument ==
  {<<"DistributedKeyGenFirst", DistributedKeyGenFirst>>,
   <<"BFVDistributedKeyGenFirst", BFVDistributedKeyGenFirst>>,
   <<"EvalKeyRound1Lead", EvalKeyRound1Lead>>, <<"BFVEvalKeyRound1Lead", BFVEvalKeyRound1Lead>>,
   <<"EvalKeyRound1Participant", EvalKeyRound1Participant>>,
   <<"BFVEvalKeyRound1Participant", BFVEvalKeyRound1Participant>>,
   <<"EvalMultKeyGenLeadWithContext", EvalMultKeyGenLeadWithContext>>,
   <<"EvalMultKeySwitchShareWithContext", EvalMultKeySwitchShareWithContext>>,
   <<"EvalKeyRound2Participant", EvalKeyRound2Participant>>,
   <<"BFVEvalKeyRound2Participant", BFVEvalKeyRound2Participant>>,
   <<"StreamedEvalSumKeyGenLeadWithContext", StreamedEvalSumKeyGenLeadWithContext>>,
   <<"StreamedEvalSumKeyShareWithContext", StreamedEvalSumKeyShareWithContext>>,
   <<"SingleKeyGen", SingleKeyGen>>, <<"SingleKeyGenWithEvalKey", SingleKeyGenWithEvalKey>>,
   <<"SchemeSwitchingArgmin", SchemeSwitchingArgmin>>, <<"NewCryptoContext", NewCryptoContext>>,
   <<"NewEvalSumIncrementalFold", NewEvalSumIncrementalFold>>,
   <<"NewEvalSumIncrementalFoldWithContext", NewEvalSumIncrementalFoldWithContext>>,
   <<"Fold", Fold>>, <<"SplitRotShareAB", SplitRotShareAB>>,
   <<"ReconstructRotShareAB", ReconstructRotShareAB>>,
   <<"runBOnlyRotReconstruction", runBOnlyRotReconstruction>>,
   <<"runIncrementalCombineCheck", runIncrementalCombineCheck>>,
   <<"benchStreamedFullRot", benchStreamedFullRot>>, <<"benchBOnlyRotShare", benchBOnlyRotShare>>}

Flags ==
  UNION {{<<"DistributedKeyGenNext", DistributedKeyGenNext(b)>>,
          <<"BFVDistributedKeyGenNext", BFVDistributedKeyGenNext(b)>>,
          <<"EvalAddCKKSForContract", EvalAddCKKSForContract(b)>>,
          <<"EvalSubCKKSForContract", EvalSubCKKSForContract(b)>>,
          <<"EvalConstMultCKKSForContract", EvalConstMultCKKSForContract(b)>>,
          <<"RoundTripCiphertext", RoundTripCiphertext(b)>>,
          <<"EncryptRepeatedScalarCKKSForContract", EncryptRepeatedScalarCKKSForContract(b)>>,
          <<"EncryptRepeatedScalarBFVForContract", EncryptRepeatedScalarBFVForContract(b)>>,
          <<"EncryptedSquaredDistanceCKKSForContract", EncryptedSquaredDistanceCKKSForContract(b)>>,
          <<"EncryptedSquaredDistanceBFVForContract", EncryptedSquaredDistanceBFVForContract(b)>>,
          <<"PartialDecryptCKKSForContract", PartialDecryptCKKSForContract(b)>>,
          <<"PartialDecryptBFVForContract", PartialDecryptBFVForContract(b)>>,
          <<"SingleKeyEncrypt", SingleKeyEncrypt(b)>>, <<"Finalize", Finalize(b)>>,
          <<"benchRotShareGen", benchRotShareGen(b)>>} : b \in B}
  \cup {<<"resolveIndexedEvalSumKeyRef", resolveIndexedEvalSumKeyRef(f)>> : f \in {"whole", "ab", "neither"}}
  \cup {<<"EvalMultCKKSForContract", EvalMultCKKSForContract(b, c)>> : b, c \in B}

Lengths ==
  UNION {{<<"CombineEvalKeyRound2", CombineEvalKeyRound2(n)>>,
          <<"BFVCombineEvalKeyRound2", BFVCombineEvalKeyRound2(n)>>,
          <<"CombineEvalKeyRound2WithContext", CombineEvalKeyRound2WithContext(n)>>,
          <<"GeneratePerIndexEvalSumKeysWithContext", GeneratePerIndexEvalSumKeysWithContext(n)>>,
          <<"GeneratePerIndexEvalSumSharesWithContext", GeneratePerIndexEvalSumSharesWithContext(n)>>,
          <<"SingleKeySoftArgmin", SingleKeySoftArgmin(n)>>, <<"SingleKeyDecrypt", SingleKeyDecrypt(n)>>,
          <<"ThresholdSmokeCKKS", ThresholdSmokeCKKS(n)>>,
          <<"combineEvalSumAllAtOnce", combineEvalSumAllAtOnce(n + 1)>>} : n \in Counts}
  \cup UNION {{<<"CombineEvalMultSwitchSharesWithContext", CombineEvalMultSwitchSharesWithContext(n, m)>>,
               <<"CombineEvalMultSwitchShares", CombineEvalMultSwitchShares(n, m)>>,
               <<"FuseCKKSPartialsForContract", FuseCKKSPartialsForContract(n, m)>>,
               <<"FuseBFVPartialsForContract", FuseBFVPartialsForContract(n, m)>>,
               <<"CombineEvalSumSharesIncremental", CombineEvalSumSharesIncremental(n, m)>>}
              : n, m \in Counts}
  \cup UNION {{<<"EvalProductSumForContract", EvalProductSumForContract(b, n)>>,
               <<"EvalProductSumBFVForContract", EvalProductSumBFVForContract(b, n)>>,
               <<"EvalAtIndexCKKSForContract", EvalAtIndexCKKSForContract(b, n)>>,
               <<"EncryptCKKSForContract", EncryptCKKSForContract(b, n)>>,
               <<"EncryptBFVForContract", EncryptBFVForContract(b, n)>>,
               <<"SingleKeyAuctionDecrypt", SingleKeyAuctionDecrypt(n, b)>>} : b \in B, n \in Counts}
  \cup UNION {{<<"EvalArgmaxCKKSForContract", EvalArgmaxCKKSForContract(n, b, m)>>,
               <<"SingleKeyAuctionServer", SingleKeyAuctionServer(n, m, b)>>,
               <<"SingleKeyAuctionServerEnc", SingleKeyAuctionServerEnc(n, m, b)>>,
               <<"SingleKeyAuctionServerWithEvalKey", SingleKeyAuctionServerWithEvalKey(b, n, m, b)>>,
               <<"SingleKeyAuctionServerEncWithEvalKey", SingleKeyAuctionServerEncWithEvalKey(b, n, m, b)>>,
               <<"BlindFusePayloadBFVForContract", BlindFusePayloadBFVForContract(b, n, m, m)>>,
               <<"ScoreCandidatesCKKS", ScoreCandidatesCKKS(n, m, m, n)>>} : b \in B, n, m \in Few}
  \cup {<<"EvalPolyCKKSForContract", EvalPolyCKKSForContract(b, k, n, h)>> : b, k, h \in B, n \in Few}
  \cup UNION {{<<"CombineEvalKeyRound1", CombineEvalKeyRound1(n, m, k)>>,
               <<"BFVCombineEvalKeyRound1", BFVCombineEvalKeyRound1(n, m, k)>>,
               <<"BFVCombineEvalKeyRound1Lazy", BFVCombineEvalKeyRound1Lazy(n, m, k, k = 2)>>,
               <<"benchResidentCombineRound1", benchResidentCombineRound1(n, m, k)>>} : n, m, k \in Few}

\* The shares of two or three parties for two indices, and wrong ones.
Share(i, f) == [index |-> i, form |-> f]
Shares ==
  LET whole == <<Share(1, "whole"), Share(-2, "whole")>>
      split == <<Share(-2, "ab"), Share(1, "ab")>>
  IN {<<whole, split, whole>>, <<split, split>>, <<split, split, split>>,
      <<whole, <<Share(1, "whole")>>>>, <<<<Share(1, "whole"), Share(1, "ab")>>>>,
      <<<<Share(1, "neither")>>>>, <<<<>>>>, <<>>}
PerIndex ==
  UNION {{<<"CombineEvalKeyRound1PerIndexWithContext",
            CombineEvalKeyRound1PerIndexWithContext(n, n, s)>>,
          <<"CombineEvalKeyRound1PerIndexLazy", CombineEvalKeyRound1PerIndexLazy(n, n, s, TRUE)>>,
          <<"BFVCombineEvalKeyRound1PerIndexLazy", BFVCombineEvalKeyRound1PerIndexLazy(n, n, s, n > 2)>>,
          <<"InsertEvalSumKeysPerIndexLazyWithContext",
            InsertEvalSumKeysPerIndexLazyWithContext(n > 0, n, s, TRUE)>>,
          <<"EvalProductSumForContractWithEvalSumRefs",
            EvalProductSumForContractWithEvalSumRefs(TRUE, n, n, s, TRUE)>>}
         : n \in {0, 2, 3}, s \in Shares}

\* Good requests, and all that differ from one in at most two fields.
Plain == [n |-> 2, brownies |-> 2, coords |-> 2, packages |-> 2, payloads |-> 0, distances |-> 0,
          initiator |-> TRUE, dims |-> TRUE, mult |-> TRUE, sum |-> TRUE, cts |-> "all"]
Encrypted == [Plain EXCEPT !.packages = 0, !.payloads = 2]
EncryptedInputs == [Encrypted EXCEPT !.coords = 0, !.distances = 2]
Values(f) == IF f = "cts" THEN {"none", "some", "all"}
             ELSE IF f \in {"initiator", "dims", "mult", "sum"} THEN B ELSE Few
Wrong(r) == UNION {{[r EXCEPT ![f] = v] : v \in Values(f)} : f \in DOMAIN r}
Requests == UNION {Wrong(r) : r \in Wrong(Plain) \cup Wrong(Encrypted) \cup Wrong(EncryptedInputs)}
Lead == <<<<Share(1, "whole")>>, <<Share(1, "ab")>>>>
Fusions ==
  UNION {{<<"FullFusePayloadCKKS", FullFusePayloadCKKS(r)>>,
          <<"FullFusePayloadCKKSWithContext", FullFusePayloadCKKSWithContext(TRUE, r)>>,
          <<"ChunkedFusePayloadCKKS", ChunkedFusePayloadCKKS(r)>>,
          <<"ChunkedFusePayloadCKKSWithContext", ChunkedFusePayloadCKKSWithContext(r.mult, r)>>,
          <<"ChunkedFuseEncryptedPayloadCKKS", ChunkedFuseEncryptedPayloadCKKS(r)>>,
          <<"ChunkedFuseEncryptedInputsCKKS", ChunkedFuseEncryptedInputsCKKS(r)>>} : r \in Requests}
  \cup UNION {{<<"ChunkedUnionScoreCKKSWithConcurrency", ChunkedUnionScoreCKKSWithConcurrency(r, n, n > 1)>>,
               <<"ChunkedUnionScoreEncryptedPayloadCKKSWithConcurrency",
                 ChunkedUnionScoreEncryptedPayloadCKKSWithConcurrency(r, n, n > 1)>>,
               <<"ChunkedUnionScoreEncryptedInputsCKKSWithConcurrency",
                 ChunkedUnionScoreEncryptedInputsCKKSWithConcurrency(r, n, n > 1)>>,
               <<"ChunkedUnionScoreCKKS", ChunkedUnionScoreCKKS(r, n)>>,
               <<"ChunkedUnionScoreEncryptedPayloadCKKS", ChunkedUnionScoreEncryptedPayloadCKKS(r, n)>>,
               <<"ChunkedUnionScoreEncryptedInputsCKKS", ChunkedUnionScoreEncryptedInputsCKKS(r, n)>>,
               <<"ChunkedUnionScoreCKKSWithEvalSumRefs", ChunkedUnionScoreCKKSWithEvalSumRefs(r, n, Lead)>>,
               <<"ChunkedUnionScoreEncryptedPayloadCKKSWithEvalSumRefs",
                 ChunkedUnionScoreEncryptedPayloadCKKSWithEvalSumRefs(r, n, Lead)>>,
               <<"ChunkedUnionScoreEncryptedInputsCKKSWithEvalSumRefs",
                 ChunkedUnionScoreEncryptedInputsCKKSWithEvalSumRefs(r, n, Lead)>>,
               <<"FullFusePayloadCKKSWithEvalSumRefs", FullFusePayloadCKKSWithEvalSumRefs(r, n, Lead, n > 0)>>}
              : r \in Wrong(Plain) \cup Wrong(Encrypted) \cup Wrong(EncryptedInputs), n \in Few}

AllCalls == NoArgument \cup Flags \cup Lengths \cup PerIndex \cup Fusions
=============================================================================

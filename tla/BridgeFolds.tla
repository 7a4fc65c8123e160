---------------------------- MODULE BridgeFolds ----------------------------
(***************************************************************************)
(* The functions that combine the parties' rotation-key shares             *)
(* (incremental_combine.go and the callers in bridge.go, bonly_keygen.go,  *)
(* streamed_keygen.go, resident_combine.go) as programs of module Bridge.  *)
(* A rotation key is a map of hundreds of megabytes, so how many are live  *)
(* at once is what these functions are about; RotKeys lists the variables  *)
(* of the combinations that hold one.                                      *)
(***************************************************************************)
EXTENDS BridgeOps

RotKeys == {"seed", "accum", "final", "share", "shares", "sumH"}

\* The reference path: every share decoded before the one combine.
combineEvalSumAllAtOnce(shares) ==
  DeferAll("pks") \o DeferAll("shares")
    \o Loop(shares, LAMBDA i : Call(<<"pks">>, {}) \o Call(<<"shares">>, {}))
    \o AddressOf(shares > 0) \o Held(<<"final">>, {"pks", "shares"}) \o serialize("final")

\* Mutant: the seed is deferred and freed by hand.
CombineStartTwice == CallUndo(<<"accum">>, {"seed"}, <<"seed">>) \o Defer("seed") \o Free("seed")

\* accum := EvalSumCombineStart(seed); FreeRotKey(seed), whatever it returned.
CombineStart == CallUndo(<<"accum">>, {"seed"}, <<"seed">>) \o Free("seed")

\* One participant's share is decoded, folded into the accumulator and freed;
\* `undo' is what a failure frees beside them, `get' are the steps that obtain
\* the share.
FoldParty(get, undo) ==
  CallUndo(<<"pk">>, {}, undo) \o get
    \o CallUndo(<<>>, {"accum", "pk", "share"}, <<"share", "pk">> \o undo)
    \o Free("share") \o Free("pk")

Decode(h, undo) == CallUndo(<<h>>, {}, undo)
ResolveAndDecode(h, undo) == CallUndo(<<>>, {}, undo) \o Decode(h, undo)

IncrementalFold(getSeed, getShare, shares) ==
  getSeed \o CombineStart \o Defer("accum")
    \o Loop(shares - 1, LAMBDA i : FoldParty(getShare, <<>>)) \o serialize("accum")
combineEvalSumIncremental(shares) ==
  AddressOf(shares > 0)
    \o IncrementalFold(Decode("seed", <<>>), Decode("share", <<"pk">>), shares)
combineEvalSumIncrementalLazy(pks, shares, resolve) ==
  Require(pks = shares /\ shares > 0) \o Require(resolve)
    \o IncrementalFold(ResolveAndDecode("seed", <<>>), ResolveAndDecode("share", <<"pk">>), shares)
CombineEvalSumSharesIncremental(pks, shares) ==
  Require(pks = shares /\ shares > 0) \o createContractContext \o combineEvalSumIncremental(shares)

-----------------------------------------------------------------------------
(* Shares per rotation index: byParty[p] lists party p's shares, each with *)
(* its index and its form: whole, split into a- and b-vectors, or neither. *)

validIndexedEvalSumKeyRef(share) == share.form \in {"whole", "ab"}

\* The lead's indices, in its order, if every party sent each of them once.
Indices(shares) == [i \in 1 .. Len(shares) |-> shares[i].index]
validateIndexedEvalSumShareRefs(byParty) ==
  /\ byParty # <<>>
  /\ \A p \in 1 .. Len(byParty) :
       /\ byParty[p] # <<>>
       /\ \A i \in 1 .. Len(byParty[p]) : validIndexedEvalSumKeyRef(byParty[p][i])
       /\ IsInjective(Indices(byParty[p]))
       /\ ToSet(Indices(byParty[p])) = ToSet(Indices(byParty[1]))
validateIndexedEvalSumShares(byParty) == validateIndexedEvalSumShareRefs(byParty)

ShareOf(byParty, p, index) ==
  byParty[p][CHOOSE i \in 1 .. Len(byParty[p]) : byParty[p][i].index = index]

\* The a-vectors of an index are the same for all parties: decoded for the
\* first one, and kept in aCache, which a defer empties.
resolveKeyRefCached(share, cached, h, undo) ==
  IF share.form = "whole" THEN ResolveAndDecode(h, undo)
  ELSE (IF cached THEN <<>> ELSE CallUndo(<<>>, {}, undo) \o CallUndo(<<"a">>, {}, undo))
       \o CallUndo(<<>>, {}, undo) \o CallUndo(<<h>>, {"a"}, undo)

\* One index: the lead's share seeds the accumulator, the others are folded.
\* `lazy' shares are references that are resolved first.
FoldIndex(byParty, index, lazy) ==
  LET Split(p) == ShareOf(byParty, p, index).form = "ab"
      Cached(p) == \E q \in 1 .. p - 1 : Split(q)
      Get(p, h, undo) ==
        IF lazy THEN resolveKeyRefCached(ShareOf(byParty, p, index), Cached(p), h, undo)
        ELSE Decode(h, undo)
  IN Get(1, "seed", <<>>) \o CombineStart
       \o Loop(Len(byParty) - 1,
               LAMBDA i : FoldParty(Get(i + 1, "share", <<"pk", "accum">>), <<"accum">>))

\* if final == nil { final = accum }, else the maps are merged.
MergeIndex(first) ==
  IF first THEN Give("accum") \o Take("final")
  ELSE CallUndo(<<>>, {"final", "accum"}, <<"accum">>) \o Free("accum")

FoldPerIndex(byParty, lazy) ==
  LET indices == Indices(byParty[1]) IN
  Loop(Len(indices), LAMBDA i : FoldIndex(byParty, indices[i], lazy) \o MergeIndex(i = 1))
    \o serialize("final")
combineEvalSumPerIndex(byParty) ==
  IF ~validateIndexedEvalSumShares(byParty) THEN Require(FALSE)
  ELSE DeferAll("final") \o FoldPerIndex(byParty, FALSE)
combineEvalSumPerIndexLazy(byParty) ==
  IF ~validateIndexedEvalSumShareRefs(byParty) THEN Require(FALSE)
  ELSE DeferAll("final") \o DeferAll("a") \o FoldPerIndex(byParty, TRUE)

\* Each index's key goes into OpenFHE's table, emptied first, and is freed.
insertEvalSumPerIndexLazy(pks, byParty, resolve) ==
  IF ~validateIndexedEvalSumShareRefs(byParty) THEN Require(FALSE)
  ELSE LET indices == Indices(byParty[1]) IN
       Require(pks = Len(byParty)) \o Require(resolve) \o Call(<<>>, {}) \o DeferAll("a")
         \o Loop(Len(indices), LAMBDA i :
              FoldIndex(byParty, indices[i], TRUE)
                \o CallUndo(<<>>, {"accum"}, <<"accum">>) \o Free("accum"))
InsertEvalSumKeysPerIndexLazyWithContext(ctx, pks, byParty, resolve) ==
  Require(ctx) \o insertEvalSumPerIndexLazy(pks, byParty, resolve)

\* Not cached: the a-vectors are decoded with the b-vectors.
resolveIndexedEvalSumKeyRef(form) ==
  Require(form # "neither") \o Call(<<>>, {}) \o (IF form = "ab" THEN Call(<<>>, {}) ELSE <<>>)
    \o Call(<<"key">>, {}) \o Give("key")

-----------------------------------------------------------------------------
(* Round 1: the joined eval-mult key, then the eval-sum key by one of the  *)
(* folds.                                                                  *)

JoinMult(pks, mults) ==
  deserializeAll("pks", pks) \o deserializeAll("multShares", mults) \o AddressOf(pks > 0)
    \o AddressOf(mults > 0) \o Held(<<"joined">>, {"pks", "multShares"}) \o serialize("joined")
Equal(pks, mults, sums) == Require(pks > 0 /\ pks = mults /\ pks = sums)

CombineEvalKeyRound1(pks, mults, sums) ==
  Equal(pks, mults, sums) \o createContractContext \o JoinMult(pks, mults)
    \o Inline(combineEvalSumIncremental(sums))
BFVCombineEvalKeyRound1(pks, mults, sums) ==
  Equal(pks, mults, sums) \o createBFVContractContext \o JoinMult(pks, mults)
    \o Inline(combineEvalSumIncremental(sums))
BFVCombineEvalKeyRound1Lazy(pks, mults, sums, resolve) ==
  Equal(pks, mults, sums) \o Require(resolve) \o createBFVContractContext \o JoinMult(pks, mults)
    \o Inline(combineEvalSumIncrementalLazy(pks, sums, resolve))
combineEvalKeyRound1PerIndex(pks, mults, byParty) ==
  Equal(pks, mults, Len(byParty)) \o JoinMult(pks, mults) \o Inline(combineEvalSumPerIndex(byParty))
CombineEvalKeyRound1PerIndexWithContext(pks, mults, byParty) ==
  combineEvalKeyRound1PerIndex(pks, mults, byParty)
combineEvalKeyRound1PerIndexLazy(pks, mults, byParty) ==
  Equal(pks, mults, Len(byParty)) \o JoinMult(pks, mults) \o Inline(combineEvalSumPerIndexLazy(byParty))
CombineEvalKeyRound1PerIndexLazy(pks, mults, byParty, resolve) ==
  Equal(pks, mults, Len(byParty)) \o Require(resolve) \o createContractContext
    \o combineEvalKeyRound1PerIndexLazy(pks, mults, byParty)
BFVCombineEvalKeyRound1PerIndexLazy(pks, mults, byParty, resolve) ==
  Equal(pks, mults, Len(byParty)) \o Require(resolve) \o createBFVContractContext
    \o combineEvalKeyRound1PerIndexLazy(pks, mults, byParty)

EvalProductSumForContractWithEvalSumRefs(key, nSlots, pks, byParty, resolve) ==
  Require(key) \o Require(nSlots > 0) \o Require(resolve) \o createContractContext
    \o insertKey("multKey") \o Inline(insertEvalSumPerIndexLazy(pks, byParty, resolve))
    \o Inline(evalProductSumInContext)

-----------------------------------------------------------------------------
(* EvalSumIncrementalFold: the accumulator lives between the calls.  What  *)
(* the object holds is the caller's, and taken back where Finalize frees   *)
(* it.                                                                     *)

NewEvalSumIncrementalFold ==
  Call(<<"ctx">>, {}) \o CallUndo(<<"seed">>, {}, <<"ctx">>)
    \o CallUndo(<<"accum">>, {"seed"}, <<"seed", "ctx">>) \o Free("seed")
    \o Give("ctx") \o Give("accum")
NewEvalSumIncrementalFoldWithContext == Call(<<"seed">>, {}) \o CombineStart \o Give("accum")
Fold == Call(<<"pk">>, {}) \o CallUndo(<<"share">>, {}, <<"pk">>)
          \o CallUndo(<<>>, {"pk", "share"}, <<"share", "pk">>) \o Free("share") \o Free("pk")
Finalize(ownsCtx) ==
  (IF ownsCtx THEN Take("ctx") \o Defer("ctx") ELSE <<>>)
    \o Take("accum") \o Defer("accum") \o serialize("accum")

-----------------------------------------------------------------------------
(* Shares split into a- and b-vectors, and the measurements.               *)

SplitRotShareAB == createContractContext \o deserialize("share") \o serialize("share") \o serialize("share")
ReconstructRotShareAB == createContractContext \o Held(<<"share">>, {}) \o serialize("share")

\* Two parties' key pairs, the second from the first.
TwoParties == Held(<<"pk0", "sk0">>, {}) \o Held(<<"pk1", "sk1">>, {"pk0"})
LeadBase == Held(<<"base">>, {"sk0"})
SecondShare == Held(<<"share">>, {"sk1", "base", "pk1"})

runBOnlyRotReconstruction ==
  createContractContext \o TwoParties \o LeadBase \o SecondShare
    \o serialize("share") \o serialize("base") \o serialize("share") \o serialize("share")
    \o Held(<<"recon">>, {}) \o serialize("recon") \o serialize("recon")
runIncrementalCombineCheck ==
  createContractContext \o TwoParties \o Held(<<"pk2", "sk2">>, {"pk1"}) \o LeadBase
    \o Held(<<"s1">>, {"sk1", "base", "pk1"}) \o Held(<<"s2">>, {"sk2", "base", "pk2"})
    \o serialize("base") \o serialize("s1") \o serialize("s2")
    \o serialize("pk0") \o serialize("pk1") \o serialize("pk2")
    \o Inline(combineEvalSumAllAtOnce(3)) \o Inline(combineEvalSumIncremental(3))
benchRotShareGen(streamed) ==
  createContractContext \o TwoParties \o LeadBase
    \o (IF streamed THEN Call(<<>>, {"sk1", "base", "pk1"})
        ELSE SecondShare \o Call(<<"data">>, {"share"}) \o Free("data"))
benchStreamedFullRot == createContractContext \o TwoParties \o Call(<<>>, {"sk0", "sk1", "pk1"})
benchBOnlyRotShare == createContractContext \o TwoParties \o Call(<<>>, {"sk0", "sk1", "pk1"})
benchResidentCombineRound1(pks, mults, sums) ==
  createContractContext \o deserializeAll("pks", pks) \o deserializeAll("multH", mults)
    \o deserializeAll("sumH", sums) \o AddressOf(pks > 0) \o AddressOf(mults > 0)
    \o Held(<<"joined">>, {"pks", "multH"}) \o AddressOf(sums > 0) \o Held(<<"sumFinal">>, {"pks", "sumH"})
=============================================================================

------------------------------ MODULE Clearing ------------------------------
(***************************************************************************)
(* Uniform-price clearing of the energy pool (pkg/ares/pool): offers are   *)
(* packed into supply and demand curves, a plaintext oracle clears them,   *)
(* and a homomorphic circuit does the same under encryption and is read    *)
(* out after decryption.  Quantities are small integers; a price is given  *)
(* in half ticks, so that prices between two grid points occur.  The       *)
(* circuit's arithmetic is exact here and its comparator is any odd,       *)
(* increasing step: the properties are about which bucket is read and what *)
(* is divided by what, not about noise.                                    *)
(***************************************************************************)
EXTENDS Integers, FiniteSetsExt

CONSTANTS NumBuckets, NumSlots, Sellers, Buyers, Quantities, HalfTicks

VARIABLES asks, bids, cleared   \* the offers; the oracle's and the circuit's results

clearVars == <<asks, bids, cleared>>

Buckets == 0 .. NumBuckets - 1
Slots == 0 .. NumSlots - 1
Index(slot, k) == slot * NumBuckets + k
Points == 0 .. NumSlots * NumBuckets - 1
SlotOf(i) == i \div NumBuckets
BucketOf(i) == i % NumBuckets
NoClearing == -1
NoResult == [bucket |-> NoClearing, supply |-> 0, supplyPrev |-> 0, demand |-> 0, cleared |-> 0,
             infra |-> <<0, 1>>, marginal |-> <<0, 1>>]

-----------------------------------------------------------------------------
(* Curves.  An offer is [slot, price, quantity].                           *)

\* math.Ceil and math.Floor of price / tick; supply starts at the first bucket
\* at or above the ask, demand ends at the last one at or below the bid.
EncodeSupply(offers) ==
  LET First(o) == IF offers[o].price < 0 THEN 0 ELSE (offers[o].price + 1) \div 2
  IN  [i \in Points |->
         MapThenSumSet(LAMBDA o : offers[o].quantity,
           {o \in DOMAIN offers : offers[o].slot = SlotOf(i) /\ First(o) <= BucketOf(i)})]

EncodeDemand(offers) ==
  LET Last(o) == LET l == offers[o].price \div 2 IN IF l >= NumBuckets THEN NumBuckets - 1 ELSE l
  IN  [i \in Points |->
         MapThenSumSet(LAMBDA o : offers[o].quantity,
           {o \in DOMAIN offers : offers[o].slot = SlotOf(i) /\ BucketOf(i) <= Last(o)})]

\* Bucket 0 of every slot is a guard.
SlotBoundaryMask == [i \in Points |-> IF BucketOf(i) = 0 THEN 0 ELSE 1]

-----------------------------------------------------------------------------
(* The oracle.                                                             *)

\* Mutant: the cheaper sellers always dispatch in full.
deriveAllocationFull(res) ==
  LET c == IF res.demand < res.supply THEN res.demand ELSE res.supply
      tranche == res.supply - res.supplyPrev
  IN  IF c <= 0 THEN NoResult
      ELSE [res EXCEPT
              !.cleared = c,
              !.infra = <<1, 1>>,
              !.marginal = IF tranche > 0 /\ c > res.supplyPrev
                           THEN <<c - res.supplyPrev, tranche>> ELSE <<0, 1>>]

\* Ratios are <<numerator, denominator>>.
deriveAllocation(res) ==
  LET c == IF res.demand < res.supply THEN res.demand ELSE res.supply
      tranche == res.supply - res.supplyPrev
  IN  IF c <= 0 THEN NoResult
      ELSE [res EXCEPT
              !.cleared = c,
              !.infra = IF res.supplyPrev > c THEN <<c, res.supplyPrev>> ELSE <<1, 1>>,
              !.marginal = IF tranche > 0 /\ c > res.supplyPrev
                           THEN <<c - res.supplyPrev, tranche>> ELSE <<0, 1>>]

First(ks) == CHOOSE k \in ks : \A l \in ks : k <= l

clearSlot(supply, demand, slot) ==
  LET ks == {k \in Buckets \ {0} : supply[Index(slot, k)] - demand[Index(slot, k)] >= 0}
      k == First(ks)
  IN  IF ks = {} THEN NoResult
      ELSE deriveAllocation([NoResult EXCEPT
             !.bucket = k, !.supply = supply[Index(slot, k)],
             !.supplyPrev = supply[Index(slot, k - 1)], !.demand = demand[Index(slot, k)]])

ClearPlaintext(supply, demand) == [slot \in Slots |-> clearSlot(supply, demand, slot)]

-----------------------------------------------------------------------------
(* The circuit.                                                            *)

Half == 100   \* stands for 0.5; larger than any excess
\* LogisticCoeffs: an odd step around one half.
Comparator(e) == Half + e
\* EvalAtIndex(-1): a rotation of the whole packed vector.
Rotated(v) == [i \in Points |-> v[(i - 1) % Cardinality(Points)]]

EvalClearing(supply, demand) ==
  LET step == [i \in Points |-> Comparator(supply[i] - demand[i])]
      oneHot == [i \in Points |-> (step[i] - Rotated(step)[i]) * SlotBoundaryMask[i]]
      Masked(v) == [i \in Points |-> oneHot[i] * v[i]]
  IN  [step |-> step, oneHot |-> oneHot, supplyAt |-> Masked(supply),
       supplyPrevAt |-> Masked(Rotated(supply)), demandAt |-> Masked(demand)]


\* The first bucket whose step reaches one half.
DecodeCrossing(step, slot) ==
  LET ks == {k \in Buckets \ {0} : step[Index(slot, k)] >= Half}
  IN  IF ks = {} THEN NoClearing ELSE First(ks)

\* The masked aggregates divided by the bump; without a bump, the price alone.
DecodeClearing(c) ==
  [slot \in Slots |->
     LET k == DecodeCrossing(c.step, slot)
         i == Index(slot, k)
         m == c.oneHot[i]
     IN  IF k = NoClearing THEN NoResult
         ELSE IF m <= 0 THEN [NoResult EXCEPT !.bucket = k]
         ELSE deriveAllocation([NoResult EXCEPT
                !.bucket = k, !.supply = c.supplyAt[i] \div m,
                !.supplyPrev = c.supplyPrevAt[i] \div m, !.demand = c.demandAt[i] \div m])]

\* What the calibrator compares the circuit's deepest output with.
Expected(supply, demand) ==
  [i \in Points |->
     LET prev == IF BucketOf(i) > 0 THEN Comparator(supply[i - 1] - demand[i - 1]) ELSE 0
     IN  (Comparator(supply[i] - demand[i]) - prev) * SlotBoundaryMask[i] * supply[i]]

-----------------------------------------------------------------------------
Offers == [slot : Slots, price : HalfTicks, quantity : Quantities]
Nowhere == [oracle |-> <<>>, circuit |-> <<>>, deepest |-> <<>>]

ClearInit == asks \in [Sellers -> Offers] /\ bids \in [Buyers -> Offers] /\ cleared = Nowhere

Clear ==
  /\ cleared = Nowhere
  /\ LET s == EncodeSupply(asks)
         d == EncodeDemand(bids)
         c == EvalClearing(s, d)
     IN  cleared' = [oracle |-> ClearPlaintext(s, d), circuit |-> DecodeClearing(c),
                     deepest |-> c.supplyAt]
  /\ UNCHANGED <<asks, bids>>

ClearNext == Clear
ClearSpec == ClearInit /\ [][ClearNext]_clearVars

-----------------------------------------------------------------------------
(* Properties.                                                             *)

\* A slot whose first usable bucket is not below balance and has the same
\* excess as the guard bucket: the bump is zero there.
Flat(slot) ==
  LET e(k) == EncodeSupply(asks)[Index(slot, k)] - EncodeDemand(bids)[Index(slot, k)]
  IN  e(1) >= 0 /\ e(1) = e(0)


\* The quantity a seller delivers, from the ratios of the slot's result, times
\* the product of the two denominators.
Dispatched(res, s) ==
  LET o == asks[s]
      r == IF o.price <= 2 * (res.bucket - 1) THEN res.infra
           ELSE IF o.price <= 2 * res.bucket THEN res.marginal ELSE <<0, 1>>
  IN  (o.quantity * r[1] * res.infra[2] * res.marginal[2]) \div r[2]

\* Rationing conserves energy: by the ratios every seller derives from the
\* published result, the sellers together deliver exactly the cleared quantity,
\* none of them above the clearing price, and every buyer willing to pay that
\* price is served.
DispatchConserves ==
  cleared # Nowhere =>
    \A slot \in Slots :
      LET res == cleared.oracle[slot]
      IN  res.bucket # NoClearing =>
            /\ MapThenSumSet(LAMBDA s : Dispatched(res, s), {s \in Sellers : asks[s].slot = slot})
                 = res.cleared * res.infra[2] * res.marginal[2]
            /\ MapThenSumSet(LAMBDA b : bids[b].quantity,
                 {b \in Buyers : bids[b].slot = slot /\ bids[b].price >= 2 * res.bucket})
                 = res.cleared
=============================================================================

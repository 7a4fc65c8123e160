------------------------------ MODULE HelperOps ------------------------------
(***************************************************************************)
(* What the operations of the OpenFHE helper compute                       *)
(* (cmd/openfhe-contract-helper) and what the client sends for them        *)
(* (pkg/ares/crypto/helperclient).  A blob of key material or ciphertext   *)
(* is who contributed to it and under which public key: enough to tell a   *)
(* key the parties can use from one they cannot.  The library checks only  *)
(* the type of a blob and the key tag of a ciphertext, so material of the  *)
(* wrong party is accepted and yields garbage.                             *)
(***************************************************************************)
EXTENDS Naturals, Sequences, FiniteSets

\* `by': the contributors, in order; `on': those of the material it was made
\* from; `tag': the contributors of the public key it belongs to; `m': what a
\* ciphertext holds; `lead': a partial decryption made as the lead's.
Blob(kind, s, by) ==
  [kind |-> kind, scheme |-> s, by |-> by, on |-> <<>>, tag |-> <<>>, m |-> "", lead |-> FALSE]
NoBlob == Blob("none", "none", <<>>)
Public(s, by) == [Blob("public", s, by) EXCEPT !.tag = by]
Secret(s, id) == Blob("secret", s, <<id>>)
Ciphertext(s, tag, m) == [Blob("ciphertext", s, <<>>) EXCEPT !.tag = tag, !.m = m]

Answer(good, out) == IF good THEN [ok |-> TRUE, out |-> out] ELSE [ok |-> FALSE, out |-> <<>>]
Refused == Answer(FALSE, <<>>)

Request(op, in, lists, lead, len) ==
  [op |-> op, in |-> in, lists |-> lists, lead |-> lead, len |-> len]

\* Every field and every element of a list must be there (decodeB64,
\* decodeB64Slice) and deserialise as its type under the scheme's context.
decodeB64(x, kind, s) == x.kind = kind /\ x.scheme = s
decodeB64Slice(xs, kind, s) == \A i \in DOMAIN xs : decodeB64(xs[i], kind, s)
Fields(req, kinds, s) ==
  Len(req.in) = Len(kinds) /\ \A i \in DOMAIN kinds : decodeB64(req.in[i], kinds[i], s)

Bys(xs) == [i \in DOMAIN xs |-> xs[i].by[1]]
\* Exactly the contributors of a public key, each once.
Exactly(ids, tag) == Len(ids) = Len(tag) /\ {ids[i] : i \in DOMAIN ids} = {tag[i] : i \in DOMAIN tag}
\* A set of contributions made from the same material.
SameBase(xs) == \A i \in DOMAIN xs : xs[i].on = xs[1].on

-----------------------------------------------------------------------------
(* The daemon's operations (run).                                          *)

KeygenFirstOp(s, id) == Answer(TRUE, <<Public(s, <<id>>), Secret(s, id)>>)
keygen_first(req, id) == KeygenFirstOp("ckks", id)
bfv_keygen_first(req, id) == KeygenFirstOp("bfv", id)

KeygenNextOp(s, req, id) ==
  Answer(Fields(req, <<"public">>, s), <<Public(s, Append(req.in[1].by, id)), Secret(s, id)>>)
keygen_next(req, id) == KeygenNextOp("ckks", req, id)
bfv_keygen_next(req, id) == KeygenNextOp("bfv", req, id)

EncryptOp(s, req) ==
  Answer(Fields(req, <<"public">>, s) /\ req.len > 0, <<Ciphertext(s, req.in[1].by, "m")>>)
encrypt_profile(req) == EncryptOp("ckks", req)
bfv_encrypt_int_vector(req) == EncryptOp("bfv", req)

\* KeySwitchGen of the lead's key, and the lead's rotation keys.
Round1LeadOp(s, req) ==
  LET id == req.in[1].by
  IN  Answer(Fields(req, <<"secret">>, s),
             <<[Blob("mult", s, id) EXCEPT !.on = id], [Blob("sum", s, id) EXCEPT !.on = id]>>)
evalkey_round1_lead(req) == Round1LeadOp("ckks", req)
bfv_evalkey_round1_lead(req) == Round1LeadOp("bfv", req)

Round1ParticipantOp(s, req) ==
  LET id == req.in[1].by
  IN  Answer(Fields(req, <<"secret", "mult", "sum", "public">>, s),
             <<[Blob("mult", s, id) EXCEPT !.on = req.in[2].by],
               [Blob("sum", s, id) EXCEPT !.on = req.in[3].by, !.tag = req.in[4].by]>>)
evalkey_round1_participant(req) == Round1ParticipantOp("ckks", req)
bfv_evalkey_round1_participant(req) == Round1ParticipantOp("bfv", req)

\* The shares add up under the last public key's tag.
CombineRound1Op(s, req) ==
  LET pks == req.lists[1]
      mult == req.lists[2]
      sum == req.lists[3]
      Joined(kind, xs) ==
        [Blob(kind, s, Bys(xs)) EXCEPT !.on = IF SameBase(xs) THEN xs[1].on ELSE <<>>,
                                       !.tag = pks[Len(pks)].by]
  IN  Answer(/\ pks # <<>> /\ Len(mult) = Len(pks) /\ Len(sum) = Len(pks)
             /\ decodeB64Slice(pks, "public", s)
             /\ decodeB64Slice(mult, "mult", s) /\ decodeB64Slice(sum, "sum", s),
             <<Joined("mult", mult), Joined("sum", sum)>>)
combine_evalkey_round1(req) == CombineRound1Op("ckks", req)
bfv_combine_evalkey_round1(req) == CombineRound1Op("bfv", req)

Round2Op(s, req) ==
  Answer(Fields(req, <<"secret", "mult", "public">>, s),
         <<[Blob("mult", s, req.in[1].by) EXCEPT !.on = req.in[2].by, !.tag = req.in[3].by]>>)
evalkey_round2_participant(req) == Round2Op("ckks", req)
bfv_evalkey_round2_participant(req) == Round2Op("bfv", req)

\* The final key also takes the eval-sum key, which it only passes on.
CombineRound2Op(s, req) ==
  LET shares == req.lists[1]
  IN  Answer(/\ Fields(req, <<"public", "sum">>, s)
             /\ shares # <<>> /\ decodeB64Slice(shares, "mult", s),
             <<[Blob("mult", s, Bys(shares)) EXCEPT
                  !.on = IF SameBase(shares) THEN shares[1].on ELSE <<>>,
                  !.tag = req.in[1].by],
               req.in[2]>>)
combine_evalkey_round2(req) == CombineRound2Op("ckks", req)
bfv_combine_evalkey_round2(req) == CombineRound2Op("bfv", req)

\* A rotation-key share as its shared and its own half, and back.
split_rot_share(req) ==
  Answer(Fields(req, <<"sum">>, "ckks"),
         <<[req.in[1] EXCEPT !.kind = "sum a", !.by = <<>>], [req.in[1] EXCEPT !.kind = "sum b"]>>)
reconstruct_rot_share(req) ==
  Answer(Fields(req, <<"sum a", "sum b">>, "ckks"),
         <<[req.in[2] EXCEPT !.kind = "sum", !.on = req.in[1].on]>>)

-----------------------------------------------------------------------------
(* Evaluation and decryption.                                              *)

\* The joint key relinearises only if it is made of every share of its public
\* key, each transformed from the joined key of the same parties.
Works(key) == Exactly(key.by, key.tag) /\ Exactly(key.on, key.tag)

\* A product needs a key under the ciphertexts' tag: the library refuses any
\* other, and computes garbage with one that is not what it claims to be.
Product(s, key, cts, m) ==
  Ciphertext(s, cts[1].tag, IF Works(key) /\ \A i \in DOMAIN cts : cts[i].m # "garbage"
                            THEN m ELSE "garbage")
SameTag(cts) == \A i \in DOMAIN cts : cts[i].tag = cts[1].tag
Under(key, cts) == \A i \in DOMAIN cts : cts[i].tag = key.tag

eval_add(req) ==
  Answer(Fields(req, <<"ciphertext", "ciphertext">>, "ckks") /\ SameTag(req.in),
         <<Ciphertext("ckks", req.in[1].tag, "sum")>>)
eval_sub(req) ==
  Answer(Fields(req, <<"ciphertext", "ciphertext">>, "ckks") /\ SameTag(req.in),
         <<Ciphertext("ckks", req.in[1].tag, "difference")>>)
eval_const_mult(req) ==
  Answer(Fields(req, <<"ciphertext">>, "ckks"), <<Ciphertext("ckks", req.in[1].tag, "multiple")>>)
eval_mult(req) ==
  Answer(/\ Fields(req, <<"ciphertext", "ciphertext", "mult">>, "ckks")
         /\ Under(req.in[3], SubSeq(req.in, 1, 2)),
         <<Product("ckks", req.in[3], SubSeq(req.in, 1, 2), "product")>>)
eval_poly(req) ==
  Answer(/\ Fields(req, <<"mult", "ciphertext">>, "ckks") /\ req.len > 0
         /\ Under(req.in[1], Tail(req.in)),
         <<Product("ckks", req.in[1], Tail(req.in), "polynomial")>>)
argmax(req) ==
  LET cts == req.lists[1]
  IN  Answer(/\ Fields(req, <<"mult">>, "ckks") /\ Len(cts) >= 2 /\ req.len >= 2
             /\ decodeB64Slice(cts, "ciphertext", "ckks") /\ Under(req.in[1], cts),
             [i \in DOMAIN cts |-> Product("ckks", req.in[1], cts, "mask")])
\* Multiplies, then adds up the slots with the rotation keys.
bfv_eval_product_sum(req) ==
  LET cts == SubSeq(req.in, 3, 4)
      sums == req.in[2]
  IN  Answer(/\ Fields(req, <<"mult", "sum", "ciphertext", "ciphertext">>, "bfv") /\ req.len > 0
             /\ Under(req.in[1], cts) /\ Under(sums, cts),
             <<Product("bfv", req.in[1], cts,
                       IF Exactly(sums.by, sums.tag) /\ sums.on = <<sums.by[1]>>
                       THEN "product" ELSE "garbage")>>)

PartialDecryptOp(s, req) ==
  Answer(Fields(req, <<"ciphertext", "secret">>, s),
         <<[req.in[1] EXCEPT !.by = req.in[2].by, !.lead = req.lead]>>)
partial_decrypt(req) == PartialDecryptOp("ckks", req)
bfv_partial_decrypt(req) == PartialDecryptOp("bfv", req)

\* The partials open the ciphertext when there is one of every party of its
\* key and exactly one was made as the lead's; nothing checks that there is.
FuseOp(s, req) ==
  LET ps == req.lists[1]
      opens == /\ \A i \in DOMAIN ps : ps[i].m = ps[1].m /\ Len(ps[i].by) = 1
               /\ Exactly(Bys(ps), ps[1].tag)
               /\ Cardinality({i \in DOMAIN ps : ps[i].lead}) = 1
  IN  Answer(ps # <<>> /\ decodeB64Slice(ps, "ciphertext", s) /\ req.len > 0,
             <<[NoBlob EXCEPT !.kind = "values", !.m = IF opens THEN ps[1].m ELSE "garbage"]>>)
fuse_partials(req) == FuseOp("ckks", req)
bfv_fuse_partials_int(req) == FuseOp("bfv", req)

version(req) == Answer(TRUE, <<>>)

\* One request: `id' stands for the randomness it draws.
run(req, id) ==
  CASE req.op = "version" -> version(req)
    [] req.op = "keygen_first" -> keygen_first(req, id)
    [] req.op = "bfv_keygen_first" -> bfv_keygen_first(req, id)
    [] req.op = "keygen_next" -> keygen_next(req, id)
    [] req.op = "bfv_keygen_next" -> bfv_keygen_next(req, id)
    [] req.op = "encrypt_profile" -> encrypt_profile(req)
    [] req.op = "bfv_encrypt_int_vector" -> bfv_encrypt_int_vector(req)
    [] req.op = "evalkey_round1_lead" -> evalkey_round1_lead(req)
    [] req.op = "bfv_evalkey_round1_lead" -> bfv_evalkey_round1_lead(req)
    [] req.op = "evalkey_round1_participant" -> evalkey_round1_participant(req)
    [] req.op = "bfv_evalkey_round1_participant" -> bfv_evalkey_round1_participant(req)
    [] req.op = "combine_evalkey_round1" -> combine_evalkey_round1(req)
    [] req.op = "bfv_combine_evalkey_round1" -> bfv_combine_evalkey_round1(req)
    [] req.op = "evalkey_round2_participant" -> evalkey_round2_participant(req)
    [] req.op = "bfv_evalkey_round2_participant" -> bfv_evalkey_round2_participant(req)
    [] req.op = "combine_evalkey_round2" -> combine_evalkey_round2(req)
    [] req.op = "bfv_combine_evalkey_round2" -> bfv_combine_evalkey_round2(req)
    [] req.op = "split_rot_share" -> split_rot_share(req)
    [] req.op = "reconstruct_rot_share" -> reconstruct_rot_share(req)
    [] req.op = "partial_decrypt" -> partial_decrypt(req)
    [] req.op = "bfv_partial_decrypt" -> bfv_partial_decrypt(req)
    [] req.op = "fuse_partials" -> fuse_partials(req)
    [] req.op = "bfv_fuse_partials_int" -> bfv_fuse_partials_int(req)
    [] req.op = "eval_add" -> eval_add(req)
    [] req.op = "eval_sub" -> eval_sub(req)
    [] req.op = "eval_mult" -> eval_mult(req)
    [] req.op = "eval_const_mult" -> eval_const_mult(req)
    [] req.op = "eval_poly" -> eval_poly(req)
    [] req.op = "argmax" -> argmax(req)
    [] req.op = "bfv_eval_product_sum" -> bfv_eval_product_sum(req)
    [] OTHER -> Refused
=============================================================================

----------------------------- MODULE Artifacts -----------------------------
(***************************************************************************)
(* The artifact store (pkg/ares/transport/artifacts.go): values under      *)
(* keys for a limited time, swept when somebody calls Sweep, and           *)
(* content-addressed values on top.  Every method holds the store's lock,  *)
(* so its methods are the actions.  A hash is the value hashed, and        *)
(* ContentKey of it is itself: every key is the handle of some content.    *)
(***************************************************************************)
EXTENDS Naturals, Functions, TLC

CONSTANTS
  Content,   \* values
  TTL,       \* how long an entry lives
  MaxTime    \* bound: the last instant

VARIABLES
  now,       \* time.Now()
  entries,   \* key -> [data, expires], for the keys stored
  lastPut,   \* ghost: key -> [data, at] of the last Put not deleted since
  fetched    \* ghost: <<handle, data>> of the last GetContent that succeeded

storeVars == <<now, entries, lastPut, fetched>>

Has(key) == key \in DOMAIN entries
\* now.After(expires)
Expired(key) == now > entries[key].expires
Get(key) == IF Has(key) /\ ~Expired(key) THEN {entries[key].data} ELSE {}

\* Mutant: the deadline of an entry that is already there stays.
PutKeepsDeadline(key, data) ==
  /\ entries' = (key :> [data |-> data,
                         expires |-> IF Has(key) THEN entries[key].expires ELSE now + TTL])
                @@ entries
  /\ lastPut' = (key :> [data |-> data, at |-> now]) @@ lastPut
  /\ UNCHANGED <<now, fetched>>

Put(key, data) ==
  /\ entries' = (key :> [data |-> data, expires |-> now + TTL]) @@ entries
  /\ lastPut' = (key :> [data |-> data, at |-> now]) @@ lastPut
  /\ UNCHANGED <<now, fetched>>

PutContent(data) == Put(data, data)

Delete(key) ==
  /\ entries' = Restrict(entries, DOMAIN entries \ {key})
  /\ lastPut' = Restrict(lastPut, DOMAIN lastPut \ {key})
  /\ UNCHANGED <<now, fetched>>

Sweep ==
  /\ entries' = Restrict(entries, {key \in DOMAIN entries : ~Expired(key)})
  /\ UNCHANGED <<now, lastPut, fetched>>

\* Stored bytes that no longer hash to the handle are ErrCorrupted.
GetContent(handle) ==
  /\ \E data \in Get(handle) : data = handle /\ fetched' = <<handle, data>>
  /\ UNCHANGED <<now, entries, lastPut>>

Tick == now < MaxTime /\ now' = now + 1 /\ UNCHANGED <<entries, lastPut, fetched>>

StoreInit == now = 0 /\ entries = <<>> /\ lastPut = <<>> /\ fetched = <<>>

StoreNext ==
  \/ \E key, data \in Content : Put(key, data)
  \/ \E c \in Content : PutContent(c) \/ Delete(c) \/ GetContent(c)
  \/ Sweep \/ Tick

StoreSpec == StoreInit /\ [][StoreNext]_storeVars

-----------------------------------------------------------------------------
(* Properties.                                                             *)

\* A key answers with what was last put under it for exactly TTL from that put,
\* whenever the sweeps run: none takes an entry a fetch may still ask for, and
\* none is needed for an entry to be gone.  And what GetContent hands out is the
\* content of the handle, although Put (and the admin endpoint above it) may have
\* written other data under that key.
FetchableForTTL ==
  /\ \A key \in Content :
       Get(key) = IF key \in DOMAIN lastPut /\ now <= lastPut[key].at + TTL
                  THEN {lastPut[key].data} ELSE {}
  /\ fetched # <<>> => fetched[1] = fetched[2]
=============================================================================

----------------------------- MODULE KeyTables -----------------------------
(***************************************************************************)
(* OpenFHE keeps evaluation keys in tables of the process, by context, and *)
(* contexts of equal parameters are one context to it.  Every operation of *)
(* a cgoHandle (fhecalib/calibrate_openfhe.go) enters the bridge anew:     *)
(* creates the context, clears its entries, enters its session's keys,     *)
(* evaluates, and clears the entries again with the context                *)
(* (openfhe_wrapper.cpp).  The entries of sessions with equal parameters   *)
(* are told apart by the session, and cleared together.  Nothing keeps     *)
(* two goroutines from calling handles at the same time.                   *)
(***************************************************************************)
EXTENDS Naturals, Sequences, FiniteSets

CONSTANTS
  Workers,       \* goroutines that call handles
  Sessions       \* one handle each, all with the same parameters

VARIABLES
  call,      \* call[w]: the C calls ahead of worker w's operation
  session,   \* session[w]: whose handle it called
  table,     \* table.mult, table.sum: the sessions whose keys are entered
  alone      \* history: the workers whose operation overlapped no other

keyVars == <<call, session, table, alone>>

Idle == <<"idle">>
\* Mutant: cleared after it is entered.
InsertThenClear == <<"put mult", "clear mult">>
InsertEvalMultKey == <<"clear mult", "put mult">>
InsertEvalSumKey == <<"clear sum", "put sum">>
\* ClearEvalSumKeysForContext, then one append per rotation index.
InsertEvalSumPerIndex == <<"clear sum", "put sum", "put sum">>

\* The operations, by the keys they need.
Add == <<"evaluate", "free">>
EvalMult == InsertEvalMultKey \o <<"evaluate mult", "free">>
EvalAtIndex == InsertEvalSumKey \o <<"evaluate sum", "free">>
EvalProductSum == InsertEvalMultKey \o InsertEvalSumKey \o <<"evaluate mult", "evaluate sum", "free">>
WithEvalSumRefs ==
  InsertEvalMultKey \o InsertEvalSumPerIndex \o <<"evaluate mult", "evaluate sum", "free">>

KeysInit ==
  /\ call = [w \in Workers |-> Idle]
  /\ session = [w \in Workers |-> CHOOSE s \in Sessions : TRUE]
  /\ table = [mult |-> {}, sum |-> {}]
  /\ alone = {}

Doing(w, step) == Head(call[w]) = step
Proceed(w) == call' = [call EXCEPT ![w] = Tail(@)] /\ UNCHANGED <<session, alone>>
\* An error return runs the deferred FreeCryptoContext.
Abort(w) == call' = [call EXCEPT ![w] = <<"free">>] /\ UNCHANGED <<session, alone>>

Begin(w) ==
  /\ call[w] = Idle
  /\ \E s \in Sessions, op \in {Add, EvalMult, EvalAtIndex, EvalProductSum, WithEvalSumRefs} :
       /\ call' = [call EXCEPT ![w] = op]
       /\ session' = [session EXCEPT ![w] = s]
  /\ alone' = IF \A v \in Workers : call[v] = Idle THEN {w} ELSE {}
  /\ UNCHANGED table

ClearMult(w) == Doing(w, "clear mult") /\ table' = [table EXCEPT !.mult = {}] /\ Proceed(w)
ClearSum(w) == Doing(w, "clear sum") /\ table' = [table EXCEPT !.sum = {}] /\ Proceed(w)
PutMult(w) ==
  Doing(w, "put mult") /\ table' = [table EXCEPT !.mult = @ \cup {session[w]}] /\ Proceed(w)
PutSum(w) ==
  Doing(w, "put sum") /\ table' = [table EXCEPT !.sum = @ \cup {session[w]}] /\ Proceed(w)

\* OpenFHE looks the session's key up and refuses when it is not there.
Evaluate(w) ==
  /\ \E step \in {"evaluate", "evaluate mult", "evaluate sum"} :
       /\ Doing(w, step)
       /\ IF \/ step = "evaluate"
             \/ step = "evaluate mult" /\ session[w] \in table.mult
             \/ step = "evaluate sum" /\ session[w] \in table.sum
          THEN Proceed(w) ELSE Abort(w)
  /\ UNCHANGED table

\* Any step may fail for reasons of its own.
Fails(w) == call[w] # Idle /\ ~Doing(w, "free") /\ Abort(w) /\ UNCHANGED table

FreeCryptoContext(w) ==
  /\ Doing(w, "free")
  /\ table' = [mult |-> {}, sum |-> {}]
  /\ call' = [call EXCEPT ![w] = Idle] /\ UNCHANGED <<session, alone>>

KeysNext ==
  \E w \in Workers :
    \/ Begin(w) \/ ClearMult(w) \/ ClearSum(w) \/ PutMult(w) \/ PutSum(w)
    \/ Evaluate(w) \/ Fails(w) \/ FreeCryptoContext(w)

KeysSpec == KeysInit /\ [][KeysNext]_keyVars

\* The tables hold a session's keys when its operation needs them and at no other
\* time.  An operation no other overlapped finds its session's keys when it comes
\* to evaluate, whatever the operations before it left or failed in; and when none
\* is running the tables are empty, so that no later context of the same
\* parameters inherits a session's keys.  An overlapped operation may not find
\* its own: "the returned handle is safe for concurrent use within one phase"
\* (calibrate_openfhe.go:104) takes more than the bridge gives.
KeysInPlace ==
  /\ \A w \in alone :
       /\ Doing(w, "evaluate mult") => session[w] \in table.mult
       /\ Doing(w, "evaluate sum") => session[w] \in table.sum
  /\ (\A w \in Workers : call[w] = Idle) => table.mult = {} /\ table.sum = {}
=============================================================================

------------------------------- MODULE Bridge -------------------------------
(***************************************************************************)
(* How one call of the OpenFHE bridge runs (pkg/ares/crypto/cgo).  Every   *)
(* function of that package is a straight line of guards, C calls that may *)
(* fail and yield handles to C++ objects, and frees, explicit or deferred; *)
(* a failure returns at once and runs what was deferred.  The garbage      *)
(* collector does not see the handles: whatever a path forgets is lost,    *)
(* and whatever it frees twice crashes the process.                        *)
(*                                                                         *)
(* A function is the sequence of its steps (modules BridgeOps,             *)
(* BridgeFolds, BridgeFuse); this module executes one.  A call of another  *)
(* function of the package is inlined between Enter and Leave, loops are   *)
(* unrolled for the lengths of the slices, and a handle is the name of the *)
(* variable that holds it (a slice of handles: that name, several times).  *)
(***************************************************************************)
EXTENDS Naturals, SequencesExt, BagsExt

CONSTANT Calls   \* the calls made: <<function, program>>

VARIABLES
  fn,       \* the function called
  todo,     \* the steps ahead
  heap,     \* the live handles: a bag of names
  defers,   \* the frees deferred, latest first, with a mark per callee
  exit      \* "" while running, then how it returns: ok, err, panic or fault

bridgeVars == <<fn, todo, heap, defers, exit>>

-----------------------------------------------------------------------------
(* Steps.                                                                  *)

\* if !ok { return error }
Require(ok) == <<[do |-> "require", ok |-> ok]>>
\* A C call (or a Go helper around one) that reads the handles `uses' and
\* sets the variables `gets'; when it fails, `undo' is freed before the return.
CallUndo(gets, uses, undo) ==
  <<[do |-> "call", gets |-> gets, uses |-> uses, undo |-> undo]>>
Call(gets, uses) == CallUndo(gets, uses, <<>>)
\* &s[0]
AddressOf(nonEmpty) == <<[do |-> "index", ok |-> nonEmpty]>>
Free(h) == <<[do |-> "free", h |-> h]>>
Defer(h) == <<[do |-> "defer", h |-> h, all |-> FALSE]>>
\* defer of a loop over a slice of handles
DeferAll(h) == <<[do |-> "defer", h |-> h, all |-> TRUE]>>
Enter == <<[do |-> "enter"]>>
Leave == <<[do |-> "leave"]>>
\* The handle becomes the caller's.
Give(h) == <<[do |-> "give", h |-> h]>>
\* The variable is set without a call that could fail.
Take(h) == <<[do |-> "take", h |-> h]>>
\* C.CString(...); defer C.free(...)
CString(h) == Take(h) \o Defer(h)

\* A C call whose results are freed by defer, the usual form.
Held(gets, uses) == Call(gets, uses) \o FlattenSeq([i \in 1 .. Len(gets) |-> Defer(gets[i])])
Loop(n, body(_)) == FlattenSeq([i \in 1 .. n |-> body(i)])
Inline(body) == Enter \o body \o Leave

-----------------------------------------------------------------------------
(* Execution.                                                              *)

Step == Head(todo)
At(kind) == exit = "" /\ todo # <<>> /\ Step.do = kind
Advance == todo' = Tail(todo) /\ UNCHANGED exit
Return(how) == exit' = how /\ todo' = <<>>

Live(h) == BagIn(h, heap)
Push(d) == defers' = <<d>> \o defers

\* What a deferred free does: a slice's loop skips the entries never set.
Undone(d) == IF d.all THEN BagRemoveAll(heap, d.h) ELSE BagRemove(heap, d.h)
Mark == [h |-> "", all |-> TRUE]

RequireStep ==
  /\ At("require")
  /\ IF Step.ok THEN Advance ELSE Return("err")
  /\ UNCHANGED <<fn, heap, defers>>

\* A handle that was never obtained, or is freed already, is a fault.
CallSucceeds ==
  /\ At("call")
  /\ IF \A h \in Step.uses : Live(h) THEN Advance ELSE Return("fault")
  /\ heap' = heap (+) ToBag(Step.gets)
  /\ UNCHANGED <<fn, defers>>

CallFails ==
  /\ At("call")
  /\ Return(IF ToBag(Step.undo) \sqsubseteq heap THEN "err" ELSE "fault")
  /\ heap' = heap (-) ToBag(Step.undo)
  /\ UNCHANGED <<fn, defers>>

TakeStep ==
  /\ At("take")
  /\ heap' = BagAdd(heap, Step.h)
  /\ Advance
  /\ UNCHANGED <<fn, defers>>

\* An index out of range panics; the panic runs the deferred frees too.
IndexStep ==
  /\ At("index")
  /\ IF Step.ok THEN Advance ELSE Return("panic")
  /\ UNCHANGED <<fn, heap, defers>>

FreeStep ==
  /\ At("free")
  /\ IF Live(Step.h) THEN Advance ELSE Return("fault")
  /\ heap' = BagRemove(heap, Step.h)
  /\ UNCHANGED <<fn, defers>>

GiveStep ==
  /\ At("give")
  /\ heap' = BagRemove(heap, Step.h)
  /\ Advance
  /\ UNCHANGED <<fn, defers>>

DeferStep ==
  /\ At("defer")
  /\ Push([h |-> Step.h, all |-> Step.all])
  /\ Advance
  /\ UNCHANGED <<fn, heap>>

EnterStep ==
  /\ At("enter")
  /\ Push(Mark)
  /\ Advance
  /\ UNCHANGED <<fn, heap>>

\* The latest deferred free runs; freeing what is not live is a double free.
RunDeferred ==
  /\ heap' = Undone(Head(defers))
  /\ defers' = Tail(defers)

DoubleFree == ~Head(defers).all /\ ~Live(Head(defers).h)

\* A callee's return: its deferred frees, down to its mark.
LeaveStep ==
  /\ At("leave")
  /\ RunDeferred
  /\ IF Head(defers) = Mark THEN Advance
     ELSE IF DoubleFree THEN Return("fault") ELSE UNCHANGED <<todo, exit>>
  /\ UNCHANGED fn

Finish == exit = "" /\ todo = <<>> /\ exit' = "ok" /\ UNCHANGED <<fn, todo, heap, defers>>

Unwind ==
  /\ exit # "" /\ defers # <<>>
  /\ RunDeferred
  /\ exit' = IF DoubleFree THEN "fault" ELSE exit
  /\ UNCHANGED <<fn, todo>>

BridgeInit ==
  /\ \E c \in Calls : fn = c[1] /\ todo = c[2]
  /\ heap = EmptyBag /\ defers = <<>> /\ exit = ""

BridgeNext ==
  \/ RequireStep \/ CallSucceeds \/ CallFails \/ TakeStep \/ IndexStep \/ FreeStep
  \/ GiveStep \/ DeferStep \/ EnterStep \/ LeaveStep \/ Finish \/ Unwind

BridgeSpec == BridgeInit /\ [][BridgeNext]_bridgeVars
Returned == exit # "" /\ defers = <<>>
=============================================================================

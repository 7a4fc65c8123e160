--------------------------- MODULE SessionRunner ---------------------------
(***************************************************************************)
(* One session of the phase runner (pkg/ares/phase/runner.go), with the    *)
(* goroutines that call it: one per connected participant, which hands it  *)
(* every message (pkg/ares/transport/service.go), and the trigger, which   *)
(* begins the session, invites the participants and then walks the session *)
(* to the first phase that collects messages (transport/trigger.go and the *)
(* session-service commands of the examples).                              *)
(*                                                                         *)
(* The pipeline is the chain of inline phases 1 .. N; a session's state is *)
(* the number of its phase, and 0 is StateNone.  The runner's lock guards  *)
(* single reads and writes, never a whole call, so every step between two  *)
(* hooks or two uses of the lock is a step of its own.  Runners here are   *)
(* built by Compose: no lineage.  A hook is called in one step; a failing  *)
(* hook has done its work when it returns its error.                       *)
(***************************************************************************)
EXTENDS Integers

CONSTANTS
  N,            \* number of inline phases
  Consuming,    \* the phases that consume messages, each its own type
  Sender,       \* the participants
  Trigger,      \* the goroutine of the admin request that starts the session
  Target,       \* the first of them, where the trigger walks the session to
  Concurrent,   \* may two goroutines be in the runner at once?
  EnterFails,   \* the phases whose Enter can return an error
  ExitFails,    \* the phases whose Exit can return an error
  RefusesSome   \* the phases whose OnMessage can return an error

Phase == 1 .. N
Actor == Sender \cup {Trigger}

ASSUME RunnerAssumption ==
  /\ N \in Nat \ {0}
  /\ Consuming \subseteq Phase
  /\ Target \in Consuming
  /\ \A p \in Consuming : Target <= p
  /\ Trigger \notin Sender
  /\ Concurrent \in BOOLEAN

VARIABLES
  tracked,   \* the session is in the runner's map
  state,     \* tracker.state
  current,   \* tracker.current; 0 is nil
  got,       \* phase -> the participants whose messages it has accumulated
  pc,        \* actor -> where its call has got to
  at,        \* actor -> the phase its call holds in current or nextPhase
  hop,       \* actor -> the loop counter of its call
  invited,   \* the invitation has been broadcast
  crashed,   \* a goroutine panicked, and with it the process
  entered,   \* phase -> how often Enter returned nil: 0, 1 or 2 for more
  exited     \* phase -> how often Exit returned nil, counted likewise

trackerVars == <<tracked, state, current>>
callVars == <<pc, at, hop>>
srVars == <<trackerVars, got, callVars, invited, crashed, entered, exited>>

-----------------------------------------------------------------------------
More(count, p) == [count EXCEPT ![p] = IF @ = 2 THEN 2 ELSE @ + 1]

CheckComplete(p) == p \in Consuming => got[p] = Sender

\* The call of a continues at l, holding phase p.
Goto(a, l, p) ==
  /\ pc' = [pc EXCEPT ![a] = l]
  /\ at' = [at EXCEPT ![a] = p]
\* The call of a returns.  A trigger that returns is not called again.
Return(a) ==
  /\ pc' = [pc EXCEPT ![a] = IF a = Trigger THEN "done" ELSE "idle"]
  /\ at' = [at EXCEPT ![a] = 0]
  /\ hop' = [hop EXCEPT ![a] = 0]
\* A nil dereference: nothing recovers it.
Panic == crashed' = TRUE /\ UNCHANGED callVars

\* An actor that is not in the middle of a call into the runner.
Outside(a) == pc[a] \in {"idle", "invite", "invited", "done"}
\* The condition to make a call.  Nothing makes a call wait for another one, and
\* the service calls from one goroutine per connection: Concurrent.  Without it
\* the callers keep to what runner.go asks for, one goroutine per active session.
MayCall(a) ==
  /\ ~crashed
  /\ Concurrent \/ \A b \in Actor \ {a} : Outside(b)

-----------------------------------------------------------------------------
(* The trigger: BeginSession, the invitation, AdvanceToState.              *)

BeginSession ==
  /\ pc[Trigger] = "idle" /\ MayCall(Trigger)
  /\ tracked' = TRUE /\ state' = 1 /\ current' = 1
  /\ Goto(Trigger, "begin", 1)
  /\ UNCHANGED <<got, hop, invited, crashed, entered, exited>>

\* The session is dropped again if its first phase cannot be entered.
EnterFirst ==
  /\ pc[Trigger] = "begin" /\ ~crashed
  /\ \/ /\ Goto(Trigger, "invite", 1)
        /\ entered' = More(entered, 1)
        /\ UNCHANGED <<tracked, hop>>
     \/ /\ 1 \in EnterFails
        /\ tracked' = FALSE
        /\ Return(Trigger)
        /\ UNCHANGED entered
  /\ UNCHANGED <<state, current, got, invited, crashed, exited>>

\* Broadcasting the invitation is not a call into the runner.
Invite ==
  /\ pc[Trigger] = "invite" /\ ~crashed
  /\ invited' = TRUE
  /\ Goto(Trigger, "invited", 1)
  /\ UNCHANGED <<trackerVars, got, hop, crashed, entered, exited>>

\* Without internal states the test before the loop is the loop's own first.
AdvanceToState ==
  /\ pc[Trigger] = "invited" /\ MayCall(Trigger)
  /\ IF tracked THEN Goto(Trigger, "walk", 0) /\ UNCHANGED hop
     ELSE Return(Trigger)
  /\ UNCHANGED <<trackerVars, got, invited, crashed, entered, exited>>

\* The head of its loop reads state and then current, without the lock.
ReadState ==
  /\ pc[Trigger] = "walk" /\ ~crashed
  /\ IF hop[Trigger] > N \/ state = Target THEN Return(Trigger)
     ELSE Goto(Trigger, "walking", 0) /\ UNCHANGED hop
  /\ UNCHANGED <<trackerVars, got, invited, crashed, entered, exited>>
ReadCurrent ==
  /\ pc[Trigger] = "walking" /\ ~crashed
  /\ IF current = 0 THEN Return(Trigger)
     ELSE Goto(Trigger, "exit", current) /\ UNCHANGED hop
  /\ UNCHANGED <<trackerVars, got, invited, crashed, entered, exited>>

\* EndSession is offered to applications; no service of the repository calls it.
EndSession ==
  /\ pc[Trigger] = "done" /\ tracked /\ ~crashed
  /\ tracked' = FALSE
  /\ UNCHANGED <<state, current, got, callVars, invited, crashed, entered, exited>>

-----------------------------------------------------------------------------
(* HandleMessage, called with each message of a participant.               *)

\* The tracker is looked up under the lock; the message is of the type that
\* phase p consumes.
Receive(s, p) ==
  /\ invited /\ pc[s] = "idle" /\ MayCall(s)
  /\ tracked
  /\ Goto(s, "dispatch", p)
  /\ UNCHANGED <<trackerVars, got, hop, invited, crashed, entered, exited>>

\* The current phase is read without the lock and must consume the type.  After
\* the last phase there is none, and asking it for its types panics.
Dispatch(s) ==
  /\ pc[s] = "dispatch" /\ ~crashed
  /\ IF current = 0 THEN Panic
     ELSE /\ IF current = at[s] THEN Goto(s, "onmessage", at[s]) /\ UNCHANGED hop
             ELSE Return(s)
          /\ UNCHANGED crashed
  /\ UNCHANGED <<trackerVars, got, invited, entered, exited>>

OnMessage(s) ==
  /\ pc[s] = "onmessage" /\ ~crashed
  /\ \/ /\ got' = [got EXCEPT ![at[s]] = @ \cup {s}]
        /\ Goto(s, "check", at[s]) /\ UNCHANGED hop
     \/ at[s] \in RefusesSome /\ Return(s) /\ UNCHANGED got
  /\ UNCHANGED <<trackerVars, invited, crashed, entered, exited>>

Check(s) ==
  /\ pc[s] = "check" /\ ~crashed
  /\ IF CheckComplete(at[s])
       THEN Goto(s, "advance", 0) /\ UNCHANGED hop
       ELSE Return(s)
  /\ UNCHANGED <<trackerVars, got, invited, crashed, entered, exited>>

\* The head of advance's loop: the current phase is read again.
Advance(s) ==
  /\ pc[s] = "advance" /\ ~crashed
  /\ IF hop[s] > N THEN Return(s) /\ UNCHANGED crashed
     ELSE IF current = 0 THEN Panic
     ELSE Goto(s, "exit", current) /\ UNCHANGED <<hop, crashed>>
  /\ UNCHANGED <<trackerVars, got, invited, entered, exited>>

-----------------------------------------------------------------------------
(* The loop bodies of advance and AdvanceToState: Exit, step, Enter.       *)

Exit(a) ==
  /\ pc[a] = "exit" /\ ~crashed
  /\ \/ exited' = More(exited, at[a]) /\ Goto(a, "step", at[a]) /\ UNCHANGED hop
     \/ at[a] \in ExitFails /\ Return(a) /\ UNCHANGED exited
  /\ UNCHANGED <<trackerVars, got, invited, crashed, entered>>

\* Mutant: a phase that consumes nothing is stepped over.
StepSkipping(a) ==
  /\ pc[a] = "step" /\ ~crashed
  /\ IF at[a] >= N - 1
       THEN /\ IF a = Trigger THEN UNCHANGED <<state, current>>
               ELSE state' = 0 /\ current' = 0
            /\ Return(a)
       ELSE LET p == IF at[a] + 1 \in Consuming THEN at[a] + 1 ELSE at[a] + 2
            IN  state' = p /\ current' = p /\ Goto(a, "enter", p) /\ UNCHANGED hop
  /\ UNCHANGED <<tracked, got, invited, crashed, entered, exited>>

\* After the last phase advance ends the session and AdvanceToState gives up.
Step(a) ==
  /\ pc[a] = "step" /\ ~crashed
  /\ IF at[a] = N
       THEN /\ IF a = Trigger THEN UNCHANGED <<state, current>>
               ELSE state' = 0 /\ current' = 0
            /\ Return(a)
       ELSE /\ state' = at[a] + 1 /\ current' = at[a] + 1
            /\ Goto(a, "enter", at[a] + 1) /\ UNCHANGED hop
  /\ UNCHANGED <<tracked, got, invited, crashed, entered, exited>>

Enter(a) ==
  /\ pc[a] = "enter" /\ ~crashed
  /\ \/ entered' = More(entered, at[a]) /\ Goto(a, "entered", at[a]) /\ UNCHANGED hop
     \/ at[a] \in EnterFails /\ Return(a) /\ UNCHANGED entered
  /\ UNCHANGED <<trackerVars, got, invited, crashed, exited>>

\* Mutant: the cascade does not stop at a phase that collects messages.
CascadeOn(a) ==
  /\ pc[a] = "entered" /\ ~crashed
  /\ Goto(a, IF a = Trigger THEN "walk" ELSE "advance", 0)
  /\ hop' = [hop EXCEPT ![a] = @ + 1]
  /\ UNCHANGED <<trackerVars, got, invited, crashed, entered, exited>>

\* Mutant: advance stops after every phase.
CascadeNever(a) ==
  /\ pc[a] = "entered" /\ ~crashed
  /\ IF a # Trigger THEN Return(a)
     ELSE Goto(a, "walk", 0) /\ hop' = [hop EXCEPT ![a] = @ + 1]
  /\ UNCHANGED <<trackerVars, got, invited, crashed, entered, exited>>

\* advance stops at a phase that waits for messages, and cascades past others.
Cascade(a) ==
  /\ pc[a] = "entered" /\ ~crashed
  /\ IF a # Trigger /\ at[a] \in Consuming THEN Return(a)
     ELSE /\ Goto(a, IF a = Trigger THEN "walk" ELSE "advance", 0)
          /\ hop' = [hop EXCEPT ![a] = @ + 1]
  /\ UNCHANGED <<trackerVars, got, invited, crashed, entered, exited>>

-----------------------------------------------------------------------------
Init ==
  /\ tracked = FALSE /\ state = 0 /\ current = 0
  /\ got = [p \in Phase |-> {}]
  /\ pc = [a \in Actor |-> "idle"] /\ at = [a \in Actor |-> 0]
  /\ hop = [a \in Actor |-> 0]
  /\ invited = FALSE /\ crashed = FALSE
  /\ entered = [p \in Phase |-> 0] /\ exited = [p \in Phase |-> 0]

Starting == BeginSession \/ EnterFirst \/ Invite \/ AdvanceToState \/ ReadState \/ ReadCurrent
Handling(s) == Dispatch(s) \/ OnMessage(s) \/ Check(s) \/ Advance(s)
Loop(a) == Exit(a) \/ Step(a) \/ Enter(a) \/ Cascade(a)

Next ==
  \/ Starting \/ EndSession
  \/ \E s \in Sender : Handling(s) \/ \E p \in Consuming : Receive(s, p)
  \/ \E a \in Actor : Loop(a)

Spec == Init /\ [][Next]_srVars

-----------------------------------------------------------------------------
Label == {"idle", "begin", "invite", "invited", "walk", "walking", "dispatch",
          "onmessage", "check", "advance", "exit", "step", "enter", "entered",
          "done"}

TypeOK ==
  /\ tracked \in BOOLEAN /\ state \in 0 .. N /\ current \in 0 .. N
  /\ got \in [Phase -> SUBSET Sender]
  /\ pc \in [Actor -> Label]
  /\ at \in [Actor -> 0 .. N] /\ hop \in [Actor -> 0 .. N + 1]
  /\ invited \in BOOLEAN /\ crashed \in BOOLEAN
  /\ entered \in [Phase -> 0 .. 2] /\ exited \in [Phase -> 0 .. 2]

Begun == pc[Trigger] # "idle"
Before(p) == \A q \in Phase : q < p => exited[q] # 0

\* No phase is skipped, whatever runs concurrently and whatever fails: when a
\* phase is current or was entered, Exit was called for all phases before it, and
\* a session without a current phase, or one that panicked, has exited them all
\* (advance and AdvanceToState step only from the phase they exited).
InOrder ==
  /\ \A p \in Phase : entered[p] # 0 \/ current = p => Before(p)
  /\ (Begun /\ current = 0) \/ crashed => Before(N + 1)

\* What makes InOrder inductive: a call that holds a phase to exit or to enter
\* knows the phases before it to be exited, and one that has exited it that phase
\* too; nobody calls before the session has begun.
CallOK(a) ==
  /\ pc[a] \in {"exit", "enter", "entered"} => at[a] \in Phase /\ Before(at[a])
  /\ pc[a] = "step" => at[a] \in Phase /\ Before(at[a] + 1)
  /\ pc[a] \in {"dispatch", "onmessage", "check"} => at[a] \in Phase
  /\ pc[a] \in {"walking", "exit", "step", "enter", "entered"} => hop[a] <= N
Calls ==
  /\ \A a \in Actor : CallOK(a)
  /\ ~Begun => ~invited /\ \A s \in Sender : pc[s] = "idle"

\* phase.go: a phase that collects messages is exited when CheckComplete says it
\* has enough (HandleMessage asks the phase it read and advances the one it reads
\* again).
ExitComplete == \A p \in Phase : exited[p] # 0 => CheckComplete(p)

\* HandleMessage answers a message for a phase that is over with an error.
NeverPanics == ~crashed

\* A session that invited its participants runs through all its phases (the
\* cascade of advance), unless it is ended or a phase could not be entered.
NotEntered == current # 0 /\ entered[current] = 0 /\ \A a \in Actor : Outside(a)
Completes == []<>(invited => current = 0 \/ ~tracked \/ NotEntered)
=============================================================================

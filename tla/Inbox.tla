------------------------------- MODULE Inbox -------------------------------
(***************************************************************************)
(* How the Swift client hands out the frames it receives                   *)
(* (clients/swift/Sources/AresTransport/Session.swift).  The actor's       *)
(* receive loop delivers a frame to the first waiter or to the inbox; one  *)
(* caller runs expect(type), which takes frames with receiveAny and puts   *)
(* back those of other types.  receiveAny races two child tasks, nextFrame *)
(* and a timer: the actor is free between their steps, and the group waits *)
(* for both before it returns.                                             *)
(***************************************************************************)
EXTENDS Naturals, SequencesExt, FiniteSets

CONSTANTS
  Types,       \* types of frames
  MaxFrames,   \* bound: frames the server sends
  MaxCalls     \* bound: calls of expect

VARIABLES
  arrived,     \* frames delivered so far; a frame is <<its number, its type>>
  inbox,       \* the frames nobody waited for
  want,        \* the type the running expect waits for
  unmatched,   \* the frames it set aside
  step,        \* where it is: idle, receive, group or drain
  child,       \* the nextFrame task: none, new, waiting, got or failed
  taken,       \* what the child got
  timer,       \* the timer task: none, set or fired
  first,       \* the task that completed first: none, child or timer
  inboxClosed, \* close() ran or the socket failed
  handed,      \* ghost: the frames expect returned
  expired      \* ghost: the calls that ended with an error; bounded by MaxCalls

inboxVars == <<arrived, inbox, want, unmatched, step, child, taken, timer, first,
               inboxClosed, handed, expired>>
groupVars == <<child, taken, timer, first>>

NoFrame == <<0, "none">>
Group(c, f, t, o) == child' = c /\ taken' = f /\ timer' = t /\ first' = o
NoGroup == Group("none", NoFrame, "none", "none")

\* The waiter is the child between its registration and its resumption.
waiting == child = "waiting"

-----------------------------------------------------------------------------

Expect(type) ==
  /\ step = "idle" /\ Len(handed) + expired < MaxCalls
  /\ want' = type /\ step' = "receive"
  /\ UNCHANGED <<arrived, inbox, unmatched, groupVars, inboxClosed, handed, expired>>

\* Mutant: the frames set aside are not put back.
ExpectForgets ==
  /\ unmatched' = <<>>
  /\ step' = "idle" /\ expired' = expired + 1
  /\ UNCHANGED <<arrived, inbox, want, inboxClosed, handed>>

\* expect's catch clauses, and its own deadline.
ExpectFails ==
  /\ inbox' = unmatched \o inbox /\ unmatched' = <<>>
  /\ step' = "idle" /\ expired' = expired + 1
  /\ UNCHANGED <<arrived, want, inboxClosed, handed>>

\* receiveAny returned f; left is the inbox then.
Received(f, left) ==
  IF f[2] = want
  THEN /\ inbox' = unmatched \o left /\ unmatched' = <<>>
       /\ handed' = Append(handed, f) /\ step' = "idle"
  ELSE /\ inbox' = left /\ unmatched' = Append(unmatched, f)
       /\ step' = "receive" /\ UNCHANGED handed

Deadline == step = "receive" /\ ExpectFails /\ UNCHANGED groupVars

receiveAny ==
  /\ step = "receive"
  /\ IF inboxClosed THEN ExpectFails /\ UNCHANGED groupVars
     ELSE IF inbox # <<>>
     THEN /\ Received(Head(inbox), Tail(inbox))
          /\ UNCHANGED <<arrived, want, groupVars, inboxClosed, expired>>
     ELSE /\ step' = "group" /\ Group("new", NoFrame, "set", "none")
          /\ UNCHANGED <<arrived, inbox, want, unmatched, inboxClosed, handed, expired>>

\* The child first runs when the actor gets to it, after the timer maybe.
Done(who) == IF first = "none" THEN who ELSE first
nextFrame ==
  /\ child = "new"
  /\ IF inbox # <<>>
     THEN /\ Group("got", Head(inbox), timer, Done("child"))
          /\ inbox' = Tail(inbox)
     ELSE Group("waiting", NoFrame, timer, first) /\ UNCHANGED inbox
  /\ UNCHANGED <<arrived, want, unmatched, step, inboxClosed, handed, expired>>

deliver(type) ==
  /\ ~inboxClosed /\ arrived < MaxFrames
  /\ arrived' = arrived + 1
  /\ IF waiting
     THEN Group("got", <<arrived', type>>, timer, Done("child")) /\ UNCHANGED inbox
     ELSE inbox' = Append(inbox, <<arrived', type>>) /\ UNCHANGED groupVars
  /\ UNCHANGED <<want, unmatched, step, inboxClosed, handed, expired>>

TimerFires ==
  /\ step = "group" /\ timer = "set"
  /\ Group(child, taken, "fired", Done("timer"))
  /\ UNCHANGED <<arrived, inbox, want, unmatched, step, inboxClosed, handed, expired>>

\* group.next() and what follows it: the child's frame or failure, or the
\* timer's, which removes the waiter and then waits for the child to finish.
GroupNext ==
  /\ step = "group" /\ first # "none"
  /\ \/ /\ first = "child" /\ child = "got"
        /\ Received(taken, inbox) /\ NoGroup
        /\ UNCHANGED <<arrived, want, inboxClosed, expired>>
     \/ first = "child" /\ child = "failed" /\ ExpectFails /\ NoGroup
     \/ /\ first = "timer" /\ step' = "drain"
        /\ Group(IF waiting THEN "failed" ELSE child, taken, "none", first)
        /\ UNCHANGED <<arrived, inbox, want, unmatched, inboxClosed, handed, expired>>

\* What a child got after the timer is dropped with the group.
Drained == step = "drain" /\ child \in {"got", "failed"} /\ ExpectFails /\ NoGroup

\* close(), or an error of the receive loop: the waiter fails.
close ==
  /\ ~inboxClosed /\ inboxClosed' = TRUE
  /\ IF waiting THEN Group("failed", NoFrame, timer, Done("child")) ELSE UNCHANGED groupVars
  /\ UNCHANGED <<arrived, inbox, want, unmatched, step, handed, expired>>

InboxInit ==
  /\ arrived = 0 /\ inbox = <<>> /\ want = "none" /\ unmatched = <<>> /\ step = "idle"
  /\ child = "none" /\ taken = NoFrame /\ timer = "none" /\ first = "none"
  /\ inboxClosed = FALSE /\ handed = <<>> /\ expired = 0

InboxNext ==
  \/ \E type \in Types : Expect(type) \/ deliver(type)
  \/ Deadline \/ receiveAny \/ nextFrame \/ TimerFires \/ GroupNext \/ Drained \/ close

InboxSpec == InboxInit /\ [][InboxNext]_inboxVars

-----------------------------------------------------------------------------
(* Properties.                                                             *)

Kept == unmatched \o (IF child = "got" THEN <<taken>> ELSE <<>>) \o inbox

\* Frames are handed out once and in the order they arrived.  What is set aside,
\* on its way to the caller and in the inbox is in that order, and of one type no
\* later frame was returned before one still kept.  A frame is missing only if a
\* call that failed while it was on its way took it along, and each such call
\* takes one at most; no frame is returned twice.
FramesDelivered ==
  LET known == {f[1] : f \in ToSet(handed) \cup ToSet(Kept)}
  IN /\ \A i, j \in DOMAIN Kept : i < j => Kept[i][1] < Kept[j][1]
     /\ \A i \in DOMAIN handed, j \in DOMAIN Kept :
          handed[i][2] = Kept[j][2] => handed[i][1] < Kept[j][1]
     /\ Len(handed) + Len(Kept) = Cardinality(known)
     /\ Cardinality((1 .. arrived) \ known) <= expired
=============================================================================

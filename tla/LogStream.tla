----------------------------- MODULE LogStream -----------------------------
(***************************************************************************)
(* The log capture and its SSE stream (pkg/ares/transport/log_stream.go):  *)
(* a ring of the last lines, and a subscriber that is first replayed the   *)
(* ring and then sent what its bounded channel holds.  Lines are numbered  *)
(* in the order of the writes; 0 is an empty slot of the ring.             *)
(***************************************************************************)
EXTENDS Naturals, SequencesExt

CONSTANTS
  RingSize,    \* logRingSize
  QueueSize,   \* capacity of a subscriber's channel
  MaxLines     \* bound: lines written

VARIABLES
  ring, pos, full,   \* the LogStream's fields
  written,           \* lines written so far
  subscribed,        \* the subscriber's channel is in subs
  channel,           \* the lines it holds
  streamAt,          \* the step of handleStream that is next
  seen,              \* the lines sent to the client
  since,             \* ghost: lines written when handleStream began
  dropped            \* ghost: the lines that found the channel full

logVars == <<ring, pos, full, written, subscribed, channel, streamAt, seen, since, dropped>>
ringNext(p) == (p + 1) % RingSize

LogWrite ==
  /\ written < MaxLines
  /\ written' = written + 1
  /\ ring' = [ring EXCEPT ![pos] = written']
  /\ pos' = ringNext(pos)
  /\ full' = (full \/ pos' = 0)
  /\ IF ~subscribed THEN UNCHANGED <<channel, dropped>>
     ELSE IF Len(channel) < QueueSize
     THEN channel' = Append(channel, written') /\ UNCHANGED dropped
     ELSE dropped' = dropped \cup {written'} /\ UNCHANGED channel
  /\ UNCHANGED <<subscribed, streamAt, seen, since>>

RingSlots(from, to) == SelectSeq([i \in 1 .. to - from |-> ring[from + i - 1]], LAMBDA n : n # 0)
buffered == (IF full THEN RingSlots(pos, RingSize) ELSE <<>>) \o RingSlots(0, pos)

\* Mutant: the ring is replayed before the channel is registered.
handleStreamReplayFirst == <<"replay", "subscribe", "forward">>
\* The order of handleStream.
handleStream == <<"subscribe", "replay", "forward">>
Streaming(what) == streamAt > 0 /\ handleStream[streamAt] = what

Connect ==
  /\ streamAt = 0 /\ streamAt' = 1
  /\ since' = written /\ seen' = <<>> /\ dropped' = {}
  /\ UNCHANGED <<ring, pos, full, written, subscribed, channel>>

subscribe ==
  /\ Streaming("subscribe")
  /\ subscribed' = TRUE /\ channel' = <<>> /\ streamAt' = streamAt + 1
  /\ UNCHANGED <<ring, pos, full, written, seen, since, dropped>>

Replay ==
  /\ Streaming("replay")
  /\ seen' = buffered /\ streamAt' = streamAt + 1
  /\ UNCHANGED <<ring, pos, full, written, subscribed, channel, since, dropped>>

Forward ==
  /\ Streaming("forward") /\ channel # <<>>
  /\ seen' = Append(seen, Head(channel)) /\ channel' = Tail(channel)
  /\ UNCHANGED <<ring, pos, full, written, subscribed, streamAt, since, dropped>>

\* The request's context is done; it is looked at only while forwarding.
unsubscribe ==
  /\ Streaming("forward")
  /\ subscribed' = FALSE /\ channel' = <<>> /\ streamAt' = 0
  /\ UNCHANGED <<ring, pos, full, written, seen, since, dropped>>

LogInit ==
  /\ ring = [i \in 0 .. RingSize - 1 |-> 0] /\ pos = 0 /\ full = FALSE
  /\ written = 0 /\ subscribed = FALSE /\ channel = <<>> /\ streamAt = 0
  /\ seen = <<>> /\ since = 0 /\ dropped = {}

LogNext == LogWrite \/ Connect \/ subscribe \/ Replay \/ Forward \/ unsubscribe

LogSpec == LogInit /\ [][LogNext]_logVars

-----------------------------------------------------------------------------
(* Properties.                                                             *)

\* The ring replays the latest lines, RingSize of them at most, oldest first.
BufferIsTail ==
  LET n == IF written < RingSize THEN written ELSE RingSize
  IN buffered = [i \in 1 .. n |-> written - n + i]

\* A client that is being streamed to has every line since it connected, sent or
\* on its way, but those that overran its channel and those the ring had already
\* overwritten at the replay: the ring is the tail of the log, and no line falls
\* between the replay and the channel.
StreamComplete ==
  /\ BufferIsTail
  /\ Streaming("forward") =>
       \A n \in since + 1 .. written :
         \/ n \in ToSet(seen) \cup ToSet(channel) \cup dropped
         \/ seen # <<>> /\ n < Head(seen)
=============================================================================

-------------------------------- MODULE Hub --------------------------------
(***************************************************************************)
(* The WebSocket hub of the framework (pkg/ares/transport/hub.go and       *)
(* rate_limit.go): the registry of clients by pseudonym, the two pumps of  *)
(* every connection, the replay check, the rate limit and the bounded      *)
(* queues of outbound messages.                                            *)
(*                                                                         *)
(* A pseudonym may open several connections, one after another or at once  *)
(* (a client that lost its connection reconnects before the server notices *)
(* that the old one is dead).  All frames of a pseudonym are of one        *)
(* session and type, so a pseudonym has one entry in seqHigh.  Messages    *)
(* out are only counted.  Time is the limiter's refill and the ping ticker.*)
(***************************************************************************)
EXTENDS Integers

CONSTANTS
  Pseudonym,
  Conn,             \* the connections ever accepted, numbered in that order
  NoConn,           \* no entry in the registry, or no SendTo under way
  Nobody,           \* the pseudonym of a connection not yet accepted
  SendBufferSize,   \* depth of a client's outbound queue
  Burst,            \* capacity of the limiter's bucket; 0 disables it
  MaxSeq            \* largest sequence number a peer uses (a bound)

ASSUME HubAssumption ==
  /\ SendBufferSize \in Nat \ {0}
  /\ Burst \in Nat
  /\ MaxSeq \in Nat
  /\ Conn \subseteq Nat /\ NoConn \notin Conn
  /\ Nobody \notin Pseudonym

\* A frame is known by its sequence number; 0 is none, -1 a frame that is not
\* JSON or whose version is refused.
Frame == -1 .. MaxSeq

VARIABLES
  clients,   \* pseudonym -> its registered connection
  owner,     \* connection -> client.Pseudonym
  socket,    \* connection -> "new", "up" or "down"
  reader,    \* connection -> where its readPump is
  writer,    \* connection -> where its writePump is
  frame,     \* connection -> the frame readPump holds
  tokens,    \* connection -> whole tokens in the limiter's bucket
  queue,     \* connection -> number of messages in client.Send
  sending,   \* the connection a SendTo has looked up
  seqHigh,   \* pseudonym -> highest sequence number accepted, 0 for none
  handled,   \* pseudonym -> number -> how often onMsg got it (2: more than once)
  limited    \* pseudonym -> the numbers the limiter dropped

connVars == <<socket, reader, writer, frame, tokens>>
outVars == <<queue, sending>>
inVars == <<seqHigh, handled, limited>>
hubVars == <<clients, owner, connVars, outVars, inVars>>

-----------------------------------------------------------------------------
\* Both pumps start with the entry in place; an older entry is overwritten.
HandleWS(p, c) ==
  /\ socket[c] = "new" /\ \A d \in Conn : d < c => socket[d] # "new"
  /\ socket' = [socket EXCEPT ![c] = "up"]
  /\ owner' = [owner EXCEPT ![c] = p]
  /\ clients' = [clients EXCEPT ![p] = c]
  /\ reader' = [reader EXCEPT ![c] = "read"]
  /\ writer' = [writer EXCEPT ![c] = "running"]
  /\ tokens' = [tokens EXCEPT ![c] = Burst]
  /\ UNCHANGED <<frame, outVars, inVars>>

\* The network or the peer ends the connection.
Drop(c) ==
  /\ socket[c] = "up"
  /\ socket' = [socket EXCEPT ![c] = "down"]
  /\ UNCHANGED <<clients, owner, reader, writer, frame, tokens, outVars, inVars>>

-----------------------------------------------------------------------------
(* readPump                                                                *)

\* Mutant: the number seen last is accepted once more.
FreshAgain(p, n) == n = 0 \/ n >= seqHigh[p]

\* Numbers must rise; frames without one pass.
Fresh(p, n) == n = 0 \/ n > seqHigh[p]

\* Mutant: the number after the accepted one is recorded.
RecordNext(p, n) == IF n \in 1 .. (MaxSeq - 1) THEN n + 1 ELSE seqHigh[p]

Record(p, n) == IF n = 0 THEN seqHigh[p] ELSE n

\* A frame is read, validated and, under the lock, checked and recorded.
checkAndRecordSeq(c, n) ==
  /\ reader[c] = "read" /\ socket[c] = "up"
  /\ n # -1 /\ Fresh(owner[c], n)
  /\ seqHigh' = [seqHigh EXCEPT ![owner[c]] = Record(owner[c], n)]
  /\ frame' = [frame EXCEPT ![c] = n]
  /\ reader' = [reader EXCEPT ![c] = "limit"]
  /\ UNCHANGED <<clients, owner, socket, writer, tokens, outVars, handled, limited>>

\* The limiter lets the frame pass or drops it.
Allow(c) ==
  /\ reader[c] = "limit"
  /\ IF Burst = 0 \/ tokens[c] > 0
       THEN /\ reader' = [reader EXCEPT ![c] = "handle"]
            /\ tokens' = [tokens EXCEPT ![c] = IF Burst = 0 THEN @ ELSE @ - 1]
            /\ UNCHANGED <<frame, limited>>
       ELSE /\ reader' = [reader EXCEPT ![c] = "read"]
            /\ frame' = [frame EXCEPT ![c] = 0]
            /\ limited' = [limited EXCEPT ![owner[c]] = @ \cup ({frame[c]} \ {0})]
            /\ UNCHANGED tokens
  /\ UNCHANGED <<clients, owner, socket, writer, outVars, seqHigh, handled>>

Refill(c) ==
  /\ reader[c] \notin {"none", "done"} /\ tokens[c] < Burst
  /\ tokens' = [tokens EXCEPT ![c] = @ + 1]
  /\ UNCHANGED <<clients, owner, socket, reader, writer, frame, outVars, inVars>>

\* onMsg, called without a lock.
Handle(c) ==
  /\ reader[c] = "handle"
  /\ reader' = [reader EXCEPT ![c] = "read"]
  /\ frame' = [frame EXCEPT ![c] = 0]
  /\ handled' = IF frame[c] = 0 THEN handled
                ELSE [handled EXCEPT ![owner[c]][frame[c]] = IF @ = 0 THEN 1 ELSE 2]
  /\ UNCHANGED <<clients, owner, socket, writer, tokens, outVars, seqHigh, limited>>

\* Reading fails; the deferred function deletes the entry of the pseudonym,
\* whichever connection it names.
RemoveClient(c) ==
  /\ reader[c] = "read" /\ socket[c] = "down"
  /\ reader' = [reader EXCEPT ![c] = "close"]
  /\ clients' = [clients EXCEPT ![owner[c]] = NoConn]
  /\ UNCHANGED <<owner, socket, writer, frame, tokens, outVars, inVars>>

\* The connection is closed and onClose called; its limiter goes with the pump.
CloseRead(c) ==
  /\ reader[c] = "close"
  /\ reader' = [reader EXCEPT ![c] = "done"]
  /\ tokens' = [tokens EXCEPT ![c] = 0]
  /\ UNCHANGED <<clients, owner, socket, writer, frame, outVars, inVars>>

-----------------------------------------------------------------------------
(* writePump                                                               *)

\* A message is taken from the queue and written.
Write(c) ==
  /\ writer[c] = "running" /\ queue[c] > 0 /\ socket[c] = "up"
  /\ queue' = [queue EXCEPT ![c] = @ - 1]
  /\ UNCHANGED <<clients, owner, connVars, sending, inVars>>

\* Mutant: an idle connection is never pinged.
GiveUpWriting(c) ==
  /\ writer[c] = "running" /\ queue[c] > 0
  /\ queue' = [queue EXCEPT ![c] = @ - 1]
  /\ writer' = [writer EXCEPT ![c] = "done"]
  /\ socket' = [socket EXCEPT ![c] = "down"]
  /\ UNCHANGED <<clients, owner, reader, frame, tokens, sending, inVars>>

\* The third attempt to write a message fails, or a ping does: the pump closes
\* the connection and ends.  A ping is tried also when the queue is empty.
GiveUp(c) ==
  /\ writer[c] = "running"
  /\ \/ queue[c] > 0 /\ queue' = [queue EXCEPT ![c] = @ - 1]
     \/ UNCHANGED queue
  /\ writer' = [writer EXCEPT ![c] = "done"]
  /\ socket' = [socket EXCEPT ![c] = "down"]
  /\ UNCHANGED <<clients, owner, reader, frame, tokens, sending, inVars>>

-----------------------------------------------------------------------------
(* Sending.  A full queue drops the message; so does no entry.             *)

Enqueue(c) == IF queue[c] < SendBufferSize THEN queue[c] + 1 ELSE queue[c]

\* SendTo looks the client up under the lock and queues after it.
SendTo(p) ==
  /\ sending = NoConn /\ clients[p] # NoConn
  /\ sending' = clients[p]
  /\ UNCHANGED <<clients, owner, connVars, queue, inVars>>
Queue ==
  /\ sending # NoConn
  /\ queue' = [queue EXCEPT ![sending] = Enqueue(sending)]
  /\ sending' = NoConn
  /\ UNCHANGED <<clients, owner, connVars, inVars>>

\* Broadcast to all, BroadcastToSession to the participants P, under the lock.
Broadcast(P) ==
  /\ queue' = [c \in Conn |->
                 IF \E p \in P : clients[p] = c THEN Enqueue(c) ELSE queue[c]]
  /\ UNCHANGED <<clients, owner, connVars, sending, inVars>>

-----------------------------------------------------------------------------
HubInit ==
  /\ clients = [p \in Pseudonym |-> NoConn]
  /\ owner = [c \in Conn |-> Nobody]
  /\ socket = [c \in Conn |-> "new"]
  /\ reader = [c \in Conn |-> "none"] /\ writer = [c \in Conn |-> "none"]
  /\ frame = [c \in Conn |-> 0] /\ tokens = [c \in Conn |-> 0]
  /\ queue = [c \in Conn |-> 0] /\ sending = NoConn
  /\ seqHigh = [p \in Pseudonym |-> 0]
  /\ handled = [p \in Pseudonym |-> [n \in 1 .. MaxSeq |-> 0]]
  /\ limited = [p \in Pseudonym |-> {}]

readPump(c) == Allow(c) \/ Handle(c) \/ RemoveClient(c) \/ CloseRead(c)

HubNext ==
  \/ \E c \in Conn :
       \/ \E p \in Pseudonym : HandleWS(p, c)
       \/ Drop(c) \/ Refill(c) \/ Write(c) \/ GiveUp(c) \/ readPump(c)
       \/ \E n \in Frame : checkAndRecordSeq(c, n)
  \/ \E p \in Pseudonym : SendTo(p)
  \/ Queue
  \/ \E P \in SUBSET Pseudonym : P # {} /\ Broadcast(P)

HubSpec == HubInit /\ [][HubNext]_hubVars

-----------------------------------------------------------------------------
\* A numbered frame reaches onMsg at most once, over all the connections its
\* sender ever opens (checkAndRecordSeq: the record outlives the connection).
HandledOnce == \A p \in Pseudonym, n \in 1 .. MaxSeq : handled[p][n] <= 1

\* The last number recorded belongs to a frame that was handled, is on its way to
\* onMsg, or was dropped by the limiter (readPump records it first).
RecordedReaches ==
  \A p \in Pseudonym : seqHigh[p] # 0 =>
    \/ handled[p][seqHigh[p]] # 0
    \/ seqHigh[p] \in limited[p]
    \/ \E c \in Conn : owner[c] = p /\ frame[c] = seqHigh[p]

\* hub.go: "IsConnected reports whether pseudonym currently has a live WebSocket."
IsConnected ==
  \A c \in Conn : socket[c] = "up" /\ reader[c] # "done" => clients[owner[c]] # NoConn

\* Both goroutines of a connection end once it is down (the pumps close it for
\* each other; the ticker wakes an idle writePump).
PumpsEnd ==
  \A c \in Conn : []<>(socket[c] # "down" \/ (reader[c] = "done" /\ writer[c] = "done"))
=============================================================================

---------------------------- MODULE CommentClient ---------------------------
(***************************************************************************)
(* The viewer's end of the comment socket                                  *)
(* (frontend/src/features/comments/api/comment_client.ts): one             *)
(* CommentClient, as useCommentSocket creates it for a room, connects it   *)
(* once and disconnects it once.  The browser runs its callbacks one at a  *)
(* time: the listeners of each WebSocket and the reconnect timer.          *)
(*                                                                         *)
(* A WebSocket is its readyState.  It changes in the task that fires the   *)
(* event: "open" with OPEN, "error" and "close" with CLOSED; CLOSING alone *)
(* is reached without an event, when either side starts the closing        *)
(* handshake, and can last.  Sockets are slots that are used again.        *)
(***************************************************************************)
EXTENDS Naturals, Sequences, FiniteSets

CONSTANTS
    Sockets,        \* slots for WebSocket objects
    NoSocket,       \* the null of CommentClient.socket
    MaxRequests     \* bound: comments the viewer sends

ASSUME CommentClientAssumption ==
    /\ NoSocket \notin Sockets
    /\ MaxRequests \in Nat

VARIABLES
    phase,          \* "new", "connected" (roomId is set) or "disconnected"
    socket,         \* CommentClient.socket
    reconnectTimerId,  \* it is not null
    pending,        \* CommentClient.pendingRequests
    ready,          \* readyState of each socket; "CLOSED" is also a free slot
    sent,           \* the requests handed to a socket, in order
    made            \* number of requests the viewer made of this client

clientVars == <<phase, socket, reconnectTimerId, pending, ready, sent, made>>

ClientInit ==
    /\ phase = "new"
    /\ socket = NoSocket
    /\ reconnectTimerId = FALSE
    /\ pending = <<>>
    /\ ready = [s \in Sockets |-> "CLOSED"]
    /\ sent = <<>>
    /\ made = 0

-----------------------------------------------------------------------------
(* Private methods *)

\* scheduleReconnect.
ScheduleReconnect == reconnectTimerId' = (reconnectTimerId \/ phase = "connected")

\* openSocket: a new object, whatever became of the one before.
OpenSocket(s) ==
    /\ ready[s] = "CLOSED" /\ s # socket
    /\ ready' = [ready EXCEPT ![s] = "CONNECTING"]
    /\ socket' = s
    /\ reconnectTimerId' = FALSE

-----------------------------------------------------------------------------
(* Calls of useCommentSocket *)

\* connect of a new client.
Connect(s) ==
    /\ phase = "new"
    /\ phase' = "connected"
    /\ OpenSocket(s)
    /\ UNCHANGED <<pending, sent, made>>

State == IF socket = NoSocket THEN "null" ELSE ready[socket]

SendNow ==
    /\ State = "OPEN"
    /\ sent' = Append(sent, made')
    /\ UNCHANGED <<pending, reconnectTimerId>>

\* Mutant: a request made while the socket is not open is dropped.
SendNever ==
    /\ State # "OPEN"
    /\ IF State = "CONNECTING" THEN UNCHANGED reconnectTimerId ELSE ScheduleReconnect
    /\ UNCHANGED <<pending, sent>>

SendLater ==
    /\ State # "OPEN"
    /\ pending' = Append(pending, made')
    /\ IF State = "CONNECTING" THEN UNCHANGED reconnectTimerId ELSE ScheduleReconnect
    /\ UNCHANGED sent

\* send.
Send ==
    /\ phase = "connected"
    /\ made < MaxRequests
    /\ made' = made + 1
    /\ SendNow \/ SendLater
    /\ UNCHANGED <<phase, socket, ready>>

\* Mutant: the reconnect timer is left running.
DisconnectWithTimer ==
    /\ phase = "connected"
    /\ phase' = "disconnected"
    /\ pending' = <<>>
    /\ ready' = [s \in Sockets |-> IF s = socket THEN "CLOSING" ELSE ready[s]]
    /\ socket' = NoSocket
    /\ UNCHANGED <<reconnectTimerId, sent, made>>

\* disconnect.
Disconnect ==
    /\ phase = "connected"
    /\ phase' = "disconnected"
    /\ pending' = <<>>
    /\ reconnectTimerId' = FALSE
    /\ ready' = [s \in Sockets |-> IF s = socket THEN "CLOSING" ELSE ready[s]]
    /\ socket' = NoSocket
    /\ UNCHANGED <<sent, made>>

-----------------------------------------------------------------------------
(* Callbacks of the browser *)

ReconnectTimer(s) ==
    /\ reconnectTimerId
    /\ OpenSocket(s)
    /\ UNCHANGED <<phase, pending, sent, made>>

\* Mutant: what was flushed stays queued.
FlushAndKeep == sent' = sent \o pending /\ UNCHANGED pending

\* Mutant: one request is flushed, and the rest wait for the next socket.
FlushFirst ==
    /\ sent' = sent \o (IF pending = <<>> THEN <<>> ELSE <<Head(pending)>>)
    /\ pending' = IF pending = <<>> THEN <<>> ELSE Tail(pending)

FlushPendingRequests ==
    /\ sent' = sent \o pending
    /\ pending' = <<>>

\* "open": flushes if the socket is still the client's.
SocketOpens(s) ==
    /\ ready[s] = "CONNECTING"
    /\ ready' = [ready EXCEPT ![s] = "OPEN"]
    /\ IF socket = s THEN FlushPendingRequests ELSE UNCHANGED <<pending, sent>>
    /\ UNCHANGED <<phase, socket, reconnectTimerId, made>>

\* The server starts the closing handshake.
SocketCloses(s) ==
    /\ ready[s] = "OPEN"
    /\ ready' = [ready EXCEPT ![s] = "CLOSING"]
    /\ UNCHANGED <<phase, socket, reconnectTimerId, pending, sent, made>>

\* Mutant: a close without an error schedules nothing.
SocketClosedQuietly(s) ==
    /\ ready[s] # "CLOSED"
    /\ ready' = [ready EXCEPT ![s] = "CLOSED"]
    /\ socket' = IF socket = s THEN NoSocket ELSE socket
    /\ UNCHANGED <<phase, reconnectTimerId, pending, sent, made>>

\* "close", after an "error" if the connection failed.  Each listener schedules a
\* reconnect, and the second call changes nothing.
SocketClosed(s) ==
    /\ ready[s] # "CLOSED"
    /\ ready' = [ready EXCEPT ![s] = "CLOSED"]
    /\ socket' = IF socket = s THEN NoSocket ELSE socket
    /\ ScheduleReconnect
    /\ UNCHANGED <<phase, pending, sent, made>>

-----------------------------------------------------------------------------
ClientNext ==
    \/ \E s \in Sockets : \/ Connect(s) \/ ReconnectTimer(s)
                          \/ SocketOpens(s) \/ SocketCloses(s) \/ SocketClosed(s)
    \/ Send
    \/ Disconnect

ClientSpec == ClientInit /\ [][ClientNext]_clientVars

\* A timer fires, a handshake that was started ends, a connection attempt succeeds
\* or fails, and not every attempt fails.
ClientFairness ==
    /\ WF_clientVars(\E s \in Sockets : ReconnectTimer(s))
    /\ \A s \in Sockets :
          /\ WF_clientVars(ready[s] = "CLOSING" /\ SocketClosed(s))
          /\ WF_clientVars(ready[s] = "CONNECTING" /\ (SocketOpens(s) \/ SocketClosed(s)))
    /\ SF_clientVars(\E s \in Sockets : s = socket /\ SocketOpens(s))

-----------------------------------------------------------------------------
(* Properties *)

\* Every variable has its type, and no more requests are held than were made.
ClientTypeOK ==
    /\ phase \in {"new", "connected", "disconnected"}
    /\ socket \in Sockets \cup {NoSocket}
    /\ reconnectTimerId \in BOOLEAN
    /\ pending \in Seq(1 .. made)
    /\ ready \in [Sockets -> {"CONNECTING", "OPEN", "CLOSING", "CLOSED"}]
    /\ sent \in Seq(1 .. made)
    /\ made \in 0 .. MaxRequests
    /\ Len(sent) + Len(pending) <= made

\* What was sent and then what is pending are the requests the viewer made, each
\* once and in order, over any number of reconnects; only disconnect drops some.
RequestsKept ==
    LET requests == [i \in 1 .. made |-> i]
    IN  IF phase = "connected" THEN sent \o pending = requests
                               ELSE sent = SubSeq(requests, 1, Len(sent))

\* A connected client without a socket has a reconnect coming, and a request waits
\* only for a socket that is not open.
NeverStranded ==
    /\ phase = "connected" /\ socket = NoSocket => reconnectTimerId
    /\ pending # <<>> => State # "OPEN" /\ (State = "CLOSING" => reconnectTimerId)

\* Once disconnected the client opens no socket, from whatever events still arrive.
StaysDisconnected ==
    [][phase = "disconnected" =>
        /\ ~ reconnectTimerId' /\ socket' = NoSocket
        /\ \A s \in Sockets : ready'[s] = "CONNECTING" => ready[s] = "CONNECTING"]_clientVars

\* A request is sent in the end, unless the viewer leaves.
PendingIsSent == pending # <<>> ~> pending = <<>>

\* After a close there is one replacement: the client has one socket at a time.
OneLiveSocket ==
    Cardinality({s \in Sockets : ready[s] \in {"CONNECTING", "OPEN"}}) <= 1
=============================================================================

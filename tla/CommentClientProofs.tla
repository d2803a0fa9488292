----------------------- MODULE CommentClientProofs -------------------------
(***************************************************************************)
(* What CommentClient promises for any number of sockets and requests.     *)
(*                                                                         *)
(* The inductive invariant is Inv: the types, the three claims of the runs *)
(* that a state can satisfy, and what they rest on: a client that is not   *)
(* connected holds no socket, no timer and no request (Released), and the  *)
(* client's own socket is never one that has closed (Held), and a new      *)
(* client has made no request (Fresh).                                     *)
(***************************************************************************)
EXTENDS CommentClient, TLAPS

Released == phase # "connected" => pending = <<>> /\ ~ reconnectTimerId /\ socket = NoSocket

Held == socket # NoSocket => ready[socket] # "CLOSED"

Fresh == phase = "new" => sent = <<>> /\ made = 0

Inv == ClientTypeOK /\ RequestsKept /\ NeverStranded /\ Released /\ Held /\ Fresh

-----------------------------------------------------------------------------
(* Sequences *)

\* The first n requests, in order.
Requests(n) == [i \in 1 .. n |-> i]

\* One request more.
LEMMA RequestsGrow ==
  ASSUME NEW n \in Nat
  PROVE  /\ Requests(n) \in Seq(1 .. n) /\ Len(Requests(n)) = n
         /\ Append(Requests(n), n + 1) = Requests(n + 1)
<1>1. Requests(n) \in Seq(1 .. n) /\ Len(Requests(n)) = n
  BY DEF Requests
<1>2. Append(Requests(n), n + 1) = Requests(n + 1)
  <2>1. Append(Requests(n), n + 1) =
          [i \in 1 .. n + 1 |-> IF i <= n THEN Requests(n)[i] ELSE n + 1]
    BY <1>1
  <2> QED
    BY <2>1 DEF Requests
<1> QED
  BY <1>1, <1>2

\* Requests made so far may have been made later: the bound of a queue can grow.
LEMMA Wider ==
  ASSUME NEW n \in Nat, NEW q \in Seq(1 .. n)
  PROVE  q \in Seq(1 .. n + 1) /\ Append(q, n + 1) \in Seq(1 .. n + 1)
         /\ Len(Append(q, n + 1)) = Len(q) + 1
<1>1. q \in Seq(1 .. n + 1)
  <2>1. /\ Len(q) \in Nat /\ q = [i \in 1 .. Len(q) |-> q[i]]
        /\ \A i \in 1 .. Len(q) : q[i] \in 1 .. n
    OBVIOUS
  <2>2. \A i \in 1 .. Len(q) : q[i] \in 1 .. n + 1
    BY <2>1
  <2> QED
    BY <2>1, <2>2
<1> QED
  BY <1>1

\* Appending to the second of two queues appends to both in a row.
LEMMA TwoQueues ==
  ASSUME NEW S, NEW p \in Seq(S), NEW q \in Seq(S), NEW e \in S
  PROVE  /\ p \o q \in Seq(S) /\ Len(p \o q) = Len(p) + Len(q)
         /\ p \o Append(q, e) = Append(p \o q, e)
OBVIOUS

\* An empty queue adds nothing to the one before it, which is a prefix of both.
LEMMA FirstQueue ==
  ASSUME NEW S, NEW p \in Seq(S), NEW q \in Seq(S)
  PROVE  p \o <<>> = p /\ SubSeq(p \o q, 1, Len(p)) = p
OBVIOUS

-----------------------------------------------------------------------------
(* The inductive invariant *)

LEMMA InitInv == ClientInit => Inv
<1> SUFFICES ASSUME ClientInit PROVE Inv
  OBVIOUS
<1>1. ClientTypeOK
  <2>1. <<>> \in Seq(1 .. 0) /\ Len(<<>>) = 0
    OBVIOUS
  <2>2. sent \in Seq(1 .. made) /\ pending \in Seq(1 .. made) /\ Len(sent) + Len(pending) <= made
    BY <2>1 DEF ClientInit
  <2>3. ready \in [Sockets -> {"CONNECTING", "OPEN", "CLOSING", "CLOSED"}]
    BY DEF ClientInit
  <2>4. phase \in {"new", "connected", "disconnected"} /\ socket \in Sockets \cup {NoSocket}
    BY DEF ClientInit
  <2>5. reconnectTimerId \in BOOLEAN
    BY DEF ClientInit
  <2>6. made \in 0 .. MaxRequests
    BY CommentClientAssumption DEF ClientInit
  <2> QED
    BY <2>2, <2>3, <2>4, <2>5, <2>6 DEF ClientTypeOK
<1>2. RequestsKept
  <2> DEFINE requests == [i \in 1 .. 0 |-> i]
  <2>1. requests = <<>> /\ Len(<<>>) = 0 /\ SubSeq(<<>>, 1, 0) = <<>>
    OBVIOUS
  <2>2. phase # "connected" /\ made = 0 /\ sent = <<>>
    BY DEF ClientInit
  <2> QED
    BY <2>1, <2>2 DEF RequestsKept
<1>3. NeverStranded /\ Released /\ Held /\ Fresh
  BY DEF ClientInit, NeverStranded, Released, Held, Fresh
<1> QED
  BY <1>1, <1>2, <1>3 DEF Inv

\* openSocket, called by connect and by the timer: the queues are as they were, and
\* the new socket is connecting.
LEMMA OpenSocketInv ==
  ASSUME Inv, NEW s \in Sockets, OpenSocket(s), phase' = "connected",
         phase = "new" \/ reconnectTimerId, UNCHANGED <<pending, sent, made>>
  PROVE  Inv'
<1> USE CommentClientAssumption
<1>1. ClientTypeOK'
  BY DEF Inv, ClientTypeOK, OpenSocket
<1>2. RequestsKept'
  <2>1. CASE phase = "connected"
    BY <2>1 DEF Inv, RequestsKept
  <2>2. CASE phase = "new"
    <3>1. sent = <<>> /\ pending = <<>> /\ made = 0
      BY <2>2 DEF Inv, Fresh, Released
    <3>2. <<>> \o <<>> = [i \in 1 .. 0 |-> i]
      OBVIOUS
    <3> QED
      BY <3>1, <3>2 DEF RequestsKept
  <2> QED
    BY <2>1, <2>2 DEF Inv, Released
<1>3. NeverStranded' /\ Released' /\ Held' /\ Fresh'
  BY DEF Inv, ClientTypeOK, OpenSocket, NeverStranded, Released, Held, Fresh, State
<1> QED
  BY <1>1, <1>2, <1>3 DEF Inv

LEMMA SendInv == Inv /\ Send => Inv'
<1> SUFFICES ASSUME Inv, Send PROVE Inv'
  OBVIOUS
<1> DEFINE n == made
<1>1. /\ n \in Nat /\ n + 1 \in 0 .. MaxRequests /\ made' = n + 1 /\ phase = "connected"
      /\ sent \in Seq(1 .. n) /\ pending \in Seq(1 .. n) /\ Len(sent) + Len(pending) <= n
      /\ sent \o pending = Requests(n)
      /\ UNCHANGED <<phase, socket, ready>>
  BY CommentClientAssumption DEF Inv, ClientTypeOK, RequestsKept, Requests, Send
<1> HIDE DEF n
<1>2. /\ sent \in Seq(1 .. n + 1) /\ Append(sent, n + 1) \in Seq(1 .. n + 1)
      /\ pending \in Seq(1 .. n + 1) /\ Append(pending, n + 1) \in Seq(1 .. n + 1)
      /\ Len(Append(sent, n + 1)) = Len(sent) + 1
      /\ Len(Append(pending, n + 1)) = Len(pending) + 1
  BY ONLY <1>1, Wider
<1>3. Append(sent \o pending, n + 1) = Requests(n + 1)
  BY ONLY <1>1, RequestsGrow
<1>4. /\ sent \o Append(pending, n + 1) = Append(sent \o pending, n + 1)
      /\ sent \o <<>> = sent
      /\ Append(sent, n + 1) \o <<>> = Append(sent, n + 1)
  <2>1. n + 1 \in 1 .. n + 1
    BY ONLY <1>1
  <2> QED
    BY ONLY <2>1, <1>2, TwoQueues, FirstQueue
<1>5. Len(sent) \in Nat /\ Len(pending) \in Nat
  BY <1>1
<1>6. CASE SendNow
  <2>1. sent' = Append(sent, n + 1) /\ UNCHANGED <<pending, reconnectTimerId>> /\ State = "OPEN"
    BY <1>1, <1>6 DEF SendNow
  <2>2. pending = <<>>
    BY <2>1 DEF Inv, NeverStranded
  <2>3. ClientTypeOK'
    BY <1>1, <1>2, <1>5, <2>1 DEF Inv, ClientTypeOK
  <2>4. sent' \o pending' = Requests(n + 1)
    BY <1>3, <1>4, <2>1, <2>2
  <2> QED
    BY <1>1, <2>1, <2>2, <2>3, <2>4
       DEF Inv, RequestsKept, Requests, NeverStranded, Released, Held, Fresh, State
<1>7. CASE SendLater
  <2>1. /\ pending' = Append(pending, n + 1) /\ sent' = sent /\ State # "OPEN"
        /\ reconnectTimerId' = (IF State = "CONNECTING" THEN reconnectTimerId ELSE reconnectTimerId \/ phase = "connected")
    BY <1>1, <1>7 DEF SendLater, ScheduleReconnect
  <2>2. ClientTypeOK'
    <3>1. reconnectTimerId' \in BOOLEAN
      <4>1. reconnectTimerId \in BOOLEAN
        BY DEF Inv, ClientTypeOK
      <4> QED
        BY ONLY <2>1, <4>1, Zenon
    <3> QED
      BY <1>1, <1>2, <1>5, <2>1, <3>1 DEF Inv, ClientTypeOK
  <2>3. sent' \o pending' = Requests(n + 1)
    BY <1>3, <1>4, <2>1
  <2>4. State' = State
    BY <1>1 DEF State
  <2>5. NeverStranded'
    <3>1. phase = "connected" /\ socket = NoSocket => reconnectTimerId
      BY DEF Inv, NeverStranded
    <3>2. State # "CONNECTING" => reconnectTimerId'
      BY <1>1, <2>1
    <3>3. State = "CONNECTING" => socket # NoSocket
      BY DEF State
    <3>4. reconnectTimerId => reconnectTimerId'
      BY <2>1
    <3> QED
      BY <1>1, <2>1, <2>4, <3>1, <3>2, <3>3, <3>4 DEF NeverStranded
  <2> QED
    BY <1>1, <2>1, <2>2, <2>3, <2>5 DEF Inv, RequestsKept, Requests, Released, Held, Fresh
<1> QED
  BY <1>6, <1>7 DEF Send

LEMMA DisconnectInv == Inv /\ Disconnect => Inv'
<1> SUFFICES ASSUME Inv, Disconnect PROVE Inv'
  OBVIOUS
<1>1. ClientTypeOK'
  <2>1. <<>> \in Seq(1 .. made) /\ Len(<<>>) = 0 /\ Len(sent) + 0 <= made
    BY CommentClientAssumption DEF Inv, ClientTypeOK
  <2> QED
    BY <2>1 DEF Inv, ClientTypeOK, Disconnect
<1>2. RequestsKept'
  <2>1. sent \in Seq(1 .. made) /\ pending \in Seq(1 .. made)
        /\ sent \o pending = [i \in 1 .. made |-> i]
    BY DEF Inv, ClientTypeOK, RequestsKept, Disconnect
  <2>2. SubSeq(sent \o pending, 1, Len(sent)) = sent
    BY ONLY <2>1, FirstQueue
  <2> QED
    BY <2>1, <2>2 DEF RequestsKept, Disconnect
<1>3. NeverStranded' /\ Released' /\ Held' /\ Fresh'
  BY DEF Inv, ClientTypeOK, Disconnect, NeverStranded, Released, Held, Fresh
<1> QED
  BY <1>1, <1>2, <1>3 DEF Inv

LEMMA SocketOpensInv == ASSUME Inv, NEW s \in Sockets, SocketOpens(s) PROVE Inv'
<1>1. /\ ready' = [ready EXCEPT ![s] = "OPEN"]
      /\ UNCHANGED <<phase, socket, reconnectTimerId, made>>
  BY DEF SocketOpens
<1>2. /\ made \in Nat /\ sent \in Seq(1 .. made) /\ pending \in Seq(1 .. made)
      /\ Len(sent) + Len(pending) <= made
  BY CommentClientAssumption DEF Inv, ClientTypeOK
<1>3. CASE socket = s
  <2>1. sent' = sent \o pending /\ pending' = <<>>
    BY <1>3 DEF SocketOpens, FlushPendingRequests
  <2>2. /\ sent' \in Seq(1 .. made) /\ Len(sent') = Len(sent) + Len(pending)
        /\ sent' \o <<>> = sent'
    BY ONLY <1>2, <2>1
  <2>3. pending' \in Seq(1 .. made) /\ Len(pending') = 0
    BY ONLY <2>1
  <2>4. ClientTypeOK'
    BY <1>1, <1>2, <2>2, <2>3 DEF Inv, ClientTypeOK
  <2>5. phase = "connected"
    BY <1>3, CommentClientAssumption DEF Inv, Released
  <2> QED
    BY <1>1, <1>3, <2>1, <2>2, <2>4, <2>5, CommentClientAssumption
       DEF Inv, ClientTypeOK, RequestsKept, NeverStranded, Released, Held, Fresh, State
<1>4. CASE socket # s
  <2>1. UNCHANGED <<pending, sent>>
    BY <1>4 DEF SocketOpens
  <2> QED
    BY <1>1, <1>4, <2>1
       DEF Inv, ClientTypeOK, RequestsKept, NeverStranded, Released, Held, Fresh, State
<1> QED
  BY <1>3, <1>4

LEMMA SocketClosesInv == ASSUME Inv, NEW s \in Sockets, SocketCloses(s) PROVE Inv'
<1>1. /\ ready[s] = "OPEN" /\ ready' = [ready EXCEPT ![s] = "CLOSING"]
      /\ UNCHANGED <<phase, socket, reconnectTimerId, pending, sent, made>>
  BY DEF SocketCloses
<1>2. NeverStranded'
  <2>1. CASE socket = s
    <3>1. pending = <<>>
      BY <1>1, <2>1, CommentClientAssumption DEF Inv, NeverStranded, State
    <3> QED
      BY <1>1, <3>1 DEF Inv, NeverStranded
  <2>2. CASE socket # s
    BY <1>1, <2>2 DEF Inv, ClientTypeOK, NeverStranded, State
  <2> QED
    BY <2>1, <2>2
<1> QED
  BY <1>1, <1>2 DEF Inv, ClientTypeOK, RequestsKept, Released, Held, Fresh

LEMMA SocketClosedInv == ASSUME Inv, NEW s \in Sockets, SocketClosed(s) PROVE Inv'
<1>1. /\ ready' = [ready EXCEPT ![s] = "CLOSED"]
      /\ socket' = IF socket = s THEN NoSocket ELSE socket
      /\ reconnectTimerId' = (reconnectTimerId \/ phase = "connected")
      /\ UNCHANGED <<phase, pending, sent, made>>
  BY DEF SocketClosed, ScheduleReconnect
<1>2. ClientTypeOK'
  <2>1. reconnectTimerId' \in BOOLEAN
    BY <1>1, Zenon DEF Inv, ClientTypeOK
  <2> QED
    BY <1>1, <2>1 DEF Inv, ClientTypeOK
<1>3. NeverStranded' /\ Released' /\ Held'
  BY <1>1 DEF Inv, ClientTypeOK, NeverStranded, Released, Held, State
<1> QED
  BY <1>1, <1>2, <1>3 DEF Inv, RequestsKept, Fresh

LEMMA NextInv == Inv /\ [ClientNext]_clientVars => Inv'
<1> SUFFICES ASSUME Inv, [ClientNext]_clientVars PROVE Inv'
  OBVIOUS
<1>1. ASSUME NEW s \in Sockets, Connect(s) PROVE Inv'
  BY <1>1, OpenSocketInv DEF Connect
<1>2. ASSUME NEW s \in Sockets, ReconnectTimer(s) PROVE Inv'
  <2>1. phase = "connected"
    BY <1>2 DEF ReconnectTimer, Inv, Released
  <2> QED
    BY <1>2, <2>1, OpenSocketInv DEF ReconnectTimer
<1>3. CASE UNCHANGED clientVars
  BY <1>3 DEF clientVars, Inv, ClientTypeOK, RequestsKept, NeverStranded, Released, Held, Fresh, State
<1> QED
  BY <1>1, <1>2, <1>3, SendInv, DisconnectInv, SocketOpensInv, SocketClosesInv,
     SocketClosedInv DEF ClientNext

LEMMA Invariant == ClientSpec => []Inv
BY InitInv, NextInv, PTL DEF ClientSpec

-----------------------------------------------------------------------------
(* Theorems *)

\* The client's variables keep their types, and over any run it never holds more
\* requests, sent and pending, than the viewer made.
THEOREM ClientTypeCorrect == ClientSpec => []ClientTypeOK
<1>1. Inv => ClientTypeOK
  BY DEF Inv
<1> QED
  BY <1>1, Invariant, PTL

\* Over any number of sockets and reconnects, send hands the viewer's requests to a
\* socket each once and in the order they were made, or holds them in order.
THEOREM RequestsAreKept == ClientSpec => []RequestsKept
<1>1. Inv => RequestsKept
  BY DEF Inv
<1> QED
  BY <1>1, Invariant, PTL

\* A connected client always has a socket or a reconnect timer, and a request that
\* waits never waits on a socket that is open.
THEOREM ClientNeverStranded == ClientSpec => []NeverStranded
<1>1. Inv => NeverStranded
  BY DEF Inv
<1> QED
  BY <1>1, Invariant, PTL

\* After disconnect, no event of an old socket and no timer opens another one.
THEOREM ClientStaysDisconnected == ClientSpec => StaysDisconnected
<1> DEFINE Closed == phase = "disconnected" =>
                       /\ ~ reconnectTimerId' /\ socket' = NoSocket
                       /\ \A s \in Sockets :
                            ready'[s] = "CONNECTING" => ready[s] = "CONNECTING"
<1>1. Inv /\ [ClientNext]_clientVars => [Closed]_clientVars
  <2> SUFFICES ASSUME Inv, ClientNext, phase = "disconnected"
               PROVE  /\ ~ reconnectTimerId' /\ socket' = NoSocket
                      /\ \A s \in Sockets :
                           ready'[s] = "CONNECTING" => ready[s] = "CONNECTING"
    OBVIOUS
  <2>1. ~ reconnectTimerId /\ socket = NoSocket
    BY DEF Inv, Released
  <2>2. ready \in [Sockets -> {"CONNECTING", "OPEN", "CLOSING", "CLOSED"}]
    BY DEF Inv, ClientTypeOK
  <2>3. ASSUME NEW s \in Sockets,
               SocketOpens(s) \/ SocketCloses(s) \/ SocketClosed(s)
        PROVE  /\ ~ reconnectTimerId' /\ socket' = NoSocket
               /\ \A t \in Sockets : ready'[t] = "CONNECTING" => ready[t] = "CONNECTING"
    <3>1. ~ reconnectTimerId'
      BY <2>1, <2>3 DEF SocketOpens, SocketCloses, SocketClosed, ScheduleReconnect
    <3>2. socket' = NoSocket
      BY <2>1, <2>3 DEF SocketOpens, SocketCloses, SocketClosed
    <3>3. \E v \in {"OPEN", "CLOSING", "CLOSED"} : ready' = [ready EXCEPT ![s] = v]
      BY <2>3 DEF SocketOpens, SocketCloses, SocketClosed
    <3>4. \A t \in Sockets : ready'[t] = "CONNECTING" => ready[t] = "CONNECTING"
      BY <2>2, <3>3
    <3> QED
      BY <3>1, <3>2, <3>4
  <2> QED
    BY <2>1, <2>3 DEF ClientNext, Connect, ReconnectTimer, Send, Disconnect
<1> QED
  BY <1>1, Invariant, PTL DEF ClientSpec, StaysDisconnected
=============================================================================

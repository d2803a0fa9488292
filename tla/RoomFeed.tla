------------------------------ MODULE RoomFeed ------------------------------
(***************************************************************************)
(* What the comment hub promises its viewers, without channels, handlers,  *)
(* sockets or reference counts.  Each room has one feed of comments.  A    *)
(* viewer who joins receives the comments published after that moment,     *)
(* every one of them, once, in the order of the feed, until it leaves; no  *)
(* history is replayed.  A room moves in lockstep: a comment is published  *)
(* only when every viewer of the room has received the one before it.      *)
(***************************************************************************)
EXTENDS Naturals, Sequences

CONSTANTS
    Viewers,        \* viewers, each of whom joins at most once
    Rooms,
    RoomOf,         \* the room of a viewer
    Ids             \* comment ids

VARIABLES
    feed,           \* the comments published in a room, in order
    status,         \* "away", "watching" or "gone", for each viewer
    start,          \* length of the feed when the viewer joined
    seen            \* the comments the viewer received, in order

vars == <<feed, status, start, seen>>

Published == UNION {{feed[r][i] : i \in DOMAIN feed[r]} : r \in Rooms}

CaughtUp(v) == start[v] + Len(seen[v]) = Len(feed[RoomOf[v]])

Init ==
    /\ feed = [r \in Rooms |-> <<>>]
    /\ status = [v \in Viewers |-> "away"]
    /\ start = [v \in Viewers |-> 0]
    /\ seen = [v \in Viewers |-> <<>>]

Publish(r, n) ==
    /\ n \notin Published
    /\ \A v \in Viewers : status[v] = "watching" /\ RoomOf[v] = r => CaughtUp(v)
    /\ feed' = [feed EXCEPT ![r] = Append(@, n)]
    /\ UNCHANGED <<status, start, seen>>

Join(v) ==
    /\ status[v] = "away"
    /\ status' = [status EXCEPT ![v] = "watching"]
    /\ start' = [start EXCEPT ![v] = Len(feed[RoomOf[v]])]
    /\ UNCHANGED <<feed, seen>>

Receive(v) ==
    /\ status[v] = "watching"
    /\ ~ CaughtUp(v)
    /\ seen' = [seen EXCEPT ![v] = Append(@, feed[RoomOf[v]][start[v] + Len(@) + 1])]
    /\ UNCHANGED <<feed, status, start>>

\* Closing the page, before or after the viewer was let in.
Leave(v) ==
    /\ status[v] # "gone"
    /\ status' = [status EXCEPT ![v] = "gone"]
    /\ UNCHANGED <<feed, start, seen>>

Next ==
    \/ \E r \in Rooms, n \in Ids : Publish(r, n)
    \/ \E v \in Viewers : Join(v) \/ Receive(v) \/ Leave(v)

Spec == Init /\ [][Next]_vars
=============================================================================

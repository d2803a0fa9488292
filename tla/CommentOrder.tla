---------------------------- MODULE CommentOrder ----------------------------
(***************************************************************************)
(* CommentHub with the sender of each comment, and the order a viewer gets *)
(* the comments of one sender in.  Storing a comment and broadcasting it   *)
(* are two steps of a handler, so the comments of two senders may change   *)
(* places; a handler takes its next request when the channel has taken the *)
(* comment before.  The hub does not know senders: they are history.       *)
(***************************************************************************)
EXTENDS CommentHub

VARIABLES sender    \* history: the handler that stored the n-th comment

OrderInit == Init /\ sender = <<>>

Store(h) ==
    \/ h \in Conns /\ StoreFromSocket(h)
    \/ h \in Posters /\ \E r \in Rooms : StoreFromPost(h, r)

OrderNext ==
    \/ \E h \in Handlers : Store(h) /\ sender' = Append(sender, h)
    \/ Next /\ stored' = stored /\ sender' = sender

OrderSpec == OrderInit /\ [][OrderNext]_<<vars, sender>>

-----------------------------------------------------------------------------
(* Properties *)

\* Of two comments of one sender the first is the one that was stored first.
Precedes(by, m, n) == by[m] = by[n] => m < n

InOrder(by, ids) == \A i, j \in DOMAIN ids : i < j => Precedes(by, ids[i], ids[j])

\* Whatever the handlers of others do between the insert and the broadcast of a comment,
\* every viewer is sent the comments of one socket, and those of posts that wait for one
\* another, in the order they were stored.
SendersOrderKept == \A c \in Conns : InOrder(sender, seen[c])
=============================================================================

---------------------------- MODULE CommentPages ----------------------------
(***************************************************************************)
(* The pages in which the backend lists the comments of a room, as its two *)
(* readers see them: the watch page (RoomActivity) and the administration  *)
(* page (AdminRooms).                                                      *)
(***************************************************************************)
EXTENDS Naturals

CONSTANTS
    PageSize,       \* commentPageSize of the backend
    MaxComments     \* bound: comments stored

ASSUME CommentPagesAssumption ==
    /\ PageSize \in Nat \ {0}
    /\ MaxComments \in Nat
=============================================================================

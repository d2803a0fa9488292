---------------------------- MODULE MCCommentHub ----------------------------
(* Instances of CommentHub: two tabs of one viewer and another viewer.     *)
EXTENDS CommentHub, TLC

CONSTANTS c1, c2, c3, p1, r1, r2, s1, s2

\* Everyone in one room.
OneRoomOf == [c \in Conns |-> r1]

\* A third connection in another room, opened by the subject of the first.
TwoRoomsOf == [c \in Conns |-> IF c = c3 THEN r2 ELSE r1]

TwoTabsSubjectOf == [c \in Conns |-> IF c = c3 THEN s2 ELSE s1]

\* The two tabs are interchangeable.
TabSymmetry == Permutations({c1, c2})
=============================================================================

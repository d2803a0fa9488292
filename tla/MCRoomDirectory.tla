-------------------------- MODULE MCRoomDirectory --------------------------
(* Instances of RoomDirectory: model values for rooms, owners and requests. *)
EXTENDS RoomDirectory, TLC

CONSTANTS ra, rb, oa, ob, q1, q2

\* Requests are interchangeable where all of them may be abandoned, and owners are.
Symmetry == Permutations({oa, ob}) \cup Permutations({q1, q2})

OwnerSymmetry == Permutations({oa, ob})
=============================================================================

----------------------------- MODULE CommentLanes ----------------------------
(***************************************************************************)
(* The comments that run over the video                                    *)
(* (frontend/src/features/comments/ui/comment_renderer.ts and              *)
(* lib/comment_layout.ts): one CommentRenderer and its lane allocator, as  *)
(* useCommentRenderer creates them for the comment layer of the watch page *)
(* and drops them when the page goes.                                      *)
(*                                                                         *)
(* A rendered comment is two things that can end at different times: the   *)
(* element on the screen, which a newer comment may evict, and its         *)
(* animation, which holds the lane until it finishes.  Pixels are left     *)
(* out.                                                                    *)
(***************************************************************************)
EXTENDS Integers, Sequences, FiniteSets, SequencesExt

CONSTANTS
    Comments,       \* rendered comments; a finished one is used again
    Sizes,          \* CommentFontSize
    MaxLanes,       \* the largest lane count
    LaneCounts,     \* horizontalLaneCounts and verticalLaneCounts
    Viewports,      \* classes of window.innerWidth
    Limits          \* mobileLimit, tabletLimit, pcLimit

Axes == {"horizontal", "vertical"}
Lanes == 0 .. MaxLanes - 1

ASSUME CommentLanesAssumption ==
    /\ IsFiniteSet(Comments)
    /\ MaxLanes \in Nat \ {0}
    /\ LaneCounts \in [Axes -> [Sizes -> 1 .. MaxLanes]]
    /\ Limits \in [Viewports -> Nat \ {0}]

VARIABLES
    mounted,        \* rendererRef.current is not null
    running,        \* comments whose animation has not finished
    place,          \* the OccupiedCommentLane of each running comment
    active,         \* CommentRenderer.active, in insertion order
    occupied,       \* occupiedLanes; 0 for a lane without an entry
    viewport        \* window.innerWidth

laneVars == <<mounted, running, place, active, occupied, viewport>>

\* A fixed comment has no lane.
NoLane == [axis |-> "fixed", lane |-> 0]
Places == [axis : Axes, lane : Lanes] \cup {NoLane}
NoneOccupied == [a \in Axes |-> [l \in Lanes |-> 0]]

LanesInit ==
    /\ mounted = TRUE
    /\ running = {}
    /\ place = [c \in Comments |-> NoLane]
    /\ active = <<>>
    /\ occupied = NoneOccupied
    /\ viewport \in Viewports

-----------------------------------------------------------------------------
(* comment_layout.ts *)

CommentLimit == Limits[viewport]

\* horizontalLaneCount and verticalLaneCount; a layer without extent has one lane.
LaneCount(axis, size, hasExtent) == IF hasExtent THEN LaneCounts[axis][size] ELSE 1

\* acquire: the first free lane, and leastOccupiedLane when none is free.  A free
\* lane is one with no comment, so both choose the first of the least occupied.
Acquire(axis, n) ==
    LET least == {l \in 0 .. n - 1 :
                    \A m \in 0 .. n - 1 : occupied[axis][l] <= occupied[axis][m]}
    IN  CHOOSE l \in least : \A m \in least : l <= m

Occupy(p) ==
    IF p = NoLane THEN occupied
    ELSE [occupied EXCEPT ![p.axis][p.lane] = @ + 1]

\* Mutant: releasing a shared lane deletes its entry.
ReleaseAll(p) ==
    IF p = NoLane THEN occupied
    ELSE [occupied EXCEPT ![p.axis][p.lane] = 0]

\* Mutant: a lane without an entry is released as well.
ReleaseUnguarded(p) ==
    IF p = NoLane THEN occupied
    ELSE [occupied EXCEPT ![p.axis][p.lane] = @ - 1]

\* A lane without an entry is left alone: the renderer was cleared in between.
Release(p) ==
    IF p = NoLane \/ occupied[p.axis][p.lane] = 0 THEN occupied
    ELSE [occupied EXCEPT ![p.axis][p.lane] = @ - 1]

-----------------------------------------------------------------------------
(* CommentRenderer *)

\* The loop at the top of render: the oldest elements go until one more fits.
Evicted ==
    IF Len(active) < CommentLimit THEN active
    ELSE SubSeq(active, Len(active) - CommentLimit + 2, Len(active))

\* position: where a comment of this direction and size goes.
Position(axis, size, hasExtent) ==
    IF axis \notin Axes THEN NoLane
    ELSE [axis |-> axis, lane |-> Acquire(axis, LaneCount(axis, size, hasExtent))]

\* render.
Render(c, axis, size, hasExtent) ==
    /\ mounted
    /\ c \notin running
    /\ LET p == Position(axis, size, hasExtent)
       IN  /\ place' = [place EXCEPT ![c] = p]
           /\ occupied' = Occupy(p)
    /\ active' = Append(Evicted, c)
    /\ running' = running \cup {c}
    /\ UNCHANGED <<mounted, viewport>>

\* active.delete: the set has an element once, and may have it no more.
Deleted(c) ==
    IF \E i \in 1 .. Len(active) : active[i] = c
    THEN RemoveAt(active, CHOOSE i \in 1 .. Len(active) : active[i] = c)
    ELSE active

\* The finally of animation.finished.
Finish(c) ==
    /\ c \in running
    /\ running' = running \ {c}
    /\ active' = Deleted(c)
    /\ occupied' = Release(place[c])
    /\ place' = [place EXCEPT ![c] = NoLane]
    /\ UNCHANGED <<mounted, viewport>>

\* clear, which useCommentRenderer calls when the page goes.
Clear ==
    /\ mounted
    /\ mounted' = FALSE
    /\ active' = <<>>
    /\ occupied' = NoneOccupied
    /\ UNCHANGED <<running, place, viewport>>

\* The window is resized.
Resize ==
    /\ mounted
    /\ viewport' \in Viewports \ {viewport}
    /\ UNCHANGED <<mounted, running, place, active, occupied>>

LanesNext ==
    \/ \E c \in Comments :
          \/ \E axis \in Axes \cup {"fixed"}, size \in Sizes, hasExtent \in BOOLEAN :
                Render(c, axis, size, hasExtent)
          \/ Finish(c)
    \/ Clear
    \/ Resize

LanesSpec == LanesInit /\ [][LanesNext]_laneVars

-----------------------------------------------------------------------------
(* Properties *)

LanesTypeOK ==
    /\ mounted \in BOOLEAN
    /\ running \in SUBSET Comments
    /\ place \in [Comments -> Places]
    /\ active \in Seq(Comments)
    /\ occupied \in [Axes -> [Lanes -> Nat]]
    /\ viewport \in Viewports

Holding(a, l) == {c \in running : place[c] = [axis |-> a, lane |-> l]}

\* A lane is taken as often as animations run in it: an evicted comment still holds
\* its lane, and a shared lane is free only when its last comment has ended, over
\* any order of the ends.
LanesMatchRunning ==
    mounted => \A a \in Axes, l \in Lanes : occupied[a][l] = Cardinality(Holding(a, l))
=============================================================================

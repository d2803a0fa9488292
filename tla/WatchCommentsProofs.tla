------------------------ MODULE WatchCommentsProofs -------------------------
(***************************************************************************)
(* Theorems about the comments of the watch page.  CommentLanes, for any   *)
(* comments, sizes, lane counts and viewports: a lane is taken as often as *)
(* animations run in it.  RoomActivity, for any size of a page and any     *)
(* number of requests: older pages fit, and a stream that has ended stays. *)
(***************************************************************************)
EXTENDS CommentLanes, RoomActivity, FiniteSetTheorems, SequenceTheorems, WellFoundedInduction,
        TLAPS

-----------------------------------------------------------------------------
(* Lanes                                                                   *)

\* The variables that the lanes depend on; active and viewport play no part.
LanesType ==
    /\ running \in SUBSET Comments
    /\ place \in [Comments -> Places]
    /\ occupied \in [Axes -> [Lanes -> Nat]]

LanesInv == LanesType /\ LanesMatchRunning

-----------------------------------------------------------------------------
(* Lemmas about the operators *)

\* A set of numbers has a least one.
LEMMA LeastNatural ==
  ASSUME NEW S, S \subseteq Nat, S # {}
  PROVE  \E m \in S : \A k \in S : m <= k
<1> DEFINE R == {p \in Nat \X Nat : p[1] < p[2]}
<1>1. IsWellFoundedOn(R, Nat)
  BY NatLessThanWellFounded DEF OpToRel
<1>2. PICK m \in S : \A k \in S : ~ (<<k, m>> \in R)
  BY <1>1, WFMin
<1>3. \A k \in S : ~ (k < m)
  BY <1>2
<1> QED
  BY <1>3

\* acquire returns one of the n lanes, one with the fewest comments.
LEMMA AcquireFacts ==
  ASSUME LanesType, NEW axis \in Axes, NEW n \in 1 .. MaxLanes
  PROVE  /\ Acquire(axis, n) \in Lanes /\ Acquire(axis, n) \in 0 .. n - 1
         /\ \A l \in 0 .. n - 1 : occupied[axis][Acquire(axis, n)] <= occupied[axis][l]
<1> DEFINE taken == {occupied[axis][l] : l \in 0 .. n - 1}
           least == {l \in 0 .. n - 1 :
                       \A m \in 0 .. n - 1 : occupied[axis][l] <= occupied[axis][m]}
<1>0. n \in Nat /\ 0 \in 0 .. n - 1 /\ 0 .. n - 1 \subseteq Lanes /\ 0 .. n - 1 \subseteq Nat
  BY CommentLanesAssumption DEF CommentLanesAssumption, Lanes
<1>1. \A l \in 0 .. n - 1 : occupied[axis][l] \in Nat
  BY <1>0 DEF LanesType
<1>2. PICK fewest \in taken : \A k \in taken : fewest <= k
  <2>1. taken \subseteq Nat /\ taken # {}
    BY <1>0, <1>1
  <2> HIDE DEF taken
  <2> QED
    BY <2>1, LeastNatural
<1>3. least # {} /\ least \subseteq Nat
  BY <1>0, <1>2
<1> HIDE DEF least
<1>4. \E l \in least : \A m \in least : l <= m
  BY <1>3, LeastNatural
<1>5. Acquire(axis, n) \in least
  BY <1>4 DEF Acquire, least
<1> QED
  BY <1>0, <1>5 DEF least

LEMMA PositionFacts ==
  ASSUME LanesType, NEW axis \in Axes \cup {"fixed"}, NEW size \in Sizes, NEW hasExtent \in BOOLEAN
  PROVE  Position(axis, size, hasExtent) \in Places
<1>1. CASE axis \notin Axes
  BY <1>1 DEF Position, Places
<1>2. CASE axis \in Axes
  <2>1. LaneCount(axis, size, hasExtent) \in 1 .. MaxLanes
    BY <1>2, CommentLanesAssumption DEF CommentLanesAssumption, LaneCount
  <2>2. Acquire(axis, LaneCount(axis, size, hasExtent)) \in Lanes
    BY <1>2, <2>1, AcquireFacts
  <2> QED
    BY <1>2, <2>2 DEF Position, Places
<1> QED
  BY <1>1, <1>2

LEMMA PlacesFacts ==
  /\ NoLane \in Places
  /\ \A p \in Places : p = NoLane \/ (p.axis \in Axes /\ p.lane \in Lanes
                                      /\ p = [axis |-> p.axis, lane |-> p.lane])
  /\ \A a \in Axes, l \in Lanes : [axis |-> a, lane |-> l] # NoLane
<1>1. \A a \in Axes, l \in Lanes : [axis |-> a, lane |-> l] # NoLane
  <2> SUFFICES ASSUME NEW a \in Axes, NEW l \in Lanes, [axis |-> a, lane |-> l] = NoLane
               PROVE  FALSE
    OBVIOUS
  <2>1. [axis |-> a, lane |-> l].axis = NoLane.axis
    OBVIOUS
  <2>2. a = "fixed"
    BY <2>1 DEF NoLane
  <2> QED
    BY <2>2 DEF Axes
<1> QED
  BY <1>1 DEF Places

LEMMA HoldingFinite ==
  ASSUME running \in SUBSET Comments, NEW a, NEW l
  PROVE  IsFiniteSet(Holding(a, l)) /\ Cardinality(Holding(a, l)) \in Nat
<1>1. Holding(a, l) \subseteq Comments
  BY DEF Holding
<1> QED
  BY <1>1, CommentLanesAssumption, FS_Subset, FS_CardinalityType DEF CommentLanesAssumption

-----------------------------------------------------------------------------
(* The steps *)

LEMMA RenderStep ==
  ASSUME LanesInv, NEW c \in Comments, NEW axis \in Axes \cup {"fixed"}, NEW size \in Sizes,
         NEW hasExtent \in BOOLEAN, Render(c, axis, size, hasExtent)
  PROVE  LanesInv'
<1> DEFINE p == Position(axis, size, hasExtent)
<1>1. LanesType /\ LanesMatchRunning
  BY DEF LanesInv
<1>2. p \in Places
  BY <1>1, PositionFacts
<1>3. /\ mounted /\ c \notin running
      /\ place' = [place EXCEPT ![c] = p]
      /\ occupied' = Occupy(p)
      /\ running' = running \cup {c}
  BY DEF Render
<1> HIDE DEF p
<1>4. LanesType'
  <2>1. occupied' \in [Axes -> [Lanes -> Nat]]
    <3>1. CASE p = NoLane
      BY <1>1, <1>3, <3>1 DEF Occupy, LanesType
    <3>2. CASE p # NoLane
      <4>1. p.axis \in Axes /\ p.lane \in Lanes
        BY <1>2, <3>2, PlacesFacts
      <4>2. occupied' = [occupied EXCEPT ![p.axis][p.lane] = @ + 1]
        BY <1>3, <3>2 DEF Occupy
      <4> QED
        BY <1>1, <4>1, <4>2 DEF LanesType
    <3> QED
      BY <3>1, <3>2
  <2> QED
    BY <1>1, <1>2, <1>3, <2>1 DEF LanesType
<1>5. ASSUME NEW a \in Axes, NEW l \in Lanes
      PROVE  occupied'[a][l] = Cardinality(Holding(a, l)')
  <2>0. /\ occupied[a][l] = Cardinality(Holding(a, l)) /\ occupied[a][l] \in Nat
        /\ IsFiniteSet(Holding(a, l)) /\ c \notin Holding(a, l)
    BY <1>1, <1>3, HoldingFinite DEF LanesMatchRunning, LanesType, Holding
  <2>1. Holding(a, l)' = IF p = [axis |-> a, lane |-> l] THEN Holding(a, l) \cup {c}
                         ELSE Holding(a, l)
    BY <1>1, <1>3 DEF Holding, LanesType
  <2>2. CASE p = [axis |-> a, lane |-> l]
    <3>1. p # NoLane /\ p.axis = a /\ p.lane = l
      BY <2>2, PlacesFacts
    <3>2. occupied'[a][l] = occupied[a][l] + 1
      BY <1>1, <1>3, <3>1 DEF Occupy, LanesType
    <3>3. Cardinality(Holding(a, l) \cup {c}) = Cardinality(Holding(a, l)) + 1
      BY <2>0, FS_AddElement
    <3> QED
      BY <2>0, <2>1, <2>2, <3>2, <3>3
  <2>3. CASE p # [axis |-> a, lane |-> l]
    <3>1. occupied'[a][l] = occupied[a][l]
      <4>1. CASE p = NoLane
        BY <1>3, <4>1 DEF Occupy
      <4>2. CASE p # NoLane
        <5>1. p.axis \in Axes /\ p.lane \in Lanes /\ ~ (p.axis = a /\ p.lane = l)
          BY <1>2, <2>3, <4>2, PlacesFacts
        <5>2. occupied' = [occupied EXCEPT ![p.axis][p.lane] = @ + 1]
          BY <1>3, <4>2 DEF Occupy
        <5> QED
          BY <1>1, <5>1, <5>2 DEF LanesType
      <4> QED
        BY <4>1, <4>2
    <3> QED
      BY <2>0, <2>1, <2>3, <3>1
  <2> QED
    BY <2>2, <2>3
<1>6. LanesMatchRunning'
  BY <1>5 DEF LanesMatchRunning
<1> QED
  BY <1>4, <1>6 DEF LanesInv

LEMMA FinishStep ==
  ASSUME LanesInv, NEW c \in Comments, Finish(c)
  PROVE  LanesInv'
<1> DEFINE p == place[c]
<1>1. LanesType /\ LanesMatchRunning /\ p \in Places
  BY DEF LanesInv, LanesType
<1>2. /\ c \in running /\ UNCHANGED mounted
      /\ place' = [place EXCEPT ![c] = NoLane]
      /\ occupied' = Release(p)
      /\ running' = running \ {c}
  BY DEF Finish
<1>3. LanesType'
  <2>1. occupied' \in [Axes -> [Lanes -> Nat]]
    <3>1. CASE p = NoLane \/ occupied[p.axis][p.lane] = 0
      BY <1>1, <1>2, <3>1 DEF Release, LanesType
    <3>2. CASE ~ (p = NoLane \/ occupied[p.axis][p.lane] = 0)
      <4>1. p.axis \in Axes /\ p.lane \in Lanes
        BY <1>1, <3>2, PlacesFacts
      <4>2. occupied[p.axis][p.lane] \in Nat \ {0}
        BY <1>1, <3>2, <4>1 DEF LanesType
      <4>3. occupied' = [occupied EXCEPT ![p.axis][p.lane] = @ - 1]
        BY <1>2, <3>2 DEF Release
      <4>4. occupied[p.axis][p.lane] - 1 \in Nat
        BY <4>2
      <4>5. occupied \in [Axes -> [Lanes -> Nat]]
        BY <1>1 DEF LanesType
      <4> HIDE DEF p
      <4> QED
        BY <4>1, <4>3, <4>4, <4>5
    <3> QED
      BY <3>1, <3>2
  <2> QED
    BY <1>1, <1>2, <2>1, PlacesFacts DEF LanesType
<1>4. ASSUME NEW a \in Axes, NEW l \in Lanes, mounted
      PROVE  occupied'[a][l] = Cardinality(Holding(a, l)')
  <2>0. /\ occupied[a][l] = Cardinality(Holding(a, l)) /\ occupied[a][l] \in Nat
        /\ IsFiniteSet(Holding(a, l))
    BY <1>1, <1>4, HoldingFinite DEF LanesMatchRunning, LanesType
  <2>1. Holding(a, l)' = Holding(a, l) \ {c}
    BY <1>1, <1>2 DEF Holding, LanesType
  <2>2. CASE p = [axis |-> a, lane |-> l]
    <3>1. c \in Holding(a, l)
      BY <1>2, <2>2 DEF Holding
    <3>2. Cardinality(Holding(a, l) \ {c}) = Cardinality(Holding(a, l)) - 1
      BY <2>0, <3>1, FS_RemoveElement
    <3>3. Cardinality(Holding(a, l)) # 0
      BY <2>0, <3>1, FS_EmptySet
    <3>4. p # NoLane /\ p.axis = a /\ p.lane = l
      BY <2>2, PlacesFacts
    <3>5. occupied' = [occupied EXCEPT ![a][l] = @ - 1]
      BY <1>2, <2>0, <3>3, <3>4 DEF Release
    <3>6. occupied'[a][l] = occupied[a][l] - 1
      BY <1>1, <3>5 DEF LanesType
    <3> QED
      BY <2>0, <2>1, <3>2, <3>6
  <2>3. CASE p # [axis |-> a, lane |-> l]
    <3>1. c \notin Holding(a, l)
      BY <2>3 DEF Holding
    <3>2. Holding(a, l)' = Holding(a, l)
      BY <2>1, <3>1
    <3>3. occupied'[a][l] = occupied[a][l]
      <4>1. CASE p = NoLane \/ occupied[p.axis][p.lane] = 0
        BY <1>2, <4>1 DEF Release
      <4>2. CASE ~ (p = NoLane \/ occupied[p.axis][p.lane] = 0)
        <5>1. p.axis \in Axes /\ p.lane \in Lanes /\ ~ (p.axis = a /\ p.lane = l)
          BY <1>1, <2>3, <4>2, PlacesFacts
        <5>2. occupied' = [occupied EXCEPT ![p.axis][p.lane] = @ - 1]
          BY <1>2, <4>2 DEF Release
        <5> HIDE DEF p
        <5> QED
          BY <1>1, <5>1, <5>2 DEF LanesType
      <4> QED
        BY <4>1, <4>2
    <3> QED
      BY <2>0, <3>2, <3>3
  <2> QED
    BY <2>2, <2>3
<1>5. LanesMatchRunning'
  BY <1>2, <1>4 DEF LanesMatchRunning
<1> QED
  BY <1>3, <1>5 DEF LanesInv

-----------------------------------------------------------------------------
(* The theorem *)

LEMMA InitLanes == LanesInit => LanesInv
<1> SUFFICES ASSUME LanesInit
             PROVE  LanesInv
  OBVIOUS
<1>1. LanesType
  BY PlacesFacts DEF LanesInit, LanesType, NoneOccupied
<1>2. \A a, l : Holding(a, l) = {}
  BY DEF LanesInit, Holding
<1>3. LanesMatchRunning
  BY <1>2, FS_EmptySet DEF LanesInit, LanesMatchRunning, NoneOccupied
<1> QED
  BY <1>1, <1>3 DEF LanesInv

LEMMA NextLanes == LanesInv /\ [LanesNext]_laneVars => LanesInv'
<1> SUFFICES ASSUME LanesInv, [LanesNext]_laneVars
             PROVE  LanesInv'
  OBVIOUS
<1>1. ASSUME NEW c \in Comments, NEW axis \in Axes \cup {"fixed"}, NEW size \in Sizes,
             NEW hasExtent \in BOOLEAN, Render(c, axis, size, hasExtent)
      PROVE  LanesInv'
  BY <1>1, RenderStep
<1>2. ASSUME NEW c \in Comments, Finish(c)
      PROVE  LanesInv'
  BY <1>2, FinishStep
<1>3. CASE Clear
  <2>1. running' = running /\ place' = place /\ occupied' = NoneOccupied /\ mounted' = FALSE
    BY <1>3 DEF Clear
  <2>2. NoneOccupied \in [Axes -> [Lanes -> Nat]]
    BY DEF NoneOccupied
  <2> QED
    BY <2>1, <2>2 DEF LanesInv, LanesType, LanesMatchRunning
<1>4. CASE Resize \/ UNCHANGED laneVars
  <2>1. UNCHANGED <<mounted, running, place, occupied>>
    BY <1>4 DEF Resize, laneVars
  <2> QED
    BY <2>1 DEF LanesInv, LanesType, LanesMatchRunning, Holding
<1> QED
  BY <1>1, <1>2, <1>3, <1>4 DEF LanesNext

\* As long as the page is there, a lane is taken exactly as often as animations run in
\* it, over any order in which comments are rendered, evicted and end.
THEOREM LanesMatch == LanesSpec => []LanesMatchRunning
<1>1. LanesInv => LanesMatchRunning
  BY DEF LanesInv
<1> QED
  BY <1>1, InitLanes, NextLanes, PTL DEF LanesSpec

\* The rest of the state: what is on the screen, and how much fits.
ScreenInv ==
    /\ mounted \in BOOLEAN
    /\ active \in Seq(Comments)
    /\ viewport \in Viewports

\* The loop at the top of render leaves room for one comment more.
LEMMA EvictedFacts ==
  ASSUME ScreenInv
  PROVE  Evicted \in Seq(Comments) /\ Len(Evicted) + 1 <= CommentLimit
<1> DEFINE n == Len(active)
           first == n - CommentLimit + 2
<1>1. n \in Nat /\ CommentLimit \in Nat \ {0} /\ active \in Seq(Comments)
  BY CommentLanesAssumption DEF CommentLanesAssumption, ScreenInv, CommentLimit
<1>2. CASE n < CommentLimit
  BY <1>1, <1>2 DEF Evicted
<1>3. CASE ~ (n < CommentLimit)
  <2>1. \A i \in first .. n : active[i] \in Comments
    BY <1>1, <1>3
  <2>2. /\ SubSeq(active, first, n) \in Seq(Comments)
        /\ Len(SubSeq(active, first, n)) = IF first <= n THEN n - first + 1 ELSE 0
    BY <1>1, <2>1, SubSeqProperties
  <2>3. Evicted = SubSeq(active, first, n)
    BY <1>3 DEF Evicted
  <2> HIDE DEF first
  <2>4. Len(Evicted) = IF first <= n THEN n - first + 1 ELSE 0
    BY <2>2, <2>3
  <2>5. Len(Evicted) + 1 <= CommentLimit
    BY <1>1, <1>3, <2>4 DEF first
  <2> QED
    BY <2>2, <2>3, <2>5
<1> QED
  BY <1>2, <1>3

LEMMA DeletedFacts ==
  ASSUME active \in Seq(Comments), NEW c
  PROVE  Deleted(c) \in Seq(Comments)
<1>1. CASE \E i \in 1 .. Len(active) : active[i] = c
  <2> DEFINE at == CHOOSE i \in 1 .. Len(active) : active[i] = c
  <2>1. at \in 1 .. Len(active)
    BY <1>1
  <2>2. Deleted(c) = SubSeq(active, 1, at - 1) \o SubSeq(active, at + 1, Len(active))
    BY <1>1 DEF Deleted, RemoveAt
  <2> HIDE DEF at
  <2>3. \A i \in 1 .. Len(active) : active[i] \in Comments
    OBVIOUS
  <2>4. SubSeq(active, 1, at - 1) \in Seq(Comments)
    BY <2>1, <2>3, SubSeqProperties
  <2>5. SubSeq(active, at + 1, Len(active)) \in Seq(Comments)
    BY <2>1, <2>3, SubSeqProperties
  <2> QED
    BY <2>2, <2>4, <2>5
<1>2. CASE ~ \E i \in 1 .. Len(active) : active[i] = c
  BY <1>2 DEF Deleted
<1> QED
  BY <1>1, <1>2

LEMMA NextScreen == ScreenInv /\ [LanesNext]_laneVars => ScreenInv'
<1> SUFFICES ASSUME ScreenInv, [LanesNext]_laneVars
             PROVE  ScreenInv'
  OBVIOUS
<1>1. ASSUME NEW c \in Comments, NEW axis, NEW size, NEW hasExtent,
             Render(c, axis, size, hasExtent)
      PROVE  ScreenInv'
  <2>1. active' = Append(Evicted, c) /\ mounted' = mounted /\ viewport' = viewport
    BY <1>1 DEF Render
  <2>2. active' \in Seq(Comments)
    BY <2>1, EvictedFacts, AppendProperties
  <2> QED
    BY <2>1, <2>2 DEF ScreenInv
<1>2. ASSUME NEW c \in Comments, Finish(c) PROVE ScreenInv'
  BY <1>2, DeletedFacts DEF Finish, ScreenInv
<1>3. CASE Clear \/ Resize \/ UNCHANGED laneVars
  <2>1. <<>> \in Seq(Comments)
    OBVIOUS
  <2>2. CASE Clear
    BY <2>1, <2>2 DEF Clear, ScreenInv
  <2>3. CASE Resize \/ UNCHANGED laneVars
    BY <2>3 DEF Resize, laneVars, ScreenInv
  <2> QED
    BY <1>3, <2>2, <2>3
<1> QED
  BY <1>1, <1>2, <1>3 DEF LanesNext

THEOREM LanesTypeCorrect == LanesSpec => []LanesTypeOK
<1>1. LanesInit => ScreenInv
  BY DEF LanesInit, ScreenInv
<1>2. LanesInv /\ ScreenInv => LanesTypeOK
  BY DEF LanesInv, LanesType, ScreenInv, LanesTypeOK
<1> QED
  BY <1>1, <1>2, InitLanes, NextLanes, NextScreen, PTL DEF LanesSpec

\* A comment is put where the fewest animations run, of the lanes up to its own.
LEMMA RenderedFits ==
  ASSUME LanesInv, ScreenInv, NEW c \in Comments, NEW axis \in Axes \cup {"fixed"},
         NEW size \in Sizes, NEW hasExtent \in BOOLEAN, Render(c, axis, size, hasExtent),
         place'[c] # NoLane, NEW l \in 0 .. place'[c].lane
  PROVE  Cardinality(Holding(place'[c].axis, place'[c].lane))
            <= Cardinality(Holding(place'[c].axis, l))
<1> DEFINE n == LaneCount(axis, size, hasExtent)
           lane == Acquire(axis, n)
<1>1. place'[c] = Position(axis, size, hasExtent)
  BY DEF Render, LanesInv, LanesType
<1>2. axis \in Axes
  BY <1>1 DEF Position
<1>3. place'[c].axis = axis /\ place'[c].lane = lane
  BY <1>1, <1>2 DEF Position
<1>4. n \in 1 .. MaxLanes
  BY <1>2, CommentLanesAssumption DEF CommentLanesAssumption, LaneCount
<1> HIDE DEF n
<1>5. /\ lane \in 0 .. n - 1 /\ lane \in Lanes
      /\ \A m \in 0 .. n - 1 : occupied[axis][lane] <= occupied[axis][m]
  BY <1>2, <1>4, AcquireFacts DEF LanesInv
<1> HIDE DEF lane
<1>6. l \in 0 .. n - 1 /\ l \in Lanes
  BY <1>3, <1>4, <1>5, CommentLanesAssumption DEF CommentLanesAssumption, Lanes
<1>7. \A m \in Lanes : occupied[axis][m] = Cardinality(Holding(axis, m))
  BY <1>2 DEF Render, LanesInv, LanesMatchRunning
<1> QED
  BY <1>3, <1>5, <1>6, <1>7

\* A comment that is rendered goes where the fewest run, and no more than the limit
\* of the viewport are then on the screen, whatever was there before a resize.
RenderedInBounds ==
    [][\A c \in running' \ running :
         /\ Len(active') <= CommentLimit
         /\ place'[c] # NoLane =>
              \A l \in 0 .. place'[c].lane :
                 Cardinality(Holding(place'[c].axis, place'[c].lane))
                     <= Cardinality(Holding(place'[c].axis, l))]_laneVars

\* The renderer keeps to both, for any lanes and limits.
THEOREM RenderedWell == LanesSpec => RenderedInBounds
<1>1. LanesInit => ScreenInv
  BY DEF LanesInit, ScreenInv
<1>2. LanesInv /\ ScreenInv /\ [LanesNext]_laneVars =>
         [\A c \in running' \ running :
            /\ Len(active') <= CommentLimit
            /\ place'[c] # NoLane =>
                 \A l \in 0 .. place'[c].lane :
                    Cardinality(Holding(place'[c].axis, place'[c].lane))
                        <= Cardinality(Holding(place'[c].axis, l))]_laneVars
  <2> SUFFICES ASSUME LanesInv, ScreenInv, LanesNext, NEW c \in running' \ running
               PROVE  /\ Len(active') <= CommentLimit
                      /\ place'[c] # NoLane =>
                           \A l \in 0 .. place'[c].lane :
                              Cardinality(Holding(place'[c].axis, place'[c].lane))
                                  <= Cardinality(Holding(place'[c].axis, l))
    OBVIOUS
  <2>1. PICK d \in Comments, axis \in Axes \cup {"fixed"}, size \in Sizes,
             hasExtent \in BOOLEAN : Render(d, axis, size, hasExtent)
    BY DEF LanesNext, Finish, Clear, Resize
  <2>2. c = d
    BY <2>1 DEF Render
  <2>3. Len(active') = Len(Evicted) + 1
    BY <2>1, EvictedFacts, AppendProperties DEF Render
  <2>4. Len(active') <= CommentLimit
    BY <2>3, EvictedFacts
  <2> QED
    BY <2>1, <2>2, <2>4, RenderedFits
<1> QED
  BY <1>1, <1>2, InitLanes, NextLanes, NextScreen, PTL DEF LanesSpec, RenderedInBounds

-----------------------------------------------------------------------------
(* The activity of the room                                                *)

\* The page that ends with comment n: its length, its order, and its ends.
LEMMA PageFacts ==
  ASSUME NEW n \in Counts
  PROVE  /\ Page(n) \in Seq(1 .. MaxComments)
         /\ Len(Page(n)) = IF n < PageSize THEN n ELSE PageSize
         /\ \A i \in 1 .. Len(Page(n)) - 1 : Page(n)[i + 1] = Page(n)[i] + 1
         /\ n # 0 => Len(Page(n)) > 0 /\ Page(n)[Len(Page(n))] = n
         /\ NextCursor(n) \in Counts
         /\ NextCursor(n) # 0 => Len(Page(n)) > 0 /\ Page(n)[1] = NextCursor(n)
<1> DEFINE m == IF n < PageSize THEN n ELSE PageSize
           at(i) == IF n < PageSize THEN i ELSE n - PageSize + i
<1>1. n \in Nat /\ n <= MaxComments /\ MaxComments \in Nat /\ PageSize \in Nat \ {0}
  BY CommentPagesAssumption DEF Counts
<1>2. m \in Nat /\ (n # 0 => m > 0 /\ at(m) = n)
  BY <1>1
<1>3. \A i \in 1 .. m : at(i) \in 1 .. MaxComments
  BY <1>1
<1>4. \A i \in 1 .. m - 1 : i \in 1 .. m /\ i + 1 \in 1 .. m /\ at(i + 1) = at(i) + 1
  BY <1>1
<1>5. Page(n) = [i \in 1 .. m |-> at(i)]
  BY DEF Page
<1>7. NextCursor(n) \in Counts /\ (NextCursor(n) # 0 => m > 0 /\ at(1) = NextCursor(n))
  BY <1>1 DEF NextCursor, Counts
<1> HIDE DEF m, at
<1>6. Page(n) \in Seq(1 .. MaxComments) /\ Len(Page(n)) = m
  BY <1>2, <1>3, <1>5
<1>8. \A i \in 1 .. m : Page(n)[i] = at(i)
  BY <1>5
<1>9. \A i \in 1 .. Len(Page(n)) - 1 : Page(n)[i + 1] = Page(n)[i] + 1
  BY <1>4, <1>6, <1>8
<1>10. n # 0 => Page(n)[m] = n
  BY <1>2, <1>8
<1>11. NextCursor(n) # 0 => Page(n)[1] = NextCursor(n)
  BY <1>2, <1>7, <1>8
<1>12. m = IF n < PageSize THEN n ELSE PageSize
  BY DEF m
<1> QED
  BY <1>2, <1>6, <1>7, <1>9, <1>10, <1>11, <1>12

LEMMA InitActivityType == ActivityInit => ActivityTypeOK
<1> SUFFICES ASSUME ActivityInit PROVE ActivityTypeOK
  OBVIOUS
<1>1. MaxComments \in Nat
  BY CommentPagesAssumption
<1>2. <<>> \in Seq(1 .. MaxComments) /\ Len(<<>>) = 0
  OBVIOUS
<1>3. 0 \in Counts
  BY <1>1 DEF Counts
<1>4. load \in [step : {"none", "visit", "page", "paged", "done"}, last : Counts]
  BY <1>3 DEF ActivityInit
<1>5. polls \in [Polls -> Counts \cup {Nothing, NotFound}]
  BY DEF ActivityInit
<1>6. /\ comments \in Seq(1 .. MaxComments) /\ wire \in Seq(1 .. MaxComments)
      /\ paged \in 0 .. Len(comments)
  BY <1>2 DEF ActivityInit
<1> QED
  BY <1>3, <1>4, <1>5, <1>6 DEF ActivityInit, ActivityTypeOK

LEMMA NextActivityType == ActivityTypeOK /\ [ActivityNext]_activityVars => ActivityTypeOK'
<1> SUFFICES ASSUME ActivityTypeOK, [ActivityNext]_activityVars PROVE ActivityTypeOK'
  OBVIOUS
<1> USE DEF server, socket, firstLoad, list, counts, flags
<1>a. MaxComments \in Nat
  BY CommentPagesAssumption
<1>b. <<>> \in Seq(1 .. MaxComments) /\ Len(<<>>) = 0
  OBVIOUS
<1>1. CASE StoreComment
  <2>1. stored' \in 1 .. MaxComments /\ stored' = stored + 1
    BY <1>1, <1>a DEF StoreComment, ActivityTypeOK, Counts
  <2>2. wire' \in Seq(1 .. MaxComments)
    <3>1. wire \in Seq(1 .. MaxComments)
      BY DEF ActivityTypeOK
    <3>2. Append(wire, stored + 1) \in Seq(1 .. MaxComments)
      BY <2>1, <3>1
    <3> QED
      BY <1>1, <3>1, <3>2 DEF StoreComment
  <2> QED
    BY <1>1, <2>1, <2>2 DEF StoreComment, ActivityTypeOK, Counts
<1>2. CASE RemoveRoom
  BY <1>2 DEF RemoveRoom, ActivityTypeOK
<1>3. CASE ToggleSocket
  BY <1>3 DEF ToggleSocket, ActivityTypeOK
<1>4. CASE RecordComment
  <2>1. Head(wire) \in 1 .. MaxComments /\ Tail(wire) \in Seq(1 .. MaxComments)
    <3>1. wire \in Seq(1 .. MaxComments) /\ wire # <<>>
      BY <1>4 DEF RecordComment, ActivityTypeOK
    <3> QED
      BY <3>1, HeadTailProperties
  <2>2. comments' \in Seq(1 .. MaxComments) /\ Len(comments') = Len(comments) + 1
    <3>1. comments \in Seq(1 .. MaxComments) /\ comments' = Append(comments, Head(wire))
      BY <1>4 DEF RecordComment, ActivityTypeOK
    <3> QED
      BY <2>1, <3>1
  <2>3. paged' \in 0 .. Len(comments')
    BY <1>4, <2>2 DEF RecordComment, ActivityTypeOK
  <2> QED
    BY <1>4, <2>1, <2>2, <2>3 DEF RecordComment, ActivityTypeOK
<1>5. CASE SelectRoom
  BY <1>5 DEF SelectRoom, ActivityTypeOK
<1>6. CASE VisitAnswered
  <2>1. CASE gone
    <3>1. /\ comments' \in Seq(1 .. MaxComments) /\ paged' \in 0 .. Len(comments')
          /\ cursor' \in Counts /\ loadedStats' = Nothing /\ realtime' \in Nat
      BY <1>6, <1>a, <1>b, <2>1 DEF VisitAnswered, ClearRoomActivity, Counts
    <3>2. load' \in [step : {"none", "visit", "page", "paged", "done"}, last : Counts]
      BY <1>6, <2>1 DEF VisitAnswered, ActivityTypeOK
    <3> QED
      BY <1>6, <2>1, <3>1, <3>2 DEF VisitAnswered, ActivityTypeOK
  <2>2. CASE ~ gone
    BY <1>6, <2>2 DEF VisitAnswered, Statistics, ActivityTypeOK
  <2> QED
    BY <2>1, <2>2
<1>7. CASE LoadFails
  BY <1>7 DEF LoadFails, ActivityTypeOK
<1>8. ASSUME NEW ok \in BOOLEAN, PageServed(ok) PROVE ActivityTypeOK'
  BY <1>8, <1>a DEF PageServed, ActivityTypeOK, Counts
<1>9. CASE PageArrives
  <2>1. load.last \in Counts
    BY DEF ActivityTypeOK
  <2>2. /\ comments' \in Seq(1 .. MaxComments) /\ paged' = Len(comments')
        /\ cursor' \in Counts
    BY <1>9, <2>1, PageFacts DEF PageArrives
  <2>3. paged' \in 0 .. Len(comments')
    BY <2>2
  <2> QED
    BY <1>9, <2>2, <2>3 DEF PageArrives, ActivityTypeOK
<1>10. ASSUME NEW p \in Polls, PollServed(p) PROVE ActivityTypeOK'
  <2>1. Statistics \in Counts \cup {Nothing, NotFound}
    BY DEF Statistics, ActivityTypeOK
  <2> QED
    BY <1>10, <2>1 DEF PollServed, ActivityTypeOK
<1>11. ASSUME NEW p \in Polls, PollArrives(p) PROVE ActivityTypeOK'
  <2>1. loadedStats' \in Counts \cup {Nothing} /\ realtime' \in Nat /\ streamEnded' \in BOOLEAN
    <3>1. polls[p] \in Counts \cup {Nothing, NotFound} /\ polls[p] # Nothing
      BY <1>11 DEF PollArrives, ActivityTypeOK
    <3>2. CASE polls[p] = NotFound
      BY <1>11, <3>2 DEF PollArrives, ActivityTypeOK
    <3>3. CASE polls[p] # NotFound
      <4>1. loadedStats' = polls[p] /\ realtime' = 0 /\ streamEnded' = FALSE
        BY <1>11, <3>3 DEF PollArrives
      <4>2. polls[p] \in Counts
        BY <3>1, <3>3
      <4> QED
        BY <4>1, <4>2
    <3> QED
      BY <3>2, <3>3
  <2>2. polls' \in [Polls -> Counts \cup {Nothing, NotFound}]
    BY <1>11 DEF PollArrives, ActivityTypeOK
  <2> QED
    BY <1>11, <2>1, <2>2 DEF PollArrives, ActivityTypeOK
<1>12. CASE RunPollEffect
  BY <1>12 DEF RunPollEffect, ActivityTypeOK
<1>13. CASE LoadOlder
  BY <1>13 DEF LoadOlder, ActivityTypeOK
<1>14. CASE OlderArrives
  <2> DEFINE P == Page(older - 1)
  <2>1. older - 1 \in Counts
    BY <1>14, <1>a DEF OlderArrives, ActivityTypeOK, Counts
  <2>2. P \in Seq(1 .. MaxComments) /\ NextCursor(older - 1) \in Counts
    BY <2>1, PageFacts
  <2>3. comments' = P \o comments /\ paged' = paged + Len(P) /\ cursor' = NextCursor(older - 1)
    BY <1>14 DEF OlderArrives
  <2> HIDE DEF P
  <2>4. comments' \in Seq(1 .. MaxComments) /\ Len(comments') = Len(P) + Len(comments)
    BY <2>2, <2>3 DEF ActivityTypeOK
  <2>5. Len(P) \in Nat /\ Len(comments) \in Nat
    BY <2>2 DEF ActivityTypeOK
  <2>6. paged' \in 0 .. Len(comments')
    BY <2>3, <2>4, <2>5 DEF ActivityTypeOK
  <2> QED
    BY <1>14, <1>a, <2>2, <2>3, <2>4, <2>6 DEF OlderArrives, ActivityTypeOK, Counts
<1>15. CASE OlderFails
  BY <1>15, <1>a DEF OlderFails, ActivityTypeOK, Counts
<1>16. CASE UNCHANGED activityVars
  BY <1>16 DEF activityVars, ActivityTypeOK
<1> QED
  BY <1>1, <1>2, <1>3, <1>4, <1>5, <1>6, <1>7, <1>8, <1>9, <1>10, <1>11, <1>12, <1>13, <1>14,
     <1>15, <1>16 DEF ActivityNext, Load

\* The state of the page is what its type says, through every load, poll, frame and
\* older page.
THEOREM ActivityTypeCorrect == ActivitySpec => []ActivityTypeOK
BY InitActivityType, NextActivityType, PTL DEF ActivitySpec

\* Older pages are asked for only once the first load is over: nothing else replaces the
\* list while one is on its way.
ListSettled ==
    load.step \in {"none", "visit", "page", "paged"} => cursor = 0 /\ older = 0

PagesInv == ActivityTypeOK /\ ListSettled /\ PagesContiguous

LEMMA InitPages == ActivityInit => PagesInv
<1> SUFFICES ASSUME ActivityInit PROVE PagesInv
  OBVIOUS
<1>1. \A i \in 1 .. paged - 1 : comments[i + 1] = comments[i] + 1
  BY DEF ActivityInit
<1> QED
  BY <1>1, InitActivityType DEF ActivityInit, PagesInv, ListSettled, PagesContiguous

\* An older page before the comments it was asked for.
LEMMA OlderContiguous ==
  ASSUME PagesInv, OlderArrives
  PROVE  PagesContiguous'
<1> DEFINE P == Page(older - 1)
           m == Len(P)
<1>1. older - 1 \in Counts /\ older \in Nat \ {0}
  BY CommentPagesAssumption DEF OlderArrives, PagesInv, ActivityTypeOK, Counts
<1>2. /\ P \in Seq(1 .. MaxComments) /\ m \in Nat
      /\ \A i \in 1 .. m - 1 : P[i + 1] = P[i] + 1
      /\ older - 1 # 0 => m > 0 /\ P[m] = older - 1
      /\ NextCursor(older - 1) # 0 => m > 0 /\ P[1] = NextCursor(older - 1)
      /\ m = IF older - 1 < PageSize THEN older - 1 ELSE PageSize
  BY <1>1, PageFacts
<1>3. /\ comments' = P \o comments /\ paged' = paged + m
      /\ cursor' = NextCursor(older - 1) /\ older' = 0
  BY DEF OlderArrives
<1>4. /\ comments \in Seq(1 .. MaxComments) /\ paged \in 0 .. Len(comments)
      /\ comments[1] = older /\ paged > 0
      /\ \A i \in 1 .. paged - 1 : comments[i + 1] = comments[i] + 1
  BY <1>1 DEF PagesInv, ActivityTypeOK, PagesContiguous
<1>5. m > 0 => P[m] = older - 1
  BY <1>1, <1>2
<1> HIDE DEF P, m
<1>6. /\ \A i \in 1 .. m : comments'[i] = P[i]
      /\ \A i \in m + 1 .. m + paged : comments'[i] = comments[i - m]
  <2>1. comments' = P \o comments /\ Len(comments) \in Nat /\ paged <= Len(comments)
    BY <1>3, <1>4
  <2>2. \A i \in 1 .. Len(P) + Len(comments) :
           comments'[i] = IF i <= Len(P) THEN P[i] ELSE comments[i - Len(P)]
    BY <1>2, <1>4, <2>1, ConcatProperties
  <2>3. m = Len(P) /\ m \in Nat /\ paged \in Nat
    BY <1>2, <1>4, <2>1 DEF m
  <2>4. ASSUME NEW i \in 1 .. m PROVE comments'[i] = P[i]
    <3>1. i \in 1 .. Len(P) + Len(comments) /\ i <= Len(P)
      BY <2>1, <2>3
    <3> QED
      BY <2>2, <3>1
  <2>5. ASSUME NEW i \in m + 1 .. m + paged PROVE comments'[i] = comments[i - m]
    <3>1. i \in 1 .. Len(P) + Len(comments) /\ ~ (i <= Len(P))
      BY <2>1, <2>3
    <3> QED
      BY <2>2, <2>3, <3>1
  <2> QED
    BY <2>4, <2>5
<1>7. ASSUME NEW i \in 1 .. paged' - 1 PROVE comments'[i + 1] = comments'[i] + 1
  <2>0. i \in Nat /\ i >= 1 /\ i < m + paged /\ paged \in Nat
    BY <1>2, <1>3, <1>4, <1>7
  <2>1. CASE i < m
    <3>1. i \in 1 .. m /\ i + 1 \in 1 .. m /\ i \in 1 .. m - 1
      BY <1>2, <2>0, <2>1
    <3> QED
      BY <1>2, <1>6, <3>1
  <2>2. CASE i = m
    <3>1. i \in 1 .. m /\ i + 1 \in m + 1 .. m + paged /\ i + 1 - m = 1
      BY <1>2, <2>0, <2>2, <1>4
    <3>2. comments'[i] = older - 1 /\ comments'[i + 1] = older
      BY <1>4, <1>5, <1>6, <2>0, <2>2, <3>1
    <3> QED
      BY <1>1, <3>2
  <2>3. CASE i > m
    <3>1. /\ i \in m + 1 .. m + paged /\ i + 1 \in m + 1 .. m + paged
          /\ i - m \in 1 .. paged - 1 /\ i + 1 - m = i - m + 1
      BY <1>2, <2>0, <2>3
    <3>2. comments'[i] = comments[i - m] /\ comments'[i + 1] = comments[i - m + 1]
      <4>1. \A j \in m + 1 .. m + paged : comments'[j] = comments[j - m]
        BY <1>6
      <4>2. comments'[i] = comments[i - m]
        BY <3>1, <4>1
      <4>0. m \in Nat /\ i \in Nat
        BY <1>2, <2>0
      <4>3. PICK h \in Nat : h = i + 1
        BY <4>0
      <4>4. comments'[h] = comments[h - m]
        BY <3>1, <4>1, <4>3
      <4>5. h - m = i - m + 1
        BY <4>0, <4>3
      <4> QED
        BY <4>2, <4>3, <4>4, <4>5
    <3> QED
      BY <1>4, <3>1, <3>2
  <2> QED
    BY <1>2, <2>0, <2>1, <2>2, <2>3
<1>8. cursor' # 0 => paged' > 0 /\ comments'[1] = cursor'
  <2>1. m > 0 => 1 \in 1 .. m
    BY <1>2
  <2>2. paged' > 0
    BY <1>2, <1>3, <1>4
  <2> QED
    BY <1>2, <1>3, <1>6, <2>1, <2>2
<1> QED
  BY <1>3, <1>7, <1>8 DEF PagesContiguous

LEMMA NextPages == PagesInv /\ [ActivityNext]_activityVars => PagesInv'
<1> SUFFICES ASSUME PagesInv, [ActivityNext]_activityVars PROVE PagesInv'
  OBVIOUS
<1> USE DEF server, socket, firstLoad, list, counts, flags
<1>t. ActivityTypeOK /\ ActivityTypeOK'
  BY NextActivityType DEF PagesInv
<1>o. older \in Nat /\ cursor \in Nat
  BY <1>t DEF ActivityTypeOK, Counts
<1>1. CASE RecordComment
  <2>1. \A i \in 1 .. Len(comments) : comments'[i] = comments[i]
    BY <1>1, <1>t DEF RecordComment, ActivityTypeOK
  <2>2. paged' = paged /\ cursor' = cursor /\ older' = older /\ paged \in 0 .. Len(comments)
    BY <1>1, <1>t DEF RecordComment, ActivityTypeOK
  <2>3. \A i \in 1 .. paged - 1 : comments'[i + 1] = comments'[i] + 1
    <3>1. \A i \in 1 .. paged - 1 : i \in 1 .. Len(comments) /\ i + 1 \in 1 .. Len(comments)
      BY <2>2, <1>t DEF ActivityTypeOK
    <3> QED
      BY <2>1, <3>1 DEF PagesInv, PagesContiguous
  <2>4. paged > 0 => comments'[1] = comments[1]
    BY <2>1, <2>2
  <2>5. PagesContiguous'
    BY <2>2, <2>3, <2>4 DEF PagesInv, PagesContiguous
  <2>6. ListSettled'
    BY <1>1, <2>2 DEF RecordComment, PagesInv, ListSettled
  <2> QED
    BY <1>t, <2>5, <2>6 DEF PagesInv
<1>2. CASE VisitAnswered
  <2>1. CASE gone
    <3>1. paged' = 0 /\ cursor' = 0 /\ older' = 0
      BY <1>2, <2>1 DEF VisitAnswered, ClearRoomActivity, PagesInv, ListSettled
    <3>2. PagesContiguous' /\ ListSettled'
      BY <3>1 DEF PagesContiguous, ListSettled
    <3> QED
      BY <1>t, <3>2 DEF PagesInv
  <2>2. CASE ~ gone
    <3>1. /\ comments' = comments /\ paged' = paged /\ cursor' = cursor /\ older' = older
          /\ cursor = 0 /\ older = 0
      BY <1>2, <2>2 DEF VisitAnswered, PagesInv, ListSettled
    <3> QED
      BY <1>t, <3>1 DEF PagesInv, PagesContiguous, ListSettled
  <2> QED
    BY <2>1, <2>2
<1>3. CASE PageArrives
  <2>1. load.last \in Counts
    BY <1>t DEF ActivityTypeOK
  <2>2. older' = 0 /\ load'.step = "done"
    BY <1>3, <1>t DEF PageArrives, PagesInv, ListSettled, ActivityTypeOK
  <2>3. /\ comments' = Page(load.last) /\ paged' = Len(Page(load.last))
        /\ cursor' = NextCursor(load.last)
    BY <1>3 DEF PageArrives
  <2>4. PagesContiguous'
    BY <2>1, <2>2, <2>3, PageFacts DEF PagesContiguous
  <2> QED
    BY <1>t, <2>2, <2>4 DEF PagesInv, ListSettled
<1>4. CASE LoadOlder
  BY <1>4, <1>t DEF LoadOlder, PagesInv, PagesContiguous, ListSettled
<1>5. CASE OlderArrives
  <2>1. load' = load /\ older' = 0
    BY <1>5 DEF OlderArrives
  <2>2. load.step \notin {"none", "visit", "page", "paged"}
    BY <1>5 DEF OlderArrives, PagesInv, ListSettled
  <2> QED
    BY <1>5, <1>t, <2>1, <2>2, OlderContiguous DEF PagesInv, ListSettled
<1>6. CASE OlderFails
  BY <1>6, <1>t DEF OlderFails, PagesInv, PagesContiguous, ListSettled
<1>7. ASSUME /\ UNCHANGED <<list, older>>
             /\ load'.step \in {"none", "visit", "page", "paged"} =>
                   load.step \in {"none", "visit", "page", "paged"}
      PROVE  PagesInv'
  BY <1>7, <1>t DEF PagesInv, PagesContiguous, ListSettled
<1>8. CASE \/ StoreComment \/ RemoveRoom \/ ToggleSocket \/ SelectRoom \/ RunPollEffect
           \/ \E p \in Polls : PollServed(p) \/ PollArrives(p)
           \/ UNCHANGED activityVars
  BY <1>7, <1>8 DEF StoreComment, RemoveRoom, ToggleSocket, SelectRoom, RunPollEffect,
     PollServed, PollArrives, activityVars
<1>9. CASE LoadFails \/ \E ok \in BOOLEAN : PageServed(ok)
  BY <1>7, <1>9 DEF LoadFails, PageServed
<1> QED
  BY <1>1, <1>2, <1>3, <1>4, <1>5, <1>6, <1>8, <1>9 DEF ActivityNext, Load

\* The comments of a room that come from pages stand first, in order, without a gap or
\* a repetition, and the next page ends just before them: for every page size, and any
\* order of loads, older pages, failures and live comments.
THEOREM PagesFit == ActivitySpec => []PagesContiguous
<1>1. PagesInv => PagesContiguous
  BY DEF PagesInv
<1> QED
  BY <1>1, InitPages, NextPages, PTL DEF ActivitySpec

\* While the interval is stopped no answer is on its way, and nothing has ended before
\* a room is selected.
PollsCancelled ==
    /\ ~ polling => \A p \in Polls : polls[p] = Nothing
    /\ load.step = "none" => ~ polling /\ ~ streamEnded

EndInv == ActivityTypeOK /\ PollsCancelled

LEMMA InitEnd == ActivityInit => EndInv
BY InitActivityType DEF ActivityInit, EndInv, PollsCancelled

LEMMA NextEnd == EndInv /\ [ActivityNext]_activityVars => EndInv'
<1> SUFFICES ASSUME EndInv, [ActivityNext]_activityVars PROVE EndInv'
  OBVIOUS
<1> USE DEF server, socket, firstLoad, list, counts, flags
<1>t. ActivityTypeOK /\ ActivityTypeOK'
  BY NextActivityType DEF EndInv
<1>1. CASE SelectRoom
  BY <1>1, <1>t DEF SelectRoom, EndInv, PollsCancelled, ActivityTypeOK
<1>2. CASE VisitAnswered
  <2>1. polls' = polls /\ polling' = polling /\ load'.step # "none"
    BY <1>2, <1>t DEF VisitAnswered, ActivityTypeOK
  <2> QED
    BY <1>t, <2>1 DEF EndInv, PollsCancelled
<1>3. CASE LoadFails \/ PageArrives \/ \E ok \in BOOLEAN : PageServed(ok)
  <2>1. polls' = polls /\ polling' = polling /\ load'.step # "none"
    BY <1>3, <1>t DEF LoadFails, PageArrives, PageServed, ActivityTypeOK
  <2> QED
    BY <1>t, <2>1 DEF EndInv, PollsCancelled
<1>4. ASSUME NEW p \in Polls, PollServed(p) PROVE EndInv'
  BY <1>4, <1>t DEF PollServed, EndInv, PollsCancelled
<1>5. ASSUME NEW p \in Polls, PollArrives(p) PROVE EndInv'
  <2>1. polling /\ load.step # "none"
    BY <1>5 DEF PollArrives, EndInv, PollsCancelled
  <2>2. polling' = polling /\ load' = load
    BY <1>5 DEF PollArrives
  <2> QED
    BY <1>t, <2>1, <2>2 DEF EndInv, PollsCancelled
<1>6. CASE RunPollEffect
  BY <1>6, <1>t DEF RunPollEffect, EndInv, PollsCancelled
<1>7. ASSUME UNCHANGED <<polls, polling, load, streamEnded>> PROVE EndInv'
  BY <1>7, <1>t DEF EndInv, PollsCancelled
<1>8. CASE \/ StoreComment \/ RemoveRoom \/ ToggleSocket \/ RecordComment
           \/ LoadOlder \/ OlderArrives \/ OlderFails \/ UNCHANGED activityVars
  BY <1>7, <1>8 DEF StoreComment, RemoveRoom, ToggleSocket, RecordComment, LoadOlder,
     OlderArrives, OlderFails, activityVars
<1> QED
  BY <1>1, <1>2, <1>3, <1>4, <1>5, <1>6, <1>8 DEF ActivityNext, Load

\* No answer to a request made before the interval stopped brings a stream back that
\* has ended, for any number of requests under way.
THEOREM EndStays == ActivitySpec => EndedStays
<1>1. EndInv /\ [ActivityNext]_activityVars =>
         [streamEnded /\ ~ polling => streamEnded' \/ roomNotFound']_activityVars
  <2> SUFFICES ASSUME EndInv, ActivityNext, streamEnded, ~ polling
               PROVE  streamEnded' \/ roomNotFound'
    OBVIOUS
  <2> USE DEF server, socket, firstLoad, list, counts, flags
  <2>1. CASE SelectRoom
    BY <2>1 DEF SelectRoom, EndInv, PollsCancelled
  <2>2. CASE VisitAnswered
    BY <2>2 DEF VisitAnswered
  <2>3. ASSUME NEW p \in Polls, PollArrives(p) PROVE FALSE
    BY <2>3 DEF PollArrives, EndInv, PollsCancelled
  <2>4. CASE \/ StoreComment \/ RemoveRoom \/ ToggleSocket \/ RecordComment \/ LoadFails
             \/ PageArrives \/ (\E ok \in BOOLEAN : PageServed(ok)) \/ RunPollEffect
             \/ (\E p \in Polls : PollServed(p)) \/ LoadOlder \/ OlderArrives \/ OlderFails
    BY <2>4 DEF StoreComment, RemoveRoom, ToggleSocket, RecordComment, LoadFails, PageArrives,
       PageServed, RunPollEffect, PollServed, LoadOlder, OlderArrives, OlderFails
  <2> QED
    BY <2>1, <2>2, <2>3, <2>4 DEF ActivityNext, Load
<1> QED
  BY <1>1, InitEnd, NextEnd, PTL DEF ActivitySpec, EndedStays
=============================================================================

-------------------------- MODULE CommentHubProofs --------------------------
(***************************************************************************)
(* Theorems about CommentHub and CommentOrder, for any connections, rooms, *)
(* subjects and channel capacities.                                        *)
(***************************************************************************)
EXTENDS CommentOrder, FiniteSetTheorems, SequenceTheorems, TLAPS

\* What the channels and the handlers carry are ids of stored comments: the hub
\* looks the room of a comment up by them.
CarriesStored ==
    /\ \A i \in DOMAIN broadcast : broadcast[i] \in DOMAIN stored
    /\ \A h \in Handlers : pc[h] = "broadcasting" => held[h] \in DOMAIN stored

TypeInv == TypeOK /\ CarriesStored

-----------------------------------------------------------------------------
(* Lemmas about the operators *)

\* NoJob, whose room is arbitrary, is a job.
LEMMA NoJobType == NoJob \in Job
<1>1. (CHOOSE r \in Rooms : TRUE) \in Rooms
  BY CommentHubAssumption
<1> QED
  BY <1>1 DEF NoJob, Job, NoPresence, Frame

\* A job that is started is a job.
LEMMA StartJobType ==
  ASSUME NEW kind \in {"presence", "comment", "profile"}, NEW r \in Rooms, NEW id \in Nat,
         NEW frame \in Frame, NEW targets \in SUBSET Conns,
         StartJob(kind, r, id, frame, targets)
  PROVE  job' \in Job
BY NoJobType DEF StartJob, Job

\* The number of viewers of a room is a number: the subjects are finitely many.
LEMMA ViewerCountType ==
  ASSUME NEW v, NEW r
  PROVE  ViewerCount(v, r) \in Nat
<1>1. IsFiniteSet({s \in Subjects : v[r][s] > 0})
  BY CommentHubAssumption, FS_Subset
<1> QED
  BY <1>1, FS_CardinalityType DEF ViewerCount

\* Decrementing keeps the type of the counts.
LEMMA DecrementViewerType ==
  ASSUME NEW v \in [Rooms -> [Subjects -> Nat]], NEW r \in Rooms, NEW s \in Subjects
  PROVE  DecrementViewer(v, r, s) \in [Rooms -> [Subjects -> Nat]]
BY DEF DecrementViewer

\* Incrementing does, too.
LEMMA IncrementType ==
  ASSUME NEW v \in [Rooms -> [Subjects -> Nat]], NEW r \in Rooms, NEW s \in Subjects
  PROVE  [v EXCEPT ![r][s] = @ + 1] \in [Rooms -> [Subjects -> Nat]]
OBVIOUS

\* Updating keeps the type of the peaks.
LEMMA UpdatePeakType ==
  ASSUME peaks \in [Rooms -> Nat], NEW r \in Rooms, NEW count \in Nat
  PROVE  UpdatePeak(r, count) \in [Rooms -> Nat]
BY DEF UpdatePeak

\* The first message of a channel, and the rest of it.
LEMMA HeadAndTail ==
  ASSUME NEW S, NEW q \in Seq(S), q # <<>>
  PROVE  /\ 1 \in DOMAIN q /\ Head(q) = q[1] /\ Head(q) \in S
         /\ Tail(q) \in Seq(S) /\ Len(Tail(q)) = Len(q) - 1
         /\ \A i \in DOMAIN Tail(q) : i + 1 \in DOMAIN q /\ Tail(q)[i] = q[i + 1]
OBVIOUS

\* A channel or a table with one element more.
LEMMA Appended ==
  ASSUME NEW S, NEW q \in Seq(S), NEW e \in S
  PROVE  /\ Append(q, e) \in Seq(S) /\ Len(Append(q, e)) = Len(q) + 1
         /\ DOMAIN q = 1 .. Len(q) /\ DOMAIN Append(q, e) = 1 .. Len(q) + 1
         /\ \A i \in DOMAIN Append(q, e) : \/ i \in DOMAIN q /\ Append(q, e)[i] = q[i]
                                           \/ Append(q, e)[i] = e
OBVIOUS

\* The positions a longer table has: the old ones, and the one appended.
LEMMA Extended ==
  ASSUME NEW S, NEW q \in Seq(S), NEW e \in S
  PROVE  /\ Append(q, e) \in Seq(S)
         /\ DOMAIN q \subseteq DOMAIN Append(q, e)
         /\ Len(q) + 1 \in DOMAIN Append(q, e)
         /\ Len(q) + 1 \in Nat
<1>1. /\ DOMAIN q = 1 .. Len(q) /\ DOMAIN Append(q, e) = 1 .. Len(q) + 1
      /\ Append(q, e) \in Seq(S) /\ Len(q) \in Nat
  OBVIOUS
<1> DEFINE n == Len(q)
<1>2. n \in Nat => 1 .. n \subseteq 1 .. n + 1 /\ n + 1 \in 1 .. n + 1 /\ n + 1 \in Nat
  <2> HIDE DEF n
  <2> QED
    OBVIOUS
<1> QED
  BY <1>1, <1>2

-----------------------------------------------------------------------------
(* Type correctness *)

LEMMA InitTypeInv == Init => TypeInv
BY NoJobType, CommentHubAssumption
   DEF Init, TypeInv, TypeOK, CarriesStored, Frame, NoPresence, Places, Handlers

LEMMA NextTypeInv == TypeInv /\ [Next]_vars => TypeInv'
<1> SUFFICES ASSUME TypeInv, [Next]_vars PROVE TypeInv'
  OBVIOUS
<1> USE CommentHubAssumption DEF TypeInv, TypeOK, CarriesStored, Handlers
<1>1. ASSUME NEW c \in Conns, HubRegister(c) PROVE TypeInv'
  <2> DEFINE r == RoomOf[c]
             s == SubjectOf[c]
             uncounted == IF c \in rooms[r] THEN DecrementViewer(viewers, r, s) ELSE viewers
             counted == [uncounted EXCEPT ![r][s] = @ + 1]
             count == ViewerCount(counted, r)
  <2>1. r \in Rooms /\ s \in Subjects
    OBVIOUS
  <2>2. uncounted \in [Rooms -> [Subjects -> Nat]]
    BY <2>1, DecrementViewerType
  <2>3. counted \in [Rooms -> [Subjects -> Nat]]
    <3> HIDE DEF r, s, uncounted
    <3> QED
      BY <2>1, <2>2, IncrementType
  <2>4. count \in Nat
    BY ViewerCountType
  <2>5. viewers' = counted /\ peaks' = UpdatePeak(r, count)
        /\ rooms' = [rooms EXCEPT ![r] = @ \cup {c}]
        /\ StartJob("presence", r, 0, [count |-> count, peak |-> peaks'[r]], rooms'[r])
    BY <1>1 DEF HubRegister
  <2>6. peaks' \in [Rooms -> Nat] /\ rooms' \in [Rooms -> SUBSET Conns]
    <3> HIDE DEF r, count
    <3>1. peaks' \in [Rooms -> Nat]
      BY <2>1, <2>4, <2>5, UpdatePeakType
    <3> QED
      BY <2>1, <2>5, <3>1
  <2>7. job' \in Job
    <3> HIDE DEF r, count
    <3>1. [count |-> count, peak |-> peaks'[r]] \in Frame /\ rooms'[r] \in SUBSET Conns
      BY <2>1, <2>4, <2>6 DEF Frame
    <3> QED
      BY <2>1, <2>5, <3>1, StartJobType
  <2>8. /\ pc' = [pc EXCEPT ![c] = "reading"]
        /\ joinedAt' \in [Conns -> Nat]
        /\ UNCHANGED <<channelVars, held, link, stalled, storeVars, frameVars, feed>>
    BY <1>1, <2>1 DEF HubRegister
  <2> QED
    BY <2>3, <2>5, <2>6, <2>7, <2>8 DEF channelVars, storeVars, frameVars, Places
<1>2. ASSUME NEW c \in Conns, HubUnregister(c) PROVE TypeInv'
  <2> DEFINE r == RoomOf[c]
             remaining == IF c \in rooms[r] THEN DecrementViewer(viewers, r, SubjectOf[c])
                          ELSE viewers
  <2>1. r \in Rooms /\ SubjectOf[c] \in Subjects
    OBVIOUS
  <2>2. remaining \in [Rooms -> [Subjects -> Nat]]
    BY <2>1, DecrementViewerType
  <2>3. /\ viewers' = remaining
        /\ rooms' = [rooms EXCEPT ![r] = @ \ {c}]
        /\ StartJob("presence", r, 0,
                    [count |-> ViewerCount(remaining, r), peak |-> peaks[r]], rooms'[r])
        /\ pc' = [pc EXCEPT ![c] = "done"]
        /\ UNCHANGED <<peaks, channelVars, held, link, stalled, storeVars, frameVars, historyVars>>
    BY <1>2 DEF HubUnregister
  <2>4. rooms' \in [Rooms -> SUBSET Conns]
    BY <2>1, <2>3
  <2>5. [count |-> ViewerCount(remaining, r), peak |-> peaks[r]] \in Frame
    BY <2>1, ViewerCountType DEF Frame
  <2>6. job' \in Job
    BY <2>1, <2>3, <2>4, <2>5, StartJobType
  <2> QED
    BY <2>2, <2>3, <2>4, <2>6 DEF channelVars, storeVars, frameVars, historyVars, Places
<1>3. ASSUME HubTakeComment PROVE TypeInv'
  <2> DEFINE n == Head(broadcast)
             r == stored[n]
  <2>1. n \in DOMAIN stored /\ n \in Nat /\ r \in Rooms
    BY <1>3, HeadAndTail DEF HubTakeComment
  <2>2. /\ StartJob("comment", r, n, NoPresence, rooms[r])
        /\ feed' = [feed EXCEPT ![r] = Append(@, n)]
        /\ broadcast # <<>> /\ broadcast' = Tail(broadcast)
        /\ UNCHANGED <<hubVars, profile, pc, held, link, stalled, storeVars, frameVars, joinedAt>>
    BY <1>3 DEF HubTakeComment
  <2>3. job' \in Job
    <3>1. NoPresence \in Frame /\ rooms[r] \in SUBSET Conns
      BY <2>1 DEF NoPresence, Frame
    <3> HIDE DEF n, r
    <3> QED
      BY <2>1, <2>2, <3>1, StartJobType
  <2>4. feed' \in [Rooms -> Seq(Nat)]
    <3> HIDE DEF n, r
    <3> QED
      BY <2>1, <2>2
  <2>5. broadcast' \in Seq(Nat) /\ Len(broadcast') <= BroadcastCap
        /\ \A i \in DOMAIN broadcast' : broadcast'[i] \in DOMAIN stored
    BY <2>2, HeadAndTail
  <2> QED
    BY <2>2, <2>3, <2>4, <2>5 DEF hubVars, storeVars, frameVars
<1>4. ASSUME HubTakeProfile PROVE TypeInv'
  <2> DEFINE msg == Head(profile)
  <2>1. msg.room \in Rooms /\ msg.version \in Nat
    <3>1. profile # <<>>
      BY <1>4 DEF HubTakeProfile
    <3>2. msg \in [room : Rooms, version : Nat]
      BY <3>1, HeadAndTail
    <3> QED
      BY <3>2
  <2>2. /\ StartJob("profile", msg.room, msg.version, NoPresence, rooms[msg.room])
        /\ profile # <<>> /\ profile' = Tail(profile)
        /\ UNCHANGED <<hubVars, broadcast, pc, held, link, stalled, storeVars, frameVars, historyVars>>
    BY <1>4 DEF HubTakeProfile
  <2>3. job' \in Job
    <3>1. NoPresence \in Frame /\ rooms[msg.room] \in SUBSET Conns
      BY <2>1 DEF NoPresence, Frame
    <3> HIDE DEF msg
    <3> QED
      BY <2>1, <2>2, <3>1, StartJobType
  <2>4. profile' \in Seq([room : Rooms, version : Nat]) /\ Len(profile') <= ProfileCap
    BY <2>2
  <2> QED
    BY <2>2, <2>3, <2>4 DEF hubVars, storeVars, frameVars, historyVars
<1>5. ASSUME NEW c \in Conns, HubWrite(c) PROVE TypeInv'
  <2>1. job' \in Job
    <3>1. c \in job.pending
          /\ StartJob(job.kind, job.room, job.id, job.frame, job.pending \ {c})
      BY <1>5 DEF HubWrite
    <3> QED
      BY <3>1, NoJobType DEF StartJob, Job
  <2>2. seen' \in [Conns -> Seq(Nat)] /\ presence' \in [Conns -> Frame]
        /\ shownProfile' \in [Conns -> Nat]
    <3>1. job.id \in Nat /\ job.frame \in Frame
      BY DEF Job
    <3> QED
      BY <1>5, <3>1 DEF HubWrite
  <2>3. UNCHANGED <<hubVars, channelVars, pc, held, link, stalled, storeVars, historyVars>>
    BY <1>5 DEF HubWrite
  <2> QED
    BY <2>1, <2>2, <2>3 DEF hubVars, channelVars, storeVars, historyVars
<1>6. ASSUME NEW c \in Conns,
             Accept(c) \/ RefuseRequest(c) \/ ReplyError(c) \/ ReadFails(c)
      PROVE  TypeInv'
  BY <1>6 DEF Accept, RefuseRequest, ReplyError, ReadFails, Places,
              hubVars, channelVars, storeVars, frameVars, historyVars
<1>7. ASSUME NEW h \in Handlers, NEW r \in Rooms,
             stored' = Append(stored, r),
             held' = [held EXCEPT ![h] = Len(stored) + 1],
             pc' = [pc EXCEPT ![h] = "broadcasting"],
             UNCHANGED <<hubVars, job, channelVars, link, stalled, profileCount, frameVars, historyVars>>
      PROVE  TypeInv'
  <2>1. /\ stored' \in Seq(Rooms)
        /\ DOMAIN stored \subseteq DOMAIN stored' /\ Len(stored) + 1 \in DOMAIN stored'
        /\ Len(stored) + 1 \in Nat
    <3>1. stored \in Seq(Rooms) /\ stored' = Append(stored, r)
      BY <1>7
    <3>2. /\ Append(stored, r) \in Seq(Rooms)
          /\ DOMAIN stored \subseteq DOMAIN Append(stored, r)
          /\ Len(stored) + 1 \in DOMAIN Append(stored, r)
          /\ Len(stored) + 1 \in Nat
      BY ONLY <3>1, Extended
    <3> QED
      BY ONLY <3>1, <3>2
  <2>2. held' \in [Handlers -> Nat] /\ pc' \in [Handlers -> Places]
    BY <1>7, <2>1 DEF Places
  <2>3. broadcast' = broadcast
    BY <1>7 DEF channelVars
  <2>4. CarriesStored'
    BY <1>7, <2>1, <2>3
  <2> QED
    BY <1>7, <2>1, <2>2, <2>4 DEF hubVars, channelVars, frameVars, historyVars
<1>8. ASSUME NEW c \in Conns, StoreFromSocket(c) PROVE TypeInv'
  BY <1>7, <1>8 DEF StoreFromSocket
<1>9. ASSUME NEW p \in Posters, NEW r \in Rooms, StoreFromPost(p, r) PROVE TypeInv'
  BY <1>7, <1>9 DEF StoreFromPost
<1>10. ASSUME NEW h \in Handlers, SendComment(h) PROVE TypeInv'
  <2>1. broadcast' \in Seq(Nat) /\ Len(broadcast') <= BroadcastCap
    BY <1>10 DEF SendComment, HasSpace
  <2>2. \A i \in DOMAIN broadcast' : broadcast'[i] \in DOMAIN stored
    <3>1. broadcast' = Append(broadcast, held[h]) /\ pc[h] = "broadcasting"
      BY <1>10 DEF SendComment
    <3>2. held[h] \in Nat /\ held[h] \in DOMAIN stored
      BY <3>1
    <3>3. broadcast \in Seq(Nat)
      OBVIOUS
    <3> DEFINE n == held[h]
    <3>4. n \in Nat
      BY <3>2
    <3> HIDE DEF n
    <3>5. \A i \in DOMAIN Append(broadcast, n) :
            \/ i \in DOMAIN broadcast /\ Append(broadcast, n)[i] = broadcast[i]
            \/ Append(broadcast, n)[i] = n
      BY ONLY <3>3, <3>4, Appended
    <3> QED
      BY <3>1, <3>2, <3>5 DEF n
  <2>3. held' \in [Handlers -> Nat] /\ pc' \in [Handlers -> Places]
        /\ \A g \in Handlers : pc'[g] = "broadcasting" => held'[g] = held[g] /\ pc[g] = pc'[g]
    BY <1>10 DEF SendComment, Places
  <2>4. UNCHANGED <<hubVars, job, profile, link, stalled, storeVars, frameVars, historyVars>>
    BY <1>10 DEF SendComment
  <2> QED
    BY <2>1, <2>2, <2>3, <2>4 DEF hubVars, storeVars, frameVars, historyVars
<1>11. ASSUME NEW r \in Rooms, SendProfile(r) PROVE TypeInv'
  <2>1. profile' \in Seq([room : Rooms, version : Nat]) /\ Len(profile') <= ProfileCap
        /\ profileCount' \in Nat
    BY <1>11 DEF SendProfile, HasSpace
  <2> QED
    BY <1>11, <2>1 DEF SendProfile, hubVars, frameVars, historyVars
<1>12. ASSUME NEW c \in Conns, Leave(c) PROVE TypeInv'
  BY <1>12 DEF Leave, hubVars, channelVars, storeVars, frameVars, historyVars
<1>14. ASSUME NEW c \in Conns, Stall(c) \/ Resume(c) PROVE TypeInv'
  BY <1>14 DEF Stall, Resume, hubVars, channelVars, storeVars, frameVars, historyVars
<1>13. CASE UNCHANGED vars
  BY <1>13 DEF vars, hubVars, channelVars, storeVars, frameVars, historyVars
<1> QED
  BY <1>1, <1>2, <1>3, <1>4, <1>5, <1>6, <1>8, <1>9, <1>10, <1>11, <1>12, <1>13, <1>14
     DEF Next, HubStep, HandlerStep, ClientStep

\* Every variable of the hub keeps its type, and neither channel ever holds more
\* than its capacity.
THEOREM TypeCorrect == Spec => []TypeOK
<1>1. TypeInv => TypeOK
  BY DEF TypeInv
<1> QED
  BY <1>1, InitTypeInv, NextTypeInv, PTL DEF Spec

-----------------------------------------------------------------------------
(* The handlers and the hub agree on who is registered *)

Handled == {"reading", "replying", "broadcasting", "unregistering"}

LEMMA InitRegistered == Init => RegisteredWhileHandled
BY CommentHubAssumption, NoJobType
   DEF Init, RegisteredWhileHandled, NoJob, Job, Handlers

LEMMA NextRegistered ==
  TypeInv /\ RegisteredWhileHandled /\ [Next]_vars => RegisteredWhileHandled'
<1> SUFFICES ASSUME TypeInv, RegisteredWhileHandled, [Next]_vars
             PROVE  RegisteredWhileHandled'
  OBVIOUS
<1> USE CommentHubAssumption DEF TypeInv, TypeOK, Handlers
\* What the other goroutines do moves a handler within the registered section, or
\* outside of it.
<1>1. ASSUME NEW h \in Handlers, NEW place,
             UNCHANGED <<rooms, job>>,
             pc' = [pc EXCEPT ![h] = place],
             h \in Conns => (pc[h] \in Handled <=> place \in Handled)
      PROVE  RegisteredWhileHandled'
  BY <1>1 DEF RegisteredWhileHandled, Handled
<1>2. ASSUME NEW c \in Conns, HubRegister(c) PROVE RegisteredWhileHandled'
  <2>1. /\ pc[c] = "registering" /\ pc' = [pc EXCEPT ![c] = "reading"]
        /\ rooms' = [rooms EXCEPT ![RoomOf[c]] = @ \cup {c}]
    BY <1>2 DEF HubRegister
  <2>2. \E kind, id, frame : StartJob(kind, RoomOf[c], id, frame, rooms'[RoomOf[c]])
    BY <1>2 DEF HubRegister
  <2>3. job'.pending \subseteq rooms'[job'.room]
    BY ONLY <2>2 DEF StartJob, NoJob
  <2> QED
    BY <2>1, <2>3 DEF RegisteredWhileHandled
<1>3. ASSUME NEW c \in Conns, HubUnregister(c) PROVE RegisteredWhileHandled'
  <2>1. /\ pc[c] = "unregistering" /\ pc' = [pc EXCEPT ![c] = "done"]
        /\ rooms' = [rooms EXCEPT ![RoomOf[c]] = @ \ {c}]
    BY <1>3 DEF HubUnregister
  <2>2. \E kind, id, frame : StartJob(kind, RoomOf[c], id, frame, rooms'[RoomOf[c]])
    BY <1>3 DEF HubUnregister
  <2>3. job'.pending \subseteq rooms'[job'.room]
    BY ONLY <2>2 DEF StartJob, NoJob
  <2> QED
    BY <2>1, <2>3 DEF RegisteredWhileHandled
<1>4. ASSUME UNCHANGED <<rooms, pc>>,
             \/ \E kind, r, id, frame : StartJob(kind, r, id, frame, rooms[r])
             \/ \E c \in job.pending :
                    StartJob(job.kind, job.room, job.id, job.frame, job.pending \ {c})
             \/ job' = job
      PROVE  RegisteredWhileHandled'
  <2>1. job'.pending \subseteq rooms[job'.room]
    BY <1>4 DEF RegisteredWhileHandled, StartJob, NoJob
  <2> QED
    BY <1>4, <2>1 DEF RegisteredWhileHandled
<1>5. HubTakeComment => RegisteredWhileHandled'
  BY <1>4 DEF HubTakeComment, hubVars
<1>6. HubTakeProfile => RegisteredWhileHandled'
  BY <1>4 DEF HubTakeProfile, hubVars
<1>7. ASSUME NEW c \in Conns, HubWrite(c) PROVE RegisteredWhileHandled'
  BY <1>4, <1>7 DEF HubWrite, hubVars
<1>8. ASSUME NEW c \in Conns,
             \/ Accept(c) \/ StoreFromSocket(c) \/ RefuseRequest(c)
             \/ ReplyError(c) \/ ReadFails(c)
      PROVE  RegisteredWhileHandled'
  BY <1>1, <1>8 DEF Accept, StoreFromSocket, RefuseRequest, ReplyError, ReadFails, Handled, hubVars
<1>9. ASSUME NEW p \in Posters, NEW r \in Rooms, StoreFromPost(p, r)
      PROVE  RegisteredWhileHandled'
  BY <1>1, <1>9 DEF StoreFromPost, hubVars
<1>10. ASSUME NEW h \in Handlers, SendComment(h) PROVE RegisteredWhileHandled'
  BY <1>1, <1>10 DEF SendComment, Handled, hubVars
<1>11. ASSUME NEW r \in Rooms, SendProfile(r) PROVE RegisteredWhileHandled'
  BY <1>4, <1>11 DEF SendProfile, hubVars
<1>12. ASSUME NEW c \in Conns, Stall(c) \/ Resume(c) \/ Leave(c) PROVE RegisteredWhileHandled'
  BY <1>4, <1>12 DEF Stall, Resume, Leave, hubVars
<1>13. CASE UNCHANGED vars
  BY <1>4, <1>13 DEF vars, hubVars
<1> QED
  BY <1>2, <1>3, <1>5, <1>6, <1>7, <1>8, <1>9, <1>10, <1>11, <1>12, <1>13
     DEF Next, HubStep, HandlerStep, ClientStep

\* A connection is registered, in its own room, exactly between Hub.Register and
\* Hub.Unregister of its handler, and frames are written to registered ones only.
THEOREM RegisteredCorrect == Spec => []RegisteredWhileHandled
BY InitTypeInv, NextTypeInv, InitRegistered, NextRegistered, PTL DEF Spec

-----------------------------------------------------------------------------
(* Reference counts of viewers *)

\* One element more or less, as the counts change.
LEMMA OneMore ==
  ASSUME NEW S, IsFiniteSet(S), NEW x, x \notin S
  PROVE  Cardinality(S \cup {x}) = Cardinality(S) + 1
BY FS_AddElement

LEMMA OneLess ==
  ASSUME NEW S, IsFiniteSet(S), NEW x \in S
  PROVE  /\ Cardinality(S) \in Nat /\ Cardinality(S \ {x}) \in Nat
         /\ Cardinality(S \ {x}) = Cardinality(S) - 1
<1>1. IsFiniteSet(S \ {x}) /\ Cardinality(S \ {x}) = Cardinality(S) - 1
  BY FS_RemoveElement
<1> QED
  BY <1>1, FS_CardinalityType

\* The connections a subject has in a room.
Tabs(r, s) == {c \in rooms[r] : SubjectOf[c] = s}

LEMMA InitViewers == Init => ViewersMatchConnections
<1> SUFFICES ASSUME Init, NEW r \in Rooms, NEW s \in Subjects
             PROVE  viewers[r][s] = Cardinality(Tabs(r, s))
  BY DEF ViewersMatchConnections, Tabs
<1>1. Tabs(r, s) = {} /\ viewers[r][s] = 0
  BY DEF Init, Tabs
<1> QED
  BY <1>1, FS_EmptySet

LEMMA NextViewers ==
  TypeInv /\ RegisteredWhileHandled /\ ViewersMatchConnections /\ [Next]_vars
      => ViewersMatchConnections'
<1> SUFFICES ASSUME TypeInv, RegisteredWhileHandled, ViewersMatchConnections, [Next]_vars,
                    NEW r \in Rooms, NEW s \in Subjects
             PROVE  viewers'[r][s] = Cardinality(Tabs(r, s)')
  BY DEF ViewersMatchConnections, Tabs
<1> USE CommentHubAssumption DEF TypeInv, TypeOK, Handlers
<1>a. viewers[r][s] = Cardinality(Tabs(r, s)) /\ viewers[r][s] \in Nat
  BY DEF ViewersMatchConnections, Tabs
<1>b. IsFiniteSet(Tabs(r, s))
  <2>1. Tabs(r, s) \subseteq Conns
    BY DEF Tabs
  <2> QED
    BY <2>1, FS_Subset
<1>1. CASE UNCHANGED <<rooms, viewers>>
  BY <1>1, <1>a DEF Tabs
<1>2. ASSUME NEW c \in Conns, HubRegister(c)
      PROVE  viewers'[r][s] = Cardinality(Tabs(r, s)')
  <2>1. c \notin rooms[RoomOf[c]]
    BY <1>2 DEF HubRegister, RegisteredWhileHandled
  <2>2. /\ rooms' = [rooms EXCEPT ![RoomOf[c]] = @ \cup {c}]
        /\ viewers' = [viewers EXCEPT ![RoomOf[c]][SubjectOf[c]] = @ + 1]
    BY <1>2, <2>1 DEF HubRegister
  <2>3. CASE r = RoomOf[c] /\ s = SubjectOf[c]
    <3>1. Tabs(r, s)' = Tabs(r, s) \cup {c} /\ c \notin Tabs(r, s)
      BY <2>1, <2>2, <2>3 DEF Tabs
    <3>2. viewers'[r][s] = viewers[r][s] + 1
      BY <2>2, <2>3
    <3>3. Cardinality(Tabs(r, s) \cup {c}) = Cardinality(Tabs(r, s)) + 1
      BY ONLY <1>b, <3>1, OneMore
    <3> QED
      BY <1>a, <3>1, <3>2, <3>3
  <2>4. CASE ~ (r = RoomOf[c] /\ s = SubjectOf[c])
    <3>1. Tabs(r, s)' = Tabs(r, s)
      BY <2>2, <2>4 DEF Tabs
    <3>2. viewers'[r][s] = viewers[r][s]
      BY <2>2, <2>4
    <3> QED
      BY <1>a, <3>1, <3>2
  <2> QED
    BY <2>3, <2>4
<1>3. ASSUME NEW c \in Conns, HubUnregister(c)
      PROVE  viewers'[r][s] = Cardinality(Tabs(r, s)')
  <2>1. c \in rooms[RoomOf[c]]
    BY <1>3 DEF HubUnregister, RegisteredWhileHandled
  <2>2. /\ rooms' = [rooms EXCEPT ![RoomOf[c]] = @ \ {c}]
        /\ viewers' = DecrementViewer(viewers, RoomOf[c], SubjectOf[c])
    BY <1>3, <2>1 DEF HubUnregister
  <2>3. CASE r = RoomOf[c] /\ s = SubjectOf[c]
    <3>1. Tabs(r, s)' = Tabs(r, s) \ {c} /\ c \in Tabs(r, s)
      BY <2>1, <2>2, <2>3 DEF Tabs
    <3>2. viewers'[r][s] = IF viewers[r][s] > 1 THEN viewers[r][s] - 1 ELSE 0
      BY <2>2, <2>3 DEF DecrementViewer
    <3>3. /\ Cardinality(Tabs(r, s) \ {c}) = Cardinality(Tabs(r, s)) - 1
          /\ Cardinality(Tabs(r, s) \ {c}) \in Nat
      BY ONLY <1>b, <3>1, OneLess
    <3> QED
      BY <1>a, <3>1, <3>2, <3>3
  <2>4. CASE ~ (r = RoomOf[c] /\ s = SubjectOf[c])
    <3>1. Tabs(r, s)' = Tabs(r, s)
      BY <2>2, <2>4 DEF Tabs
    <3>2. viewers'[r][s] = viewers[r][s]
      BY <2>2, <2>4 DEF DecrementViewer
    <3> QED
      BY <1>a, <3>1, <3>2
  <2> QED
    BY <2>3, <2>4
<1>4. ASSUME NEW c \in Conns, HubWrite(c) PROVE UNCHANGED <<rooms, viewers>>
  BY <1>4 DEF HubWrite, hubVars
<1>5. HubTakeComment \/ HubTakeProfile => UNCHANGED <<rooms, viewers>>
  BY DEF HubTakeComment, HubTakeProfile, hubVars
<1>6. HandlerStep \/ ClientStep => UNCHANGED <<rooms, viewers>>
  BY DEF HandlerStep, ClientStep, Accept, StoreFromSocket, RefuseRequest, ReplyError, ReadFails,
         StoreFromPost, SendComment, SendProfile, Stall, Resume, Leave, hubVars
<1>7. CASE UNCHANGED vars
  BY <1>1, <1>7 DEF vars, hubVars
<1> QED
  BY <1>1, <1>2, <1>3, <1>4, <1>5, <1>6, <1>7 DEF Next, HubStep

\* Two tabs of one person are one viewer, and stay one until both are closed: the
\* count Hub.viewers keeps of a subject is the number of its registered connections.
THEOREM ViewersCorrect == Spec => []ViewersMatchConnections
BY InitTypeInv, NextTypeInv, InitRegistered, NextRegistered, InitViewers, NextViewers,
   PTL DEF Spec

-----------------------------------------------------------------------------
(* Peaks *)

\* A peak is the high-water mark of the viewer count: no step loses a maximum,
\* and none reports more viewers than there were.
PeakIsHighWater ==
    [][\A r \in Rooms : LET count == ViewerCount(viewers', r)
                        IN  peaks'[r] = IF count > peaks[r] THEN count ELSE peaks[r]]_vars

\* What makes the high-water mark inductive: no count is above its peak.
PeakBound == \A r \in Rooms : ViewerCount(viewers, r) <= peaks[r]

LEMMA InitPeakBound == Init => PeakBound
<1> SUFFICES ASSUME Init, NEW r \in Rooms PROVE ViewerCount(viewers, r) <= peaks[r]
  BY DEF PeakBound
<1>1. {s \in Subjects : viewers[r][s] > 0} = {} /\ peaks[r] = 0
  BY DEF Init
<1> QED
  BY <1>1, FS_EmptySet DEF ViewerCount

\* A step moves the peak of each room as the property says, and keeps the bound.
LEMMA NextPeaks ==
  TypeInv /\ RegisteredWhileHandled /\ PeakBound /\ [Next]_vars
      => /\ PeakBound'
         /\ \A r \in Rooms : LET count == ViewerCount(viewers', r)
                             IN  peaks'[r] = IF count > peaks[r] THEN count ELSE peaks[r]
<1> SUFFICES ASSUME TypeInv, RegisteredWhileHandled, PeakBound, [Next]_vars,
                    NEW r \in Rooms
             PROVE  /\ ViewerCount(viewers', r) <= peaks'[r]
                    /\ peaks'[r] = IF ViewerCount(viewers', r) > peaks[r]
                                   THEN ViewerCount(viewers', r) ELSE peaks[r]
  BY DEF PeakBound, ViewerCount
<1> USE CommentHubAssumption DEF TypeInv, TypeOK, Handlers
<1>a. /\ ViewerCount(viewers, r) <= peaks[r] /\ peaks[r] \in Nat
      /\ ViewerCount(viewers, r) \in Nat /\ ViewerCount(viewers', r) \in Nat
  BY ViewerCountType DEF PeakBound
<1>1. ASSUME ViewerCount(viewers', r) <= ViewerCount(viewers, r), peaks'[r] = peaks[r]
      PROVE  /\ ViewerCount(viewers', r) <= peaks'[r]
             /\ peaks'[r] = IF ViewerCount(viewers', r) > peaks[r]
                            THEN ViewerCount(viewers', r) ELSE peaks[r]
  BY <1>a, <1>1
<1>2. ASSUME viewers'[r] = viewers[r]
      PROVE  ViewerCount(viewers', r) <= ViewerCount(viewers, r)
  BY <1>2, <1>a DEF ViewerCount
<1>3. ASSUME NEW c \in Conns, HubRegister(c)
      PROVE  /\ ViewerCount(viewers', r) <= peaks'[r]
             /\ peaks'[r] = IF ViewerCount(viewers', r) > peaks[r]
                            THEN ViewerCount(viewers', r) ELSE peaks[r]
  <2>1. c \notin rooms[RoomOf[c]]
    BY <1>3 DEF HubRegister, RegisteredWhileHandled
  <2>2. /\ viewers' = [viewers EXCEPT ![RoomOf[c]][SubjectOf[c]] = @ + 1]
        /\ peaks' = UpdatePeak(RoomOf[c], ViewerCount(viewers', RoomOf[c]))
    BY <1>3, <2>1 DEF HubRegister
  <2>3. CASE r = RoomOf[c]
    BY <1>a, <2>2, <2>3 DEF UpdatePeak
  <2>4. CASE r # RoomOf[c]
    <3>1. viewers'[r] = viewers[r] /\ peaks'[r] = peaks[r]
      BY <2>2, <2>4 DEF UpdatePeak
    <3> QED
      BY <1>1, <1>2, <3>1
  <2> QED
    BY <2>3, <2>4
<1>4. ASSUME NEW c \in Conns, HubUnregister(c)
      PROVE  ViewerCount(viewers', r) <= ViewerCount(viewers, r) /\ peaks' = peaks
  <2>1. peaks' = peaks
        /\ (viewers' = viewers \/ viewers' = DecrementViewer(viewers, RoomOf[c], SubjectOf[c]))
    BY <1>4 DEF HubUnregister
  <2>2. {s \in Subjects : viewers'[r][s] > 0} \subseteq {s \in Subjects : viewers[r][s] > 0}
    <3> SUFFICES ASSUME NEW s \in Subjects, viewers'[r][s] > 0 PROVE viewers[r][s] > 0
      OBVIOUS
    <3>1. RoomOf[c] \in Rooms /\ SubjectOf[c] \in Subjects /\ viewers[r][s] \in Nat
      OBVIOUS
    <3>2. CASE viewers' = viewers
      BY <3>2
    <3>3. CASE viewers' = DecrementViewer(viewers, RoomOf[c], SubjectOf[c])
      <4>1. CASE r = RoomOf[c] /\ s = SubjectOf[c]
        BY <3>1, <3>3, <4>1 DEF DecrementViewer
      <4>2. CASE ~ (r = RoomOf[c] /\ s = SubjectOf[c])
        BY <3>1, <3>3, <4>2 DEF DecrementViewer
      <4> QED
        BY <4>1, <4>2
    <3> QED
      BY <2>1, <3>2, <3>3
  <2>3. {s \in Subjects : viewers[r][s] > 0} \subseteq Subjects
    OBVIOUS
  <2>4. IsFiniteSet({s \in Subjects : viewers[r][s] > 0})
    BY <2>3, FS_Subset
  <2>5. ViewerCount(viewers', r) <= ViewerCount(viewers, r)
    BY ONLY <2>2, <2>4, FS_Subset DEF ViewerCount
  <2> QED
    BY <2>1, <2>5
<1>5. ASSUME NEW c \in Conns, HubWrite(c) PROVE UNCHANGED <<viewers, peaks>>
  BY <1>5 DEF HubWrite, hubVars
<1>6. HubTakeComment \/ HubTakeProfile => UNCHANGED <<viewers, peaks>>
  BY DEF HubTakeComment, HubTakeProfile, hubVars
<1>7. HandlerStep \/ ClientStep => UNCHANGED <<viewers, peaks>>
  BY DEF HandlerStep, ClientStep, Accept, StoreFromSocket, RefuseRequest, ReplyError, ReadFails,
         StoreFromPost, SendComment, SendProfile, Stall, Resume, Leave, hubVars
<1>8. CASE UNCHANGED <<viewers, peaks>>
  BY <1>1, <1>2, <1>8
<1>9. CASE UNCHANGED vars
  BY <1>8, <1>9 DEF vars, hubVars
<1> QED
  BY <1>1, <1>3, <1>4, <1>5, <1>6, <1>7, <1>8, <1>9 DEF Next, HubStep

\* maxConcurrentViewerCount is the high-water mark of the viewer count.
THEOREM PeakCorrect == Spec => PeakIsHighWater
<1>1. TypeInv /\ RegisteredWhileHandled /\ PeakBound /\ [Next]_vars
        => [\A r \in Rooms : LET count == ViewerCount(viewers', r)
                             IN  peaks'[r] = IF count > peaks[r] THEN count ELSE peaks[r]]_vars
  BY NextPeaks
<1> QED
  BY <1>1, InitTypeInv, NextTypeInv, InitRegistered, NextRegistered, InitPeakBound, NextPeaks,
     PTL DEF Spec, PeakIsHighWater

-----------------------------------------------------------------------------
(* Presence *)

CurrentPresence(r) == [count |-> ViewerCount(viewers, r), peak |-> peaks[r]]

\* What PresenceIsCurrent says of one connection.
PresenceOf(d) ==
    d \in rooms[RoomOf[d]] /\ link[d] = "open" =>
        IF job.kind = "presence" /\ d \in job.pending
        THEN job.frame = CurrentPresence(RoomOf[d])
        ELSE presence[d] = CurrentPresence(RoomOf[d])

LEMMA PresenceByConnection == PresenceIsCurrent <=> \A d \in Conns : PresenceOf(d)
BY DEF PresenceIsCurrent, PresenceOf, CurrentPresence

LEMMA InitPresence == Init => PresenceIsCurrent
BY CommentHubAssumption DEF Init, PresenceIsCurrent

LEMMA NextPresence ==
  TypeInv /\ RegisteredWhileHandled /\ PresenceIsCurrent /\ [Next]_vars => PresenceIsCurrent'
<1> SUFFICES ASSUME TypeInv, RegisteredWhileHandled, PresenceIsCurrent, [Next]_vars,
                    NEW d \in Conns
             PROVE  PresenceOf(d)'
  BY DEF PresenceIsCurrent, PresenceOf, CurrentPresence
<1> USE CommentHubAssumption DEF TypeInv, TypeOK, Handlers
<1>a. PresenceOf(d)
  BY PresenceByConnection
<1>b. RoomOf[d] \in Rooms
  OBVIOUS
\* A step that leaves the counts alone, opens no registered socket, and takes no
\* frame from the connection without writing it.
<1>1. ASSUME UNCHANGED <<rooms, viewers, peaks, presence>>,
             d \in rooms[RoomOf[d]] /\ link'[d] = "open" => link[d] = "open",
             job' = job \/ (HubIdle /\ job'.kind # "presence")
      PROVE  PresenceOf(d)'
  <2>1. CurrentPresence(RoomOf[d])' = CurrentPresence(RoomOf[d])
    BY <1>1 DEF CurrentPresence, ViewerCount
  <2> QED
    BY <1>1, <1>a, <2>1 DEF PresenceOf, HubIdle
\* The hub, idle before, announces the new count of a room to all of it.
<1>2. ASSUME NEW r \in Rooms, HubIdle, UNCHANGED <<presence, link>>,
             \A q \in Rooms \ {r} : /\ rooms'[q] = rooms[q]
                                   /\ viewers'[q] = viewers[q] /\ peaks'[q] = peaks[q],
             \A e \in rooms'[r] : RoomOf[e] = r,
             StartJob("presence", r, 0, CurrentPresence(r)', rooms'[r])
      PROVE  PresenceOf(d)'
  <2>1. CASE RoomOf[d] = r
    <3>1. d \in rooms'[r] => job'.kind = "presence" /\ job'.pending = rooms'[r]
                              /\ job'.frame = CurrentPresence(r)'
      BY <1>2 DEF StartJob
    <3> QED
      BY <2>1, <3>1 DEF PresenceOf
  <2>2. CASE RoomOf[d] # r
    <3>1. d \notin job'.pending
      BY <1>2, <2>2 DEF StartJob, NoJob
    <3>2. CurrentPresence(RoomOf[d])' = CurrentPresence(RoomOf[d])
      BY <1>2, <1>b, <2>2 DEF CurrentPresence, ViewerCount
    <3>3. d \notin job.pending
      BY <1>2 DEF HubIdle
    <3> QED
      BY <1>2, <1>a, <1>b, <2>2, <3>1, <3>2, <3>3 DEF PresenceOf
  <2> QED
    BY <2>1, <2>2
<1>3. ASSUME NEW c \in Conns, HubRegister(c) PROVE PresenceOf(d)'
  <2>1. c \notin rooms[RoomOf[c]]
    BY <1>3 DEF HubRegister, RegisteredWhileHandled
  <2>2. /\ HubIdle /\ UNCHANGED <<presence, link>>
        /\ rooms' = [rooms EXCEPT ![RoomOf[c]] = @ \cup {c}]
        /\ viewers' = [viewers EXCEPT ![RoomOf[c]][SubjectOf[c]] = @ + 1]
        /\ peaks' = UpdatePeak(RoomOf[c], ViewerCount(viewers', RoomOf[c]))
        /\ StartJob("presence", RoomOf[c], 0, CurrentPresence(RoomOf[c])', rooms'[RoomOf[c]])
    BY <1>3, <2>1 DEF HubRegister, CurrentPresence, ViewerCount, frameVars
  <2>3. \A q \in Rooms \ {RoomOf[c]} :
          rooms'[q] = rooms[q] /\ viewers'[q] = viewers[q] /\ peaks'[q] = peaks[q]
    BY <2>2 DEF UpdatePeak
  <2>4. \A e \in rooms'[RoomOf[c]] : RoomOf[e] = RoomOf[c]
    BY <2>2 DEF RegisteredWhileHandled
  <2> QED
    BY <1>2, <2>2, <2>3, <2>4
<1>4. ASSUME NEW c \in Conns, HubUnregister(c) PROVE PresenceOf(d)'
  <2>1. c \in rooms[RoomOf[c]]
    BY <1>4 DEF HubUnregister, RegisteredWhileHandled
  <2>2. /\ HubIdle /\ UNCHANGED <<presence, link, peaks>>
        /\ rooms' = [rooms EXCEPT ![RoomOf[c]] = @ \ {c}]
        /\ viewers' = DecrementViewer(viewers, RoomOf[c], SubjectOf[c])
        /\ StartJob("presence", RoomOf[c], 0, CurrentPresence(RoomOf[c])', rooms'[RoomOf[c]])
    BY <1>4, <2>1 DEF HubUnregister, CurrentPresence, ViewerCount, frameVars
  <2>3. \A q \in Rooms \ {RoomOf[c]} :
          rooms'[q] = rooms[q] /\ viewers'[q] = viewers[q] /\ peaks'[q] = peaks[q]
    BY <2>2 DEF DecrementViewer
  <2>4. \A e \in rooms'[RoomOf[c]] : RoomOf[e] = RoomOf[c]
    BY <2>2 DEF RegisteredWhileHandled
  <2> QED
    BY <1>2, <2>2, <2>3, <2>4
<1>5. ASSUME HubTakeComment \/ HubTakeProfile PROVE PresenceOf(d)'
  <2>1. HubIdle /\ UNCHANGED <<rooms, viewers, peaks, presence, link>>
    BY <1>5 DEF HubTakeComment, HubTakeProfile, hubVars, frameVars
  <2>2. job'.kind # "presence"
    <3>1. \E kind \in {"comment", "profile"} : \E r, id, targets :
            StartJob(kind, r, id, NoPresence, targets)
      BY <1>5 DEF HubTakeComment, HubTakeProfile
    <3> QED
      BY ONLY <3>1 DEF StartJob, NoJob
  <2> QED
    BY <1>1, <2>1, <2>2
<1>6. ASSUME NEW c \in Conns, HubWrite(c) PROVE PresenceOf(d)'
  <2>1. /\ c \in job.pending /\ UNCHANGED <<rooms, viewers, peaks, link>>
        /\ StartJob(job.kind, job.room, job.id, job.frame, job.pending \ {c})
        /\ presence' = IF link[c] = "open" /\ job.kind = "presence"
                       THEN [presence EXCEPT ![c] = job.frame] ELSE presence
    BY <1>6 DEF HubWrite, hubVars
  <2>2. CurrentPresence(RoomOf[d])' = CurrentPresence(RoomOf[d])
    BY <2>1 DEF CurrentPresence, ViewerCount
  <2>3. \/ job'.kind = job.kind /\ job'.frame = job.frame
           /\ job'.pending = job.pending \ {c}
        \/ job'.kind = "none" /\ job.pending = {c}
    BY <2>1 DEF StartJob, NoJob
  <2>4. CASE d = c
    BY <1>a, <2>1, <2>2, <2>3, <2>4 DEF PresenceOf
  <2>5. CASE d # c
    BY <1>a, <2>1, <2>2, <2>3, <2>5 DEF PresenceOf
  <2> QED
    BY <2>4, <2>5
<1>7. ASSUME NEW c \in Conns, Accept(c) PROVE PresenceOf(d)'
  <2>1. c \notin rooms[RoomOf[c]]
    BY <1>7 DEF Accept, RegisteredWhileHandled
  <2>2. UNCHANGED <<rooms, viewers, peaks, presence, job>>
        /\ link' = [link EXCEPT ![c] = "open"]
    BY <1>7 DEF Accept, hubVars, frameVars
  <2> QED
    BY <1>1, <2>1, <2>2
<1>8. ASSUME NEW c \in Conns, Leave(c) PROVE PresenceOf(d)'
  BY <1>1, <1>8 DEF Leave, hubVars, frameVars
<1>9. ASSUME UNCHANGED <<rooms, viewers, peaks, presence, job, link>> PROVE PresenceOf(d)'
  BY <1>1, <1>9
<1>14. ASSUME NEW c \in Conns, Stall(c) \/ Resume(c) PROVE PresenceOf(d)'
  BY <1>9, <1>14 DEF Stall, Resume, hubVars, frameVars
<1>10. ASSUME NEW c \in Conns,
              \/ StoreFromSocket(c) \/ RefuseRequest(c) \/ ReplyError(c) \/ ReadFails(c)
       PROVE  PresenceOf(d)'
  BY <1>9, <1>10 DEF StoreFromSocket, RefuseRequest, ReplyError, ReadFails, hubVars, frameVars
<1>11. ASSUME NEW r \in Rooms,
              \/ \E p \in Posters : StoreFromPost(p, r)
              \/ \E h \in Handlers : SendComment(h)
              \/ SendProfile(r)
       PROVE  PresenceOf(d)'
  BY <1>9, <1>11 DEF StoreFromPost, SendComment, SendProfile, hubVars, frameVars
<1>12. CASE UNCHANGED vars
  BY <1>9, <1>12 DEF vars, hubVars, frameVars
<1>13. ASSUME HandlerStep PROVE PresenceOf(d)'
  BY <1>7, <1>10, <1>11, <1>13 DEF HandlerStep
<1> QED
  BY <1>3, <1>4, <1>5, <1>6, <1>8, <1>12, <1>13, <1>14 DEF Next, HubStep, ClientStep

\* The viewer count and the peak on a connected client's screen are the hub's own,
\* or the frame that says so is still to be written to it.
THEOREM PresenceCorrect == Spec => []PresenceIsCurrent
BY InitTypeInv, NextTypeInv, InitRegistered, NextRegistered, InitPresence, NextPresence,
   PTL DEF Spec

-----------------------------------------------------------------------------
(* What a viewer is sent *)

\* The feed of a room from a viewer's joining to now.
Owed(d) == SubSeq(feed[RoomOf[d]], joinedAt[d] + 1, Len(feed[RoomOf[d]]))

\* What SeenIsFeedSegment says of one connection.
SegmentOf(d) ==
    d \in rooms[RoomOf[d]] /\ link[d] = "open" =>
        IF job.kind = "comment" /\ d \in job.pending
        THEN Append(seen[d], job.id) = Owed(d)
        ELSE seen[d] = Owed(d)

\* What makes the segments inductive: a connection that is not registered yet has
\* been sent nothing, none is ahead of its feed, and a socket is open from its
\* accept to the break that makes its handler return.
SocketOf(d) ==
    /\ pc[d] \in {"new", "registering"} => seen[d] = <<>>
    /\ joinedAt[d] <= Len(feed[RoomOf[d]])
    /\ pc[d] \in {"new", "unregistering", "done"} => link[d] = "closed"

SocketInv == \A d \in Conns : SocketOf(d)

\* What a feed owes a viewer who joined at length j, element by element.
LEMMA SegmentElements ==
  ASSUME NEW q \in Seq(Nat), NEW j \in Nat, NEW k \in Nat, Len(q) = k, j <= k
  PROVE  /\ SubSeq(q, j + 1, k) \in Seq(Nat) /\ Len(SubSeq(q, j + 1, k)) = k - j
         /\ \A i \in 1 .. k - j : SubSeq(q, j + 1, k)[i] = q[j + i]
BY SubSeqProperties

\* A feed that grows by one comment owes that comment.
LEMMA SegmentGrows ==
  ASSUME NEW q \in Seq(Nat), NEW n \in Nat, NEW j \in Nat, j <= Len(q)
  PROVE  /\ SubSeq(Append(q, n), j + 1, Len(Append(q, n))) = Append(SubSeq(q, j + 1, Len(q)), n)
         /\ Len(SubSeq(q, j + 1, Len(q))) = Len(q) - j
<1> DEFINE k == Len(q)
           longer == Append(q, n)
           old == SubSeq(q, j + 1, k)
           new == SubSeq(longer, j + 1, k + 1)
           grown == Append(old, n)
<1>1. /\ k \in Nat /\ longer \in Seq(Nat) /\ Len(longer) = k + 1
      /\ \A i \in 1 .. k : longer[i] = q[i]
      /\ longer[k + 1] = n
  BY AppendProperties
<1>2. /\ old \in Seq(Nat) /\ Len(old) = k - j
      /\ \A i \in 1 .. k - j : old[i] = q[j + i]
  BY <1>1, SegmentElements
<1>3. /\ new \in Seq(Nat) /\ Len(new) = k + 1 - j
      /\ \A i \in 1 .. k + 1 - j : new[i] = longer[j + i]
  <2> HIDE DEF k, longer
  <2>1. k + 1 \in Nat /\ j <= k + 1 /\ j <= k
    BY <1>1 DEF k
  <2> QED
    BY <1>1, <2>1, SegmentElements
<1>4. /\ grown \in Seq(Nat) /\ Len(grown) = k - j + 1
      /\ \A i \in 1 .. k - j : grown[i] = old[i]
      /\ grown[k - j + 1] = n
  <2> HIDE DEF old, k
  <2> QED
    BY <1>2, AppendProperties
<1> HIDE DEF k, longer, old, new, grown
<1>5. \A i \in 1 .. k + 1 - j : new[i] = grown[i]
  <2> SUFFICES ASSUME NEW i \in 1 .. k + 1 - j PROVE new[i] = grown[i]
    OBVIOUS
  <2>1. CASE i \in 1 .. k - j
    <3>1. j + i \in 1 .. k
      BY <1>1, <2>1
    <3> QED
      BY <1>1, <1>2, <1>3, <1>4, <2>1, <3>1
  <2>2. CASE i = k - j + 1
    <3>1. j + i = k + 1
      BY <1>1, <2>2
    <3> QED
      BY <1>1, <1>3, <1>4, <2>2, <3>1
  <2>3. i \in 1 .. k - j \/ i = k - j + 1
    BY <1>1
  <2> QED
    BY <2>1, <2>2, <2>3
<1>6. Len(new) = Len(grown)
  BY <1>1, <1>3, <1>4
<1>7. new = grown
  <2>1. \A i \in 1 .. Len(new) : new[i] = grown[i]
    BY <1>3, <1>5
  <2> QED
    BY <1>3, <1>4, <1>6, <2>1, SeqEqual
<1> QED
  BY <1>1, <1>2, <1>7 DEF k, longer, old, new, grown

\* A viewer that has just joined is owed nothing.
LEMMA SegmentEmpty ==
  ASSUME NEW q \in Seq(Nat)
  PROVE  SubSeq(q, Len(q) + 1, Len(q)) = <<>>
OBVIOUS

\* The comment the hub takes is a stored one.
LEMMA TakenIsStored ==
  ASSUME TypeInv, HubTakeComment
  PROVE  /\ Head(broadcast) \in DOMAIN stored /\ Head(broadcast) \in Nat
         /\ stored[Head(broadcast)] \in Rooms
BY HeadAndTail DEF TypeInv, TypeOK, CarriesStored, HubTakeComment

LEMMA InitSocket == Init => SocketInv
BY CommentHubAssumption DEF Init, SocketInv, SocketOf, Handlers

LEMMA NextSocket ==
  TypeInv /\ RegisteredWhileHandled /\ SocketInv /\ [Next]_vars => SocketInv'
<1> SUFFICES ASSUME TypeInv, RegisteredWhileHandled, SocketInv, [Next]_vars, NEW d \in Conns
             PROVE  SocketOf(d)'
  BY DEF SocketInv
<1> USE CommentHubAssumption DEF TypeInv, TypeOK, Handlers, SocketOf
<1>a. /\ pc[d] \in {"new", "registering"} => seen[d] = <<>>
      /\ joinedAt[d] <= Len(feed[RoomOf[d]])
      /\ pc[d] \in {"new", "unregistering", "done"} => link[d] = "closed"
      /\ RoomOf[d] \in Rooms /\ Len(feed[RoomOf[d]]) \in Nat
  BY DEF SocketInv
\* Handlers that go their way without touching sockets and feeds.
<1>1. ASSUME NEW h \in Handlers, NEW place,
             UNCHANGED <<seen, feed, joinedAt, link>>,
             pc' = [pc EXCEPT ![h] = place],
             place \in {"new", "registering"} => h \notin Conns,
             place \in {"unregistering", "done"} => h \in Conns /\ link[h] = "closed"
      PROVE  SocketOf(d)'
  <2>1. CASE h = d
    BY <1>1, <1>a, <2>1
  <2>2. CASE h # d
    <3>1. pc'[d] = pc[d]
      BY <1>1, <2>2
    <3> QED
      BY <1>1, <1>a, <3>1
  <2> QED
    BY <2>1, <2>2
<1>2. CASE UNCHANGED <<seen, feed, joinedAt, link, pc>>
  BY <1>2, <1>a
<1>3. ASSUME NEW c \in Conns, HubRegister(c)
      PROVE  SocketOf(d)'
  <2>1. /\ pc' = [pc EXCEPT ![c] = "reading"] /\ UNCHANGED <<seen, link, feed>>
        /\ joinedAt' = IF link[c] = "closed" THEN joinedAt
                       ELSE [joinedAt EXCEPT ![c] = Len(feed[RoomOf[c]])]
    BY <1>3 DEF HubRegister, frameVars
  <2>2. joinedAt'[d] = joinedAt[d] \/ joinedAt'[d] = Len(feed[RoomOf[d]])
    BY <2>1
  <2>3. pc'[d] = pc[d] \/ pc'[d] = "reading"
    BY <2>1
  <2>4. joinedAt'[d] <= Len(feed'[RoomOf[d]])
    BY <1>a, <2>1, <2>2
  <2> QED
    BY <1>a, <2>1, <2>3, <2>4
<1>4. ASSUME NEW c \in Conns, HubUnregister(c)
      PROVE  SocketOf(d)'
  <2>1. /\ pc[c] = "unregistering" /\ pc' = [pc EXCEPT ![c] = "done"]
        /\ UNCHANGED <<seen, feed, joinedAt, link>>
    BY <1>4 DEF HubUnregister, frameVars, historyVars
  <2>2. link[c] = "closed"
    BY <2>1 DEF SocketInv
  <2> QED
    BY <1>1, <2>1, <2>2
<1>5. ASSUME HubTakeComment
      PROVE  SocketOf(d)'
  <2> DEFINE n == Head(broadcast)
             r == stored[n]
  <2>1. /\ feed' = [feed EXCEPT ![r] = Append(@, n)]
        /\ UNCHANGED <<pc, seen, link, joinedAt>>
    BY <1>5 DEF HubTakeComment, frameVars
  <2>2. n \in Nat
    BY <1>5, TakenIsStored
  <2>3. Len(feed'[RoomOf[d]]) >= Len(feed[RoomOf[d]]) /\ Len(feed'[RoomOf[d]]) \in Nat
    <3> HIDE DEF n, r
    <3>1. feed[RoomOf[d]] \in Seq(Nat)
      OBVIOUS
    <3>2. Len(Append(feed[RoomOf[d]], n)) = Len(feed[RoomOf[d]]) + 1
      BY <2>2, <3>1
    <3> QED
      BY <1>a, <2>1, <3>2
  <2>4. joinedAt'[d] <= Len(feed'[RoomOf[d]])
    <3>1. joinedAt[d] \in Nat /\ joinedAt'[d] = joinedAt[d]
      BY <2>1
    <3> QED
      BY <1>a, <2>3, <3>1
  <2> QED
    BY <1>a, <2>1, <2>4
<1>6. ASSUME HubTakeProfile PROVE UNCHANGED <<seen, feed, joinedAt, link, pc>>
  BY <1>6 DEF HubTakeProfile, frameVars, historyVars
<1>7. ASSUME NEW c \in Conns, HubWrite(c)
      PROVE  SocketOf(d)'
  <2>1. /\ c \in job.pending /\ UNCHANGED <<pc, link, feed, joinedAt>>
        /\ seen' = seen \/ seen' = [seen EXCEPT ![c] = Append(@, job.id)]
    BY <1>7 DEF HubWrite, historyVars
  <2>2. pc[c] \notin {"new", "registering"}
    <3>1. c \in rooms[job.room] /\ job.room \in Rooms
      BY <2>1 DEF RegisteredWhileHandled, Job
    <3> QED
      BY <3>1 DEF RegisteredWhileHandled
  <2> QED
    BY <1>a, <2>1, <2>2
<1>8. ASSUME NEW c \in Conns, Accept(c)
      PROVE  SocketOf(d)'
  <2>1. /\ pc[c] = "new" /\ pc' = [pc EXCEPT ![c] = "registering"]
        /\ link' = [link EXCEPT ![c] = "open"] /\ UNCHANGED <<seen, feed, joinedAt>>
    BY <1>8 DEF Accept, frameVars, historyVars
  <2>2. CASE d = c
    BY <1>a, <2>1, <2>2
  <2>3. CASE d # c
    <3>1. pc'[d] = pc[d] /\ link'[d] = link[d]
      BY <2>1, <2>3
    <3> QED
      BY <1>a, <2>1, <3>1
  <2> QED
    BY <2>2, <2>3
<1>9. ASSUME NEW c \in Conns,
             \/ StoreFromSocket(c) \/ RefuseRequest(c) \/ ReplyError(c) \/ ReadFails(c)
      PROVE  SocketOf(d)'
  BY <1>1, <1>9 DEF StoreFromSocket, RefuseRequest, ReplyError, ReadFails, frameVars, historyVars
<1>10. ASSUME NEW p \in Posters, NEW r \in Rooms, StoreFromPost(p, r)
      PROVE  SocketOf(d)'
  BY <1>1, <1>10 DEF StoreFromPost, frameVars, historyVars
<1>11. ASSUME NEW h \in Handlers, SendComment(h)
      PROVE  SocketOf(d)'
  BY <1>1, <1>11 DEF SendComment, frameVars, historyVars
<1>12. ASSUME NEW r \in Rooms, SendProfile(r) PROVE UNCHANGED <<seen, feed, joinedAt, link, pc>>
  BY <1>12 DEF SendProfile, frameVars, historyVars
<1>13. ASSUME NEW c \in Conns, Leave(c)
      PROVE  SocketOf(d)'
  <2>1. link' = [link EXCEPT ![c] = "closed"] /\ UNCHANGED <<seen, feed, joinedAt, pc>>
    BY <1>13 DEF Leave, frameVars, historyVars
  <2> QED
    BY <1>a, <2>1
<1>15. ASSUME NEW c \in Conns, Stall(c) \/ Resume(c)
      PROVE  UNCHANGED <<seen, feed, joinedAt, link, pc>>
  BY <1>15 DEF Stall, Resume, frameVars, historyVars
<1>14. CASE UNCHANGED vars
  BY <1>2, <1>14 DEF vars, frameVars, historyVars
<1> QED
  BY <1>2, <1>3, <1>4, <1>5, <1>6, <1>7, <1>8, <1>9, <1>10, <1>11, <1>12, <1>13, <1>14, <1>15
     DEF Next, HubStep, HandlerStep, ClientStep

LEMMA InitSegment == Init => SeenIsFeedSegment
BY CommentHubAssumption DEF Init, SeenIsFeedSegment

LEMMA SegmentByConnection == SeenIsFeedSegment <=> \A d \in Conns : SegmentOf(d)
BY DEF SeenIsFeedSegment, SegmentOf, Owed

LEMMA NextSegment ==
  TypeInv /\ RegisteredWhileHandled /\ SocketInv /\ SeenIsFeedSegment /\ [Next]_vars
      => SeenIsFeedSegment'
<1> SUFFICES ASSUME TypeInv, RegisteredWhileHandled, SocketInv, SeenIsFeedSegment, [Next]_vars,
                    NEW d \in Conns
             PROVE  SegmentOf(d)'
  BY DEF SeenIsFeedSegment, SegmentOf, Owed
<1> USE CommentHubAssumption DEF TypeInv, TypeOK, Handlers
<1>a. SegmentOf(d)
  BY SegmentByConnection
<1>b. RoomOf[d] \in Rooms /\ feed[RoomOf[d]] \in Seq(Nat) /\ joinedAt[d] \in Nat
      /\ joinedAt[d] <= Len(feed[RoomOf[d]])
  BY DEF SocketInv, SocketOf
\* A step that leaves the feeds alone, registers nobody and opens no registered
\* socket, and starts a job, if it does, with another frame.
<1>1. ASSUME UNCHANGED <<feed, seen, joinedAt>>,
             d \in rooms'[RoomOf[d]] /\ link'[d] = "open"
                 => d \in rooms[RoomOf[d]] /\ link[d] = "open",
             job' = job \/ (HubIdle /\ job'.kind # "comment")
      PROVE  SegmentOf(d)'
  BY <1>1, <1>a DEF SegmentOf, Owed, HubIdle
<1>2. ASSUME NEW c \in Conns, HubRegister(c) PROVE SegmentOf(d)'
  <2>1. /\ HubIdle /\ pc[c] = "registering"
        /\ rooms' = [rooms EXCEPT ![RoomOf[c]] = @ \cup {c}]
        /\ joinedAt' = IF link[c] = "closed" THEN joinedAt
                       ELSE [joinedAt EXCEPT ![c] = Len(feed[RoomOf[c]])]
        /\ UNCHANGED <<seen, link, feed>>
    BY <1>2 DEF HubRegister, frameVars
  <2>2. job'.kind # "comment"
    <3>1. \E r, frame, targets : StartJob("presence", r, 0, frame, targets)
      BY <1>2 DEF HubRegister
    <3> QED
      BY ONLY <3>1 DEF StartJob, NoJob
  <2>3. CASE d = c /\ link[d] = "open"
    <3>1. joinedAt'[d] = Len(feed[RoomOf[d]])
      BY <2>1, <2>3
    <3>2. Owed(d)' = <<>>
      BY <1>b, <2>1, <3>1, SegmentEmpty DEF Owed
    <3>3. seen'[d] = <<>>
      BY <2>1, <2>3 DEF SocketInv, SocketOf
    <3> QED
      BY <2>2, <3>2, <3>3 DEF SegmentOf
  <2>4. CASE ~ (d = c /\ link[d] = "open")
    <3>1. joinedAt'[d] = joinedAt[d]
      BY <2>1, <2>4
    <3>2. Owed(d)' = Owed(d)
      BY <2>1, <3>1 DEF Owed
    <3>3. d \in rooms'[RoomOf[d]] /\ link'[d] = "open"
            => d \in rooms[RoomOf[d]] /\ link[d] = "open"
      BY <2>1, <2>4, <1>b
    <3> QED
      BY <1>a, <2>1, <2>2, <3>2, <3>3 DEF SegmentOf, HubIdle
  <2> QED
    BY <2>3, <2>4
<1>3. ASSUME NEW c \in Conns, HubUnregister(c) PROVE SegmentOf(d)'
  <2>1. /\ HubIdle /\ UNCHANGED <<seen, link, feed, joinedAt>>
        /\ rooms' = [rooms EXCEPT ![RoomOf[c]] = @ \ {c}]
    BY <1>3 DEF HubUnregister, frameVars, historyVars
  <2>2. job'.kind # "comment"
    <3>1. \E r, frame, targets : StartJob("presence", r, 0, frame, targets)
      BY <1>3 DEF HubUnregister
    <3> QED
      BY ONLY <3>1 DEF StartJob, NoJob
  <2>3. d \in rooms'[RoomOf[d]] => d \in rooms[RoomOf[d]]
    BY <2>1, <1>b
  <2> QED
    BY <1>1, <2>1, <2>2, <2>3
<1>4. ASSUME HubTakeComment PROVE SegmentOf(d)'
  <2> DEFINE n == Head(broadcast)
             r == stored[n]
  <2>1. /\ HubIdle /\ UNCHANGED <<rooms, seen, link, joinedAt>>
        /\ StartJob("comment", r, n, NoPresence, rooms[r])
        /\ feed' = [feed EXCEPT ![r] = Append(@, n)]
    BY <1>4 DEF HubTakeComment, hubVars, frameVars
  <2>2. n \in Nat /\ r \in Rooms
    BY <1>4, TakenIsStored
  <2> HIDE DEF n, r
  <2>3. d \in rooms[RoomOf[d]] /\ link[d] = "open" => seen[d] = Owed(d)
    BY <1>a, <2>1 DEF SegmentOf, HubIdle
  <2>4. CASE RoomOf[d] = r
    <3>1. feed'[RoomOf[d]] = Append(feed[RoomOf[d]], n)
      BY <1>b, <2>1, <2>4
    <3>2. Owed(d)' = Append(Owed(d), n)
      <4>1. joinedAt' = joinedAt
        BY <2>1
      <4>2. SubSeq(Append(feed[RoomOf[d]], n), joinedAt[d] + 1, Len(Append(feed[RoomOf[d]], n)))
              = Append(SubSeq(feed[RoomOf[d]], joinedAt[d] + 1, Len(feed[RoomOf[d]])), n)
        BY <1>b, <2>2, SegmentGrows
      <4> QED
        BY <3>1, <4>1, <4>2 DEF Owed
    <3>3. d \in rooms[RoomOf[d]] => job'.kind = "comment" /\ d \in job'.pending /\ job'.id = n
      BY <2>1, <2>4 DEF StartJob
    <3> QED
      BY <2>1, <2>3, <3>2, <3>3 DEF SegmentOf
  <2>5. CASE RoomOf[d] # r
    <3>1. Owed(d)' = Owed(d)
      BY <1>b, <2>1, <2>5 DEF Owed
    <3>2. d \notin rooms[r]
      BY <2>2, <2>5 DEF RegisteredWhileHandled
    <3>3. d \notin job'.pending
      BY <2>1, <3>2 DEF StartJob, NoJob
    <3> QED
      BY <2>1, <2>3, <3>1, <3>3 DEF SegmentOf
  <2> QED
    BY <2>4, <2>5
<1>5. ASSUME HubTakeProfile PROVE SegmentOf(d)'
  <2>1. HubIdle /\ UNCHANGED <<rooms, link, seen, feed, joinedAt>>
    BY <1>5 DEF HubTakeProfile, hubVars, frameVars, historyVars
  <2>2. job'.kind # "comment"
    <3>1. \E r, id, targets : StartJob("profile", r, id, NoPresence, targets)
      BY <1>5 DEF HubTakeProfile
    <3> QED
      BY ONLY <3>1 DEF StartJob, NoJob
  <2> QED
    BY <1>1, <2>1, <2>2
<1>6. ASSUME NEW c \in Conns, HubWrite(c) PROVE SegmentOf(d)'
  <2>1. /\ c \in job.pending /\ UNCHANGED <<rooms, link, feed, joinedAt>>
        /\ StartJob(job.kind, job.room, job.id, job.frame, job.pending \ {c})
        /\ seen' = IF link[c] = "open" /\ job.kind = "comment"
                   THEN [seen EXCEPT ![c] = Append(@, job.id)] ELSE seen
    BY <1>6 DEF HubWrite, hubVars, historyVars
  <2>2. Owed(d)' = Owed(d)
    BY <2>1 DEF Owed
  <2>3. \/ job'.kind = job.kind /\ job'.id = job.id /\ job'.pending = job.pending \ {c}
        \/ job'.kind = "none" /\ job.pending = {c}
    BY <2>1 DEF StartJob, NoJob
  <2>4. CASE d = c
    BY <1>a, <2>1, <2>2, <2>3, <2>4 DEF SegmentOf
  <2>5. CASE d # c
    BY <1>a, <2>1, <2>2, <2>3, <2>5 DEF SegmentOf
  <2> QED
    BY <2>4, <2>5
<1>7. ASSUME NEW c \in Conns, Accept(c) PROVE SegmentOf(d)'
  <2>1. c \notin rooms[RoomOf[c]]
    BY <1>7 DEF Accept, RegisteredWhileHandled
  <2>2. UNCHANGED <<rooms, seen, feed, joinedAt, job>>
        /\ link' = [link EXCEPT ![c] = "open"]
    BY <1>7 DEF Accept, hubVars, frameVars, historyVars
  <2> QED
    BY <1>1, <2>1, <2>2
<1>8. ASSUME NEW c \in Conns, Leave(c) PROVE SegmentOf(d)'
  BY <1>1, <1>8 DEF Leave, hubVars, frameVars, historyVars
<1>9. ASSUME UNCHANGED <<rooms, seen, feed, joinedAt, job, link>> PROVE SegmentOf(d)'
  BY <1>1, <1>9
<1>14. ASSUME NEW c \in Conns, Stall(c) \/ Resume(c) PROVE SegmentOf(d)'
  BY <1>9, <1>14 DEF Stall, Resume, hubVars, frameVars, historyVars
<1>10. ASSUME NEW c \in Conns,
              \/ StoreFromSocket(c) \/ RefuseRequest(c) \/ ReplyError(c) \/ ReadFails(c)
       PROVE  SegmentOf(d)'
  BY <1>9, <1>10
     DEF StoreFromSocket, RefuseRequest, ReplyError, ReadFails, hubVars, frameVars, historyVars
<1>11. ASSUME NEW r \in Rooms,
              \/ \E p \in Posters : StoreFromPost(p, r)
              \/ \E h \in Handlers : SendComment(h)
              \/ SendProfile(r)
       PROVE  SegmentOf(d)'
  BY <1>9, <1>11 DEF StoreFromPost, SendComment, SendProfile, hubVars, frameVars, historyVars
<1>12. CASE UNCHANGED vars
  BY <1>9, <1>12 DEF vars, hubVars, frameVars, historyVars
<1>13. ASSUME HandlerStep PROVE SegmentOf(d)'
  BY <1>7, <1>10, <1>11, <1>13 DEF HandlerStep
<1> QED
  BY <1>2, <1>3, <1>4, <1>5, <1>6, <1>8, <1>12, <1>13, <1>14 DEF Next, HubStep, ClientStep

\* A connected viewer has been sent a gap-free segment of its room's feed, from
\* where it joined, and lacks at most the comment being written.
THEOREM SegmentCorrect == Spec => []SeenIsFeedSegment
BY InitTypeInv, NextTypeInv, InitRegistered, NextRegistered, InitSocket, NextSocket,
   InitSegment, NextSegment, PTL DEF Spec

-----------------------------------------------------------------------------
(* Comments on their way to the feeds *)

Waiting(n) == {h \in Handlers : held[h] = n}
Queued(n)  == {i \in DOMAIN broadcast : broadcast[i] = n}
Fed(f, n)  == {ri \in UNION {{r} \X DOMAIN f[r] : r \in Rooms} : f[ri[1]][ri[2]] = n}

IsSingle(S) == \E x : S = {x}

\* A comment is with one handler, in one place of the channel, or at one of a feed.
InOnePlace(n) ==
    \/ IsSingle(Waiting(n)) /\ Queued(n) = {} /\ Fed(feed, n) = {}
    \/ Waiting(n) = {} /\ IsSingle(Queued(n)) /\ Fed(feed, n) = {}
    \/ Waiting(n) = {} /\ Queued(n) = {} /\ IsSingle(Fed(feed, n))

\* What makes it inductive: a handler holds a comment only while it is sending it,
\* and the feeds, too, carry stored comments only.
PlacesInv ==
    /\ \A h \in Handlers : held[h] # 0 => pc[h] = "broadcasting"
    /\ \A r \in Rooms : \A i \in DOMAIN feed[r] : feed[r][i] \in DOMAIN stored
    /\ \A n \in DOMAIN stored : InOnePlace(n)

\* The places of a comment in the feeds: a room and a position.
LEMMA FedElements ==
  ASSUME NEW f, NEW n, NEW x
  PROVE  x \in Fed(f, n) <=> \E r \in Rooms : \E i \in DOMAIN f[r] : x = <<r, i>> /\ f[r][i] = n
<1>1. ASSUME x \in Fed(f, n)
      PROVE  \E r \in Rooms : \E i \in DOMAIN f[r] : x = <<r, i>> /\ f[r][i] = n
  <2>1. PICK r \in Rooms : x \in {r} \X DOMAIN f[r]
    BY <1>1 DEF Fed
  <2> QED
    BY <1>1, <2>1 DEF Fed
<1>2. ASSUME NEW r \in Rooms, NEW i \in DOMAIN f[r], x = <<r, i>>, f[r][i] = n
      PROVE  x \in Fed(f, n)
  <2>1. x \in {r} \X DOMAIN f[r] /\ x[1] = r /\ x[2] = i
    BY <1>2
  <2> QED
    BY <1>2, <2>1 DEF Fed
<1> QED
  BY <1>1, <1>2

\* In one place, once.
LEMMA OnePlaceOneCopy == ASSUME NEW n, InOnePlace(n) PROVE Copies(n) = 1
<1>1. Copies(n) = Cardinality(Waiting(n)) + Cardinality(Queued(n)) + Cardinality(Fed(feed, n))
  BY DEF Copies, Waiting, Queued, Fed
<1>2. Cardinality({}) = 0 /\ \A S : IsSingle(S) => Cardinality(S) = 1
  BY FS_EmptySet, FS_Singleton DEF IsSingle
<1>3. CASE IsSingle(Waiting(n)) /\ Queued(n) = {} /\ Fed(feed, n) = {}
  <2>1. Cardinality(Waiting(n)) = 1 /\ Cardinality(Queued(n)) = 0 /\ Cardinality(Fed(feed, n)) = 0
    BY <1>2, <1>3
  <2> QED
    BY <1>1, <2>1
<1>4. CASE Waiting(n) = {} /\ IsSingle(Queued(n)) /\ Fed(feed, n) = {}
  <2>1. Cardinality(Waiting(n)) = 0 /\ Cardinality(Queued(n)) = 1 /\ Cardinality(Fed(feed, n)) = 0
    BY <1>2, <1>4
  <2> QED
    BY <1>1, <2>1
<1>5. CASE Waiting(n) = {} /\ Queued(n) = {} /\ IsSingle(Fed(feed, n))
  <2>1. Cardinality(Waiting(n)) = 0 /\ Cardinality(Queued(n)) = 0 /\ Cardinality(Fed(feed, n)) = 1
    BY <1>2, <1>5
  <2> QED
    BY <1>1, <2>1
<1> QED
  BY <1>3, <1>4, <1>5 DEF InOnePlace

LEMMA InitPlaces == Init => PlacesInv
BY CommentHubAssumption DEF Init, PlacesInv

\* The table with one row more: the old ids, and the new one.
LEMMA NewId ==
  ASSUME NEW S, NEW q \in Seq(S), NEW e \in S
  PROVE  /\ DOMAIN Append(q, e) = DOMAIN q \cup {Len(q) + 1}
         /\ Len(q) + 1 \notin DOMAIN q /\ Len(q) + 1 # 0
         /\ DOMAIN q \subseteq Nat \ {0} /\ Len(q) \in Nat /\ DOMAIN q = 1 .. Len(q)
         /\ Append(q, e)[Len(q) + 1] = e /\ \A i \in DOMAIN q : Append(q, e)[i] = q[i]
<1>1. /\ DOMAIN q = 1 .. Len(q) /\ Len(q) \in Nat
      /\ Append(q, e) \in Seq(S) /\ Len(Append(q, e)) = Len(q) + 1
      /\ Append(q, e)[Len(q) + 1] = e /\ \A i \in DOMAIN q : Append(q, e)[i] = q[i]
  BY AppendProperties
<1>2. DOMAIN Append(q, e) = 1 .. Len(q) + 1
  BY <1>1
<1> DEFINE k == Len(q)
<1>3. k \in Nat => /\ 1 .. k + 1 = (1 .. k) \cup {k + 1} /\ k + 1 \notin 1 .. k /\ k + 1 # 0
                   /\ 1 .. k \subseteq Nat \ {0}
  <2> HIDE DEF k
  <2> QED
    OBVIOUS
<1> QED
  BY <1>1, <1>2, <1>3

LEMMA NextPlaces == TypeInv /\ PlacesInv /\ [Next]_vars => PlacesInv'
<1> SUFFICES ASSUME TypeInv, PlacesInv, [Next]_vars PROVE PlacesInv'
  OBVIOUS
<1> USE CommentHubAssumption
<1>a. DOMAIN stored \subseteq Nat \ {0}
  BY DEF TypeInv, TypeOK
<1>t. /\ held \in [Handlers -> Nat] /\ pc \in [Handlers -> Places] /\ feed \in [Rooms -> Seq(Nat)]
      /\ broadcast \in Seq(Nat) /\ stored \in Seq(Rooms)
  BY DEF TypeInv, TypeOK
\* Steps that move no comment, and no handler that holds one.
<1>1. ASSUME UNCHANGED <<held, broadcast, feed, stored>>,
             \A h \in Handlers : pc[h] = "broadcasting" => pc'[h] = "broadcasting"
      PROVE  PlacesInv'
  <2>1. \A n : InOnePlace(n) => InOnePlace(n)'
    BY <1>1 DEF InOnePlace, Waiting, Queued, Fed
  <2> QED
    BY <1>1, <2>1 DEF PlacesInv
\* A handler stores a comment.
<1>2. ASSUME NEW h \in Handlers, NEW r \in Rooms, pc[h] # "broadcasting",
             stored' = Append(stored, r),
             held' = [held EXCEPT ![h] = Len(stored) + 1],
             pc' = [pc EXCEPT ![h] = "broadcasting"],
             UNCHANGED <<broadcast, feed>>
      PROVE  PlacesInv'
  <2>0. PICK id : id = Len(stored) + 1
    OBVIOUS
  <2>1. /\ DOMAIN stored' = DOMAIN stored \cup {id} /\ id \notin DOMAIN stored /\ id # 0
    BY <1>2, <1>t, <2>0, NewId
  <2>2. held[h] = 0
    BY <1>2 DEF PlacesInv
  <2>3. /\ held'[h] = id /\ pc'[h] = "broadcasting"
        /\ \A g \in Handlers \ {h} : held'[g] = held[g] /\ pc'[g] = pc[g]
    BY <1>2, <1>t, <2>0
  <2>4. \A g \in Handlers : held[g] = 0 \/ held[g] \in DOMAIN stored
    BY DEF PlacesInv, TypeInv, CarriesStored
  <2>5. ASSUME NEW n \in DOMAIN stored PROVE InOnePlace(n)'
    <3>1. Waiting(n)' = Waiting(n)
      BY <1>a, <2>1, <2>2, <2>3 DEF Waiting
    <3>2. Queued(n)' = Queued(n) /\ Fed(feed', n) = Fed(feed, n)
      BY <1>2 DEF Queued, Fed
    <3> QED
      BY <3>1, <3>2 DEF InOnePlace, PlacesInv
  <2>6. InOnePlace(id)'
    <3>1. Waiting(id)' = {h}
      BY <2>1, <2>3, <2>4 DEF Waiting
    <3>2. Queued(id)' = {}
      BY <1>2, <2>1 DEF Queued, TypeInv, CarriesStored
    <3>3. Fed(feed', id) = {}
      <4>1. Fed(feed, id) = {}
        BY <2>1, FedElements DEF PlacesInv
      <4> QED
        BY <1>2, <4>1 DEF Fed
    <3> QED
      BY <3>1, <3>2, <3>3 DEF InOnePlace, IsSingle
  <2>7. \A g \in Handlers : held'[g] # 0 => pc'[g] = "broadcasting"
    BY <2>3 DEF PlacesInv
  <2>8. \A q \in Rooms : \A i \in DOMAIN feed'[q] : feed'[q][i] \in DOMAIN stored'
    BY <1>2, <2>1 DEF PlacesInv
  <2> QED
    BY <2>1, <2>5, <2>6, <2>7, <2>8 DEF PlacesInv
\* A handler sends its comment.
<1>3. ASSUME NEW h \in Handlers, SendComment(h) PROVE PlacesInv'
  <2>0. PICK id, k : id = held[h] /\ k = Len(broadcast)
    OBVIOUS
  <2>1. /\ broadcast' = Append(broadcast, id) /\ held' = [held EXCEPT ![h] = 0]
        /\ pc[h] = "broadcasting" /\ \E place : pc' = [pc EXCEPT ![h] = place]
        /\ UNCHANGED <<feed, stored>>
    BY <1>3, <2>0 DEF SendComment, storeVars, historyVars
  <2>2. id \in DOMAIN stored /\ id # 0 /\ id \in Nat
    BY <1>a, <2>0, <2>1 DEF TypeInv, CarriesStored
  <2>3. /\ k \in Nat /\ DOMAIN broadcast = 1 .. k
        /\ DOMAIN broadcast' = DOMAIN broadcast \cup {k + 1}
        /\ k + 1 \notin DOMAIN broadcast /\ broadcast'[k + 1] = id
        /\ \A i \in DOMAIN broadcast : broadcast'[i] = broadcast[i]
    <3> DEFINE q == broadcast
    <3>1. q \in Seq(Nat) /\ broadcast' = Append(q, id) /\ k = Len(q)
      BY <1>t, <2>0, <2>1
    <3> HIDE DEF q
    <3> QED
      BY <2>2, <3>1, NewId DEF q
  <2>4. /\ held'[h] = 0 /\ \A g \in Handlers \ {h} : held'[g] = held[g] /\ pc'[g] = pc[g]
    BY <1>t, <2>1
  <2>5. ASSUME NEW n \in DOMAIN stored, n # id PROVE InOnePlace(n)'
    <3>1. Waiting(n)' = Waiting(n)
      BY <1>a, <2>0, <2>4, <2>5 DEF Waiting
    <3>2. Queued(n)' = Queued(n)
      BY <2>3, <2>5 DEF Queued
    <3>3. Fed(feed', n) = Fed(feed, n)
      BY <2>1 DEF Fed
    <3> QED
      BY <3>1, <3>2, <3>3 DEF InOnePlace, PlacesInv
  <2>6. InOnePlace(id)'
    <3>1. h \in Waiting(id)
      BY <2>0 DEF Waiting
    <3>2. IsSingle(Waiting(id)) /\ Queued(id) = {} /\ Fed(feed, id) = {}
      BY <2>2, <3>1 DEF PlacesInv, InOnePlace
    <3>3. Waiting(id) = {h}
      BY <3>1, <3>2 DEF IsSingle
    <3>4. Waiting(id)' = {}
      BY <2>2, <2>4, <3>3 DEF Waiting
    <3>5. Queued(id)' = {k + 1}
      BY <2>3, <3>2 DEF Queued
    <3>6. Fed(feed', id) = {}
      BY <2>1, <3>2 DEF Fed
    <3> QED
      BY <3>4, <3>5, <3>6 DEF InOnePlace, IsSingle
  <2>7. \A g \in Handlers : held'[g] # 0 => pc'[g] = "broadcasting"
    BY <2>4 DEF PlacesInv
  <2> QED
    BY <2>1, <2>5, <2>6, <2>7 DEF PlacesInv
\* The hub takes a comment off the channel into the feed of its room.
<1>4. ASSUME HubTakeComment PROVE PlacesInv'
  <2>0. PICK id, r, k : id = Head(broadcast) /\ r = stored[id] /\ k = Len(feed[r])
    OBVIOUS
  <2>1. /\ broadcast # <<>> /\ broadcast' = Tail(broadcast)
        /\ feed' = [feed EXCEPT ![r] = Append(@, id)]
        /\ UNCHANGED <<held, pc, stored>>
    BY <1>4, <2>0 DEF HubTakeComment, storeVars
  <2>2. id \in DOMAIN stored /\ id \in Nat /\ r \in Rooms
    BY <1>4, <2>0, TakenIsStored
  <2>3. /\ 1 \in DOMAIN broadcast /\ broadcast[1] = id
        /\ \A i \in DOMAIN broadcast' :
             i + 1 \in DOMAIN broadcast /\ broadcast'[i] = broadcast[i + 1]
        /\ \A i \in DOMAIN broadcast : i = 1 \/ i - 1 \in DOMAIN broadcast'
        /\ DOMAIN broadcast \subseteq Nat /\ DOMAIN broadcast' \subseteq Nat \ {0}
    <3>1. /\ Len(broadcast) \in Nat \ {0} /\ DOMAIN broadcast = 1 .. Len(broadcast)
          /\ Tail(broadcast) \in Seq(Nat) /\ Len(Tail(broadcast)) = Len(broadcast) - 1
      BY <1>t, <2>1
    <3>2. DOMAIN broadcast' = 1 .. (Len(broadcast) - 1)
      BY <2>1, <3>1
    <3> QED
      BY <1>t, <2>0, <2>1, <3>1, <3>2, HeadAndTail
  <2>4. Queued(id) = {1} /\ Waiting(id) = {} /\ Fed(feed, id) = {}
    <3>1. 1 \in Queued(id)
      BY <2>3 DEF Queued
    <3>2. InOnePlace(id)
      BY <2>2 DEF PlacesInv
    <3>3. IsSingle(Queued(id)) /\ Waiting(id) = {} /\ Fed(feed, id) = {}
      BY <3>1, <3>2 DEF InOnePlace
    <3> QED
      BY <3>1, <3>3 DEF IsSingle
  <2>5. /\ k \in Nat /\ DOMAIN feed[r] = 1 .. k
        /\ DOMAIN feed'[r] = DOMAIN feed[r] \cup {k + 1} /\ k + 1 \notin DOMAIN feed[r]
        /\ feed'[r][k + 1] = id /\ \A i \in DOMAIN feed[r] : feed'[r][i] = feed[r][i]
        /\ \A q \in Rooms \ {r} : feed'[q] = feed[q]
    <3> DEFINE f == feed[r]
    <3>1. f \in Seq(Nat) /\ feed'[r] = Append(f, id)
          /\ \A q \in Rooms \ {r} : feed'[q] = feed[q]
      BY <1>t, <2>1, <2>2
    <3>2. k = Len(f)
      BY <2>0
    <3> HIDE DEF f
    <3> QED
      BY <2>2, <3>1, <3>2, NewId DEF f
  <2>6. ASSUME NEW n, n # id PROVE Fed(feed', n) = Fed(feed, n)
    <3>1. ASSUME NEW q \in Rooms, NEW i
          PROVE  i \in DOMAIN feed'[q] /\ feed'[q][i] = n <=> i \in DOMAIN feed[q] /\ feed[q][i] = n
      <4>1. CASE q = r
        BY <2>5, <2>6, <4>1
      <4>2. CASE q # r
        BY <2>5, <4>2
      <4> QED
        BY <4>1, <4>2
    <3>2. ASSUME NEW x PROVE x \in Fed(feed', n) <=> x \in Fed(feed, n)
      BY <3>1, FedElements
    <3> QED
      BY <3>2
  <2>7. Fed(feed', id) = {<<r, k + 1>>}
    <3>1. ASSUME NEW q \in Rooms, NEW i \in DOMAIN feed[q] PROVE feed[q][i] # id
      BY <2>4, FedElements
    <3>2. ASSUME NEW q \in Rooms, NEW i
          PROVE  i \in DOMAIN feed'[q] /\ feed'[q][i] = id <=> q = r /\ i = k + 1
      <4>1. CASE q = r
        BY <2>2, <2>5, <3>1, <4>1
      <4>2. CASE q # r
        BY <2>5, <3>1, <4>2
      <4> QED
        BY <4>1, <4>2
    <3>3. ASSUME NEW x PROVE x \in Fed(feed', id) <=> x = <<r, k + 1>>
      BY <2>2, <3>2, FedElements
    <3> QED
      BY <3>3
  <2>8. InOnePlace(id)'
    <3>1. Queued(id)' = {}
      <4>1. ASSUME NEW i \in DOMAIN broadcast' PROVE broadcast'[i] # id
        <5>1. i + 1 \in DOMAIN broadcast /\ i + 1 # 1 /\ broadcast'[i] = broadcast[i + 1]
          BY ONLY <2>3, <4>1
        <5>2. i + 1 \in Queued(id) => i + 1 = 1
          BY <2>4
        <5> QED
          BY ONLY <5>1, <5>2 DEF Queued
      <4> QED
        BY <4>1 DEF Queued
    <3>2. Waiting(id)' = {}
      BY <2>1, <2>4 DEF Waiting
    <3> QED
      BY <2>7, <3>1, <3>2 DEF InOnePlace, IsSingle
  <2>9. ASSUME NEW n \in DOMAIN stored, n # id PROVE InOnePlace(n)'
    <3>1. Waiting(n)' = Waiting(n)
      BY <2>1 DEF Waiting
    <3>2. \A i : i \in Queued(n) => i - 1 \in Queued(n)' /\ i \in Nat
      BY <2>3, <2>9 DEF Queued
    <3>3. \A i : i \in Queued(n)' => i + 1 \in Queued(n) /\ i \in Nat
      BY <2>3 DEF Queued
    <3>4. Queued(n) = {} => Queued(n)' = {}
      BY <3>3
    <3>5. IsSingle(Queued(n)) => IsSingle(Queued(n)')
      <4> SUFFICES ASSUME NEW i, Queued(n) = {i} PROVE Queued(n)' = {i - 1}
        BY DEF IsSingle
      <4>1. i \in Nat /\ i - 1 \in Queued(n)'
        BY <3>2
      <4>2. \A j : j \in Queued(n)' => j = i - 1
        BY <3>3, <4>1
      <4> QED
        BY <4>1, <4>2
    <3>6. Fed(feed', n) = Fed(feed, n)
      BY <2>9, <2>6
    <3>7. InOnePlace(n)
      BY DEF PlacesInv
    <3> QED
      BY <3>1, <3>4, <3>5, <3>6, <3>7 DEF InOnePlace
  <2>10. \A q \in Rooms : \A i \in DOMAIN feed'[q] : feed'[q][i] \in DOMAIN stored'
    <3> SUFFICES ASSUME NEW q \in Rooms, NEW i \in DOMAIN feed'[q]
                 PROVE  feed'[q][i] \in DOMAIN stored
      BY <2>1
    <3>1. CASE q = r
      BY <2>2, <2>5, <3>1 DEF PlacesInv
    <3>2. CASE q # r
      BY <2>5, <3>2 DEF PlacesInv
    <3> QED
      BY <3>1, <3>2
  <2> QED
    BY <2>1, <2>8, <2>9, <2>10 DEF PlacesInv
<1>5. ASSUME NEW c \in Conns, HubRegister(c) \/ HubUnregister(c) PROVE PlacesInv'
  <2>1. /\ UNCHANGED <<held, broadcast, feed, stored>>
        /\ pc[c] \in {"registering", "unregistering"}
        /\ \E place : pc' = [pc EXCEPT ![c] = place]
    BY <1>5 DEF HubRegister, HubUnregister, channelVars, storeVars, historyVars
  <2> QED
    BY <1>1, <1>t, <2>1
<1>6. ASSUME HubTakeProfile \/ \E c \in Conns : HubWrite(c) \/ Stall(c) \/ Resume(c) \/ Leave(c)
      PROVE  PlacesInv'
  BY <1>1, <1>6
     DEF HubTakeProfile, HubWrite, Stall, Resume, Leave, channelVars, storeVars, historyVars
<1>7. ASSUME NEW c \in Conns, Accept(c) \/ RefuseRequest(c) \/ ReplyError(c) \/ ReadFails(c)
      PROVE  PlacesInv'
  <2>1. /\ UNCHANGED <<held, broadcast, feed, stored>>
        /\ pc[c] \in {"new", "reading", "replying"}
        /\ \E place : pc' = [pc EXCEPT ![c] = place]
    BY <1>7 DEF Accept, RefuseRequest, ReplyError, ReadFails, channelVars, storeVars, historyVars
  <2> QED
    BY <1>1, <1>t, <2>1
<1>8. ASSUME NEW c \in Conns, StoreFromSocket(c) PROVE PlacesInv'
  BY <1>2, <1>8 DEF StoreFromSocket, channelVars, historyVars, Handlers
<1>9. ASSUME NEW p \in Posters, NEW r \in Rooms, StoreFromPost(p, r) PROVE PlacesInv'
  BY <1>2, <1>9 DEF StoreFromPost, channelVars, historyVars, Handlers
<1>10. ASSUME NEW r \in Rooms, SendProfile(r) PROVE PlacesInv'
  BY <1>1, <1>10 DEF SendProfile, historyVars
<1>11. CASE UNCHANGED vars
  BY <1>1, <1>11 DEF vars, channelVars, storeVars, historyVars
<1> QED
  BY <1>3, <1>4, <1>5, <1>6, <1>7, <1>8, <1>9, <1>10, <1>11
     DEF Next, HubStep, HandlerStep, ClientStep

\* No stored comment is lost on its way to a feed, and none gets there twice.
THEOREM ConservedCorrect == Spec => []CommentsConserved
<1>1. TypeInv /\ PlacesInv => CommentsConserved
  <2> SUFFICES ASSUME TypeInv, PlacesInv, NEW n \in 1 .. Len(stored) PROVE Copies(n) = 1
    BY DEF CommentsConserved
  <2>1. n \in DOMAIN stored
    BY DEF TypeInv, TypeOK
  <2> QED
    BY <2>1, OnePlaceOneCopy DEF PlacesInv
<1> QED
  BY <1>1, InitTypeInv, NextTypeInv, InitPlaces, NextPlaces, PTL DEF Spec

-----------------------------------------------------------------------------
(* The hub implements RoomFeed *)

\* The table stays within its bound, so every id is one of RoomFeed's.
StoredBound == Len(stored) <= MaxComments

LEMMA NextStoredBound == TypeInv /\ StoredBound /\ [Next]_vars => StoredBound'
<1> SUFFICES ASSUME TypeInv, StoredBound, [Next]_vars PROVE StoredBound'
  OBVIOUS
<1>1. ASSUME NEW r \in Rooms, Len(stored) < MaxComments, stored' = Append(stored, r)
      PROVE  StoredBound'
  <2>1. stored \in Seq(Rooms) /\ MaxComments \in Nat
    BY CommentHubAssumption DEF TypeInv, TypeOK
  <2>2. Len(stored) \in Nat /\ Len(stored') = Len(stored) + 1
    BY <1>1, <2>1, AppendProperties
  <2> QED
    BY <1>1, <2>1, <2>2 DEF StoredBound
<1>2. CASE stored' = stored
  BY <1>2 DEF StoredBound
<1>3. CASE HubStep
  BY <1>2, <1>3 DEF HubStep, HubRegister, HubUnregister, HubWrite, HubTakeComment, HubTakeProfile,
     storeVars
<1>4. CASE HandlerStep
  <2>1. ASSUME NEW c \in Conns, StoreFromSocket(c) PROVE StoredBound'
    BY <1>1, <2>1, CommentHubAssumption DEF StoreFromSocket
  <2>2. ASSUME NEW p \in Posters, NEW r \in Rooms, StoreFromPost(p, r) PROVE StoredBound'
    BY <1>1, <2>2 DEF StoreFromPost
  <2> QED
    BY <1>2, <1>4, <2>1, <2>2 DEF HandlerStep, Accept, RefuseRequest, ReplyError, ReadFails,
       SendComment, SendProfile, storeVars
<1>5. CASE ClientStep \/ UNCHANGED vars
  BY <1>2, <1>5 DEF ClientStep, Stall, Resume, Leave, vars, storeVars
<1> QED
  BY <1>3, <1>4, <1>5 DEF Next

LEMMA InitFeed == Init => Feed!Init
BY CommentHubAssumption DEF Init, Feed!Init, ViewerStatus, Handlers

\* Two hub states in which every viewer has the same status.
LEMMA SameStatus ==
  ASSUME \A d \in Conns : /\ (link'[d] = "open") <=> (link[d] = "open")
                          /\ (d \in rooms'[RoomOf[d]]) <=> (d \in rooms[RoomOf[d]])
                          /\ (pc'[d] = "new") <=> (pc[d] = "new")
  PROVE  ViewerStatus' = ViewerStatus
BY DEF ViewerStatus

FeedInv == /\ TypeInv /\ RegisteredWhileHandled /\ SocketInv /\ SeenIsFeedSegment
           /\ PlacesInv /\ StoredBound

LEMMA NextFeed == FeedInv /\ [Next]_vars => [Feed!Next]_(Feed!vars)
<1> SUFFICES ASSUME FeedInv, [Next]_vars PROVE Feed!Next \/ UNCHANGED Feed!vars
  OBVIOUS
<1> USE CommentHubAssumption DEF FeedInv
<1>t. /\ pc \in [Handlers -> Places] /\ link \in [Conns -> {"open", "closed"}]
      /\ rooms \in [Rooms -> SUBSET Conns] /\ feed \in [Rooms -> Seq(Nat)]
      /\ seen \in [Conns -> Seq(Nat)] /\ joinedAt \in [Conns -> Nat]
      /\ job \in Job /\ RoomOf \in [Conns -> Rooms] /\ Conns \subseteq Handlers
  BY DEF TypeInv, TypeOK, Handlers
\* Steps the viewers do not see.
<1>1. ASSUME UNCHANGED <<feed, joinedAt, seen>>, ViewerStatus' = ViewerStatus
      PROVE  UNCHANGED Feed!vars
  BY <1>1 DEF Feed!vars
<1>2. ASSUME UNCHANGED <<feed, joinedAt, seen, link, rooms>>,
             \A d \in Conns : (pc'[d] = "new") <=> (pc[d] = "new")
      PROVE  UNCHANGED Feed!vars
  BY <1>1, <1>2, SameStatus
\* The length of the segment a watching viewer has.
<1>3. ASSUME NEW d \in Conns
      PROVE  /\ joinedAt[d] \in Nat /\ Len(Owed(d)) = Len(feed[RoomOf[d]]) - joinedAt[d]
             /\ Len(feed[RoomOf[d]]) \in Nat /\ seen[d] \in Seq(Nat)
             /\ \A i \in 1 .. Len(feed[RoomOf[d]]) - joinedAt[d] :
                    Owed(d)[i] = feed[RoomOf[d]][joinedAt[d] + i]
  <2> DEFINE q == feed[RoomOf[d]]
             k == Len(q)
             j == joinedAt[d]
  <2>1. q \in Seq(Nat) /\ k \in Nat /\ k = Len(q) /\ j \in Nat /\ j <= k /\ seen[d] \in Seq(Nat)
    BY <1>t DEF SocketInv, SocketOf
  <2>2. Owed(d) = SubSeq(q, j + 1, k)
    BY DEF Owed
  <2> HIDE DEF q, k, j
  <2>3. /\ Len(SubSeq(q, j + 1, k)) = k - j
        /\ \A i \in 1 .. k - j : SubSeq(q, j + 1, k)[i] = q[j + i]
    BY <2>1, SegmentElements
  <2> QED
    BY <2>1, <2>2, <2>3 DEF q, k, j
<1>4. ASSUME NEW c \in Conns, HubRegister(c) PROVE Feed!Next \/ UNCHANGED Feed!vars
  <2>1. /\ pc[c] = "registering" /\ pc' = [pc EXCEPT ![c] = "reading"]
        /\ rooms' = [rooms EXCEPT ![RoomOf[c]] = @ \cup {c}]
        /\ joinedAt' = IF link[c] = "closed" THEN joinedAt
                       ELSE [joinedAt EXCEPT ![c] = Len(feed[RoomOf[c]])]
        /\ UNCHANGED <<link, seen, feed>>
    BY <1>4 DEF HubRegister, frameVars
  <2>2. \A d \in Conns \ {c} : /\ (d \in rooms'[RoomOf[d]]) <=> (d \in rooms[RoomOf[d]])
                               /\ pc'[d] = pc[d]
    BY <1>t, <2>1
  <2>3. c \notin rooms[RoomOf[c]] /\ c \in rooms'[RoomOf[c]]
    BY <1>t, <2>1 DEF RegisteredWhileHandled
  <2>4. CASE link[c] = "open"
    <3>1. ViewerStatus[c] = "away"
      BY <2>3, <2>4 DEF ViewerStatus
    <3>2. ViewerStatus' = [ViewerStatus EXCEPT ![c] = "watching"]
      BY <2>1, <2>2, <2>3, <2>4 DEF ViewerStatus
    <3>3. Feed!Join(c)
      BY <2>1, <2>4, <3>1, <3>2 DEF Feed!Join
    <3> QED
      BY <3>3 DEF Feed!Next
  <2>5. CASE link[c] # "open"
    <3>1. joinedAt' = joinedAt
      BY <1>t, <2>1, <2>5
    <3>2. ViewerStatus' = ViewerStatus
      BY <1>t, <2>1, <2>2, <2>5 DEF ViewerStatus
    <3> QED
      BY <1>1, <2>1, <3>1, <3>2
  <2> QED
    BY <2>4, <2>5
<1>5. ASSUME NEW c \in Conns, HubUnregister(c) PROVE UNCHANGED Feed!vars
  <2>1. /\ pc[c] = "unregistering" /\ pc' = [pc EXCEPT ![c] = "done"]
        /\ rooms' = [rooms EXCEPT ![RoomOf[c]] = @ \ {c}]
        /\ UNCHANGED <<link, seen, feed, joinedAt>>
    BY <1>5 DEF HubUnregister, frameVars, historyVars
  <2>2. link[c] = "closed"
    BY <2>1 DEF SocketInv, SocketOf
  <2>3. \A d \in Conns \ {c} : /\ (d \in rooms'[RoomOf[d]]) <=> (d \in rooms[RoomOf[d]])
                               /\ pc'[d] = pc[d]
    BY <1>t, <2>1
  <2>4. ViewerStatus' = ViewerStatus
    BY <1>t, <2>1, <2>2, <2>3 DEF ViewerStatus
  <2> QED
    BY <1>1, <2>1, <2>4
<1>6. ASSUME HubTakeComment PROVE Feed!Next \/ UNCHANGED Feed!vars
  <2>0. PICK n, r : n = Head(broadcast) /\ r = stored[n]
    OBVIOUS
  <2>1. /\ HubIdle /\ broadcast # <<>>
        /\ feed' = [feed EXCEPT ![r] = Append(@, n)]
        /\ UNCHANGED <<rooms, link, pc, seen, joinedAt>>
    BY <1>6, <2>0 DEF HubTakeComment, hubVars, frameVars
  <2>2. n \in DOMAIN stored /\ r \in Rooms
    BY <1>6, <2>0, TakenIsStored
  <2>3. n \in 1 .. MaxComments
    <3>1. DOMAIN stored = 1 .. Len(stored) /\ Len(stored) \in Nat /\ MaxComments \in Nat
      BY DEF TypeInv, TypeOK
    <3> QED
      BY <2>2, <3>1 DEF StoredBound
  <2>4. n \notin Feed!Published
    <3>1. 1 \in Queued(n)
      BY <2>0, <2>1, HeadAndTail DEF Queued, TypeInv, TypeOK
    <3>2. Fed(feed, n) = {}
      BY <2>2, <3>1 DEF PlacesInv, InOnePlace
    <3>3. ASSUME NEW q \in Rooms, NEW i \in DOMAIN feed[q] PROVE feed[q][i] # n
      BY <3>2, FedElements
    <3> QED
      BY <3>3 DEF Feed!Published
  <2>5. ASSUME NEW v \in Conns, ViewerStatus[v] = "watching" PROVE Feed!CaughtUp(v)
    <3>1. link[v] = "open" /\ v \in rooms[RoomOf[v]]
      BY <2>5 DEF ViewerStatus
    <3>2. seen[v] = Owed(v)
      BY <2>1, <3>1 DEF SeenIsFeedSegment, HubIdle, Owed
    <3> QED
      BY <1>3, <3>2 DEF Feed!CaughtUp
  <2>6. ViewerStatus' = ViewerStatus
    BY <2>1, SameStatus
  <2>7. Feed!Publish(r, n)
    BY <2>1, <2>4, <2>5, <2>6 DEF Feed!Publish
  <2> QED
    BY <2>2, <2>3, <2>7 DEF Feed!Next
<1>7. ASSUME NEW c \in Conns, HubWrite(c) PROVE Feed!Next \/ UNCHANGED Feed!vars
  <2>1. /\ c \in job.pending /\ UNCHANGED <<rooms, link, pc, feed, joinedAt>>
        /\ seen' = IF link[c] = "open" /\ job.kind = "comment"
                   THEN [seen EXCEPT ![c] = Append(@, job.id)] ELSE seen
    BY <1>7 DEF HubWrite, hubVars, historyVars
  <2>2. ViewerStatus' = ViewerStatus
    BY <2>1, SameStatus
  <2>3. CASE link[c] = "open" /\ job.kind = "comment"
    <3>1. c \in rooms[RoomOf[c]]
      <4>1. c \in rooms[job.room] /\ job.room \in Rooms
        BY <1>t, <2>1 DEF RegisteredWhileHandled, Job
      <4> QED
        BY <4>1 DEF RegisteredWhileHandled
    <3>2. ViewerStatus[c] = "watching"
      BY <2>3, <3>1 DEF ViewerStatus
    <3>3. Append(seen[c], job.id) = Owed(c) /\ job.id \in Nat
      BY <1>t, <2>1, <2>3, <3>1 DEF SeenIsFeedSegment, Owed, Job
    <3> DEFINE s == seen[c]
               k == Len(feed[RoomOf[c]])
               j == joinedAt[c]
    <3>4. /\ s \in Seq(Nat) /\ Len(s) \in Nat /\ k \in Nat /\ j \in Nat
          /\ Len(Append(s, job.id)) = Len(s) + 1 /\ Append(s, job.id)[Len(s) + 1] = job.id
      BY <1>3, <3>3, AppendProperties
    <3>5. Len(s) + 1 = k - j
      BY <1>3, <3>3, <3>4
    <3>6. feed[RoomOf[c]][j + Len(s) + 1] = job.id
      <4>1. Len(s) + 1 \in 1 .. k - j /\ j + (Len(s) + 1) = j + Len(s) + 1
        <5> DEFINE m == Len(s)
        <5>1. m \in Nat /\ k \in Nat /\ j \in Nat /\ m + 1 = k - j
          BY <3>4, <3>5
        <5> HIDE DEF m, k, j
        <5> QED
          BY <5>1 DEF m
      <4>2. Owed(c)[Len(s) + 1] = feed[RoomOf[c]][j + (Len(s) + 1)]
        BY <1>3, <4>1
      <4> QED
        BY <3>3, <3>4, <4>1, <4>2
    <3>7. ~ Feed!CaughtUp(c)
      BY <3>4, <3>5 DEF Feed!CaughtUp
    <3>8. Feed!Receive(c)
      BY <2>1, <2>2, <2>3, <3>2, <3>6, <3>7 DEF Feed!Receive
    <3> QED
      BY <3>8 DEF Feed!Next
  <2>4. CASE ~ (link[c] = "open" /\ job.kind = "comment")
    BY <1>1, <2>1, <2>2, <2>4
  <2> QED
    BY <2>3, <2>4
<1>8. ASSUME NEW c \in Conns, Accept(c) PROVE UNCHANGED Feed!vars
  <2>1. /\ pc[c] = "new" /\ pc' = [pc EXCEPT ![c] = "registering"]
        /\ link' = [link EXCEPT ![c] = "open"] /\ UNCHANGED <<rooms, seen, feed, joinedAt>>
    BY <1>8 DEF Accept, hubVars, frameVars, historyVars
  <2>2. c \notin rooms[RoomOf[c]] /\ link[c] = "closed"
    BY <1>t, <2>1 DEF RegisteredWhileHandled, SocketInv, SocketOf
  <2>3. \A d \in Conns \ {c} : link'[d] = link[d] /\ pc'[d] = pc[d]
    BY <1>t, <2>1
  <2>4. ViewerStatus' = ViewerStatus
    BY <1>t, <2>1, <2>2, <2>3 DEF ViewerStatus
  <2> QED
    BY <1>1, <2>1, <2>4
<1>9. ASSUME NEW c \in Conns, Leave(c) PROVE Feed!Next \/ UNCHANGED Feed!vars
  <2>1. /\ link[c] = "open" /\ link' = [link EXCEPT ![c] = "closed"]
        /\ UNCHANGED <<rooms, pc, seen, feed, joinedAt>>
    BY <1>9 DEF Leave, hubVars, frameVars, historyVars
  <2>2. pc[c] # "new"
    BY <2>1 DEF SocketInv, SocketOf
  <2>3. ViewerStatus[c] # "gone"
    BY <2>1 DEF ViewerStatus
  <2>4. ViewerStatus' = [ViewerStatus EXCEPT ![c] = "gone"]
    BY <1>t, <2>1, <2>2 DEF ViewerStatus
  <2>5. Feed!Leave(c)
    BY <2>1, <2>3, <2>4 DEF Feed!Leave
  <2> QED
    BY <2>5 DEF Feed!Next
<1>10. ASSUME NEW h \in Handlers, NEW place, pc[h] # "new", place # "new",
              pc' = [pc EXCEPT ![h] = place], UNCHANGED <<feed, joinedAt, seen, link, rooms>>
       PROVE  UNCHANGED Feed!vars
  <2>1. \A d \in Conns : (pc'[d] = "new") <=> (pc[d] = "new")
    BY <1>t, <1>10
  <2> QED
    BY <1>2, <1>10, <2>1
<1>11. ASSUME NEW c \in Conns,
              \/ StoreFromSocket(c) \/ RefuseRequest(c) \/ ReplyError(c) \/ ReadFails(c)
       PROVE  UNCHANGED Feed!vars
  BY <1>t, <1>10, <1>11
     DEF StoreFromSocket, RefuseRequest, ReplyError, ReadFails, hubVars, frameVars, historyVars
<1>12. ASSUME NEW p \in Posters, NEW r \in Rooms, StoreFromPost(p, r) PROVE UNCHANGED Feed!vars
  BY <1>10, <1>12 DEF StoreFromPost, hubVars, frameVars, historyVars, Handlers
<1>13. ASSUME NEW h \in Handlers, SendComment(h) PROVE UNCHANGED Feed!vars
  BY <1>10, <1>13 DEF SendComment, hubVars, frameVars, historyVars
<1>14. ASSUME HubTakeProfile \/ (\E r \in Rooms : SendProfile(r)) \/ UNCHANGED vars
       PROVE  UNCHANGED Feed!vars
  BY <1>2, <1>14 DEF HubTakeProfile, SendProfile, vars, hubVars, frameVars, historyVars
<1>15. ASSUME NEW c \in Conns, Stall(c) \/ Resume(c) PROVE UNCHANGED Feed!vars
  BY <1>2, <1>15 DEF Stall, Resume, hubVars, frameVars, historyVars
<1> QED
  BY <1>4, <1>5, <1>6, <1>7, <1>8, <1>9, <1>11, <1>12, <1>13, <1>14, <1>15
     DEF Next, HubStep, HandlerStep, ClientStep

\* The hub, its channels and its handlers implement the feed of a room: a viewer
\* is sent what is published after it joined, in order, once, and in lockstep
\* with the others.
THEOREM FeedImplemented == Spec => ImplementsRoomFeed
<1>1. Init => FeedInv
  BY InitTypeInv, InitRegistered, InitSocket, InitSegment, InitPlaces, CommentHubAssumption
     DEF FeedInv, StoredBound, Init
<1>2. FeedInv /\ [Next]_vars => FeedInv'
  BY NextTypeInv, NextRegistered, NextSocket, NextSegment, NextPlaces, NextStoredBound DEF FeedInv
<1> QED
  BY <1>1, <1>2, InitFeed, NextFeed, PTL DEF Spec, ImplementsRoomFeed, Feed!Spec
-----------------------------------------------------------------------------
(* The order of the comments of one sender                                 *)

\* Senders are handlers, and every id that is anywhere is one of a stored comment.
KnownSenders ==
    /\ sender \in Seq(Handlers) /\ Len(sender) = Len(stored)
    /\ \A h \in Handlers : pc[h] = "broadcasting" => sender[held[h]] = h
    /\ \A c \in Conns : \A i \in DOMAIN seen[c] : seen[c][i] \in DOMAIN stored

\* What a handler holds comes after all it has sent, and what is in the channel after
\* what has been taken from it.
WayInOrder ==
    /\ \A r \in Rooms : InOrder(sender, feed[r])
    /\ InOrder(sender, broadcast)
    /\ \A r \in Rooms : \A i \in DOMAIN feed[r] : \A j \in DOMAIN broadcast :
          Precedes(sender, feed[r][i], broadcast[j])
    /\ \A h \in Handlers : pc[h] = "broadcasting" =>
          /\ \A j \in DOMAIN broadcast : Precedes(sender, broadcast[j], held[h])
          /\ \A r \in Rooms : \A i \in DOMAIN feed[r] : Precedes(sender, feed[r][i], held[h])

OrderInv == KnownSenders /\ WayInOrder /\ SendersOrderKept

\* One comment more, which comes after the others of its sender.
LEMMA OrderAppended ==
  ASSUME NEW by, NEW q \in Seq(Nat), NEW n \in Nat, InOrder(by, q),
         \A i \in DOMAIN q : Precedes(by, q[i], n)
  PROVE  InOrder(by, Append(q, n))
<1> SUFFICES ASSUME NEW i \in DOMAIN Append(q, n), NEW j \in DOMAIN Append(q, n), i < j
             PROVE  Precedes(by, Append(q, n)[i], Append(q, n)[j])
  BY DEF InOrder
<1> DEFINE k == Len(q)
           longer == Append(q, n)
<1>1. /\ k \in Nat /\ DOMAIN q = 1 .. k /\ DOMAIN longer = 1 .. k + 1
      /\ \A m \in 1 .. k : longer[m] = q[m]
      /\ longer[k + 1] = n
  BY AppendProperties
<1> HIDE DEF k, longer
<1>2. i \in 1 .. k /\ longer[i] = q[i]
  BY <1>1 DEF longer
<1>3. CASE j = k + 1
  BY <1>1, <1>2, <1>3 DEF longer
<1>4. CASE j \in 1 .. k
  <2>1. longer[j] = q[j]
    BY <1>1, <1>4
  <2>2. Precedes(by, q[i], q[j])
    BY <1>1, <1>2, <1>4 DEF InOrder
  <2> QED
    BY <1>2, <2>1, <2>2 DEF longer
<1>5. j \in 1 .. k \/ j = k + 1
  BY <1>1 DEF longer
<1> QED
  BY <1>3, <1>4, <1>5

\* One comment less, at either end.
LEMMA OrderLess ==
  ASSUME NEW by, NEW q \in Seq(Nat)
  PROVE  /\ InOrder(by, q) /\ q # <<>> => InOrder(by, Tail(q))
         /\ \A n \in Nat : InOrder(by, Append(q, n)) => InOrder(by, q)
<1>1. ASSUME InOrder(by, q), q # <<>> PROVE InOrder(by, Tail(q))
  <2> SUFFICES ASSUME NEW i \in DOMAIN Tail(q), NEW j \in DOMAIN Tail(q), i < j
               PROVE  Precedes(by, Tail(q)[i], Tail(q)[j])
    BY DEF InOrder
  <2>1. /\ i + 1 \in DOMAIN q /\ Tail(q)[i] = q[i + 1]
        /\ j + 1 \in DOMAIN q /\ Tail(q)[j] = q[j + 1]
    BY <1>1, HeadAndTail
  <2>2. i + 1 < j + 1
    OBVIOUS
  <2> QED
    BY <1>1, <2>1, <2>2 DEF InOrder
<1>2. ASSUME NEW n \in Nat, InOrder(by, Append(q, n)) PROVE InOrder(by, q)
  <2>1. DOMAIN q \subseteq DOMAIN Append(q, n) /\ \A i \in DOMAIN q : Append(q, n)[i] = q[i]
    OBVIOUS
  <2> HIDE DEF InOrder
  <2> QED
    BY <1>2, <2>1 DEF InOrder
<1> QED
  BY <1>1, <1>2

\* A segment of a feed that is in order.
LEMMA OrderOfSegment ==
  ASSUME NEW by, NEW q \in Seq(Nat), NEW j \in Nat, j <= Len(q), InOrder(by, q)
  PROVE  LET owed == SubSeq(q, j + 1, Len(q))
         IN  /\ InOrder(by, owed)
             /\ \A i \in DOMAIN owed : \E m \in DOMAIN q : owed[i] = q[m]
<1> DEFINE k == Len(q)
           owed == SubSeq(q, j + 1, k)
<1>1. k \in Nat /\ DOMAIN q = 1 .. k
  OBVIOUS
<1>2. owed \in Seq(Nat) /\ Len(owed) = k - j /\ \A i \in 1 .. k - j : owed[i] = q[j + i]
  BY SegmentElements
<1>3. DOMAIN owed = 1 .. k - j
  BY <1>2
<1> HIDE DEF k, owed
<1>4. \A i \in 1 .. k - j : j + i \in 1 .. k
  BY <1>1, j <= k DEF k
<1>5. InOrder(by, owed)
  <2> SUFFICES ASSUME NEW i \in 1 .. k - j, NEW m \in 1 .. k - j, i < m
               PROVE  Precedes(by, owed[i], owed[m])
    BY <1>3 DEF InOrder
  <2>1. j + i \in DOMAIN q /\ j + m \in DOMAIN q /\ j + i < j + m
    BY <1>1, <1>4
  <2> QED
    BY <1>2, <2>1 DEF InOrder
<1>6. \A i \in DOMAIN owed : \E m \in DOMAIN q : owed[i] = q[m]
  BY <1>1, <1>2, <1>3, <1>4
<1> QED
  BY <1>5, <1>6 DEF owed, k

\* A new sender at the end of the list leaves the order of known ids as it is.
LEMMA OrderWithNewSender ==
  ASSUME NEW S, NEW by \in Seq(S), NEW s \in S
  PROVE  /\ \A m, n \in DOMAIN by : Precedes(by, m, n) => Precedes(Append(by, s), m, n)
         /\ \A m \in DOMAIN by : Precedes(Append(by, s), m, Len(by) + 1)
         /\ \A q : (\A i \in DOMAIN q : q[i] \in DOMAIN by) /\ InOrder(by, q)
                      => InOrder(Append(by, s), q)
<1>1. \A m \in DOMAIN by : Append(by, s)[m] = by[m] /\ m < Len(by) + 1
  OBVIOUS
<1>2. \A m, n \in DOMAIN by : Precedes(by, m, n) => Precedes(Append(by, s), m, n)
  BY <1>1 DEF Precedes
<1>3. \A m \in DOMAIN by : Precedes(Append(by, s), m, Len(by) + 1)
  BY <1>1 DEF Precedes
<1> QED
  BY <1>2, <1>3 DEF InOrder
LEMMA InitOrder == OrderInit => OrderInv
BY CommentHubAssumption
   DEF OrderInit, Init, OrderInv, KnownSenders, WayInOrder, SendersOrderKept, InOrder, Handlers

LEMMA OrderStep == [OrderNext]_<<vars, sender>> => [Next]_vars
BY DEF OrderNext, Store, Next, HandlerStep

\* The steps that matter: a comment is stored, sent, taken and written.
LEMMA NextOrder ==
  TypeInv /\ RegisteredWhileHandled /\ SocketInv /\ SeenIsFeedSegment /\ PlacesInv /\ OrderInv
      /\ [OrderNext]_<<vars, sender>> => OrderInv'
<1> SUFFICES ASSUME TypeInv, RegisteredWhileHandled, SocketInv, SeenIsFeedSegment, PlacesInv,
                    OrderInv, [OrderNext]_<<vars, sender>>
             PROVE  OrderInv'
  OBVIOUS
<1> USE CommentHubAssumption
<1>t. /\ held \in [Handlers -> Nat] /\ pc \in [Handlers -> Places]
      /\ feed \in [Rooms -> Seq(Nat)] /\ broadcast \in Seq(Nat) /\ stored \in Seq(Rooms)
      /\ seen \in [Conns -> Seq(Nat)]
  BY DEF TypeInv, TypeOK
<1>k. /\ sender \in Seq(Handlers) /\ Len(sender) = Len(stored) /\ DOMAIN sender = DOMAIN stored
      /\ \A i \in DOMAIN broadcast : broadcast[i] \in DOMAIN stored
      /\ \A h \in Handlers : pc[h] = "broadcasting" => held[h] \in DOMAIN stored
      /\ \A r \in Rooms : \A i \in DOMAIN feed[r] : feed[r][i] \in DOMAIN stored
  <2>1. sender \in Seq(Handlers) /\ Len(sender) = Len(stored)
    BY DEF OrderInv, KnownSenders
  <2>2. DOMAIN sender = DOMAIN stored
    BY <1>t, <2>1, NewId
  <2> QED
    BY <2>1, <2>2 DEF TypeInv, CarriesStored, PlacesInv
\* Steps that move no comment.
<1>1. ASSUME UNCHANGED <<held, broadcast, feed, stored, sender, seen>>,
             \A h \in Handlers : pc'[h] = "broadcasting" => pc[h] = "broadcasting"
      PROVE  OrderInv'
  BY <1>1 DEF OrderInv, KnownSenders, WayInOrder, SendersOrderKept
\* A handler stores a comment: its id is greater than every other.
<1>2. ASSUME NEW h \in Handlers, NEW r \in Rooms,
             stored' = Append(stored, r), sender' = Append(sender, h),
             held' = [held EXCEPT ![h] = Len(stored) + 1],
             pc' = [pc EXCEPT ![h] = "broadcasting"],
             UNCHANGED <<broadcast, feed, seen>>
      PROVE  OrderInv'
  <2> DEFINE n == Len(stored) + 1
  <2>1. /\ DOMAIN stored' = DOMAIN stored \cup {n} /\ n \notin DOMAIN stored
        /\ sender' \in Seq(Handlers) /\ Len(sender') = Len(stored')
        /\ sender'[n] = h /\ \A m \in DOMAIN stored : sender'[m] = sender[m]
    <3>1. DOMAIN Append(stored, r) = DOMAIN stored \cup {n} /\ n \notin DOMAIN stored
      BY <1>t, NewId
    <3>2. /\ sender'[n] = h /\ \A m \in DOMAIN sender : sender'[m] = sender[m]
      <4>1. /\ Append(sender, h)[Len(sender) + 1] = h
            /\ \A m \in DOMAIN sender : Append(sender, h)[m] = sender[m]
        BY <1>k, NewId
      <4> QED
        BY <1>2, <1>k, <4>1
    <3>3. sender' \in Seq(Handlers) /\ Len(sender') = Len(stored')
      <4>1. Append(sender, h) \in Seq(Handlers) /\ Len(Append(sender, h)) = Len(sender) + 1
        BY <1>k, Appended
      <4>2. Len(Append(stored, r)) = Len(stored) + 1
        BY <1>t, Appended
      <4> QED
        BY <1>2, <1>k, <4>1, <4>2
    <3> QED
      BY <1>2, <1>k, <3>1, <3>2, <3>3
  <2>2. /\ \A m, l \in DOMAIN stored : Precedes(sender, m, l) => Precedes(sender', m, l)
        /\ \A m \in DOMAIN stored : Precedes(sender', m, n)
        /\ \A q : (\A i \in DOMAIN q : q[i] \in DOMAIN stored) /\ InOrder(sender, q)
                      => InOrder(sender', q)
    BY <1>2, <1>k, OrderWithNewSender
  <2>3. /\ held'[h] = n /\ \A g \in Handlers : g # h => held'[g] = held[g] /\ pc'[g] = pc[g]
    BY <1>2, <1>t
  <2> HIDE DEF n
  <2>4. KnownSenders'
    <3>1. ASSUME NEW g \in Handlers, pc'[g] = "broadcasting" PROVE sender'[held'[g]] = g
      <4>1. CASE g = h
        BY <2>1, <2>3, <4>1
      <4>2. CASE g # h
        <5>1. pc[g] = "broadcasting" /\ held'[g] = held[g] /\ held[g] \in DOMAIN stored
          BY <1>k, <2>3, <3>1, <4>2
        <5> QED
          BY <2>1, <5>1 DEF OrderInv, KnownSenders
      <4> QED
        BY <4>1, <4>2
    <3>2. \A c \in Conns : \A i \in DOMAIN seen'[c] : seen'[c][i] \in DOMAIN stored'
      BY <1>2, <2>1 DEF OrderInv, KnownSenders
    <3> QED
      BY <2>1, <3>1, <3>2 DEF KnownSenders
  <2>5. WayInOrder'
    <3>1. \A q \in Rooms : InOrder(sender', feed[q])
      BY <1>k, <2>2 DEF OrderInv, WayInOrder
    <3>2. InOrder(sender', broadcast)
      BY <1>k, <2>2 DEF OrderInv, WayInOrder
    <3>3. \A q \in Rooms : \A i \in DOMAIN feed[q] : \A j \in DOMAIN broadcast :
             Precedes(sender', feed[q][i], broadcast[j])
      BY <1>k, <2>2 DEF OrderInv, WayInOrder
    <3>4. ASSUME NEW g \in Handlers, pc'[g] = "broadcasting"
          PROVE  /\ \A j \in DOMAIN broadcast : Precedes(sender', broadcast[j], held'[g])
                 /\ \A q \in Rooms : \A i \in DOMAIN feed[q] :
                       Precedes(sender', feed[q][i], held'[g])
      <4>1. CASE g = h
        BY <1>k, <2>2, <2>3, <4>1
      <4>2. CASE g # h
        <5>1. pc[g] = "broadcasting" /\ held'[g] = held[g]
          BY <2>3, <3>4, <4>2
        <5> QED
          BY <1>k, <2>2, <5>1 DEF OrderInv, WayInOrder
      <4> QED
        BY <4>1, <4>2
    <3> QED
      BY <1>2, <3>1, <3>2, <3>3, <3>4 DEF WayInOrder
  <2>6. SendersOrderKept'
    BY <1>2, <2>2 DEF OrderInv, KnownSenders, SendersOrderKept
  <2> QED
    BY <2>4, <2>5, <2>6 DEF OrderInv
\* The channel takes the comment of a handler.
<1>3. ASSUME NEW h \in Handlers, SendComment(h), UNCHANGED sender PROVE OrderInv'
  <2>1. /\ pc[h] = "broadcasting"
        /\ broadcast' = Append(broadcast, held[h])
        /\ held' = [held EXCEPT ![h] = 0]
        /\ \A g \in Handlers : pc'[g] = "broadcasting" =>
              g # h /\ pc[g] = "broadcasting" /\ held'[g] = held[g]
        /\ UNCHANGED <<feed, seen, stored>>
    BY <1>3, <1>t DEF SendComment, storeVars, frameVars, historyVars
  <2> DEFINE n == held[h]
  <2>2. n \in Nat /\ sender[n] = h /\ n \in DOMAIN stored
    BY <1>t, <1>k, <2>1 DEF OrderInv, KnownSenders
  <2>3. \A j \in DOMAIN broadcast' : broadcast'[j] = n \/ \E i \in DOMAIN broadcast :
           broadcast'[j] = broadcast[i]
    <3> HIDE DEF n
    <3>1. \A j \in DOMAIN Append(broadcast, n) :
             \/ j \in DOMAIN broadcast /\ Append(broadcast, n)[j] = broadcast[j]
             \/ Append(broadcast, n)[j] = n
      BY <1>t, <2>2, Appended
    <3> QED
      BY <2>1, <3>1 DEF n
  <2> HIDE DEF n
  <2>4. KnownSenders'
    BY <1>3, <2>1 DEF OrderInv, KnownSenders
  <2>5. /\ \A j \in DOMAIN broadcast : Precedes(sender, broadcast[j], n)
        /\ \A r \in Rooms : \A i \in DOMAIN feed[r] : Precedes(sender, feed[r][i], n)
    BY <2>1 DEF OrderInv, WayInOrder, n
  <2>6. InOrder(sender, broadcast')
    <3>1. InOrder(sender, Append(broadcast, n))
      BY <1>t, <2>2, <2>5, OrderAppended DEF OrderInv, WayInOrder
    <3> QED
      BY <2>1, <3>1 DEF n
  <2>7. \A r \in Rooms : \A i \in DOMAIN feed[r] : \A j \in DOMAIN broadcast' :
           Precedes(sender, feed[r][i], broadcast'[j])
    BY <2>3, <2>5 DEF OrderInv, WayInOrder
  <2>8. ASSUME NEW g \in Handlers, pc'[g] = "broadcasting"
        PROVE  /\ \A j \in DOMAIN broadcast' : Precedes(sender, broadcast'[j], held'[g])
               /\ \A r \in Rooms : \A i \in DOMAIN feed[r] :
                     Precedes(sender, feed[r][i], held'[g])
    <3>1. g # h /\ pc[g] = "broadcasting" /\ held'[g] = held[g]
      BY <2>1, <2>8
    <3>2. Precedes(sender, n, held[g])
      BY <2>2, <3>1 DEF OrderInv, KnownSenders, Precedes
    <3> QED
      BY <2>3, <3>1, <3>2 DEF OrderInv, WayInOrder
  <2>9. WayInOrder' /\ SendersOrderKept'
    BY <1>3, <2>1, <2>6, <2>7, <2>8 DEF OrderInv, WayInOrder, SendersOrderKept
  <2> QED
    BY <2>4, <2>9 DEF OrderInv
\* The hub takes a comment from the channel.
<1>4. ASSUME HubTakeComment, UNCHANGED sender PROVE OrderInv'
  <2> DEFINE n == Head(broadcast)
             r == stored[n]
  <2>1. n \in DOMAIN stored /\ n \in Nat /\ r \in Rooms
    BY <1>4, TakenIsStored
  <2>2. /\ broadcast # <<>> /\ broadcast' = Tail(broadcast)
        /\ feed' = [feed EXCEPT ![r] = Append(@, n)]
        /\ UNCHANGED <<pc, held, seen, stored>>
    BY <1>4 DEF HubTakeComment, storeVars, frameVars
  <2>3. /\ 1 \in DOMAIN broadcast /\ n = broadcast[1]
        /\ \A i \in DOMAIN Tail(broadcast) :
              i + 1 \in DOMAIN broadcast /\ Tail(broadcast)[i] = broadcast[i + 1] /\ 1 < i + 1
    BY <1>t, <2>2, HeadAndTail
  <2> HIDE DEF n, r
  <2>4. feed'[r] = Append(feed[r], n) /\ \A q \in Rooms : q # r => feed'[q] = feed[q]
    BY <1>t, <2>1, <2>2
  <2>5. \A q \in Rooms : \A i \in DOMAIN feed'[q] :
           feed'[q][i] = n \/ \E m \in DOMAIN feed[q] : feed'[q][i] = feed[q][m]
    <3>1. \A i \in DOMAIN Append(feed[r], n) :
             \/ i \in DOMAIN feed[r] /\ Append(feed[r], n)[i] = feed[r][i]
             \/ Append(feed[r], n)[i] = n
      BY <1>t, <2>1, Appended
    <3> QED
      BY <2>4, <3>1
  <2>6. \A j \in DOMAIN broadcast' : /\ Precedes(sender, n, broadcast'[j])
                                     /\ \E i \in DOMAIN broadcast : broadcast'[j] = broadcast[i]
    BY <2>2, <2>3 DEF OrderInv, WayInOrder, InOrder
  <2>7. InOrder(sender, broadcast')
    BY <1>t, <2>2, OrderLess DEF OrderInv, WayInOrder
  <2>8. \A q \in Rooms : InOrder(sender, feed'[q])
    <3>1. feed[r] \in Seq(Nat) /\ InOrder(sender, feed[r])
          /\ \A i \in DOMAIN feed[r] : Precedes(sender, feed[r][i], n)
      BY <1>t, <2>1, <2>3 DEF OrderInv, WayInOrder
    <3>2. InOrder(sender, Append(feed[r], n))
      BY <2>1, <3>1, OrderAppended
    <3> QED
      BY <2>4, <3>2 DEF OrderInv, WayInOrder
  <2>9. \A q \in Rooms : \A i \in DOMAIN feed'[q] : \A j \in DOMAIN broadcast' :
           Precedes(sender, feed'[q][i], broadcast'[j])
    BY <2>5, <2>6 DEF OrderInv, WayInOrder
  <2>10. ASSUME NEW g \in Handlers, pc'[g] = "broadcasting"
         PROVE  /\ \A j \in DOMAIN broadcast' : Precedes(sender, broadcast'[j], held'[g])
                /\ \A q \in Rooms : \A i \in DOMAIN feed'[q] :
                      Precedes(sender, feed'[q][i], held'[g])
    <3>1. pc[g] = "broadcasting" /\ held'[g] = held[g]
      BY <2>2, <2>10
    <3> QED
      BY <2>3, <2>5, <2>6, <3>1 DEF OrderInv, WayInOrder
  <2>11. KnownSenders'
    BY <1>4, <2>2 DEF OrderInv, KnownSenders
  <2>12. WayInOrder' /\ SendersOrderKept'
    BY <1>4, <2>2, <2>7, <2>8, <2>9, <2>10 DEF OrderInv, WayInOrder, SendersOrderKept
  <2> QED
    BY <2>11, <2>12 DEF OrderInv
\* A frame is written: what the viewer has been sent is a segment of its feed.
<1>5. ASSUME NEW c \in Conns, HubWrite(c), UNCHANGED sender PROVE OrderInv'
  <2>1. UNCHANGED <<held, pc, broadcast, feed, stored, rooms, link, joinedAt>> /\ c \in job.pending
    BY <1>5 DEF HubWrite, hubVars, channelVars, storeVars, historyVars
  <2>2. CASE seen' = seen
    BY <1>1, <1>5, <2>1, <2>2
  <2>3. CASE /\ link[c] = "open" /\ job.kind = "comment"
             /\ seen' = [seen EXCEPT ![c] = Append(@, job.id)]
    <3>1. c \in rooms[RoomOf[c]]
      BY <2>1 DEF RegisteredWhileHandled, TypeInv, TypeOK, Job
    <3>2. seen'[c] = Owed(c)
      <4>1. SegmentOf(c)
        BY SegmentByConnection
      <4> QED
        BY <1>t, <2>1, <2>3, <3>1, <4>1 DEF SegmentOf
    <3>3. /\ RoomOf[c] \in Rooms /\ feed[RoomOf[c]] \in Seq(Nat) /\ joinedAt[c] \in Nat
          /\ joinedAt[c] <= Len(feed[RoomOf[c]])
      BY DEF SocketInv, SocketOf, TypeInv, TypeOK
    <3>4. /\ InOrder(sender, Owed(c))
          /\ \A i \in DOMAIN Owed(c) : \E m \in DOMAIN feed[RoomOf[c]] :
                Owed(c)[i] = feed[RoomOf[c]][m]
      <4>1. InOrder(sender, feed[RoomOf[c]])
        BY <3>3 DEF OrderInv, WayInOrder
      <4> DEFINE q == feed[RoomOf[c]]
                 k == joinedAt[c]
      <4>2. q \in Seq(Nat) /\ k \in Nat /\ k <= Len(q) /\ InOrder(sender, q)
        BY <3>3, <4>1
      <4>3. Owed(c) = SubSeq(q, k + 1, Len(q))
        BY DEF Owed
      <4> HIDE DEF q, k
      <4>4. /\ InOrder(sender, SubSeq(q, k + 1, Len(q)))
            /\ \A i \in DOMAIN SubSeq(q, k + 1, Len(q)) : \E m \in DOMAIN q :
                  SubSeq(q, k + 1, Len(q))[i] = q[m]
        BY <4>2, OrderOfSegment, Zenon
      <4> QED
        BY <4>3, <4>4, Zenon DEF q
    <3>5. \A d \in Conns : d # c => seen'[d] = seen[d]
      BY <1>t, <2>3
    <3>6. /\ \A d \in Conns : InOrder(sender, seen'[d])
          /\ \A d \in Conns : \A i \in DOMAIN seen'[d] : seen'[d][i] \in DOMAIN stored
      BY <1>k, <3>2, <3>3, <3>4, <3>5 DEF OrderInv, KnownSenders, SendersOrderKept
    <3> QED
      BY <1>5, <2>1, <3>6 DEF OrderInv, KnownSenders, WayInOrder, SendersOrderKept
  <2> QED
    BY <1>5, <2>2, <2>3 DEF HubWrite
<1>6. ASSUME NEW c \in Conns, StoreFromSocket(c), sender' = Append(sender, c) PROVE OrderInv'
  <2>1. c \in Handlers /\ RoomOf[c] \in Rooms
    BY DEF Handlers
  <2> QED
    BY <1>2, <1>6, <2>1 DEF StoreFromSocket, channelVars, frameVars, historyVars
<1>7. ASSUME NEW p \in Posters, NEW r \in Rooms, StoreFromPost(p, r), sender' = Append(sender, p)
      PROVE  OrderInv'
  <2>1. p \in Handlers
    BY DEF Handlers
  <2> QED
    BY <1>2, <1>7, <2>1 DEF StoreFromPost, channelVars, frameVars, historyVars
<1>8. ASSUME Next, stored' = stored, UNCHANGED sender PROVE OrderInv'
  <2>1. ASSUME NEW c \in Conns,
               \/ HubRegister(c) \/ HubUnregister(c) \/ Accept(c) \/ RefuseRequest(c)
               \/ ReplyError(c) \/ ReadFails(c) \/ Stall(c) \/ Resume(c) \/ Leave(c)
        PROVE  OrderInv'
    <3>1. /\ UNCHANGED <<held, broadcast, feed, seen>>
          /\ \E at : at # "broadcasting" /\ (pc' = pc \/ pc' = [pc EXCEPT ![c] = at])
      <4>1. CASE HubRegister(c) \/ HubUnregister(c)
        BY <4>1 DEF HubRegister, HubUnregister, channelVars, frameVars, historyVars
      <4>2. CASE Accept(c) \/ RefuseRequest(c) \/ ReplyError(c) \/ ReadFails(c)
        BY <4>2 DEF Accept, RefuseRequest, ReplyError, ReadFails,
                    channelVars, frameVars, historyVars
      <4>3. CASE Stall(c) \/ Resume(c) \/ Leave(c)
        BY <4>3 DEF Stall, Resume, Leave, channelVars, frameVars, historyVars
      <4> QED
        BY <2>1, <4>1, <4>2, <4>3
    <3> QED
      BY <1>t, <1>1, <1>8, <3>1
  <2>2. ASSUME HubTakeProfile \/ \E r \in Rooms : SendProfile(r) PROVE OrderInv'
    BY <1>1, <1>8, <2>2 DEF HubTakeProfile, SendProfile, frameVars, historyVars
  <2>3. ~ \E c \in Conns : StoreFromSocket(c)
    BY <1>t, <1>8 DEF StoreFromSocket
  <2>4. ~ \E p \in Posters, r \in Rooms : StoreFromPost(p, r)
    BY <1>t, <1>8 DEF StoreFromPost
  <2> QED
    BY <1>3, <1>4, <1>5, <1>8, <2>1, <2>2, <2>3, <2>4 DEF Next, HubStep, HandlerStep, ClientStep
<1>9. CASE UNCHANGED <<vars, sender>>
  BY <1>1, <1>9 DEF vars, channelVars, storeVars, frameVars, historyVars
<1> QED
  BY <1>6, <1>7, <1>8, <1>9 DEF OrderNext, Store

\* Every viewer is sent the comments of one sender in the order they were stored, for any
\* number of handlers and any capacity of the channel.
THEOREM SendersInOrder == OrderSpec => []SendersOrderKept
<1>1. OrderInv => SendersOrderKept
  BY DEF OrderInv
<1>2. OrderInit => Init
  BY DEF OrderInit
<1> QED
  BY <1>1, <1>2, InitTypeInv, NextTypeInv, InitRegistered, NextRegistered, InitSocket, NextSocket,
     InitSegment, NextSegment, InitPlaces, NextPlaces, InitOrder, NextOrder, OrderStep, PTL
     DEF OrderSpec
=============================================================================

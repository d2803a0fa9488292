----------------------------- MODULE CommentHub -----------------------------
(***************************************************************************)
(* The comment hub of the backend (backend/internal/comment/hub.go) with   *)
(* the request handlers that talk to it over its four channels             *)
(* (backend/internal/httpapi/comment_handlers.go and profile_handlers.go). *)
(*                                                                         *)
(* One goroutine, Hub.Run, owns the set of registered connections.  It     *)
(* takes one message at a time from its channels and writes the resulting  *)
(* frame to each connection of the room in turn, in no fixed order (a Go   *)
(* map is iterated), before it looks at its channels again.  register and  *)
(* unregister are unbuffered: the handler and the hub meet in one step.    *)
(* broadcast and profile are buffered: a send blocks while they are full.  *)
(*                                                                         *)
(* A connection is accepted for one room and one subject, so RoomOf and    *)
(* SubjectOf are constants.  The hub writes without a deadline: a write to *)
(* a client that has stopped reading stays pending, and the hub with it,   *)
(* until that client reads on or its connection breaks.                    *)
(***************************************************************************)
EXTENDS Naturals, Sequences, FiniteSets

CONSTANTS
    Conns,          \* WebSocket connections, each accepted at most once
    Posters,        \* goroutines serving POST /api/rooms/{id}/comments
    Rooms,          \* room ids in use
    Subjects,       \* authenticated subjects
    RoomOf,         \* the room a connection was opened for
    SubjectOf,      \* the subject a connection was opened by
    Slow,           \* bound: the connections whose client may stop reading
    BroadcastCap,   \* capacity of the broadcast channel (256 in the code)
    ProfileCap,     \* capacity of the profile channel (32 in the code)
    MaxComments,    \* bound: comments created in a behaviour
    MaxProfiles     \* bound: owner profile updates in a behaviour

ASSUME CommentHubAssumption ==
    /\ IsFiniteSet(Conns) /\ IsFiniteSet(Subjects) /\ Rooms # {}
    /\ Conns \cap Posters = {}
    /\ RoomOf \in [Conns -> Rooms]
    /\ SubjectOf \in [Conns -> Subjects]
    /\ Slow \subseteq Conns
    /\ BroadcastCap \in Nat \ {0} /\ ProfileCap \in Nat \ {0}
    /\ MaxComments \in Nat /\ MaxProfiles \in Nat

VARIABLES
    rooms,          \* Hub.rooms: the registered connections of each room
    viewers,        \* Hub.viewers: connections per room and subject, 0 is absent
    peaks,          \* Hub.peaks
    job,            \* the frame Hub.Run is writing and the connections left
    broadcast,      \* Hub.broadcast: ids of comments waiting for the hub
    profile,        \* Hub.profile: owner profile updates waiting for the hub
    pc,             \* where the handler of a connection or a poster is
    held,           \* the comment a handler has stored and not yet broadcast
    link,           \* state of a connection's socket, seen from the server
    stalled,        \* connections with full buffers, whose client reads no more
    stored,         \* the comments table: the room of the n-th comment created
    seen,           \* ids of the comment frames written to a connection, in order
    presence,       \* the last presence frame written to a connection
    shownProfile,   \* the last owner profile written to a connection
    profileCount,   \* number of owner profile updates sent to the hub
    feed,           \* history: comments the hub took for each room, in order
    joinedAt        \* history: length of the room's feed when a live client was registered

hubVars     == <<rooms, viewers, peaks>>
channelVars == <<broadcast, profile>>
storeVars   == <<stored, profileCount>>
frameVars   == <<seen, presence, shownProfile>>
historyVars == <<feed, joinedAt>>
vars == <<hubVars, job, channelVars, pc, held, link, stalled, storeVars, frameVars, historyVars>>

Handlers == Conns \cup Posters

-----------------------------------------------------------------------------
(* Frames and jobs *)

NoPresence == [count |-> 0, peak |-> 0]

\* Hub.Run waiting in its select.
NoJob == [kind |-> "none", room |-> CHOOSE r \in Rooms : TRUE, id |-> 0,
          frame |-> NoPresence, pending |-> {}]

\* The write loop over a copy of the room's connections; no loop if it is empty.
StartJob(kind, r, id, frame, targets) ==
    job' = IF targets = {}
           THEN NoJob
           ELSE [kind |-> kind, room |-> r, id |-> id, frame |-> frame, pending |-> targets]

\* Mutant: the hub takes its next message while frames are being written.
HubAlwaysIdle == TRUE

HubIdle == job.pending = {}

\* len(h.viewers[roomID])
ViewerCount(v, r) == Cardinality({s \in Subjects : v[r][s] > 0})

\* Mutant: the subject is dropped with its first closed connection.
ForgetViewer(v, r, s) == [v EXCEPT ![r][s] = 0]

\* decrementViewer: an entry that falls to zero is deleted.
DecrementViewer(v, r, s) == [v EXCEPT ![r][s] = IF @ > 1 THEN @ - 1 ELSE 0]

UpdatePeak(r, count) == [peaks EXCEPT ![r] = IF count > @ THEN count ELSE @]

\* Mutant: a buffered channel takes one message too many.
HasSpaceOrIsFull(channel, cap) == Len(channel) <= cap

\* A buffered channel takes a send while it holds fewer messages than its capacity.
HasSpace(channel, cap) == Len(channel) < cap

-----------------------------------------------------------------------------
Init ==
    /\ rooms = [r \in Rooms |-> {}]
    /\ viewers = [r \in Rooms |-> [s \in Subjects |-> 0]]
    /\ peaks = [r \in Rooms |-> 0]
    /\ job = NoJob
    /\ broadcast = <<>>
    /\ profile = <<>>
    /\ pc = [h \in Handlers |-> IF h \in Conns THEN "new" ELSE "idle"]
    /\ held = [h \in Handlers |-> 0]
    /\ link = [c \in Conns |-> "closed"]
    /\ stalled = {}
    /\ stored = <<>>
    /\ seen = [c \in Conns |-> <<>>]
    /\ presence = [c \in Conns |-> NoPresence]
    /\ shownProfile = [c \in Conns |-> 0]
    /\ profileCount = 0
    /\ feed = [r \in Rooms |-> <<>>]
    /\ joinedAt = [c \in Conns |-> 0]

-----------------------------------------------------------------------------
(* Hub.Run: one case of its select, and the writes that follow it *)

HubRegister(c) ==
    LET r == RoomOf[c]
        s == SubjectOf[c]
        uncounted == IF c \in rooms[r] THEN DecrementViewer(viewers, r, s) ELSE viewers
        counted == [uncounted EXCEPT ![r][s] = @ + 1]
        count == ViewerCount(counted, r)
    IN  /\ HubIdle
        /\ pc[c] = "registering"
        /\ rooms' = [rooms EXCEPT ![r] = @ \cup {c}]
        /\ viewers' = counted
        /\ peaks' = UpdatePeak(r, count)
        /\ StartJob("presence", r, 0, [count |-> count, peak |-> peaks'[r]], rooms'[r])
        /\ pc' = [pc EXCEPT ![c] = "reading"]
        /\ joinedAt' = IF link[c] = "closed" THEN joinedAt
                       ELSE [joinedAt EXCEPT ![c] = Len(feed[r])]
        /\ UNCHANGED <<channelVars, held, link, stalled, storeVars, frameVars, feed>>

\* Mutant: the others are not told that a viewer left.
HubUnregisterSilently(c) ==
    LET r == RoomOf[c]
    IN  /\ HubIdle
        /\ pc[c] = "unregistering"
        /\ rooms' = [rooms EXCEPT ![r] = @ \ {c}]
        /\ viewers' = DecrementViewer(viewers, r, SubjectOf[c])
        /\ pc' = [pc EXCEPT ![c] = "done"]
        /\ UNCHANGED <<peaks, job, channelVars, held, link, stalled, storeVars, frameVars, historyVars>>

\* The returned count is the remaining one whether or not the connection was known.
HubUnregister(c) ==
    LET r == RoomOf[c]
        known == c \in rooms[r]
        remaining == IF known THEN DecrementViewer(viewers, r, SubjectOf[c]) ELSE viewers
    IN  /\ HubIdle
        /\ pc[c] = "unregistering"
        /\ rooms' = [rooms EXCEPT ![r] = @ \ {c}]
        /\ viewers' = remaining
        /\ StartJob("presence", r, 0,
                    [count |-> ViewerCount(remaining, r), peak |-> peaks[r]], rooms'[r])
        /\ pc' = [pc EXCEPT ![c] = "done"]
        /\ UNCHANGED <<peaks, channelVars, held, link, stalled, storeVars, frameVars, historyVars>>

\* Mutant: a comment goes to the connections of every room.
HubTakeCommentForAll ==
    /\ HubIdle
    /\ broadcast # <<>>
    /\ LET n == Head(broadcast)
           r == stored[n]
       IN  /\ StartJob("comment", r, n, NoPresence, UNION {rooms[q] : q \in Rooms})
           /\ feed' = [feed EXCEPT ![r] = Append(@, n)]
    /\ broadcast' = Tail(broadcast)
    /\ UNCHANGED <<hubVars, profile, pc, held, link, stalled, storeVars, frameVars, joinedAt>>

HubTakeComment ==
    /\ HubIdle
    /\ broadcast # <<>>
    /\ LET n == Head(broadcast)
           r == stored[n]
       IN  /\ StartJob("comment", r, n, NoPresence, rooms[r])
           /\ feed' = [feed EXCEPT ![r] = Append(@, n)]
    /\ broadcast' = Tail(broadcast)
    /\ UNCHANGED <<hubVars, profile, pc, held, link, stalled, storeVars, frameVars, joinedAt>>

HubTakeProfile ==
    /\ HubIdle
    /\ profile # <<>>
    /\ LET msg == Head(profile)
       IN  StartJob("profile", msg.room, msg.version, NoPresence, rooms[msg.room])
    /\ profile' = Tail(profile)
    /\ UNCHANGED <<hubVars, broadcast, pc, held, link, stalled, storeVars, frameVars, historyVars>>

\* Mutant: a write to a broken connection does not return.
HubWriteWhenOpen(c) ==
    /\ c \in job.pending \ stalled
    /\ link[c] = "open"
    /\ StartJob(job.kind, job.room, job.id, job.frame, job.pending \ {c})
    /\ UNCHANGED <<hubVars, channelVars, pc, held, link, stalled, storeVars, frameVars, historyVars>>

\* wsjsonWrite returns: the frame is on the socket, or the write failed and the
\* error is dropped.  It does not return while the client's buffers are full.
HubWrite(c) ==
    LET written == link[c] = "open"
    IN  /\ c \in job.pending \ stalled
        /\ StartJob(job.kind, job.room, job.id, job.frame, job.pending \ {c})
        /\ seen' = IF written /\ job.kind = "comment"
                   THEN [seen EXCEPT ![c] = Append(@, job.id)] ELSE seen
        /\ presence' = IF written /\ job.kind = "presence"
                       THEN [presence EXCEPT ![c] = job.frame] ELSE presence
        /\ shownProfile' = IF written /\ job.kind = "profile"
                           THEN [shownProfile EXCEPT ![c] = job.id] ELSE shownProfile
        /\ UNCHANGED <<hubVars, channelVars, pc, held, link, stalled, storeVars, historyVars>>

-----------------------------------------------------------------------------
(* handleCommentWebSocket, one goroutine per connection *)

\* websocket.Accept succeeded; the handler is in Hub.Register.
Accept(c) ==
    /\ pc[c] = "new"
    /\ pc' = [pc EXCEPT ![c] = "registering"]
    /\ link' = [link EXCEPT ![c] = "open"]
    /\ UNCHANGED <<hubVars, job, channelVars, held, stalled, storeVars, frameVars, historyVars>>

\* Mutant: the comment may be broadcast by a goroutine of its own, a handler that is free.
StoreAndReadOn(c) ==
    /\ pc[c] = "reading"
    /\ Len(stored) < MaxComments
    /\ stored' = Append(stored, RoomOf[c])
    /\ \E h \in {c} \cup {g \in Handlers : pc[g] \in {"new", "idle", "done"}} :
          /\ held' = [held EXCEPT ![h] = Len(stored) + 1]
          /\ pc' = [pc EXCEPT ![h] = "broadcasting"]
    /\ UNCHANGED <<hubVars, job, channelVars, link, stalled, profileCount, frameVars, historyVars>>

\* A request was read, passed the limiter and validation, and was inserted.
StoreFromSocket(c) ==
    /\ pc[c] = "reading"
    /\ Len(stored) < MaxComments
    /\ stored' = Append(stored, RoomOf[c])
    /\ held' = [held EXCEPT ![c] = Len(stored) + 1]
    /\ pc' = [pc EXCEPT ![c] = "broadcasting"]
    /\ UNCHANGED <<hubVars, job, channelVars, link, stalled, profileCount, frameVars, historyVars>>

\* A request was read and refused: the handler answers on the same socket.
RefuseRequest(c) ==
    /\ pc[c] = "reading"
    /\ pc' = [pc EXCEPT ![c] = "replying"]
    /\ UNCHANGED <<hubVars, job, channelVars, held, link, stalled, storeVars, frameVars, historyVars>>

ReplyError(c) ==
    /\ pc[c] = "replying"
    /\ c \notin stalled
    /\ pc' = [pc EXCEPT ![c] = "reading"]
    /\ UNCHANGED <<hubVars, job, channelVars, held, link, stalled, storeVars, frameVars, historyVars>>

\* Mutant: the handler returns without its deferred Unregister.
ReadFailsAndReturns(c) ==
    /\ pc[c] = "reading"
    /\ link[c] = "closed"
    /\ pc' = [pc EXCEPT ![c] = "done"]
    /\ UNCHANGED <<hubVars, job, channelVars, held, link, stalled, storeVars, frameVars, historyVars>>

\* wsjson.Read fails: the handler returns into its deferred Hub.Unregister.
ReadFails(c) ==
    /\ pc[c] = "reading"
    /\ link[c] = "closed"
    /\ pc' = [pc EXCEPT ![c] = "unregistering"]
    /\ UNCHANGED <<hubVars, job, channelVars, held, link, stalled, storeVars, frameVars, historyVars>>

-----------------------------------------------------------------------------
(* handleCreateComment, and the send both handlers end with *)

StoreFromPost(p, r) ==
    /\ pc[p] = "idle"
    /\ Len(stored) < MaxComments
    /\ stored' = Append(stored, r)
    /\ held' = [held EXCEPT ![p] = Len(stored) + 1]
    /\ pc' = [pc EXCEPT ![p] = "broadcasting"]
    /\ UNCHANGED <<hubVars, job, channelVars, link, stalled, profileCount, frameVars, historyVars>>

\* Mutant: a comment that finds the channel full is dropped.
SendCommentOrDrop(h) ==
    /\ pc[h] = "broadcasting"
    /\ broadcast' = IF HasSpace(broadcast, BroadcastCap)
                    THEN Append(broadcast, held[h]) ELSE broadcast
    /\ held' = [held EXCEPT ![h] = 0]
    /\ pc' = [pc EXCEPT ![h] = IF h \in Conns THEN "reading" ELSE "idle"]
    /\ UNCHANGED <<hubVars, job, profile, link, stalled, storeVars, frameVars, historyVars>>

\* Hub.Broadcast: the send completes when the channel has room.
SendComment(h) ==
    /\ pc[h] = "broadcasting"
    /\ HasSpace(broadcast, BroadcastCap)
    /\ broadcast' = Append(broadcast, held[h])
    /\ held' = [held EXCEPT ![h] = 0]
    /\ pc' = [pc EXCEPT ![h] = IF h \in Conns THEN "reading" ELSE "idle"]
    /\ UNCHANGED <<hubVars, job, profile, link, stalled, storeVars, frameVars, historyVars>>

\* broadcastOwnerProfileUpdate of handleUpdateMe, for the owner of room r.
SendProfile(r) ==
    /\ profileCount < MaxProfiles
    /\ HasSpace(profile, ProfileCap)
    /\ profileCount' = profileCount + 1
    /\ profile' = Append(profile, [room |-> r, version |-> profileCount + 1])
    /\ UNCHANGED <<hubVars, job, broadcast, pc, held, link, stalled, stored, frameVars, historyVars>>

-----------------------------------------------------------------------------
(* The client's end of the socket *)

\* The client reads no more and the socket's buffers have filled up; its system still
\* acknowledges, so nothing breaks the connection.
Stall(c) ==
    /\ c \in Slow \ (stalled \cup job.pending)
    /\ link[c] = "open"
    /\ stalled' = stalled \cup {c}
    /\ UNCHANGED <<hubVars, job, channelVars, pc, held, link, storeVars, frameVars, historyVars>>

\* It reads on.
Resume(c) ==
    /\ c \in stalled
    /\ stalled' = stalled \ {c}
    /\ UNCHANGED <<hubVars, job, channelVars, pc, held, link, storeVars, frameVars, historyVars>>

\* The connection breaks or is closed: what was being written to it fails.
Leave(c) ==
    /\ link[c] = "open"
    /\ link' = [link EXCEPT ![c] = "closed"]
    /\ stalled' = stalled \ {c}
    /\ UNCHANGED <<hubVars, job, channelVars, pc, held, storeVars, frameVars, historyVars>>

-----------------------------------------------------------------------------
HubStep ==
    \/ \E c \in Conns : HubRegister(c) \/ HubUnregister(c) \/ HubWrite(c)
    \/ HubTakeComment
    \/ HubTakeProfile

HandlerStep ==
    \/ \E c \in Conns : \/ Accept(c) \/ StoreFromSocket(c) \/ RefuseRequest(c)
                        \/ ReplyError(c) \/ ReadFails(c)
    \/ \E p \in Posters, r \in Rooms : StoreFromPost(p, r)
    \/ \E h \in Handlers : SendComment(h)
    \/ \E r \in Rooms : SendProfile(r)

ClientStep == \E c \in Conns : Stall(c) \/ Resume(c) \/ Leave(c)

Next == HubStep \/ HandlerStep \/ ClientStep

Spec == Init /\ [][Next]_vars

\* Hub.Run is inside a frame for a connection that reads no more: it writes to the
\* connections in any order, so it may be at that one.
HubHeld == job.pending \cap stalled # {}

\* The goroutines that can run are run.  Of Hub.Run it is asked that it goes on while
\* a channel is ready or a frame is being written to clients that read; nothing is
\* asked of it while it is held, nor of a client that has stopped reading.  The
\* traffic of a behaviour is bounded, so nothing is needed of the choice select
\* makes.  A closed socket has finitely many requests left to refuse before its read
\* fails.
Fairness ==
    /\ WF_vars(~ HubHeld /\ HubStep)
    /\ \A c \in Conns : SF_vars(ReadFails(c)) /\ WF_vars(ReplyError(c))
    /\ \A h \in Handlers : WF_vars(SendComment(h))

FairSpec == Spec /\ Fairness

-----------------------------------------------------------------------------
(* Properties *)

Frame == [count : Nat, peak : Nat]

Job == [kind : {"none", "presence", "comment", "profile"}, room : Rooms, id : Nat,
        frame : Frame, pending : SUBSET Conns]

Places == {"new", "registering", "reading", "replying", "broadcasting", "unregistering",
           "done", "idle"}

\* Every variable has its type; the channels respect their capacity.
TypeOK ==
    /\ rooms \in [Rooms -> SUBSET Conns]
    /\ viewers \in [Rooms -> [Subjects -> Nat]]
    /\ peaks \in [Rooms -> Nat]
    /\ job \in Job
    /\ broadcast \in Seq(Nat) /\ Len(broadcast) <= BroadcastCap
    /\ profile \in Seq([room : Rooms, version : Nat]) /\ Len(profile) <= ProfileCap
    /\ pc \in [Handlers -> Places]
    /\ held \in [Handlers -> Nat]
    /\ link \in [Conns -> {"open", "closed"}]
    /\ stalled \in SUBSET Conns
    /\ stored \in Seq(Rooms)
    /\ seen \in [Conns -> Seq(Nat)]
    /\ presence \in [Conns -> Frame]
    /\ shownProfile \in [Conns -> Nat]
    /\ profileCount \in Nat
    /\ feed \in [Rooms -> Seq(Nat)]
    /\ joinedAt \in [Conns -> Nat]

\* A connection is registered, in its own room, exactly while its handler is
\* between Hub.Register and Hub.Unregister; the hub writes only to registered
\* connections of the room the frame is for, so never to one its handler closed.
RegisteredWhileHandled ==
    /\ \A c \in Conns, r \in Rooms :
        c \in rooms[r] <=> /\ r = RoomOf[c]
                          /\ pc[c] \in {"reading", "replying", "broadcasting", "unregistering"}
    /\ job.pending \subseteq rooms[job.room]

\* The reference counts of Hub.viewers are the numbers of registered connections:
\* two tabs of one person are one viewer, and closing one of them keeps the viewer.
ViewersMatchConnections ==
    \A r \in Rooms, s \in Subjects :
        viewers[r][s] = Cardinality({c \in rooms[r] : SubjectOf[c] = s})

\* The viewer count on a connected client's screen is the hub's current one, and
\* its peak the room's, unless the frame that says so is still being written.
PresenceIsCurrent ==
    \A c \in Conns :
        LET r == RoomOf[c]
            current == [count |-> ViewerCount(viewers, r), peak |-> peaks[r]]
        IN  c \in rooms[r] /\ link[c] = "open" =>
                IF job.kind = "presence" /\ c \in job.pending
                THEN job.frame = current
                ELSE presence[c] = current

\* How often comment n is found on its way from the table to a feed.
Copies(n) ==
    Cardinality({h \in Handlers : held[h] = n})
    + Cardinality({i \in DOMAIN broadcast : broadcast[i] = n})
    + Cardinality({ri \in UNION {{r} \X DOMAIN feed[r] : r \in Rooms} : feed[ri[1]][ri[2]] = n})

\* Every stored comment is with the handler that stored it, in the channel, or
\* in a feed, and in one of them only: none is lost and none is broadcast twice.
CommentsConserved ==
    \A n \in 1 .. Len(stored) : Copies(n) = 1

\* A connected viewer has been sent a gap-free segment of its room's feed that
\* starts where it joined and lacks at most the comment being written now.
SeenIsFeedSegment ==
    \A c \in Conns :
        LET all == SubSeq(feed[RoomOf[c]], joinedAt[c] + 1, Len(feed[RoomOf[c]]))
        IN  c \in rooms[RoomOf[c]] /\ link[c] = "open" =>
                IF job.kind = "comment" /\ c \in job.pending
                THEN Append(seen[c], job.id) = all
                ELSE seen[c] = all

\* The detailed hub implements RoomFeed: a viewer is watching from the hub's
\* Register to the end of its socket.
ViewerStatus ==
    [c \in Conns |->
        IF link[c] = "open" /\ c \in rooms[RoomOf[c]] THEN "watching"
        ELSE IF pc[c] = "new" \/ link[c] = "open" THEN "away"
        ELSE "gone"]

Feed == INSTANCE RoomFeed WITH
    Viewers <- Conns, Ids <- 1 .. MaxComments, status <- ViewerStatus, start <- joinedAt

\* Viewers get the feed of their room in order, without gap, repeat or replay.
ImplementsRoomFeed == Feed!Spec

\* A client that has gone is uncounted in the end, unless from some moment on a
\* client, of whichever room, holds the hub by reading no more: whatever the others
\* send, a channel that is full, a broken connection and a client that stops for a
\* while only delay it.
GoneIsUncounted ==
    \A c \in Conns :
        (link[c] = "closed" /\ pc[c] # "new") ~> (pc[c] = "done" \/ []HubHeld)

\* A stored comment reaches the feed of its room in the end, with the same exception.
StoredIsBroadcast ==
    \A n \in 1 .. MaxComments :
        Len(stored) >= n ~> \/ \E r \in Rooms : \E i \in DOMAIN feed[r] : feed[r][i] = n
                            \/ []HubHeld
=============================================================================

--------------------------- MODULE RoomDirectory ----------------------------
(***************************************************************************)
(* Rooms of the backend: the rooms, comments and room_visits tables        *)
(* (backend/internal/repository/sqlite.go), the streams the media server   *)
(* has, and the HTTP requests that bring the two together                  *)
(* (backend/internal/httpapi: room_handlers, stream_state, room_stats).    *)
(*                                                                         *)
(* The pool has one connection, so each database call is one step, but a   *)
(* request makes several of them with a call to the media server between,  *)
(* and works on the rows it read first.  Requests run concurrently.        *)
(* Foreign keys are enforced, as Migrate sets them on that connection.     *)
(*                                                                         *)
(* Times are kept as ages (now minus the time), which Tick lets grow and   *)
(* which saturate just above Grace; a NULL time is Null.  A row carries    *)
(* the number of its incarnation, for ids are chosen by owners and can be  *)
(* used again; gen 0 is no row.  The thumbnail columns are left out: they  *)
(* are written with the state below and nothing is decided by them.        *)
(***************************************************************************)
EXTENDS Integers, FiniteSets

CONSTANTS
    Rooms,          \* room ids
    Owners,         \* subjects that own rooms
    NoOwner,        \* the owner of no row
    Requests,       \* slots for concurrent requests
    Impatient,      \* the requests whose client may disconnect at any time
    Grace,          \* streamEndGrace, in ticks
    MaxGens         \* bound: rooms created in a behaviour

ASSUME RoomDirectoryAssumption ==
    /\ Grace \in Nat
    /\ MaxGens \in Nat
    /\ Impatient \subseteq Requests
    /\ NoOwner \notin Owners

VARIABLES
    table,          \* the rooms table
    children,       \* rows of comments and room_visits, with the gen of their room
    gens,           \* number of rooms created so far
    streams,        \* streams the media server has
    req             \* the requests being served

vars == <<table, children, gens, streams, req>>

Null == -1
MaxAge == Grace + 1
Ages == {Null} \cup 0 .. MaxAge

Row == [gen : Nat, owner : Owners \cup {NoOwner}, status : {"waiting", "live"},
        started : Ages, seen : Ages]

NoRow == [gen |-> 0, owner |-> NoOwner, status |-> "waiting",
          started |-> Null, seen |-> Null]

Exists(r) == table[r].gen # 0

-----------------------------------------------------------------------------
(* Requests *)

NoRows == [r \in Rooms |-> NoRow]

\* The rooms a request has a copy of.
Copied(rows) == {r \in Rooms : rows[r].gen # 0}

Copy(rooms) == [r \in Rooms |-> IF r \in rooms THEN table[r] ELSE NoRow]

Idle == [kind |-> "none", pc |-> "idle", rows |-> NoRows, snapshot |-> {}, room |-> {}]

Goto(q, pc) == req' = [req EXCEPT ![q].pc = pc]

\* A request that has its answer forgets what it read.
Answer(q, outcome) == req' = [req EXCEPT ![q] = [Idle EXCEPT !.kind = req[q].kind, !.pc = outcome]]

\* An error of reconcile: writeServerError in the lists, which want every room, and
\* writeRepositoryError, hence 404, for a single room.
Fail(q) == Answer(q, IF req[q].kind = "room" THEN "notFound" ELSE "serverError")

\* The request is done with its copy of row r.
DropRow(q, r) ==
    LET rest == Copied(req[q].rows) \ {r}
    IN  IF rest = {} /\ req[q].kind # "list"
        THEN Answer(q, "ok")
        ELSE req' = [req EXCEPT ![q].rows[r] = NoRow, ![q].room = {},
                                ![q].pc = IF rest = {} THEN "selecting" ELSE "reconciling"]

\* Mutant: the row is marked, and kept.
MarkEnded(r) ==
    /\ table' = [table EXCEPT ![r].status = "ended"]
    /\ UNCHANGED children

\* deleteRoom: one transaction over the three tables.
DeleteRow(r) ==
    /\ table' = [table EXCEPT ![r] = NoRow]
    /\ children' = {x \in children : x.room # r}

-----------------------------------------------------------------------------
Init ==
    /\ table = [r \in Rooms |-> NoRow]
    /\ children = {}
    /\ gens = 0
    /\ streams = {}
    /\ req = [q \in Requests |-> Idle]

-----------------------------------------------------------------------------
(* Owners: one statement or transaction each *)

\* handleCreateRoom.  The primary key and the unique index on owner_sub decide.
CreateRoom(o, r) ==
    /\ gens < MaxGens
    /\ ~ Exists(r)
    /\ \A s \in Rooms : Exists(s) => table[s].owner # o
    /\ gens' = gens + 1
    /\ table' = [table EXCEPT ![r] = [NoRow EXCEPT !.gen = gens + 1, !.owner = o]]
    /\ UNCHANGED <<children, streams, req>>

\* handleDeleteRoom.
DeleteRoom(o, r) ==
    /\ Exists(r) /\ table[r].owner = o
    /\ DeleteRow(r)
    /\ UNCHANGED <<gens, streams, req>>

\* handleDeleteComment.
DeleteComment(o, x) ==
    /\ x.table = "comments" /\ Exists(x.room) /\ table[x.room].owner = o
    /\ children' = children \ {x}
    /\ UNCHANGED <<table, gens, streams, req>>

-----------------------------------------------------------------------------
(* handleListRooms ("list"), handleListOwnedRooms ("owned"), handleGetRoom and *)
(* handleGetRoomStats ("room"): read, ask the media server, reconcile, answer  *)

Begin(q, kind, rooms) ==
    /\ req[q].pc = "idle"
    /\ req' = [req EXCEPT ![q] = [Idle EXCEPT !.kind = kind, !.pc = "asking",
                                              !.rows = Copy(rooms)]]
    /\ UNCHANGED <<table, children, gens, streams>>

BeginList(q) == Begin(q, "list", {r \in Rooms : Exists(r)})

BeginOwned(q, o) == Begin(q, "owned", {r \in Rooms : Exists(r) /\ table[r].owner = o})

BeginRoom(q, r) == Exists(r) /\ Begin(q, "room", {r})

\* streamMonitor.ListStreams answers.
TakeSnapshot(q) ==
    /\ req[q].pc = "asking"
    /\ IF Copied(req[q].rows) = {} /\ req[q].kind # "list"
       THEN Answer(q, "ok")
       ELSE req' = [req EXCEPT ![q].snapshot = streams,
                        ![q].pc = IF Copied(req[q].rows) = {} THEN "selecting" ELSE "reconciling"]
    /\ UNCHANGED <<table, children, gens, streams>>

\* streamMonitor.ListStreams fails: the rows are answered as they were read.
SkipReconcile(q) ==
    /\ req[q].pc = "asking"
    /\ IF req[q].kind = "list" THEN req' = [req EXCEPT ![q].rows = NoRows, ![q].pc = "selecting"]
                               ELSE Answer(q, "ok")
    /\ UNCHANGED <<table, children, gens, streams>>

Reconciling(q, r) == req[q].pc = "reconciling" /\ r \in Copied(req[q].rows)

\* Mutant: the start is not recorded.
SeenWithoutStart(row) == [row EXCEPT !.status = "live", !.seen = 0]

\* Mutant: the start moves with every sighting.
SeenAnew(row) == [row EXCEPT !.status = "live", !.seen = 0, !.started = 0]

\* Mutant: a waiting room is not looked at.
SeenAgain(row) == [row EXCEPT !.seen = IF row.status = "live" THEN 0 ELSE @]

\* The state a copied row takes when its stream is active.
Seen(row) == [row EXCEPT !.status = "live", !.seen = 0,
                         !.started = IF @ = Null THEN 0 ELSE @]

\* Mutant: the copy is written back, be its row there or not.
PutRoom(q, r) ==
    /\ Reconciling(q, r)
    /\ r \in req[q].snapshot
    /\ table' = [table EXCEPT ![r] = Seen(req[q].rows[r])]
    /\ req' = [req EXCEPT ![q].pc = "rereading", ![q].room = {r}]
    /\ UNCHANGED <<children, gens, streams>>

\* UpdateRoomStreamState and, on success, the GetRoom that follows.
RefreshRoom(q, r) ==
    LET copy == req[q].rows[r]
        next == Seen(copy)
    IN  /\ Reconciling(q, r)
        /\ r \in req[q].snapshot
        /\ IF Exists(r)
           THEN /\ table' = [table EXCEPT ![r].status = next.status,
                                          ![r].started = next.started, ![r].seen = next.seen]
                /\ req' = [req EXCEPT ![q].pc = "rereading", ![q].room = {r}]
           ELSE Fail(q) /\ UNCHANGED table
        /\ UNCHANGED <<children, gens, streams>>

RereadRoom(q, r) ==
    /\ req[q].pc = "rereading" /\ r \in req[q].room
    /\ IF Exists(r) THEN DropRow(q, r) ELSE Fail(q)
    /\ UNCHANGED <<table, children, gens, streams>>

\* Mutant: the grace period is not granted.
ExpiredAtOnce(row) == row.status = "live"

\* Mutant: only waiting rooms expire.
ExpiredWhileWaiting(row) == row.status = "waiting" /\ row.seen > Grace

Expired(row) == row.status = "live" /\ row.seen > Grace

\* DeleteRoomByID, for a copied row whose stream has been away for too long.
ExpireRoom(q, r) ==
    /\ Reconciling(q, r)
    /\ r \notin req[q].snapshot
    /\ Expired(req[q].rows[r])
    /\ IF ~ Exists(r)
       THEN Fail(q) /\ UNCHANGED <<table, children>>
       ELSE /\ DeleteRow(r)
            /\ IF req[q].kind = "room" THEN Answer(q, "notFound") ELSE DropRow(q, r)
    /\ UNCHANGED <<gens, streams>>

\* roomStreamStateChanged is false; of a room seen in this very tick it may be true.
KeepRoom(q, r) ==
    LET copy == req[q].rows[r]
    IN  /\ Reconciling(q, r)
        /\ IF r \in req[q].snapshot THEN Seen(copy) = copy ELSE ~ Expired(copy)
        /\ DropRow(q, r)
        /\ UNCHANGED <<table, children, gens, streams>>

\* ListPublicRooms.
SelectPublic(q) ==
    LET public == {r \in Rooms : Exists(r) /\ table[r].status = "live"}
    IN  /\ req[q].pc = "selecting"
        /\ IF public = {}
           THEN Answer(q, "ok")
           ELSE req' = [req EXCEPT ![q].rows = Copy(public), ![q].pc = "counting"]
        /\ UNCHANGED <<table, children, gens, streams>>

\* GetRoomStats of one public room: no row is an error of the whole list.
CountRoom(q, r) ==
    LET rest == Copied(req[q].rows) \ {r}
    IN  /\ req[q].pc = "counting" /\ r \in Copied(req[q].rows)
        /\ IF ~ Exists(r) THEN Fail(q)
           ELSE IF rest = {} THEN Answer(q, "ok")
           ELSE req' = [req EXCEPT ![q].rows[r] = NoRow]
        /\ UNCHANGED <<table, children, gens, streams>>

-----------------------------------------------------------------------------
(* handleCreateComment and handleCreateRoomVisit: GetRoom, then the INSERT *)

BeginInsert(q, child, r) ==
    /\ req[q].pc = "idle"
    /\ Exists(r)
    /\ req' = [req EXCEPT ![q] = [Idle EXCEPT !.kind = child, !.pc = "inserting", !.room = {r}]]
    /\ UNCHANGED <<table, children, gens, streams>>

\* The foreign key refuses a row whose room is gone.
InsertChild(q, r) ==
    /\ req[q].pc = "inserting" /\ r \in req[q].room
    /\ IF Exists(r)
       THEN /\ children' = children \cup {[table |-> req[q].kind, room |-> r, gen |-> table[r].gen]}
            /\ Answer(q, "ok")
       ELSE Answer(q, "refused") /\ UNCHANGED children
    /\ UNCHANGED <<table, gens, streams>>

-----------------------------------------------------------------------------
(* handleWhipProxy: GetRoom and the bearer token, then the media server *)

BeginWhip(q, method, r) ==
    /\ req[q].pc = "idle"
    /\ Exists(r)
    /\ req' = [req EXCEPT ![q] = [Idle EXCEPT !.kind = method, !.pc = "proxying", !.room = {r}]]
    /\ UNCHANGED <<table, children, gens, streams>>

PublishStream(q, r) ==
    /\ req[q].pc = "proxying" /\ req[q].kind = "POST" /\ r \in req[q].room
    /\ streams' = streams \cup {r}
    /\ Answer(q, "ok")
    /\ UNCHANGED <<table, children, gens>>

TerminateStream(q, r) ==
    /\ req[q].pc = "proxying" /\ req[q].kind = "DELETE" /\ r \in req[q].room \cap streams
    /\ streams' = streams \ {r}
    /\ Goto(q, "removing")
    /\ UNCHANGED <<table, children, gens>>

RemoveRoom(q, r) ==
    /\ req[q].pc = "removing" /\ r \in req[q].room
    /\ IF Exists(r) THEN DeleteRow(r) ELSE UNCHANGED <<table, children>>
    /\ Answer(q, "ok")
    /\ UNCHANGED <<gens, streams>>

WhipFails(q) ==
    /\ req[q].pc = "proxying"
    /\ Answer(q, "ok")
    /\ UNCHANGED <<table, children, gens, streams>>

-----------------------------------------------------------------------------
Answers == {"ok", "notFound", "serverError", "refused"}

Finish(q) ==
    /\ req[q].pc \in Answers
    /\ req' = [req EXCEPT ![q] = Idle]
    /\ UNCHANGED <<table, children, gens, streams>>

\* The request's context is cancelled: the call it is in, and the request, fail.
Abandon(q) ==
    /\ q \in Impatient
    /\ req[q].pc \notin Answers \cup {"idle"}
    /\ req' = [req EXCEPT ![q] = Idle]
    /\ UNCHANGED <<table, children, gens, streams>>

\* The encoder or its network goes away without a WHIP DELETE.
StreamDrops(r) ==
    /\ r \in streams
    /\ streams' = streams \ {r}
    /\ UNCHANGED <<table, children, gens, req>>

Older(age) == IF age = Null \/ age = MaxAge THEN age ELSE age + 1

OlderRow(row) == [row EXCEPT !.started = Older(@), !.seen = Older(@)]

Tick ==
    /\ table' = [r \in Rooms |-> OlderRow(table[r])]
    /\ req' = [q \in Requests |->
                  [req[q] EXCEPT !.rows = [r \in Rooms |-> OlderRow(req[q].rows[r])]]]
    /\ UNCHANGED <<children, gens, streams>>

-----------------------------------------------------------------------------
OwnerStep ==
    \E o \in Owners :
        \/ \E r \in Rooms : CreateRoom(o, r) \/ DeleteRoom(o, r)
        \/ \E x \in children : DeleteComment(o, x)

ReconcileStep(q) ==
    \/ TakeSnapshot(q) \/ SkipReconcile(q) \/ SelectPublic(q)
    \/ \E r \in Rooms : \/ RefreshRoom(q, r) \/ RereadRoom(q, r) \/ ExpireRoom(q, r)
                        \/ KeepRoom(q, r) \/ CountRoom(q, r)

OtherStep(q) ==
    \/ \E r \in Rooms : \/ InsertChild(q, r) \/ PublishStream(q, r)
                        \/ TerminateStream(q, r) \/ RemoveRoom(q, r)
    \/ WhipFails(q)

BeginStep(q) ==
    \/ BeginList(q)
    \/ \E o \in Owners : BeginOwned(q, o)
    \/ \E r \in Rooms :
        \/ BeginRoom(q, r)
        \/ \E child \in {"comments", "visits"} : BeginInsert(q, child, r)
        \/ \E method \in {"POST", "DELETE"} : BeginWhip(q, method, r)

Next ==
    \/ OwnerStep
    \/ \E q \in Requests :
        BeginStep(q) \/ ReconcileStep(q) \/ OtherStep(q) \/ Finish(q) \/ Abandon(q)
    \/ \E r \in Rooms : StreamDrops(r)
    \/ Tick

Spec == Init /\ [][Next]_vars

\* Time passes, and a room that exists has viewers: the watch page asks for the
\* room's statistics every five seconds, its requests are served to the end, and the
\* media server does not fail each of them.
Patient == Requests \ Impatient

Fairness ==
    /\ WF_vars(Tick)
    /\ \A q \in Patient :
        /\ \A r \in Rooms : SF_vars(BeginRoom(q, r))
        /\ SF_vars(req[q].kind = "room" /\ TakeSnapshot(q))
        /\ WF_vars(ReconcileStep(q) \/ OtherStep(q) \/ Finish(q))

FairSpec == Spec /\ Fairness

-----------------------------------------------------------------------------
(* Properties *)

Child == [table : {"comments", "visits"}, room : Rooms, gen : Nat]

Request == [kind : {"none", "list", "owned", "room", "comments", "visits", "POST", "DELETE"},
            pc : Answers \cup {"idle", "asking", "reconciling", "rereading", "selecting",
                               "counting", "inserting", "proxying", "removing"},
            rows : [Rooms -> Row],
            snapshot : SUBSET Rooms, room : SUBSET Rooms]

\* Every variable has its type.
TypeOK ==
    /\ table \in [Rooms -> Row]
    /\ children \subseteq Child
    /\ gens \in Nat
    /\ streams \subseteq Rooms
    /\ req \in [Requests -> Request]

\* An owner has one room.  A room is live once it was seen, and it was not seen
\* before it started, whatever stale rows are written back.
RowsConsistent ==
    \A r \in Rooms : Exists(r) =>
        /\ \A s \in Rooms \ {r} : Exists(s) => table[s].owner # table[r].owner
        /\ table[r].status = "live" <=> table[r].started # Null
        /\ table[r].status = "live" <=> table[r].seen # Null
        /\ table[r].started >= table[r].seen

\* The tables as the ledger of rooms sees them: the columns that no stale copy may change.
OpenRooms ==
    [r \in Rooms |-> IF Exists(r)
                     THEN {[gen |-> table[r].gen, owner |-> table[r].owner,
                            status |-> table[r].status]}
                     ELSE {}]

Ledger == INSTANCE RoomLedger WITH
    Tables <- {"comments", "visits"}, ledger <- OpenRooms, entries <- children, opened <- gens

\* Whatever requests write by their old copies, in any order, a room keeps its number and
\* its owner, stays live once it is, and does not come back after it was deleted.
ImplementsRoomLedger == Ledger!LedgerSpec

\* A live room is expired only when its stream was last seen longer ago than the
\* grace period, by the row as it is when it is deleted.
GraceKept ==
    [][\A r \in Rooms :
        Exists(r) /\ table[r].status = "live" /\ (\E q \in Requests : ExpireRoom(q, r))
            => table[r].seen > Grace]_vars

\* The start of a stream stays where it was for as long as the room is live.
StartedIsKept ==
    [][\A r \in Rooms :
        Exists(r) /\ table[r].status = "live" /\ table'[r].gen = table[r].gen
            => table'[r].status = "live" /\ table'[r].started >= table[r].started]_vars

\* A room whose grace period is over is marked as ended.
ExpiredRoomIsEnded ==
    [][\A r \in Rooms :
        Exists(r) /\ (\E q \in Requests : ExpireRoom(q, r)) => table'[r].status = "ended"]_vars

\* A room whose stream is gone for good does not stay live.
GoneStreamEnds ==
    \A r \in Rooms :
        table[r].status = "live" /\ r \notin streams ~> table[r].status # "live" \/ r \in streams

\* A room whose stream is up becomes live.
StreamGoesLive ==
    \A r \in Rooms :
        Exists(r) /\ r \in streams
            ~> table[r].status = "live" \/ ~ Exists(r) \/ r \notin streams
=============================================================================

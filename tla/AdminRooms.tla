----------------------------- MODULE AdminRooms -----------------------------
(***************************************************************************)
(* The administration page (frontend/src/features/admin and                *)
(* features/rooms/model/useAdminRooms.ts): the owner's room, its ingest    *)
(* token, password and bypass URL, and its comments.                       *)
(*                                                                         *)
(* Every button starts a call that goes on at its awaits while the owner   *)
(* presses the next one.  A call is sent, answered by the backend, and for *)
(* most operations followed by a request for the list of rooms, whose      *)
(* answer replaces the list; answers arrive in any order.                  *)
(*                                                                         *)
(* An owner has one room at a time, by a unique index.  Titles, the values *)
(* of tokens, drafts of inputs, notices and the order in which comments    *)
(* are shown are left out: nothing decides on them.  OBS is in ObsPanel.   *)
(***************************************************************************)
EXTENDS CommentPages, Integers, FiniteSets

CONSTANTS
    Slots,          \* calls under way
    MaxRooms        \* bound: rooms made, one after the other

ASSUME AdminRoomsAssumption == MaxRooms \in Nat \ {0}

VARIABLES
    room,           \* the backend: the room, in a set that may be empty
    made,           \* the backend: rooms made, the id of the last one
    roomComments,   \* the backend: the comments of the room
    newest,         \* the backend: the newest comment there has been
    calls,          \* the calls under way, each in a set that may be empty
    rooms,          \* useAdminRooms: rooms
    entry,          \* commentsByRoomId: each entry in a set that may be empty
    drawn,          \* commentsByRoomId as the page was last rendered
    token,          \* the rooms in whipTokensByRoomId
    bypassUrl       \* AdminRoom: bypassUrl is not null

backend == <<room, made, roomComments, newest>>
maps == <<rooms, entry, drawn, token>>
adminVars == <<backend, calls, maps, bypassUrl>>

Ids == 1 .. MaxRooms
CommentIds == 1 .. MaxComments
RoomRecords == [id : Ids, locked : BOOLEAN]

\* Operations that change the room and are followed by refreshRooms, operations that
\* issue a token, and requests for comments.
Changes == {"title", "delete", "password", "clear"}
Issues == {"ingest", "bypass"}
AdminOps == Changes \cup Issues \cup {"create", "list", "load", "older", "remove"}

\* arg is the comment or the cursor of a call, and list, page and next are parts of
\* its answer; the cursor 0 is null.  here says that the AdminRoom it was made in is
\* still there.
Call == [op : AdminOps, id : Ids \cup {0}, arg : Nat, here : BOOLEAN,
         at : {"sent", "answered", "refresh", "listed"},
         list : SUBSET RoomRecords, page : SUBSET CommentIds, next : Nat]

NewCall(op, id, arg) ==
    [op |-> op, id |-> id, arg |-> arg, here |-> op \in {"clear", "bypass"},
     at |-> "sent", list |-> {}, page |-> {}, next |-> 0]

\* The effect of useAdminRooms asks for the list.
AdminInit ==
    /\ made \in {0, 1}
    /\ room = {[id |-> i, locked |-> FALSE] : i \in 1 .. made}
    /\ newest \in IF room = {} THEN {0} ELSE 0 .. MaxComments
    /\ roomComments = 1 .. newest
    /\ \E s \in Slots :
          calls = [r \in Slots |-> IF r = s THEN {NewCall("list", 0, 0)} ELSE {}]
    /\ rooms = {}
    /\ entry = [i \in Ids |-> {}] /\ drawn = entry /\ token = {}
    /\ bypassUrl = FALSE

Becomes(s, k) == [calls EXCEPT ![s] = {k}]
Ended(s) == [calls EXCEPT ![s] = {}]
Served(k) == [k EXCEPT !.at = "answered"]

-----------------------------------------------------------------------------
(* The backend *)

StoreRoomComment ==
    /\ room # {} /\ newest < MaxComments
    /\ newest' = newest + 1
    /\ roomComments' = roomComments \cup {newest + 1}
    /\ UNCHANGED <<room, made, calls, maps, bypassUrl>>

\* The room goes when its stream has ended (RoomDirectory).
RoomExpires ==
    /\ room # {}
    /\ room' = {} /\ roomComments' = {}
    /\ UNCHANGED <<made, newest, calls, maps, bypassUrl>>

Changed(op, r) ==
    CASE op = "title" -> {r}
      [] op = "delete" -> {}
      [] OTHER -> {[r EXCEPT !.locked = (op = "password")]}

\* A title, a password, its removal (with the bypass token), a deletion.
ServeChange(s) ==
    \E k \in calls[s], r \in room :
        /\ k.at = "sent" /\ k.op \in Changes /\ k.id = r.id
        /\ room' = Changed(k.op, r)
        /\ roomComments' = IF k.op = "delete" THEN {} ELSE roomComments
        /\ calls' = Becomes(s, Served(k))
        /\ UNCHANGED <<made, newest, maps, bypassUrl>>

\* A room without comments.
ServeCreate(s) ==
    \E k \in calls[s] :
        /\ k.at = "sent" /\ k.op = "create" /\ room = {} /\ made < MaxRooms
        /\ made' = made + 1
        /\ room' = {[id |-> made + 1, locked |-> FALSE]}
        /\ calls' = Becomes(s, [Served(k) EXCEPT !.id = made + 1])
        /\ UNCHANGED <<roomComments, newest, maps, bypassUrl>>

\* The next ingest token or bypass token of the room.
ServeIssue(s) ==
    \E k \in calls[s], r \in room :
        /\ k.at = "sent" /\ k.op \in Issues /\ k.id = r.id
        /\ calls' = Becomes(s, Served(k))
        /\ UNCHANGED <<backend, maps, bypassUrl>>

ServeRemove(s) ==
    \E k \in calls[s] :
        /\ k.at = "sent" /\ k.op = "remove" /\ k.arg \in roomComments
        /\ roomComments' = roomComments \ {k.arg}
        /\ calls' = Becomes(s, Served(k))
        /\ UNCHANGED <<room, made, newest, maps, bypassUrl>>

\* The newest PageSize comments before the cursor.
PageBefore(id, cursor) ==
    LET before == {c \in roomComments : (cursor = 0 \/ c < cursor) /\ \E r \in room : r.id = id}
    IN  {c \in before : Cardinality({d \in before : d > c}) < PageSize}

\* nextCursor: the first comment of a page that is not the last one.
NextCursorOf(page) ==
    LET firsts == {c \in page : \A d \in page : c <= d}
    IN  IF \E c \in roomComments, f \in firsts : c < f THEN CHOOSE f \in firsts : TRUE ELSE 0

\* A page of comments; an answer that is not a page is taken for an empty one.
ServePage(s, ok) ==
    \E k \in calls[s] :
        LET page == IF ok THEN PageBefore(k.id, k.arg) ELSE {}
        IN  /\ k.at = "sent" /\ k.op \in {"load", "older"}
            /\ calls' = Becomes(s, [Served(k) EXCEPT !.arg = 0, !.page = page,
                                                     !.next = NextCursorOf(page)])
            /\ UNCHANGED <<backend, maps, bypassUrl>>

\* The list of rooms; an answer that is not a list is taken for an empty one.
ServeList(s, ok) ==
    \E k \in calls[s] :
        /\ \/ k.at = "refresh"
           \/ k.at = "sent" /\ k.op = "list"
        /\ calls' = Becomes(s, [k EXCEPT !.at = "listed", !.list = IF ok THEN room ELSE {}])
        /\ UNCHANGED <<backend, maps, bypassUrl>>

-----------------------------------------------------------------------------
(* The buttons *)

AskBackend(s, op, id, arg) ==
    /\ calls[s] = {}
    /\ calls' = [calls EXCEPT ![s] = {NewCall(op, id, arg)}]

\* submitRoom: for an owner without a room, as far as the page knows.
SubmitRoom(s) ==
    /\ rooms = {}
    /\ AskBackend(s, "create", 0, 0)
    /\ UNCHANGED <<backend, maps, bypassUrl>>

\* The buttons of a room; two are there for a room with a password only.
Press(s, op) ==
    /\ \E r \in rooms : (op \in {"clear", "bypass"} => r.locked) /\ AskBackend(s, op, r.id, 0)
    /\ UNCHANGED <<backend, maps, bypassUrl>>

RemoveComment(s, c) ==
    /\ \E r \in rooms : /\ \E e \in drawn[r.id] : c \in e.comments
                        /\ AskBackend(s, "remove", r.id, c)
    /\ UNCHANGED <<backend, maps, bypassUrl>>

\* loadOlderComments decides on the entry of the last render and puts it back, loading,
\* in place of whatever the answers have made of it since.  React renders what a click
\* sets before the next click.
LoadOlderComments(s) ==
    /\ \E r \in rooms : \E e \in drawn[r.id] :
          LET loading == {[e EXCEPT !.isLoadingOlder = TRUE]}
          IN  /\ e.nextCursor # 0 /\ ~ e.isLoadingOlder
              /\ AskBackend(s, "older", r.id, e.nextCursor)
              /\ entry' = [entry EXCEPT ![r.id] = loading]
              /\ drawn' = [drawn EXCEPT ![r.id] = loading]
    /\ UNCHANGED <<backend, rooms, token, bypassUrl>>

\* React renders what the answers have made of the entries.
RenderComments ==
    /\ drawn # entry
    /\ drawn' = entry
    /\ UNCHANGED <<backend, calls, rooms, entry, token, bypassUrl>>

-----------------------------------------------------------------------------
(* The answers *)

\* An operation that was done asks for the list.  Nothing more follows the list for a
\* title or a password.
ChangeAnswered(s) ==
    \E k \in calls[s] :
        /\ k.at = "answered" /\ k.op \in Changes \cup {"create"}
        /\ calls' = Becomes(s, IF k.op \in {"title", "password"} THEN NewCall("list", 0, 0)
                                ELSE [k EXCEPT !.at = "refresh"])
        /\ UNCHANGED <<backend, maps, bypassUrl>>

\* The request is refused, or an answer does not come (fetch rejects): the call ends.
\* The backend may have done what was asked.
CallBreaks(s) ==
    \E k \in calls[s] :
        /\ calls' = Ended(s)
        /\ entry' = IF k.op # "older" THEN entry
                    ELSE [entry EXCEPT ![k.id] = {[e EXCEPT !.isLoadingOlder = FALSE] : e \in @}]
        /\ UNCHANGED <<backend, rooms, drawn, token, bypassUrl>>

\* The list of rooms replaces the one on the page.  Without the room its AdminRoom goes,
\* and what it kept; the calls it made go on.
Listed(s) ==
    \E k \in calls[s] :
        LET gone == ~ \E q \in k.list, r \in rooms : q.id = r.id
        IN  /\ k.at = "listed"
            /\ rooms' = k.list
            /\ calls' = [r \in Slots |->
                           IF r = s THEN {} ELSE {[j EXCEPT !.here = @ /\ ~ gone] : j \in calls[r]}]
            /\ token' = CASE k.op = "create" -> token \cup {k.id}
                          [] k.op = "delete" -> token \ {k.id}
                          [] OTHER -> token
            /\ entry' = IF k.op = "delete" THEN [entry EXCEPT ![k.id] = {}] ELSE entry
            /\ bypassUrl' = (bypassUrl /\ ~ gone /\ ~ (k.op = "clear" /\ k.here))
            /\ UNCHANGED <<backend, drawn>>

\* clearPassword takes the bypass URL away, whatever became of the request.
ClearFails(s) ==
    \E k \in calls[s] :
        /\ k.at \in {"sent", "answered"} /\ k.op = "clear" /\ k.here
        /\ calls' = Ended(s)
        /\ bypassUrl' = FALSE
        /\ UNCHANGED <<backend, maps>>

\* rotateIngestToken and generateBypassUrl.
TokenArrives(s) ==
    \E k \in calls[s] :
        /\ k.at = "answered" /\ k.op \in {"ingest", "bypass"}
        /\ calls' = Ended(s)
        /\ token' = IF k.op = "ingest" THEN token \cup {k.id} ELSE token
        /\ bypassUrl' = (bypassUrl \/ (k.op = "bypass" /\ k.here))
        /\ UNCHANGED <<backend, rooms, entry, drawn>>

Entry(comments, loading, cursor) ==
    {[comments |-> comments, isLoadingOlder |-> loading, nextCursor |-> cursor]}

\* loadComments: the entry is the page.
CommentsArrive(s) ==
    \E k \in calls[s] :
        /\ k.at = "answered" /\ k.op = "load"
        /\ calls' = Ended(s)
        /\ entry' = [entry EXCEPT ![k.id] = Entry(k.page, FALSE, k.next)]
        /\ UNCHANGED <<backend, rooms, drawn, token, bypassUrl>>

\* Mutant: the flag of the entry the request was made from stays.
OlderArrivesOnly(s) ==
    \E k \in calls[s] :
        /\ k.at = "answered" /\ k.op = "older"
        /\ calls' = Ended(s)
        /\ entry' = [entry EXCEPT ![k.id] =
                       UNION {Entry(k.page \cup e.comments, e.isLoadingOlder, k.next) : e \in @}]
        /\ UNCHANGED <<backend, rooms, drawn, token, bypassUrl>>

\* An older page joins the comments the entry has by now, if there is one.
OlderCommentsArrive(s) ==
    \E k \in calls[s] :
        /\ k.at = "answered" /\ k.op = "older"
        /\ calls' = Ended(s)
        /\ entry' = [entry EXCEPT ![k.id] =
                       UNION {Entry(k.page \cup e.comments, FALSE, k.next) : e \in @}]
        /\ UNCHANGED <<backend, rooms, drawn, token, bypassUrl>>

\* removeComment: an entry that is gone is made anew.
Removed(s) ==
    \E k \in calls[s] :
        /\ k.at = "answered" /\ k.op = "remove"
        /\ calls' = Ended(s)
        /\ entry' = [entry EXCEPT ![k.id] =
                       IF @ = {} THEN Entry({}, FALSE, 0)
                       ELSE {[e EXCEPT !.comments = @ \ {k.arg}] : e \in @}]
        /\ UNCHANGED <<backend, rooms, drawn, token, bypassUrl>>

-----------------------------------------------------------------------------
Serve(s) ==
    \/ ServeChange(s) \/ ServeCreate(s) \/ ServeIssue(s) \/ ServeRemove(s)
    \/ \E ok \in BOOLEAN : ServePage(s, ok) \/ ServeList(s, ok)

Button(s) ==
    \/ SubmitRoom(s)
    \/ \E op \in {"title", "delete", "password", "clear", "ingest", "bypass", "load"} : Press(s, op)
    \/ \E c \in CommentIds : RemoveComment(s, c)
    \/ LoadOlderComments(s)

Arrive(s) ==
    \/ ChangeAnswered(s) \/ CallBreaks(s) \/ Listed(s) \/ ClearFails(s) \/ TokenArrives(s)
    \/ CommentsArrive(s) \/ OlderCommentsArrive(s) \/ Removed(s)

AdminNext ==
    \/ StoreRoomComment \/ RoomExpires \/ RenderComments
    \/ \E s \in Slots : Serve(s) \/ Button(s) \/ Arrive(s)

AdminSpec == AdminInit /\ [][AdminNext]_adminVars

-----------------------------------------------------------------------------
(* Properties *)

AdminTypeOK ==
    /\ room \in SUBSET RoomRecords /\ made \in 0 .. MaxRooms
    /\ roomComments \in SUBSET CommentIds /\ newest \in 0 .. MaxComments
    /\ \A s \in Slots : calls[s] \subseteq Call /\ Cardinality(calls[s]) <= 1
    /\ rooms \in SUBSET RoomRecords
    /\ \A i \in Ids : \A e \in entry[i] \cup drawn[i] :
          /\ e.comments \subseteq CommentIds
          /\ e.isLoadingOlder \in BOOLEAN /\ e.nextCursor \in 0 .. MaxComments
    /\ token \in SUBSET Ids /\ bypassUrl \in BOOLEAN

Asked(op, i) == \E s \in Slots : \E k \in calls[s] : k.op = op /\ k.id = i

\* The button for older comments is disabled only while an older page is on its way,
\* over any order of reloads, deletions, older pages and failures.
NeverStuckLoading ==
    \A i \in Ids : \A e \in entry[i] : e.isLoadingOlder => Asked("older", i)
=============================================================================

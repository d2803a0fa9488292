------------------------ MODULE RoomDirectoryProofs -------------------------
(***************************************************************************)
(* Theorems about RoomDirectory, for any rooms, owners, number of          *)
(* concurrent requests and grace period.                                   *)
(***************************************************************************)
EXTENDS RoomDirectory, TLAPS

-----------------------------------------------------------------------------
(* Lemmas about the operators *)

LEMMA NoRowType == NoRow \in Row /\ NoRows \in [Rooms -> Row]
BY RoomDirectoryAssumption DEF NoRow, NoRows, Row, Ages, Null

LEMMA IdleType == Idle \in Request
BY NoRowType DEF Idle, Request

LEMMA CreatedType ==
  ASSUME NEW gen \in Nat, NEW o \in Owners
  PROVE  [NoRow EXCEPT !.gen = gen, !.owner = o] \in Row
<1>1. NoRow \in Row
  BY NoRowType
<1> QED
  BY <1>1 DEF Row

\* The state written back to a room seen active has its type and a start.
LEMMA SeenType ==
  ASSUME NEW row \in Row
  PROVE  /\ Seen(row) \in Row /\ Seen(row).status = "live"
         /\ Seen(row).seen = 0 /\ Seen(row).started \in 0 .. MaxAge
<1>1. MaxAge \in Nat
  BY RoomDirectoryAssumption DEF MaxAge
<1>2. row.started \in Ages
  BY DEF Row
<1> DEFINE started == IF row.started = Null THEN 0 ELSE row.started
<1>3. started \in 0 .. MaxAge
  BY <1>1, <1>2 DEF Ages, Null
<1> HIDE DEF started
<1>4. Seen(row) = [row EXCEPT !.status = "live", !.seen = 0, !.started = started]
  BY DEF Seen, started, Row
<1>5. [row EXCEPT !.status = "live", !.seen = 0, !.started = started] \in Row
  <2>1. 0 \in Ages /\ started \in Ages
    BY <1>1, <1>3 DEF Ages
  <2> QED
    BY <2>1 DEF Row
<1>6. /\ [row EXCEPT !.status = "live", !.seen = 0, !.started = started].status = "live"
      /\ [row EXCEPT !.status = "live", !.seen = 0, !.started = started].seen = 0
      /\ [row EXCEPT !.status = "live", !.seen = 0, !.started = started].started = started
  BY DEF Row
<1> QED
  BY <1>3, <1>4, <1>5, <1>6

LEMMA OlderType ==
  ASSUME NEW age \in Ages
  PROVE  Older(age) \in Ages /\ (Older(age) = Null <=> age = Null)
BY RoomDirectoryAssumption DEF Older, Ages, Null, MaxAge

\* Time keeps the order of two times.
LEMMA OlderMonotone ==
  ASSUME NEW a \in Ages, NEW b \in Ages, a # Null, b # Null, a >= b
  PROVE  Older(a) >= Older(b)
BY RoomDirectoryAssumption DEF Older, Ages, Null, MaxAge

LEMMA OlderRowType ==
  ASSUME NEW row \in Row
  PROVE  /\ OlderRow(row) \in Row
         /\ OlderRow(row).gen = row.gen /\ OlderRow(row).owner = row.owner
         /\ OlderRow(row).status = row.status
         /\ OlderRow(row).started = Older(row.started) /\ OlderRow(row).seen = Older(row.seen)
BY OlderType DEF OlderRow, Row

\* An answered request has the type of a request.
LEMMA AnswerType ==
  ASSUME req \in [Requests -> Request], NEW q \in Requests, NEW outcome \in Answers,
         Answer(q, outcome)
  PROVE  req' \in [Requests -> Request]
<1>1. req[q].kind \in {"none", "list", "owned", "room", "comments", "visits", "POST", "DELETE"}
  BY DEF Request
<1>2. [Idle EXCEPT !.kind = req[q].kind, !.pc = outcome] \in Request
  BY <1>1, IdleType DEF Request
<1> QED
  BY <1>2 DEF Answer

LEMMA FailType ==
  ASSUME req \in [Requests -> Request], NEW q \in Requests, Fail(q)
  PROVE  req' \in [Requests -> Request]
BY AnswerType DEF Fail, Answers

LEMMA DropRowType ==
  ASSUME req \in [Requests -> Request], NEW q \in Requests, NEW r \in Rooms, DropRow(q, r)
  PROVE  req' \in [Requests -> Request]
<1> DEFINE rest == Copied(req[q].rows) \ {r}
           place == IF rest = {} THEN "selecting" ELSE "reconciling"
<1>1. CASE rest = {} /\ req[q].kind # "list"
  BY <1>1, AnswerType DEF DropRow, Answers
<1>2. CASE ~ (rest = {} /\ req[q].kind # "list")
  <2>1. req' = [req EXCEPT ![q].rows[r] = NoRow, ![q].room = {}, ![q].pc = place]
    BY <1>2 DEF DropRow
  <2>2. [req[q].rows EXCEPT ![r] = NoRow] \in [Rooms -> Row]
    BY NoRowType DEF Request
  <2>3. place \in {"selecting", "reconciling"}
    OBVIOUS
  <2> HIDE DEF place, rest
  <2>4. [req[q] EXCEPT !.rows = [req[q].rows EXCEPT ![r] = NoRow], !.room = {}, !.pc = place]
          \in Request
    BY <2>2, <2>3 DEF Request
  <2> QED
    BY <2>1, <2>4
<1> QED
  BY <1>1, <1>2

-----------------------------------------------------------------------------
(* Type correctness *)

\* What makes the type inductive: a request inserts into one of the child tables.
InsertsChild ==
    \A q \in Requests : req[q].pc = "inserting" => req[q].kind \in {"comments", "visits"}

TypeInv == TypeOK /\ InsertsChild

LEMMA InitType == Init => TypeInv
BY NoRowType, IdleType DEF Init, TypeInv, TypeOK, InsertsChild, Idle

LEMMA DeleteRowType ==
  ASSUME TypeOK, NEW r \in Rooms, DeleteRow(r)
  PROVE  table' \in [Rooms -> Row] /\ children' \subseteq Child
BY NoRowType DEF TypeOK, DeleteRow

\* Only BeginInsert sends a request to an INSERT.
LEMMA NextInsertsChild == TypeOK /\ InsertsChild /\ [Next]_vars => InsertsChild'
<1> SUFFICES ASSUME TypeOK, InsertsChild, [Next]_vars, NEW q \in Requests,
                    req'[q].pc = "inserting"
             PROVE  req'[q].kind \in {"comments", "visits"}
  BY DEF InsertsChild
<1> DEFINE Same == req'[q].pc = req[q].pc /\ req'[q].kind = req[q].kind
<1>1. CASE Same
  BY <1>1 DEF InsertsChild
<1>2. ASSUME NEW p \in Requests, NEW outcome \in Answers, Answer(p, outcome) PROVE Same
  BY <1>2 DEF Answer, Answers, TypeOK, Idle
<1>3. ASSUME NEW p \in Requests, Fail(p) PROVE Same
  BY <1>2, <1>3 DEF Fail, Answers
<1>4. ASSUME NEW p \in Requests, NEW r \in Rooms, DropRow(p, r) PROVE Same
  BY <1>2, <1>4 DEF DropRow, Answers, TypeOK, Request
<1>5. ASSUME NEW p \in Requests, BeginStep(p) PROVE req'[q].kind \in {"comments", "visits"}
  <2>1. ASSUME NEW kind, NEW rooms, Begin(p, kind, rooms) PROVE Same
    BY <2>1 DEF Begin, TypeOK, Idle
  <2>2. ASSUME NEW method, NEW r, BeginWhip(p, method, r) PROVE Same
    BY <2>2 DEF BeginWhip, TypeOK, Idle
  <2>3. ASSUME NEW child \in {"comments", "visits"}, NEW r, BeginInsert(p, child, r)
        PROVE  Same \/ req'[q].kind = child
    BY <2>3 DEF BeginInsert, TypeOK, Idle
  <2> QED
    BY <1>1, <1>5, <2>1, <2>2, <2>3 DEF BeginStep, BeginList, BeginOwned, BeginRoom
<1>6. ASSUME NEW p \in Requests, ReconcileStep(p) PROVE Same
  <2>1. CASE TakeSnapshot(p)
    BY <1>2, <2>1 DEF TakeSnapshot, Answers, TypeOK, Request
  <2>2. CASE SkipReconcile(p)
    BY <1>2, <2>2 DEF SkipReconcile, Answers, TypeOK, Request
  <2>3. CASE SelectPublic(p)
    BY <1>2, <2>3 DEF SelectPublic, Answers, TypeOK, Request
  <2>4. ASSUME NEW r \in Rooms, RefreshRoom(p, r) PROVE Same
    BY <1>3, <2>4 DEF RefreshRoom, TypeOK, Request
  <2>5. ASSUME NEW r \in Rooms, RereadRoom(p, r) \/ KeepRoom(p, r) PROVE Same
    BY <1>3, <1>4, <2>5 DEF RereadRoom, KeepRoom
  <2>6. ASSUME NEW r \in Rooms, ExpireRoom(p, r) PROVE Same
    BY <1>2, <1>3, <1>4, <2>6 DEF ExpireRoom, Answers
  <2>7. ASSUME NEW r \in Rooms, CountRoom(p, r) PROVE Same
    BY <1>2, <1>3, <2>7 DEF CountRoom, Answers, TypeOK, Request
  <2> QED
    BY <1>6, <2>1, <2>2, <2>3, <2>4, <2>5, <2>6, <2>7 DEF ReconcileStep
<1>7. ASSUME NEW p \in Requests, OtherStep(p) PROVE Same
  <2>1. ASSUME NEW r \in Rooms, TerminateStream(p, r) PROVE Same
    BY <2>1 DEF TerminateStream, Goto, TypeOK, Request
  <2>2. ASSUME NEW r \in Rooms, InsertChild(p, r) \/ PublishStream(p, r) \/ RemoveRoom(p, r)
        PROVE  Same
    BY <1>2, <2>2 DEF InsertChild, PublishStream, RemoveRoom, Answers
  <2> QED
    BY <1>2, <1>7, <2>1, <2>2 DEF OtherStep, WhipFails, Answers
<1>8. ASSUME NEW p \in Requests, Finish(p) \/ Abandon(p) PROVE Same
  BY <1>8 DEF Finish, Abandon, TypeOK, Idle
<1>9. CASE Tick
  BY <1>1, <1>9 DEF Tick, TypeOK, Request
<1>10. CASE UNCHANGED req
  BY <1>1, <1>10
<1>11. OwnerStep \/ (\E r \in Rooms : StreamDrops(r)) \/ UNCHANGED vars => UNCHANGED req
  BY DEF OwnerStep, CreateRoom, DeleteRoom, DeleteComment, StreamDrops, vars
<1> HIDE DEF Same
<1> QED
  BY <1>1, <1>5, <1>6, <1>7, <1>8, <1>9, <1>10, <1>11 DEF Next

LEMMA NextType == TypeInv /\ [Next]_vars => TypeOK'
<1> SUFFICES ASSUME TypeInv, [Next]_vars PROVE TypeOK'
  OBVIOUS
<1> USE RoomDirectoryAssumption DEF TypeInv, TypeOK
<1>1. ASSUME NEW o \in Owners, NEW r \in Rooms, CreateRoom(o, r) PROVE TypeOK'
  <2>1. gens + 1 \in Nat
    OBVIOUS
  <2>2. [NoRow EXCEPT !.gen = gens + 1, !.owner = o] \in Row
    BY <2>1, CreatedType
  <2> QED
    BY <1>1, <2>1, <2>2 DEF CreateRoom
<1>2. ASSUME NEW o \in Owners, NEW r \in Rooms, DeleteRoom(o, r) PROVE TypeOK'
  BY <1>2, DeleteRowType DEF DeleteRoom
<1>3. ASSUME NEW o \in Owners, NEW x \in children, DeleteComment(o, x) PROVE TypeOK'
  BY <1>3 DEF DeleteComment
\* Most steps of a request change the request only.
<1>4. ASSUME UNCHANGED <<table, children, gens, streams>>, req' \in [Requests -> Request]
      PROVE  TypeOK'
  BY <1>4
<1>5. ASSUME NEW q \in Requests, BeginStep(q) PROVE TypeOK'
  <2>1. ASSUME NEW kind \in {"list", "owned", "room"}, NEW rooms, Begin(q, kind, rooms)
        PROVE  TypeOK'
    <3>1. Copy(rooms) \in [Rooms -> Row]
      BY NoRowType DEF Copy
    <3>2. [Idle EXCEPT !.kind = kind, !.pc = "asking", !.rows = Copy(rooms)] \in Request
      BY <3>1, IdleType DEF Request
    <3> QED
      BY <1>4, <2>1, <3>2 DEF Begin
  <2>2. ASSUME NEW kind \in {"comments", "visits", "POST", "DELETE"},
               NEW place \in {"inserting", "proxying"}, NEW r \in Rooms,
               req' = [req EXCEPT ![q] = [Idle EXCEPT !.kind = kind, !.pc = place, !.room = {r}]],
               UNCHANGED <<table, children, gens, streams>>
        PROVE  TypeOK'
    <3>1. [Idle EXCEPT !.kind = kind, !.pc = place, !.room = {r}] \in Request
      BY IdleType DEF Request
    <3> QED
      BY <1>4, <2>2, <3>1
  <2>3. CASE BeginList(q) \/ (\E o \in Owners : BeginOwned(q, o))
             \/ (\E r \in Rooms : BeginRoom(q, r))
    BY <2>1, <2>3 DEF BeginList, BeginOwned, BeginRoom
  <2>4. CASE \E r \in Rooms : \E child \in {"comments", "visits"} : BeginInsert(q, child, r)
    BY <2>2, <2>4 DEF BeginInsert
  <2>5. CASE \E r \in Rooms : \E method \in {"POST", "DELETE"} : BeginWhip(q, method, r)
    BY <2>2, <2>5 DEF BeginWhip
  <2> QED
    BY <1>5, <2>3, <2>4, <2>5 DEF BeginStep
<1>6. ASSUME NEW q \in Requests, ReconcileStep(q) PROVE TypeOK'
  <2>1. CASE TakeSnapshot(q)
    <3> DEFINE place == IF Copied(req[q].rows) = {} THEN "selecting" ELSE "reconciling"
    <3>1. CASE Answer(q, "ok")
      BY <1>4, <2>1, <3>1, AnswerType DEF TakeSnapshot, Answers
    <3>2. CASE req' = [req EXCEPT ![q].snapshot = streams, ![q].pc = place]
      <4>1. place \in {"selecting", "reconciling"}
        OBVIOUS
      <4> HIDE DEF place
      <4>2. [req[q] EXCEPT !.snapshot = streams, !.pc = place] \in Request
        BY <4>1 DEF Request
      <4> QED
        BY <1>4, <2>1, <3>2, <4>2 DEF TakeSnapshot
    <3> QED
      BY <2>1, <3>1, <3>2 DEF TakeSnapshot
  <2>2. CASE SkipReconcile(q)
    <3>1. [req[q] EXCEPT !.rows = NoRows, !.pc = "selecting"] \in Request
      BY NoRowType DEF Request
    <3>2. req' \in [Requests -> Request]
      BY <2>2, <3>1, AnswerType DEF SkipReconcile, Answers
    <3> QED
      BY <1>4, <2>2, <3>2 DEF SkipReconcile
  <2>3. CASE SelectPublic(q)
    <3> DEFINE public == {r \in Rooms : Exists(r) /\ table[r].status = "live"}
    <3>1. Copy(public) \in [Rooms -> Row]
      BY NoRowType DEF Copy
    <3> HIDE DEF public
    <3>2. [req[q] EXCEPT !.rows = Copy(public), !.pc = "counting"] \in Request
      BY <3>1 DEF Request
    <3>3. Answer(q, "ok") \/ req' = [req EXCEPT ![q].rows = Copy(public), ![q].pc = "counting"]
      BY <2>3 DEF SelectPublic, public
    <3>4. req' \in [Requests -> Request]
      BY <3>2, <3>3, AnswerType DEF Answers
    <3> QED
      BY <1>4, <2>3, <3>4 DEF SelectPublic
  <2>4. ASSUME NEW r \in Rooms, RefreshRoom(q, r) PROVE TypeOK'
    <3> DEFINE next == Seen(req[q].rows[r])
    <3>1. req[q].rows[r] \in Row
      BY DEF Request
    <3>2. next \in Row
      BY <3>1, SeenType
    <3> HIDE DEF next
    <3>3. next.status \in {"waiting", "live"} /\ next.started \in Ages /\ next.seen \in Ages
      BY <3>2 DEF Row
    <3>4. [table[r] EXCEPT !.status = next.status, !.started = next.started, !.seen = next.seen]
            \in Row
      BY <3>3 DEF Row
    <3>5. [req[q] EXCEPT !.pc = "rereading", !.room = {r}] \in Request
      BY DEF Request
    <3>6. CASE Exists(r)
      <4>1. /\ table' = [table EXCEPT ![r].status = next.status,
                                      ![r].started = next.started, ![r].seen = next.seen]
            /\ req' = [req EXCEPT ![q].pc = "rereading", ![q].room = {r}]
            /\ UNCHANGED <<children, gens, streams>>
        BY <2>4, <3>6 DEF RefreshRoom, next
      <4> QED
        BY <3>4, <3>5, <4>1
    <3>7. CASE ~ Exists(r)
      BY <1>4, <2>4, <3>7, FailType DEF RefreshRoom
    <3> QED
      BY <3>6, <3>7
  <2>5. ASSUME NEW r \in Rooms, RereadRoom(q, r) \/ KeepRoom(q, r) PROVE TypeOK'
    BY <1>4, <2>5, DropRowType, FailType DEF RereadRoom, KeepRoom
  <2>6. ASSUME NEW r \in Rooms, ExpireRoom(q, r) PROVE TypeOK'
    <3>1. Fail(q) \/ Answer(q, "notFound") \/ DropRow(q, r)
      BY <2>6 DEF ExpireRoom
    <3>2. req' \in [Requests -> Request]
      BY <3>1, FailType, AnswerType, DropRowType DEF Answers
    <3>3. UNCHANGED <<table, children>> \/ DeleteRow(r)
      BY <2>6 DEF ExpireRoom
    <3> QED
      BY <2>6, <3>2, <3>3, DeleteRowType DEF ExpireRoom
  <2>7. ASSUME NEW r \in Rooms, CountRoom(q, r) PROVE TypeOK'
    <3>1. [req[q] EXCEPT !.rows = [req[q].rows EXCEPT ![r] = NoRow]] \in Request
      BY NoRowType DEF Request
    <3>2. Fail(q) \/ Answer(q, "ok") \/ req' = [req EXCEPT ![q].rows[r] = NoRow]
      BY <2>7 DEF CountRoom
    <3>3. req' \in [Requests -> Request]
      BY <3>1, <3>2, FailType, AnswerType DEF Answers
    <3> QED
      BY <1>4, <2>7, <3>3 DEF CountRoom
  <2> QED
    BY <1>6, <2>1, <2>2, <2>3, <2>4, <2>5, <2>6, <2>7 DEF ReconcileStep
<1>7. ASSUME NEW q \in Requests, OtherStep(q) PROVE TypeOK'
  <2>1. ASSUME NEW r \in Rooms, InsertChild(q, r) PROVE TypeOK'
    <3>1. req' \in [Requests -> Request]
      BY <2>1, AnswerType DEF InsertChild, Answers
    <3>2. req[q].kind \in {"comments", "visits"} /\ table[r].gen \in Nat
      BY <2>1 DEF InsertChild, InsertsChild, Row
    <3>3. [table |-> req[q].kind, room |-> r, gen |-> table[r].gen] \in Child
      BY <3>2 DEF Child
    <3> QED
      BY <2>1, <3>1, <3>3 DEF InsertChild
  <2>2. ASSUME NEW r \in Rooms, PublishStream(q, r) PROVE TypeOK'
    BY <2>2, AnswerType DEF PublishStream, Answers
  <2>3. ASSUME NEW r \in Rooms, TerminateStream(q, r) PROVE TypeOK'
    <3>1. [req[q] EXCEPT !.pc = "removing"] \in Request
      BY DEF Request
    <3> QED
      BY <2>3, <3>1 DEF TerminateStream, Goto
  <2>4. ASSUME NEW r \in Rooms, RemoveRoom(q, r) PROVE TypeOK'
    BY <2>4, AnswerType, DeleteRowType DEF RemoveRoom, Answers
  <2>5. CASE WhipFails(q)
    BY <1>4, <2>5, AnswerType DEF WhipFails, Answers
  <2> QED
    BY <1>7, <2>1, <2>2, <2>3, <2>4, <2>5 DEF OtherStep
<1>8. ASSUME NEW q \in Requests, Finish(q) \/ Abandon(q) PROVE TypeOK'
  BY <1>4, <1>8, IdleType DEF Finish, Abandon
<1>9. ASSUME NEW r \in Rooms, StreamDrops(r) PROVE TypeOK'
  BY <1>9 DEF StreamDrops
<1>10. CASE Tick
  <2>1. \A r \in Rooms : OlderRow(table[r]) \in Row
    BY OlderRowType
  <2>2. \A q \in Requests :
          [req[q] EXCEPT !.rows = [r \in Rooms |-> OlderRow(req[q].rows[r])]] \in Request
    <3> SUFFICES ASSUME NEW q \in Requests
                 PROVE  [req[q] EXCEPT !.rows = [r \in Rooms |-> OlderRow(req[q].rows[r])]]
                          \in Request
      OBVIOUS
    <3>1. [r \in Rooms |-> OlderRow(req[q].rows[r])] \in [Rooms -> Row]
      BY OlderRowType DEF Request
    <3> QED
      BY <3>1 DEF Request
  <2> QED
    BY <1>10, <2>1, <2>2 DEF Tick
<1>11. CASE UNCHANGED vars
  BY <1>11 DEF vars
<1> QED
  BY <1>1, <1>2, <1>3, <1>5, <1>6, <1>7, <1>8, <1>9, <1>10, <1>11 DEF Next, OwnerStep

\* Rows, requests and ages keep their types; an age never passes its bound.
THEOREM TypeCorrect == Spec => []TypeOK
<1>1. TypeInv => TypeOK
  BY DEF TypeInv
<1>2. TypeInv /\ [Next]_vars => TypeInv'
  BY NextType, NextInsertsChild DEF TypeInv
<1> QED
  BY <1>1, <1>2, InitType, PTL DEF Spec

-----------------------------------------------------------------------------
(* The three tables agree *)

\* The steps that leave all tables alone.
LEMMA QuietSteps ==
  ASSUME NEW q \in Requests,
         \/ BeginStep(q) \/ Finish(q) \/ Abandon(q)
         \/ TakeSnapshot(q) \/ SkipReconcile(q) \/ SelectPublic(q) \/ WhipFails(q)
         \/ \E r \in Rooms : \/ RereadRoom(q, r) \/ KeepRoom(q, r) \/ CountRoom(q, r)
                            \/ PublishStream(q, r) \/ TerminateStream(q, r)
  PROVE  UNCHANGED <<table, children>>
BY DEF BeginStep, BeginList, BeginOwned, BeginRoom, Begin, BeginInsert, BeginWhip, Finish, Abandon,
       TakeSnapshot, SkipReconcile, SelectPublic, WhipFails, RereadRoom, KeepRoom, CountRoom,
       PublishStream, TerminateStream

\* A step of the system is quiet, deletes a room, or is one of the others.
LEMMA TableSteps ==
  ASSUME [Next]_vars
  PROVE  \/ UNCHANGED <<table, children>>
         \/ \E r \in Rooms : DeleteRow(r)
         \/ \E o \in Owners, r \in Rooms : CreateRoom(o, r)
         \/ table' = table /\ \E x \in children : children' = children \ {x}
         \/ \E q \in Requests, r \in Rooms : RefreshRoom(q, r)
         \/ \E q \in Requests, r \in Rooms : InsertChild(q, r)
         \/ Tick
<1>1. CASE OwnerStep
  BY <1>1 DEF OwnerStep, DeleteRoom, DeleteComment
<1>2. ASSUME NEW q \in Requests, ReconcileStep(q)
      PROVE  \/ UNCHANGED <<table, children>>
             \/ \E r \in Rooms : DeleteRow(r) \/ RefreshRoom(q, r)
  BY <1>2, QuietSteps DEF ReconcileStep, ExpireRoom
<1>3. ASSUME NEW q \in Requests, OtherStep(q)
      PROVE  \/ UNCHANGED <<table, children>>
             \/ \E r \in Rooms : DeleteRow(r) \/ InsertChild(q, r)
  BY <1>3, QuietSteps DEF OtherStep, RemoveRoom
<1>4. ASSUME NEW q \in Requests, BeginStep(q) \/ Finish(q) \/ Abandon(q)
      PROVE  UNCHANGED <<table, children>>
  BY <1>4, QuietSteps
<1>5. (\E r \in Rooms : StreamDrops(r)) \/ UNCHANGED vars => UNCHANGED <<table, children>>
  BY DEF StreamDrops, vars
<1> QED
  BY <1>1, <1>2, <1>3, <1>4, <1>5 DEF Next

\* Comments and visits belong to the room that is there now: none outlives its
\* room, and a room created again under a used id starts without any.
ChildrenBelongToRoom ==
    \A x \in children : Exists(x.room) /\ x.gen = table[x.room].gen

LEMMA InitChildren == Init => ChildrenBelongToRoom
BY DEF Init, ChildrenBelongToRoom

LEMMA NextChildren == TypeOK /\ ChildrenBelongToRoom /\ [Next]_vars => ChildrenBelongToRoom'
<1> SUFFICES ASSUME TypeOK, ChildrenBelongToRoom, [Next]_vars PROVE ChildrenBelongToRoom'
  OBVIOUS
<1> USE RoomDirectoryAssumption DEF TypeOK, ChildrenBelongToRoom, Exists
<1>1. CASE table' = table /\ (children' = children \/ \E x \in children : children' = children \ {x})
  BY <1>1
<1>2. ASSUME NEW r \in Rooms, DeleteRow(r) PROVE ChildrenBelongToRoom'
  BY <1>2 DEF DeleteRow
<1>3. ASSUME NEW o \in Owners, NEW r \in Rooms, CreateRoom(o, r) PROVE ChildrenBelongToRoom'
  <2>1. \A x \in children : x.room # r
    BY <1>3 DEF CreateRoom
  <2> QED
    BY <1>3, <2>1 DEF CreateRoom
<1>4. ASSUME NEW q \in Requests, NEW r \in Rooms, RefreshRoom(q, r)
      PROVE  ChildrenBelongToRoom'
  <2>1. children' = children /\ \A s \in Rooms : table'[s].gen = table[s].gen
    BY <1>4 DEF RefreshRoom, Row
  <2> QED
    BY <2>1 DEF Child
<1>5. ASSUME NEW q \in Requests, NEW r \in Rooms, InsertChild(q, r)
      PROVE  ChildrenBelongToRoom'
  BY <1>5 DEF InsertChild
<1>6. CASE Tick
  <2>1. children' = children /\ \A s \in Rooms : table'[s].gen = table[s].gen
    BY <1>6, OlderRowType DEF Tick
  <2> QED
    BY <2>1 DEF Child
<1> QED
  BY <1>1, <1>2, <1>3, <1>4, <1>5, <1>6, TableSteps

\* Comments and visits belong to the room that is there now, however the requests
\* that insert them and those that delete the room interleave.
THEOREM ChildrenCorrect == Spec => []ChildrenBelongToRoom
<1>1. TypeInv => TypeOK
  BY DEF TypeInv
<1>2. TypeInv /\ [Next]_vars => TypeInv'
  BY NextType, NextInsertsChild DEF TypeInv
<1> QED
  BY <1>1, <1>2, InitType, InitChildren, NextChildren, PTL DEF Spec

LEMMA InitRows == Init => RowsConsistent
BY DEF Init, RowsConsistent, Exists, NoRow

LEMMA NextRows == TypeOK /\ RowsConsistent /\ [Next]_vars => RowsConsistent'
<1> DEFINE Times(row) == /\ row.status = "live" <=> row.started # Null
                         /\ row.status = "live" <=> row.seen # Null
                         /\ row.started >= row.seen
<1> SUFFICES ASSUME TypeOK, RowsConsistent, [Next]_vars, NEW r \in Rooms, Exists(r)'
             PROVE  /\ \A s \in Rooms \ {r} : Exists(s)' => table'[s].owner # table'[r].owner
                    /\ Times(table'[r])
  BY DEF RowsConsistent, Exists
<1> USE RoomDirectoryAssumption DEF TypeOK, Exists
<1>a. /\ \A s \in Rooms : Exists(s) => Times(table[s])
      /\ \A s, t \in Rooms : Exists(s) /\ Exists(t) /\ s # t => table[s].owner # table[t].owner
  BY DEF RowsConsistent
<1>1. ASSUME \A s \in Rooms : Exists(s)' => Exists(s) /\ table'[s].owner = table[s].owner
      PROVE  \A s \in Rooms \ {r} : Exists(s)' => table'[s].owner # table'[r].owner
  BY <1>1, <1>a
<1>2. CASE table' = table
  BY <1>1, <1>2, <1>a
<1>3. ASSUME NEW d \in Rooms, DeleteRow(d)
      PROVE  \A s \in Rooms : Exists(s)' => Exists(s) /\ table'[s] = table[s]
  BY <1>3 DEF DeleteRow, NoRow
<1>4. ASSUME NEW o \in Owners, NEW c \in Rooms, CreateRoom(o, c)
      PROVE  /\ \A s \in Rooms \ {r} : Exists(s)' => table'[s].owner # table'[r].owner
             /\ Times(table'[r])
  <2>1. /\ \A s \in Rooms : Exists(s) => table[s].owner # o
        /\ table' = [table EXCEPT ![c] = [NoRow EXCEPT !.gen = gens + 1, !.owner = o]]
    BY <1>4 DEF CreateRoom
  <2>2. /\ table'[c].owner = o /\ Times(table'[c])
        /\ \A s \in Rooms \ {c} : table'[s] = table[s]
    BY <2>1 DEF NoRow, Null
  <2> QED
    BY <1>a, <2>1, <2>2
<1>5. ASSUME NEW q \in Requests, NEW s \in Rooms, RefreshRoom(q, s)
      PROVE  /\ \A t \in Rooms : Exists(t)' => Exists(t) /\ table'[t].owner = table[t].owner
             /\ Times(table'[r])
  <2> DEFINE next == Seen(req[q].rows[s])
  <2>1. req[q].rows[s] \in Row
    BY DEF Request
  <2>2. next.status = "live" /\ next.seen = 0 /\ next.started \in 0 .. MaxAge
    BY <2>1, SeenType
  <2>3. \/ table' = table
        \/ table' = [table EXCEPT ![s].status = next.status,
                                  ![s].started = next.started, ![s].seen = next.seen]
    BY <1>5 DEF RefreshRoom
  <2> HIDE DEF next
  <2>4. \A t \in Rooms : table'[t].gen = table[t].gen /\ table'[t].owner = table[t].owner
    BY <2>3 DEF Row
  <2>5. CASE table'[r] = table[r]
    BY <1>a, <2>4, <2>5
  <2>6. CASE /\ table'[r].status = next.status
             /\ table'[r].started = next.started /\ table'[r].seen = next.seen
    BY <2>2, <2>4, <2>6 DEF Null, MaxAge
  <2>7. \/ table'[r] = table[r]
        \/ /\ table'[r].status = next.status
           /\ table'[r].started = next.started /\ table'[r].seen = next.seen
    BY <2>3 DEF Row
  <2> QED
    BY <2>4, <2>5, <2>6, <2>7
<1>6. CASE Tick
  <2>1. \A t \in Rooms : table'[t] = OlderRow(table[t]) /\ table[t] \in Row
    BY <1>6 DEF Tick
  <2>2. \A t \in Rooms : table'[t].gen = table[t].gen /\ table'[t].owner = table[t].owner
    BY <2>1, OlderRowType
  <2>3. /\ table'[r].status = table[r].status
        /\ table'[r].started = Older(table[r].started) /\ table'[r].seen = Older(table[r].seen)
    BY <2>1, OlderRowType
  <2>4. Times(table[r]) /\ table[r].started \in Ages /\ table[r].seen \in Ages
    BY <1>a, <2>2 DEF Row
  <2>5. /\ Older(table[r].started) = Null <=> table[r].started = Null
        /\ Older(table[r].seen) = Null <=> table[r].seen = Null
    BY <2>4, OlderType
  <2>6. Older(table[r].started) >= Older(table[r].seen)
    <3>1. CASE table[r].started = Null
      <4>1. table[r].seen = Null
        BY <2>4, <3>1
      <4> QED
        BY <3>1, <4>1 DEF Older, Null
    <3>2. CASE table[r].started # Null
      BY <2>4, <3>2, OlderMonotone
    <3> QED
      BY <3>1, <3>2
  <2> QED
    BY <1>1, <2>2, <2>3, <2>4, <2>5, <2>6
<1>7. CASE table' = table /\ children' \subseteq children
  BY <1>2, <1>7
<1>8. ASSUME NEW q \in Requests, NEW s \in Rooms, InsertChild(q, s)
      PROVE  table' = table
  BY <1>8 DEF InsertChild
<1>9. ASSUME NEW d \in Rooms, DeleteRow(d)
      PROVE  /\ \A s \in Rooms \ {r} : Exists(s)' => table'[s].owner # table'[r].owner
             /\ Times(table'[r])
  BY <1>1, <1>3, <1>9, <1>a
<1> HIDE DEF Times
<1> QED
  BY <1>1, <1>2, <1>4, <1>5, <1>6, <1>7, <1>8, <1>9, TableSteps

\* An owner has one room, and a row is live once it was seen, and seen not before
\* it started, although requests write back what they computed from older rows.
THEOREM RowsCorrect == Spec => []RowsConsistent
<1>1. TypeInv => TypeOK
  BY DEF TypeInv
<1>2. TypeInv /\ [Next]_vars => TypeInv'
  BY NextType, NextInsertsChild DEF TypeInv
<1> QED
  BY <1>1, <1>2, InitType, InitRows, NextRows, PTL DEF Spec

-----------------------------------------------------------------------------
(* The tables implement RoomLedger *)

\* Rooms are counted when they are created, and only then.
LEMMA CountSteps ==
  ASSUME [Next]_vars
  PROVE  gens' = gens \/ \E o \in Owners, r \in Rooms : CreateRoom(o, r)
<1>1. CASE OwnerStep
  BY <1>1 DEF OwnerStep, DeleteRoom, DeleteComment
<1>2. ASSUME NEW q \in Requests, ReconcileStep(q)
      PROVE  gens' = gens
  BY <1>2 DEF ReconcileStep, TakeSnapshot, SkipReconcile, SelectPublic, RefreshRoom, RereadRoom,
         ExpireRoom, KeepRoom, CountRoom
<1>3. ASSUME NEW q \in Requests, OtherStep(q)
      PROVE  gens' = gens
  BY <1>3 DEF OtherStep, InsertChild, PublishStream, TerminateStream, RemoveRoom, WhipFails
<1>4. ASSUME NEW q \in Requests, BeginStep(q) \/ Finish(q) \/ Abandon(q)
      PROVE  gens' = gens
  BY <1>4 DEF BeginStep, BeginList, BeginOwned, BeginRoom, Begin, BeginInsert, BeginWhip, Finish,
         Abandon
<1>5. (\E r \in Rooms : StreamDrops(r)) \/ Tick \/ UNCHANGED vars => gens' = gens
  BY DEF StreamDrops, Tick, vars
<1> QED
  BY <1>1, <1>2, <1>3, <1>4, <1>5 DEF Next

\* What the ledger sees of a row.
Page(row) == [gen |-> row.gen, owner |-> row.owner, status |-> row.status]

LEMMA OpenRoomsFacts ==
  /\ OpenRooms = [r \in Rooms |-> IF table[r].gen # 0 THEN {Page(table[r])} ELSE {}]
  /\ OpenRooms' = [r \in Rooms |-> IF table'[r].gen # 0 THEN {Page(table'[r])} ELSE {}]
BY DEF OpenRooms, Exists, Page

\* Rows that differ in their times only are the same to the ledger.
LEMMA SamePages ==
  ASSUME \A r \in Rooms : /\ table'[r].gen = table[r].gen
                          /\ table[r].gen # 0 => Page(table'[r]) = Page(table[r])
  PROVE  OpenRooms' = OpenRooms
BY OpenRoomsFacts

LEMMA InitLedger == Init => Ledger!LedgerInit
<1> SUFFICES ASSUME Init PROVE Ledger!LedgerInit
  OBVIOUS
<1>1. \A r \in Rooms : table[r].gen = 0
  BY DEF Init, NoRow
<1>2. OpenRooms = [r \in Rooms |-> {}]
  BY <1>1, OpenRoomsFacts
<1> QED
  BY <1>2 DEF Init, Ledger!LedgerInit

LEMMA NextLedger == TypeInv /\ [Next]_vars => [Ledger!LedgerNext]_(Ledger!ledgerVars)
<1> DEFINE Step == Ledger!LedgerNext \/ UNCHANGED <<OpenRooms, children, gens>>
<1> SUFFICES ASSUME TypeInv, [Next]_vars PROVE Step
  BY DEF Ledger!ledgerVars
<1>t. table \in [Rooms -> Row] /\ gens \in Nat /\ children \subseteq Child
  BY DEF TypeInv, TypeOK
<1>1. CASE UNCHANGED <<table, children, gens>>
  BY <1>1 DEF OpenRooms, Exists
<1>2. ASSUME NEW r \in Rooms, DeleteRow(r), gens' = gens
      PROVE  Ledger!Close(r)
  <2>1. table' = [table EXCEPT ![r] = NoRow] /\ children' = {x \in children : x.room # r}
    BY <1>2 DEF DeleteRow
  <2>2. NoRow.gen = 0
    BY DEF NoRow
  <2>3. OpenRooms' = [OpenRooms EXCEPT ![r] = {}]
    BY <1>t, <2>1, <2>2, OpenRoomsFacts
  <2> QED
    BY <1>2, <2>1, <2>3 DEF Ledger!Close
<1>3. ASSUME NEW o \in Owners, NEW r \in Rooms, CreateRoom(o, r)
      PROVE  Ledger!Open(o, r)
  <2> DEFINE row == [NoRow EXCEPT !.gen = gens + 1, !.owner = o]
  <2>1. /\ table[r].gen = 0 /\ gens' = gens + 1 /\ table' = [table EXCEPT ![r] = row]
        /\ children' = children
        /\ \A s \in Rooms : table[s].gen # 0 => table[s].owner # o
    BY <1>3 DEF CreateRoom, Exists
  <2>2. row.gen = gens + 1 /\ row.gen # 0 /\ row.owner = o /\ row.status = "waiting"
    BY <1>t DEF NoRow
  <2> HIDE DEF row
  <2>3. Page(row) = [gen |-> gens + 1, owner |-> o, status |-> "waiting"]
    BY <2>2 DEF Page
  <2>4. OpenRooms' = [OpenRooms EXCEPT ![r] = {Page(row)}]
    BY <1>t, <2>1, <2>2, OpenRoomsFacts
  <2>5. OpenRooms[r] = {} /\ \A s \in Rooms : \A e \in OpenRooms[s] : e.owner # o
    BY <2>1, OpenRoomsFacts DEF Page
  <2> QED
    BY <2>1, <2>3, <2>4, <2>5 DEF Ledger!Open
<1>4. ASSUME NEW x \in children, table' = table, children' = children \ {x}, gens' = gens
      PROVE  Ledger!Erase(x)
  BY <1>4 DEF Ledger!Erase, OpenRooms, Exists
<1>5. ASSUME NEW q \in Requests, NEW r \in Rooms, RefreshRoom(q, r), gens' = gens
      PROVE  Step
  <2>1. CASE ~ Exists(r)
    <3>1. UNCHANGED <<table, children>>
      BY <1>5, <2>1 DEF RefreshRoom
    <3> QED
      BY <1>1, <1>5, <3>1
  <2>2. CASE Exists(r)
    <3> DEFINE next == Seen(req[q].rows[r])
               row == [table[r] EXCEPT !.status = next.status, !.started = next.started,
                                       !.seen = next.seen]
    <3>1. children' = children /\ table' = [table EXCEPT ![r] = row]
      BY <1>5, <2>2 DEF RefreshRoom
    <3>2. req[q].rows[r] \in Row
      BY DEF TypeInv, TypeOK, Request
    <3>3. next.status = "live"
      BY <3>2 DEF Seen, Row
    <3>4. table[r] \in Row
      BY <1>t
    <3>5. row.gen = table[r].gen /\ row.owner = table[r].owner /\ row.status = "live"
      BY <3>3, <3>4 DEF Row
    <3> HIDE DEF row
    <3>6. table[r].gen # 0
      BY <2>2 DEF Exists
    <3>7. OpenRooms[r] = {Page(table[r])}
      BY <3>6, OpenRoomsFacts
    <3>8. Page(row) = [Page(table[r]) EXCEPT !.status = "live"]
      BY <3>5 DEF Page
    <3>9. OpenRooms' = [OpenRooms EXCEPT ![r] = {Page(row)}]
      BY <1>t, <3>1, <3>5, <3>6, OpenRoomsFacts
    <3>10. Ledger!GoLive(r)
      BY <1>5, <3>1, <3>7, <3>8, <3>9 DEF Ledger!GoLive
    <3> QED
      BY <3>10 DEF Ledger!LedgerNext
  <2> QED
    BY <2>1, <2>2
<1>6. ASSUME NEW q \in Requests, NEW r \in Rooms, InsertChild(q, r), gens' = gens
      PROVE  Step
  <2>1. CASE ~ Exists(r)
    BY <1>1, <1>6, <2>1 DEF InsertChild
  <2>2. CASE Exists(r)
    <3>1. req[q].kind \in {"comments", "visits"}
      BY <1>6 DEF InsertChild, TypeInv, InsertsChild
    <3>2. /\ table' = table
          /\ children' = children \cup {[table |-> req[q].kind, room |-> r, gen |-> table[r].gen]}
      BY <1>6, <2>2 DEF InsertChild
    <3>3. OpenRooms[r] = {Page(table[r])} /\ Page(table[r]).gen = table[r].gen
      BY <2>2, OpenRoomsFacts DEF Exists, Page
    <3>4. OpenRooms' = OpenRooms
      BY <3>2 DEF OpenRooms, Exists
    <3>5. Ledger!Enter(req[q].kind, r)
      BY <1>6, <3>2, <3>3, <3>4 DEF Ledger!Enter
    <3> QED
      BY <3>1, <3>5 DEF Ledger!LedgerNext
  <2> QED
    BY <2>1, <2>2
<1>7. CASE Tick
  <2>1. children' = children /\ gens' = gens /\ table' = [r \in Rooms |-> OlderRow(table[r])]
    BY <1>7 DEF Tick
  <2>2. \A r \in Rooms : /\ table'[r].gen = table[r].gen /\ table'[r].owner = table[r].owner
                         /\ table'[r].status = table[r].status
    BY <1>t, <2>1, OlderRowType
  <2>3. \A r \in Rooms : Page(table'[r]) = Page(table[r])
    BY <2>2 DEF Page
  <2> QED
    BY <2>1, <2>2, <2>3, SamePages
<1>8. CASE \E o \in Owners, r \in Rooms : CreateRoom(o, r)
  BY <1>3, <1>8 DEF Ledger!LedgerNext
<1>9. CASE gens' = gens /\ ~ \E o \in Owners, r \in Rooms : CreateRoom(o, r)
  <2>1. (\E r \in Rooms : DeleteRow(r)) => Step
    BY <1>2, <1>9 DEF Ledger!LedgerNext
  <2>2. (table' = table /\ \E x \in children : children' = children \ {x}) => Step
    BY <1>4, <1>9 DEF Ledger!LedgerNext
  <2> HIDE DEF Step
  <2> QED
    BY <1>1, <1>5, <1>6, <1>7, <1>9, <2>1, <2>2, TableSteps
<1> QED
  BY <1>8, <1>9, CountSteps

\* Whatever requests write by their old copies, a room keeps its number and its owner,
\* stays live once it is, takes its comments and visits with it, and does not come back.
THEOREM LedgerImplemented == Spec => ImplementsRoomLedger
<1>1. TypeInv /\ [Next]_vars => TypeInv'
  BY NextType, NextInsertsChild DEF TypeInv
<1> QED
  BY <1>1, InitType, InitLedger, NextLedger, PTL DEF Spec, ImplementsRoomLedger, Ledger!LedgerSpec

-----------------------------------------------------------------------------
(* Requests one at a time                                                  *)
(*                                                                         *)
(* GraceKept and StartedIsKept fail when two requests reconcile one room:  *)
(* each writes back what it computed from the row it read first.  They     *)
(* hold when requests are served one after the other, whatever the owners, *)
(* the encoders and the clock do meanwhile.                                *)

Serial == \A p, q \in Requests : p = q

\* A copied row is the row of the table, or the room was deleted since and, at most,
\* created again and not yet live; unless the request has just written the row.
CopyIsFresh(q, r) ==
    LET copy == req[q].rows[r]
    IN  /\ copy.gen <= gens
        /\ \/ copy.gen = 0
           \/ req[q].pc = "rereading" /\ req[q].room = {r}
           \/ table[r] = copy
           \/ table[r].gen # copy.gen /\ (Exists(r) => table[r].status = "waiting")

SerialInv ==
    /\ \A r \in Rooms : table[r].gen <= gens
    /\ \A q \in Requests, r \in Rooms : CopyIsFresh(q, r)

LEMMA InitSerial == Init => SerialInv
BY DEF Init, SerialInv, CopyIsFresh, Idle, NoRows, NoRow

\* A row takes on a generation when it is created, and then the newest.
LEMMA NextGens ==
  TypeOK /\ (\A r \in Rooms : table[r].gen <= gens) /\ [Next]_vars
    => gens' >= gens /\ \A r \in Rooms : table'[r].gen <= gens'
<1> SUFFICES ASSUME TypeOK, \A r \in Rooms : table[r].gen <= gens, [Next]_vars
             PROVE  gens' >= gens /\ \A r \in Rooms : table'[r].gen <= gens'
  OBVIOUS
<1> USE DEF TypeOK
<1>1. ASSUME NEW o \in Owners, NEW c \in Rooms, CreateRoom(o, c)
      PROVE  gens' >= gens /\ \A r \in Rooms : table'[r].gen <= gens'
  <2>1. /\ gens' = gens + 1
        /\ table' = [table EXCEPT ![c] = [NoRow EXCEPT !.gen = gens + 1, !.owner = o]]
    BY <1>1 DEF CreateRoom
  <2>2. table'[c].gen = gens + 1 /\ \A r \in Rooms \ {c} : table'[r] = table[r]
    BY <2>1 DEF NoRow
  <2>3. \A r \in Rooms : table[r].gen \in Nat
    BY DEF Row
  <2> QED
    BY <2>1, <2>2, <2>3
<1>2. ASSUME gens' = gens, \A r \in Rooms : table'[r].gen \in {0, table[r].gen}
      PROVE  gens' >= gens /\ \A r \in Rooms : table'[r].gen <= gens'
  BY <1>2
<1>3. ASSUME NEW d \in Rooms, DeleteRow(d)
      PROVE  \A r \in Rooms : table'[r].gen \in {0, table[r].gen}
  BY <1>3 DEF DeleteRow, NoRow
<1>4. ASSUME NEW q \in Requests, NEW s \in Rooms, RefreshRoom(q, s)
      PROVE  \A r \in Rooms : table'[r].gen = table[r].gen
  BY <1>4 DEF RefreshRoom, Row
<1>5. CASE Tick
  <2>1. gens' = gens /\ \A r \in Rooms : table'[r].gen = table[r].gen
    BY <1>5, OlderRowType DEF Tick
  <2> QED
    BY <1>2, <2>1
<1>6. gens' = gens \/ \E o \in Owners, r \in Rooms : CreateRoom(o, r)
  BY CountSteps
<1>7. CASE gens' = gens /\ ~ \E o \in Owners, r \in Rooms : CreateRoom(o, r)
  <2>1. ASSUME NEW q \in Requests, NEW r \in Rooms, InsertChild(q, r) PROVE table' = table
    BY <2>1 DEF InsertChild
  <2> QED
    BY <1>2, <1>3, <1>4, <1>5, <1>7, <2>1, TableSteps
<1> QED
  BY <1>1, <1>6, <1>7

LEMMA NextSerialCopies ==
  ASSUME Serial, TypeInv, SerialInv, [Next]_vars
  PROVE  \A q \in Requests, r \in Rooms : CopyIsFresh(q, r)'
<1> SUFFICES ASSUME NEW q \in Requests, NEW r \in Rooms PROVE CopyIsFresh(q, r)'
  OBVIOUS
<1> USE RoomDirectoryAssumption DEF TypeInv, TypeOK
<1> DEFINE copy == req[q].rows[r]
<1>a. /\ CopyIsFresh(q, r) /\ gens \in Nat /\ gens' \in Nat /\ gens' >= gens
      /\ table[r] \in Row /\ copy \in Row /\ copy.gen \in Nat /\ table[r].gen \in Nat
      /\ table[r].gen <= gens /\ \A p \in Requests : p = q
  <2>1. gens' \in Nat
    BY NextType
  <2>2. gens' >= gens
    BY NextGens DEF SerialInv
  <2>3. table[r] \in Row /\ copy \in Row
    BY DEF Request
  <2>4. copy.gen \in Nat /\ table[r].gen \in Nat
    BY <2>3 DEF Row
  <2> QED
    BY <2>1, <2>2, <2>3, <2>4 DEF SerialInv, Serial
\* The request forgets the copy.
<1>1. ASSUME req'[q].rows[r] = NoRow PROVE CopyIsFresh(q, r)'
  BY <1>a, <1>1 DEF CopyIsFresh, NoRow
<1>2. ASSUME NEW outcome, Answer(q, outcome) PROVE CopyIsFresh(q, r)'
  <2>1. req'[q] = [Idle EXCEPT !.kind = req[q].kind, !.pc = outcome]
    BY <1>2 DEF Answer
  <2> QED
    BY <1>1, <2>1 DEF Idle, NoRows
<1>3. ASSUME Fail(q) PROVE CopyIsFresh(q, r)'
  BY <1>2, <1>3 DEF Fail
\* The request keeps it, and the row of the table is as it was, or gone.
<1>4. ASSUME req'[q].rows[r] = copy,
             table'[r] = table[r] \/ table'[r].gen = 0,
             req[q].pc = "rereading" /\ req[q].room = {r}
                 => req'[q].pc = "rereading" /\ req'[q].room = {r}
      PROVE  CopyIsFresh(q, r)'
  <2>1. copy.gen <= gens'
    BY <1>a DEF CopyIsFresh
  <2>2. CASE table'[r] = table[r]
    BY <1>a, <1>4, <2>1, <2>2 DEF CopyIsFresh, Exists
  <2>3. CASE table'[r].gen = 0
    BY <1>a, <1>4, <2>1, <2>3 DEF CopyIsFresh, Exists
  <2> QED
    BY <1>4, <2>2, <2>3
\* A step of the request on another room, whose row it drops.
<1>5. ASSUME NEW s \in Rooms, DropRow(q, s), table'[r] = table[r] \/ table'[r].gen = 0,
             req[q].pc = "rereading" => s \in req[q].room
      PROVE  CopyIsFresh(q, r)'
  <2>1. CASE \E outcome : Answer(q, outcome)
    BY <1>2, <2>1
  <2>2. CASE ~ \E outcome : Answer(q, outcome)
    <3>1. req'[q].rows = [req[q].rows EXCEPT ![s] = NoRow]
      BY <1>5, <2>2 DEF DropRow, Request
    <3>2. CASE s = r
      BY <1>1, <3>1, <3>2 DEF Request
    <3>3. CASE s # r
      <4>1. req'[q].rows[r] = copy
        BY <3>1, <3>3 DEF Request
      <4>2. ~ (req[q].pc = "rereading" /\ req[q].room = {r})
        BY <1>5, <3>3
      <4> QED
        BY <1>4, <1>5, <4>1, <4>2
    <3> QED
      BY <3>2, <3>3
  <2> QED
    BY <2>1, <2>2
\* The request takes a copy of the row, or of none.
<1>6. ASSUME NEW rooms, req'[q].rows = Copy(rooms), table' = table PROVE CopyIsFresh(q, r)'
  <2>1. req'[q].rows[r] = table[r] \/ req'[q].rows[r] = NoRow
    BY <1>6 DEF Copy
  <2>2. CASE req'[q].rows[r] = table[r]
    BY <1>6, <1>a, <2>2 DEF CopyIsFresh
  <2> QED
    BY <1>1, <2>1, <2>2
<1>7. ASSUME NEW o \in Owners, NEW c \in Rooms, CreateRoom(o, c) PROVE CopyIsFresh(q, r)'
  <2>1. /\ gens' = gens + 1 /\ req' = req
        /\ table' = [table EXCEPT ![c] = [NoRow EXCEPT !.gen = gens + 1, !.owner = o]]
    BY <1>7 DEF CreateRoom
  <2>2. CASE c # r
    BY <1>4, <2>1, <2>2
  <2>3. CASE c = r
    <3>1. table'[r].gen = gens + 1 /\ table'[r].status = "waiting"
      BY <2>1, <2>3 DEF NoRow
    <3>2. copy.gen <= gens
      BY <1>a DEF CopyIsFresh
    <3>3. table'[r].gen # copy.gen /\ copy.gen <= gens'
      BY <1>a, <2>1, <3>1, <3>2
    <3> QED
      BY <2>1, <3>1, <3>3 DEF CopyIsFresh
  <2> QED
    BY <2>2, <2>3
<1>8. CASE OwnerStep
  <2>1. ASSUME NEW o \in Owners, NEW d \in Rooms, DeleteRoom(o, d) PROVE CopyIsFresh(q, r)'
    <3>1. req' = req /\ table' = [table EXCEPT ![d] = NoRow]
      BY <2>1 DEF DeleteRoom, DeleteRow
    <3>2. table'[r] = table[r] \/ table'[r].gen = 0
      BY <3>1 DEF NoRow
    <3> QED
      BY <1>4, <3>1, <3>2
  <2>2. ASSUME NEW o \in Owners, NEW x \in children, DeleteComment(o, x) PROVE CopyIsFresh(q, r)'
    BY <1>4, <2>2 DEF DeleteComment
  <2> QED
    BY <1>7, <1>8, <2>1, <2>2 DEF OwnerStep
<1>9. CASE BeginStep(q)
  <2>1. ASSUME NEW kind, NEW rooms, Begin(q, kind, rooms) PROVE CopyIsFresh(q, r)'
    <3>1. req'[q].rows = Copy(rooms) /\ table' = table
      BY <2>1 DEF Begin, Idle
    <3> QED
      BY <1>6, <3>1
  <2>2. ASSUME NEW kind, NEW s, BeginInsert(q, kind, s) \/ BeginWhip(q, kind, s)
        PROVE  CopyIsFresh(q, r)'
    <3>1. req'[q].rows = NoRows
      BY <2>2 DEF BeginInsert, BeginWhip, Idle
    <3> QED
      BY <1>1, <3>1 DEF NoRows
  <2> QED
    BY <1>9, <2>1, <2>2 DEF BeginStep, BeginList, BeginOwned, BeginRoom
<1>10. CASE ReconcileStep(q)
  <2>1. CASE TakeSnapshot(q)
    <3>1. CASE \E outcome : Answer(q, outcome)
      BY <1>2, <3>1
    <3>2. CASE ~ \E outcome : Answer(q, outcome)
      <4>1. req'[q].rows = req[q].rows /\ table' = table /\ req[q].pc # "rereading"
        BY <2>1, <3>2 DEF TakeSnapshot, Request
      <4> QED
        BY <1>4, <4>1
    <3> QED
      BY <3>1, <3>2
  <2>2. CASE SkipReconcile(q)
    <3>1. (\E outcome : Answer(q, outcome)) \/ req'[q].rows = NoRows
      BY <2>2 DEF SkipReconcile, Request
    <3> QED
      BY <1>1, <1>2, <3>1 DEF NoRows
  <2>3. CASE SelectPublic(q)
    <3>1. CASE \E outcome : Answer(q, outcome)
      BY <1>2, <3>1
    <3>2. CASE ~ \E outcome : Answer(q, outcome)
      <4>1. (\E rooms : req'[q].rows = Copy(rooms)) /\ table' = table
        BY <2>3, <3>2 DEF SelectPublic, Request
      <4> QED
        BY <1>6, <4>1
    <3> QED
      BY <3>1, <3>2
  <2>4. ASSUME NEW s \in Rooms, RefreshRoom(q, s) PROVE CopyIsFresh(q, r)'
    <3>1. CASE Exists(s)
      <4>1. /\ req[q].pc = "reconciling"
            /\ req' = [req EXCEPT ![q].pc = "rereading", ![q].room = {s}]
            /\ \A t \in Rooms \ {s} : table'[t] = table[t]
        BY <2>4, <3>1 DEF RefreshRoom, Reconciling
      <4>2. req'[q].rows = req[q].rows /\ req'[q].pc = "rereading" /\ req'[q].room = {s}
        BY <4>1 DEF Request
      <4>3. CASE r = s
        BY <1>a, <4>2, <4>3 DEF CopyIsFresh
      <4>4. CASE r # s
        BY <1>4, <4>1, <4>2, <4>4
      <4> QED
        BY <4>3, <4>4
    <3>2. CASE ~ Exists(s)
      BY <1>3, <2>4, <3>2 DEF RefreshRoom
    <3> QED
      BY <3>1, <3>2
  <2>5. ASSUME NEW s \in Rooms, RereadRoom(q, s) PROVE CopyIsFresh(q, r)'
    BY <1>3, <1>5, <2>5 DEF RereadRoom
  <2>6. ASSUME NEW s \in Rooms, KeepRoom(q, s) PROVE CopyIsFresh(q, r)'
    BY <1>5, <2>6 DEF KeepRoom, Reconciling
  <2>7. ASSUME NEW s \in Rooms, ExpireRoom(q, s) PROVE CopyIsFresh(q, r)'
    <3>1. req[q].pc = "reconciling"
      BY <2>7 DEF ExpireRoom, Reconciling
    <3>2. Fail(q) \/ Answer(q, "notFound") \/ (DropRow(q, s) /\ DeleteRow(s))
      BY <2>7 DEF ExpireRoom
    <3>3. DeleteRow(s) => table'[r] = table[r] \/ table'[r].gen = 0
      BY DEF DeleteRow, NoRow
    <3> QED
      BY <1>2, <1>3, <1>5, <3>1, <3>2, <3>3
  <2>8. ASSUME NEW s \in Rooms, CountRoom(q, s) PROVE CopyIsFresh(q, r)'
    <3>1. CASE Fail(q) \/ \E outcome : Answer(q, outcome)
      BY <1>2, <1>3, <3>1
    <3>2. CASE ~ (Fail(q) \/ \E outcome : Answer(q, outcome))
      <4>1. /\ req' = [req EXCEPT ![q].rows[s] = NoRow] /\ table' = table
            /\ req[q].pc = "counting"
        BY <2>8, <3>2 DEF CountRoom
      <4>2. req'[q].rows[r] = NoRow \/ req'[q].rows[r] = copy
        BY <4>1 DEF Request
      <4> QED
        BY <1>1, <1>4, <4>1, <4>2
    <3> QED
      BY <3>1, <3>2
  <2> QED
    BY <1>10, <2>1, <2>2, <2>3, <2>4, <2>5, <2>6, <2>7, <2>8 DEF ReconcileStep
<1>11. CASE OtherStep(q)
  <2>1. ASSUME NEW s \in Rooms, TerminateStream(q, s) PROVE CopyIsFresh(q, r)'
    <3>1. req'[q].rows = req[q].rows /\ table' = table /\ req[q].pc # "rereading"
      BY <2>1 DEF TerminateStream, Goto, Request
    <3> QED
      BY <1>4, <3>1
  <2> QED
    BY <1>2, <1>11, <2>1 DEF OtherStep, InsertChild, PublishStream, RemoveRoom, WhipFails
<1>12. CASE Finish(q) \/ Abandon(q)
  <2>1. req'[q].rows = NoRows
    BY <1>12 DEF Finish, Abandon, Idle
  <2> QED
    BY <1>1, <2>1 DEF NoRows
<1>13. CASE Tick
  <2>1. table'[r] = OlderRow(table[r]) /\ gens' = gens
    BY <1>13 DEF Tick
  <2>2. /\ req'[q].rows[r] = OlderRow(copy)
        /\ req'[q].pc = req[q].pc /\ req'[q].room = req[q].room
    BY <1>13 DEF Tick, Request
  <2>3. /\ OlderRow(copy).gen = copy.gen /\ OlderRow(table[r]).gen = table[r].gen
        /\ OlderRow(table[r]).status = table[r].status
    BY <1>a, OlderRowType
  <2> QED
    BY <1>a, <2>1, <2>2, <2>3 DEF CopyIsFresh, Exists
<1>14. CASE (\E s \in Rooms : StreamDrops(s)) \/ UNCHANGED vars
  BY <1>4, <1>14 DEF StreamDrops, vars
<1> QED
  BY <1>a, <1>8, <1>9, <1>10, <1>11, <1>12, <1>13, <1>14 DEF Next

LEMMA NextSerial == Serial /\ TypeInv /\ SerialInv /\ [Next]_vars => SerialInv'
<1> SUFFICES ASSUME Serial, TypeInv, SerialInv, [Next]_vars PROVE SerialInv'
  OBVIOUS
<1>1. \A r \in Rooms : table'[r].gen <= gens'
  BY NextGens DEF SerialInv, TypeInv
<1>2. \A q \in Requests, r \in Rooms : CopyIsFresh(q, r)'
  BY NextSerialCopies
<1> QED
  BY <1>1, <1>2 DEF SerialInv

\* A request that reconciles a live room has the row of the table.
LEMMA LiveCopyIsRow ==
  ASSUME TypeInv, SerialInv, NEW q \in Requests, NEW r \in Rooms, Reconciling(q, r),
         Exists(r), table[r].status = "live"
  PROVE  req[q].rows[r] = table[r]
BY DEF SerialInv, CopyIsFresh, Reconciling, Copied

\* Requests one at a time: a live room is expired only when its stream was last seen
\* longer ago than the grace period.
THEOREM SerialGraceKept == Serial => (Spec => GraceKept)
<1> SUFFICES ASSUME Serial PROVE Spec => GraceKept
  OBVIOUS
<1>1. TypeInv /\ [Next]_vars => TypeInv'
  BY NextType, NextInsertsChild DEF TypeInv
<1>2. TypeInv /\ SerialInv /\ [Next]_vars => SerialInv'
  BY NextSerial
<1>3. TypeInv /\ SerialInv
        => [\A r \in Rooms :
               Exists(r) /\ table[r].status = "live" /\ (\E q \in Requests : ExpireRoom(q, r))
                   => table[r].seen > Grace]_vars
  <2> SUFFICES ASSUME TypeInv, SerialInv, NEW r \in Rooms, Exists(r), table[r].status = "live",
                      NEW q \in Requests, ExpireRoom(q, r)
               PROVE  table[r].seen > Grace
    OBVIOUS
  <2>1. req[q].rows[r] = table[r]
    BY LiveCopyIsRow DEF ExpireRoom
  <2> QED
    BY <2>1 DEF ExpireRoom, Expired
<1> QED
  BY <1>1, <1>2, <1>3, InitType, InitSerial, PTL DEF Spec, GraceKept

\* Requests one at a time: the start of a stream stays where it was for as long as
\* the room is live.
THEOREM SerialStartedIsKept == Serial => (Spec => StartedIsKept)
<1> SUFFICES ASSUME Serial PROVE Spec => StartedIsKept
  OBVIOUS
<1>1. TypeInv /\ [Next]_vars => TypeInv'
  BY NextType, NextInsertsChild DEF TypeInv
<1>2. TypeInv /\ SerialInv /\ [Next]_vars => SerialInv'
  BY NextSerial
<1>3. TypeInv /\ RowsConsistent /\ [Next]_vars => RowsConsistent'
  BY NextRows DEF TypeInv
<1>4. TypeInv /\ RowsConsistent /\ SerialInv /\ [Next]_vars
        => [\A r \in Rooms :
               Exists(r) /\ table[r].status = "live" /\ table'[r].gen = table[r].gen
                   => table'[r].status = "live" /\ table'[r].started >= table[r].started]_vars
  <2> SUFFICES ASSUME TypeInv, RowsConsistent, SerialInv, [Next]_vars, NEW r \in Rooms,
                      Exists(r), table[r].status = "live", table'[r].gen = table[r].gen
               PROVE  table'[r].status = "live" /\ table'[r].started >= table[r].started
    OBVIOUS
  <2> USE RoomDirectoryAssumption DEF TypeInv, TypeOK
  <2>0. table[r] \in Row /\ table[r].started \in Ages /\ table[r].started # Null
    BY DEF RowsConsistent, Row
  <2>1. CASE table'[r] = table[r]
    BY <2>0, <2>1 DEF Ages, Null, MaxAge
  <2>2. ASSUME NEW d \in Rooms, DeleteRow(d) PROVE table'[r] = table[r]
    BY <2>2 DEF DeleteRow, NoRow, Exists
  <2>3. ASSUME NEW o \in Owners, NEW c \in Rooms, CreateRoom(o, c) PROVE table'[r] = table[r]
    BY <2>3 DEF CreateRoom
  <2>4. ASSUME NEW q \in Requests, NEW s \in Rooms, RefreshRoom(q, s)
        PROVE  table'[r].status = "live" /\ table'[r].started >= table[r].started
    <3>1. CASE s # r \/ ~ Exists(s)
      BY <2>1, <2>4, <3>1 DEF RefreshRoom
    <3>2. CASE s = r /\ Exists(s)
      <4>1. req[q].rows[r] = table[r]
        BY <2>4, <3>2, LiveCopyIsRow DEF RefreshRoom
      <4>2. Seen(table[r]).status = "live" /\ Seen(table[r]).started = table[r].started
        BY <2>0 DEF Seen, Row
      <4>3. table'[r].status = Seen(table[r]).status /\ table'[r].started = Seen(table[r]).started
        BY <2>0, <2>4, <3>2, <4>1 DEF RefreshRoom, Row
      <4> QED
        BY <2>0, <4>2, <4>3 DEF Ages, Null, MaxAge
    <3> QED
      BY <3>1, <3>2
  <2>5. CASE Tick
    <3>1. table'[r] = OlderRow(table[r])
      BY <2>5 DEF Tick
    <3>2. table'[r].status = table[r].status /\ table'[r].started = Older(table[r].started)
      BY <2>0, <3>1, OlderRowType
    <3> QED
      BY <2>0, <3>2 DEF Older, Ages, Null, MaxAge
  <2>6. ASSUME NEW q \in Requests, NEW s \in Rooms, InsertChild(q, s) PROVE table'[r] = table[r]
    BY <2>6 DEF InsertChild
  <2> QED
    BY <2>1, <2>2, <2>3, <2>4, <2>5, <2>6, TableSteps
<1> QED
  BY <1>1, <1>2, <1>3, <1>4, InitType, InitRows, InitSerial, PTL DEF Spec, StartedIsKept
=============================================================================

----------------------------- MODULE RoomActivity ----------------------------
(***************************************************************************)
(* The activity of the room on the watch page                              *)
(* (frontend/src/features/watch/model/useRoomActivity.ts): its first load, *)
(* the statistics asked for every five seconds, the comments that arrive   *)
(* over the socket of useCommentSocket, and the older pages of comments.   *)
(*                                                                         *)
(* Comments are numbered as they are stored.  A room is selected once and  *)
(* stays (WatchPage).  Presence, visitors and elapsed time are left out:   *)
(* they are set beside what is modelled and decide nothing.  A request for *)
(* statistics that fails changes nothing, and has no action.               *)
(***************************************************************************)
EXTENDS CommentPages, Integers, Sequences

CONSTANTS
    Polls           \* slots for requests for statistics whose answer is on its way

Counts == 0 .. MaxComments
NotFound == -1      \* an answer 404
Nothing == -2       \* no answer; loadedStats is null

VARIABLES
    stored,         \* the backend: comments of the room so far
    gone,           \* the backend: the room has been removed
    wire,           \* frames on their way to an open socket
    connected,      \* the socket is open
    load,           \* loadRoomActivity: its step, and the last comment of its page
    visit,          \* the statistics of its visit
    polls,          \* answers to refreshStats on their way
    polling,        \* the interval of the statistics effect runs
    comments,       \* comments
    paged,          \* history: how many of them come from pages
    cursor,         \* nextCommentCursor, by its comment; 0 for null
    older,          \* the cursor loadOlderComments waits with; 0 when it does not
    loadedStats,    \* loadedStats.commentCount
    realtime,       \* realtimeCommentCount
    streamEnded, roomNotFound

server == <<stored, gone>>
socket == <<wire, connected>>
firstLoad == <<load, visit>>
list == <<comments, paged, cursor>>
counts == <<loadedStats, realtime>>
flags == <<streamEnded, roomNotFound>>
activityVars == <<server, socket, firstLoad, polls, polling, list, older, counts, flags>>

ActivityInit ==
    /\ stored \in Counts /\ gone = FALSE
    /\ wire = <<>> /\ connected = FALSE
    /\ load = [step |-> "none", last |-> 0] /\ visit = Nothing
    /\ polls = [p \in Polls |-> Nothing] /\ polling = FALSE
    /\ comments = <<>> /\ paged = 0 /\ cursor = 0 /\ older = 0
    /\ loadedStats = Nothing /\ realtime = 0
    /\ streamEnded = FALSE /\ roomNotFound = FALSE

\* stats.commentCount.
CommentCount == loadedStats + realtime

\* What the backend counts, or its 404.
Statistics == IF gone THEN NotFound ELSE stored

\* The page whose last comment is n, and its nextCursor.
Page(n) == [i \in 1 .. (IF n < PageSize THEN n ELSE PageSize) |->
              IF n < PageSize THEN i ELSE n - PageSize + i]
NextCursor(n) == IF n > PageSize THEN n - PageSize + 1 ELSE 0

-----------------------------------------------------------------------------
(* The backend and the socket *)

StoreComment ==
    /\ ~ gone /\ stored < MaxComments
    /\ stored' = stored + 1
    /\ wire' = IF connected THEN Append(wire, stored + 1) ELSE wire
    /\ UNCHANGED <<gone, connected, firstLoad, polls, polling, list, older, counts, flags>>

RemoveRoom ==
    /\ ~ gone
    /\ gone' = TRUE
    /\ UNCHANGED <<stored, socket, firstLoad, polls, polling, list, older, counts, flags>>

\* The comment client connects while the page has an active room, and is disconnected
\* when the room has ended or by the network; frames on their way are lost.
ToggleSocket ==
    /\ load.step # "none"
    /\ connected \/ ~ (gone \/ streamEnded \/ roomNotFound)
    /\ connected' = ~ connected
    /\ wire' = <<>>
    /\ UNCHANGED <<server, firstLoad, polls, polling, list, older, counts, flags>>

\* recordComment.
RecordComment ==
    /\ wire # <<>>
    /\ comments' = Append(comments, Head(wire))
    /\ realtime' = realtime + 1
    /\ wire' = Tail(wire)
    /\ UNCHANGED <<server, connected, firstLoad, polls, polling, paged, cursor, older,
                   loadedStats, flags>>

-----------------------------------------------------------------------------
(* loadRoomActivity *)

\* The effect of a roomId that is not "" any more.
SelectRoom ==
    /\ load.step = "none"
    /\ load' = [load EXCEPT !.step = "visit"]
    /\ polling' = TRUE
    /\ roomNotFound' = FALSE /\ streamEnded' = FALSE
    /\ UNCHANGED <<server, socket, visit, polls, list, older, counts>>

\* clearRoomActivity, but for streamEnded.
ClearRoomActivity ==
    /\ comments' = <<>> /\ paged' = 0 /\ cursor' = 0
    /\ loadedStats' = Nothing /\ realtime' = 0

\* createRoomVisitResult answers; 404 marks the room as not found.
VisitAnswered ==
    /\ load.step = "visit"
    /\ IF gone
       THEN /\ ClearRoomActivity
            /\ streamEnded' = FALSE /\ roomNotFound' = TRUE
            /\ load' = [load EXCEPT !.step = "done"]
            /\ UNCHANGED visit
       ELSE /\ load' = [load EXCEPT !.step = "page"]
            /\ visit' = Statistics
            /\ UNCHANGED <<list, counts, flags>>
    /\ UNCHANGED <<server, socket, polls, polling, older>>

\* An answer without statistics, or none at all: nothing tries again.
LoadFails ==
    /\ load.step \in {"visit", "page"}
    /\ load' = [load EXCEPT !.step = "done"]
    /\ UNCHANGED <<server, socket, visit, polls, polling, list, older, counts, flags>>

\* The backend reads the page, the newest comments; an answer that is not a page is
\* taken for an empty one.
PageServed(ok) ==
    /\ load.step = "page"
    /\ load' = [step |-> "paged", last |-> IF ok THEN stored ELSE 0]
    /\ UNCHANGED <<server, socket, visit, polls, polling, list, older, counts, flags>>

\* It arrives: the list is the page, whatever the socket delivered meanwhile.
PageArrives ==
    /\ load.step = "paged"
    /\ load' = [load EXCEPT !.step = "done"]
    /\ comments' = Page(load.last)
    /\ paged' = Len(Page(load.last))
    /\ cursor' = NextCursor(load.last)
    /\ loadedStats' = visit
    /\ realtime' = 0
    /\ UNCHANGED <<server, socket, visit, polls, polling, older, flags>>

-----------------------------------------------------------------------------
(* The statistics effect *)

\* The interval asks, and the backend answers; the answer is on its way.
PollServed(p) ==
    /\ polling /\ polls[p] = Nothing
    /\ polls' = [polls EXCEPT ![p] = Statistics]
    /\ UNCHANGED <<server, socket, firstLoad, polling, list, older, counts, flags>>

\* Mutant: live comments stay counted beside the count of the answer.
PollArrivesAndAdds(p) ==
    /\ polls[p] # Nothing
    /\ polls' = [polls EXCEPT ![p] = Nothing]
    /\ streamEnded' = (polls[p] = NotFound)
    /\ loadedStats' = IF polls[p] = NotFound THEN loadedStats ELSE polls[p]
    /\ UNCHANGED <<server, socket, firstLoad, polling, list, older, realtime, roomNotFound>>

\* Answers arrive in any order.  A 404 ends the stream (markStreamEnded).
PollArrives(p) ==
    /\ polls[p] # Nothing
    /\ polls' = [polls EXCEPT ![p] = Nothing]
    /\ IF polls[p] = NotFound
       THEN streamEnded' = TRUE /\ UNCHANGED counts
       ELSE /\ streamEnded' = FALSE
            /\ loadedStats' = polls[p]
            /\ realtime' = 0
    /\ UNCHANGED <<server, socket, firstLoad, polling, list, older, roomNotFound>>

\* Mutant: the cleanup only clears the interval.
RunPollEffectKeepingAnswers ==
    /\ load.step # "none" /\ polling = streamEnded
    /\ polling' = ~ streamEnded
    /\ UNCHANGED <<server, socket, firstLoad, polls, list, older, counts, flags>>

\* The effect runs anew after streamEnded changed; its cleanup cancels the answers on
\* their way.
RunPollEffect ==
    /\ load.step # "none" /\ polling = streamEnded
    /\ polling' = ~ streamEnded
    /\ polls' = [p \in Polls |-> Nothing]
    /\ UNCHANGED <<server, socket, firstLoad, list, older, counts, flags>>

-----------------------------------------------------------------------------
(* loadOlderComments *)

LoadOlder ==
    /\ cursor # 0 /\ older = 0
    /\ older' = cursor
    /\ UNCHANGED <<server, socket, firstLoad, polls, polling, list, counts, flags>>

\* Mutant: the page is put after the comments.
OlderArrivesLast ==
    /\ older # 0
    /\ older' = 0
    /\ comments' = comments \o Page(older - 1)
    /\ paged' = paged + Len(Page(older - 1))
    /\ cursor' = NextCursor(older - 1)
    /\ UNCHANGED <<server, socket, firstLoad, polls, polling, counts, flags>>

OlderArrives ==
    /\ older # 0
    /\ older' = 0
    /\ comments' = Page(older - 1) \o comments
    /\ paged' = paged + Len(Page(older - 1))
    /\ cursor' = NextCursor(older - 1)
    /\ UNCHANGED <<server, socket, firstLoad, polls, polling, counts, flags>>

\* The request fails, or its answer is taken for an empty last page.
OlderFails ==
    /\ older # 0
    /\ older' = 0
    /\ cursor' \in {cursor, 0}
    /\ UNCHANGED <<server, socket, firstLoad, polls, polling, comments, paged, counts, flags>>

-----------------------------------------------------------------------------
Load == VisitAnswered \/ LoadFails \/ (\E ok \in BOOLEAN : PageServed(ok)) \/ PageArrives

ActivityNext ==
    \/ StoreComment \/ RemoveRoom \/ ToggleSocket \/ RecordComment
    \/ SelectRoom \/ Load \/ RunPollEffect
    \/ \E p \in Polls : PollServed(p) \/ PollArrives(p)
    \/ LoadOlder \/ OlderArrives \/ OlderFails

ActivitySpec == ActivityInit /\ [][ActivityNext]_activityVars

-----------------------------------------------------------------------------
(* Properties *)

ActivityTypeOK ==
    /\ stored \in Counts /\ gone \in BOOLEAN
    /\ wire \in Seq(1 .. MaxComments) /\ connected \in BOOLEAN
    /\ load \in [step : {"none", "visit", "page", "paged", "done"}, last : Counts]
    /\ visit \in Counts \cup {Nothing}
    /\ polls \in [Polls -> Counts \cup {Nothing, NotFound}] /\ polling \in BOOLEAN
    /\ comments \in Seq(1 .. MaxComments) /\ paged \in 0 .. Len(comments)
    /\ cursor \in Counts /\ older \in Counts
    /\ loadedStats \in Counts \cup {Nothing} /\ realtime \in Nat
    /\ streamEnded \in BOOLEAN /\ roomNotFound \in BOOLEAN

\* The comments that come from pages stand first, in the order of the room and without
\* a gap or a repetition, and the next older page ends just before them, however
\* pages, failures and live comments interleave.
PagesContiguous ==
    /\ \A i \in 1 .. paged - 1 : comments[i + 1] = comments[i] + 1
    /\ cursor # 0 => paged > 0 /\ comments[1] = cursor
    /\ older # 0 => cursor = older

\* Once the interval has stopped for a room that has ended, no late answer of an
\* earlier request brings the stream back.
EndedStays == [][streamEnded /\ ~ polling => streamEnded' \/ roomNotFound']_activityVars

\* In the end the count on the page is the number of comments, or the room has ended:
\* late answers, lost frames and live comments counted twice are all made good.
CountSettles == <>[](load.step # "none" => CommentCount = stored \/ streamEnded \/ roomNotFound)
=============================================================================

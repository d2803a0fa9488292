----------------------------- MODULE MCWatchLive ----------------------------
(***************************************************************************)
(* The watch page for the liveness run: the page with its player, the      *)
(* activity of the room, and the comment client.  As in MCParts, a         *)
(* behaviour is about one of the three and the others stay as they start,  *)
(* where none of their fair actions is enabled.                            *)
(***************************************************************************)
EXTENDS WatchPage, CommentClient

CONSTANTS Polls, PageSize, MaxComments

VARIABLES part
VARIABLES stored, gone, wire, connected, load, visit, polls, polling, comments, paged, cursor,
          older, loadedStats, realtime, streamEnded, roomNotFound

activityVars == <<stored, gone, wire, connected, load, visit, polls, polling, comments, paged,
                  cursor, older, loadedStats, realtime, streamEnded, roomNotFound>>

Activity == INSTANCE RoomActivity

MCInit ==
    /\ part \in {"page", "activity", "client"}
    /\ PageInit /\ Activity!ActivityInit /\ ClientInit
    /\ part # "activity" => stored = 0
    /\ part # "page" => ~ protected /\ bypass = "none"

MCNext ==
    /\ \/ part = "page" /\ PageNext /\ UNCHANGED <<activityVars, clientVars>>
       \/ part = "activity" /\ Activity!ActivityNext /\ UNCHANGED <<pageVars, clientVars>>
       \/ part = "client" /\ ClientNext /\ UNCHANGED <<pageVars, activityVars>>
    /\ UNCHANGED part

\* The frames of an open socket, the requests of the interval and its effect go on.
ActivityFairness ==
    /\ WF_activityVars(Activity!RunPollEffect)
    /\ WF_activityVars(Activity!RecordComment)
    /\ WF_activityVars(\E p \in Polls : Activity!PollServed(p))
    /\ \A p \in Polls : WF_activityVars(Activity!PollArrives(p))

MCSpec ==
    /\ MCInit /\ [][MCNext]_<<part, pageVars, activityVars, clientVars>>
    /\ PageFairness /\ ActivityFairness /\ ClientFairness

MCOffers == {{}}

\* Stated and explained in RoomActivity.
CountSettles == Activity!CountSettles
=============================================================================

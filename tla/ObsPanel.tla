------------------------------ MODULE ObsPanel ------------------------------
(***************************************************************************)
(* OBS on the administration page: the connection settings, which are      *)
(* edited, saved in localStorage and read from there when the page loads   *)
(* (features/admin/lib/obs_websocket_connection.ts and AdminPage.tsx), and *)
(* the button that sends the ingest URL and token to OBS                   *)
(* (lib/obs_stream_service.ts and ui/AdminRoom.tsx).                       *)
(*                                                                         *)
(* One text stands for the settings.  A room whose list could not be read  *)
(* goes from the page and comes back with the next list (AdminRooms); what *)
(* its panel had started goes on without it.                               *)
(***************************************************************************)
EXTENDS Naturals, FiniteSets

CONSTANTS
    MaxTokens,      \* bound: tokens the page is given
    MaxSends        \* bound: calls to OBS under way

ASSUME ObsPanelAssumption == MaxTokens \in Nat /\ MaxSends \in Nat

VARIABLES
    draft,          \* obsWebsocketConnection
    storage,        \* the item of localStorage, in a set that may be empty
    saved,          \* isObsWebsocketConnectionSaved
    shown,          \* whipBearerToken; 0 is null
    status,         \* obsApplyStatus
    sends,          \* calls of configureObsWhipStream
    obs             \* OBS: the token it was given last

obsVars == <<draft, storage, saved, shown, status, sends, obs>>

\* Texts: the default, another address, the same with blanks around it, blanks, and
\* in the storage what is no settings.
ConnectionTexts == {"default", "address", "padded", "blank"}
Trimmed(text) == IF text = "padded" THEN "address" ELSE text

\* normalizeObsWebsocketServerIp and Port: where buildObsWebsocketUrl leads.
Address(text) == IF text = "blank" THEN "default" ELSE Trimmed(text)

\* readObsWebsocketConnectionSettings.
Read(item) ==
    IF item \in {{t} : t \in ConnectionTexts}
    THEN CHOOSE t \in ConnectionTexts : item = {t}
    ELSE "default"

\* A call was made here when its panel is still on the page.
Sends == [here : BOOLEAN, token : 1 .. MaxTokens, address : ConnectionTexts,
          at : {"connect", "call", "disconnect"}, ok : BOOLEAN]

ObsInit ==
    /\ storage \in {{}, {"invalid"}} \cup {{Trimmed(t)} : t \in ConnectionTexts}
    /\ draft = Read(storage)
    /\ saved = FALSE
    /\ shown = 0 /\ status = "idle" /\ sends = {} /\ obs = 0

connectionSettings == <<draft, storage, saved>>
apply == <<shown, status, sends, obs>>

-----------------------------------------------------------------------------
(* The connection settings *)

\* Mutant: the notice stays while the settings are edited.
EditKeepingNotice(text) ==
    /\ draft' = text
    /\ UNCHANGED <<storage, saved, apply>>

\* updateObsWebsocketConnection.
EditConnection(text) ==
    /\ draft' = text
    /\ saved' = FALSE
    /\ UNCHANGED <<storage, apply>>

\* saveObsWebsocketConnection; setItem throws when the storage is full.
SaveConnection ==
    /\ storage' = {Trimmed(draft)}
    /\ saved' = TRUE
    /\ UNCHANGED <<draft, apply>>

\* The timer of the notice.
SavedNoticeEnds ==
    /\ saved
    /\ saved' = FALSE
    /\ UNCHANGED <<draft, storage, apply>>

\* The page is loaded anew; OBS keeps what it has.
Reload ==
    /\ draft' = Read(storage)
    /\ saved' = FALSE
    /\ shown' = 0 /\ status' = "idle" /\ sends' = {}
    /\ UNCHANGED <<storage, obs>>

-----------------------------------------------------------------------------
(* The panel of the room *)

\* The token of a new room, or the next one.
TokenShown ==
    /\ shown < MaxTokens
    /\ shown' = shown + 1
    /\ UNCHANGED <<connectionSettings, status, sends, obs>>

\* The room goes from the list and comes back: its panel starts anew.
PanelRemounts ==
    /\ status' = "idle"
    /\ sends' = {[k EXCEPT !.here = FALSE] : k \in sends}
    /\ UNCHANGED <<connectionSettings, shown, obs>>

\* applyObsSettings; its button is disabled while it is under way.
Apply ==
    /\ status # "applying"
    /\ IF shown = 0 THEN status' = "failed" /\ UNCHANGED sends
       ELSE /\ Cardinality(sends) < MaxSends
            /\ status' = "applying"
            /\ sends' = sends \cup {[here |-> TRUE, token |-> shown, address |-> Address(draft),
                                     at |-> "connect", ok |-> FALSE]}
    /\ UNCHANGED <<connectionSettings, shown, obs>>

Advances(k, j) == sends' = (sends \ {k}) \cup {j}

Tells(k, ok) == status' = IF k.here THEN (IF ok THEN "applied" ELSE "failed") ELSE status

\* connect: there is an OBS at the address, and it accepts the password.
Connects(k) ==
    /\ k.at = "connect"
    /\ Advances(k, [k EXCEPT !.at = "call"])
    /\ UNCHANGED <<connectionSettings, shown, status, obs>>

ConnectFails(k) ==
    /\ k.at = "connect"
    /\ sends' = sends \ {k}
    /\ Tells(k, FALSE)
    /\ UNCHANGED <<connectionSettings, shown, obs>>

\* SetStreamServiceSettings; it fails with or without having been done.
Calls(k, done, ok) ==
    /\ k.at = "call" /\ (ok => done)
    /\ obs' = IF done THEN k.token ELSE obs
    /\ Advances(k, [k EXCEPT !.at = "disconnect", !.ok = ok])
    /\ UNCHANGED <<connectionSettings, shown, status>>

\* The finally: disconnect, which may fail unnoticed.
Disconnects(k) ==
    /\ k.at = "disconnect"
    /\ sends' = sends \ {k}
    /\ Tells(k, k.ok)
    /\ UNCHANGED <<connectionSettings, shown, obs>>

\* The timer of "applied".
AppliedNoticeEnds ==
    /\ status = "applied"
    /\ status' = "idle"
    /\ UNCHANGED <<connectionSettings, shown, sends, obs>>

-----------------------------------------------------------------------------
ObsNext ==
    \/ \E text \in ConnectionTexts : EditConnection(text)
    \/ SaveConnection \/ SavedNoticeEnds \/ Reload
    \/ TokenShown \/ PanelRemounts \/ Apply \/ AppliedNoticeEnds
    \/ \E k \in sends :
          \/ Connects(k) \/ ConnectFails(k) \/ Disconnects(k)
          \/ \E done, ok \in BOOLEAN : Calls(k, done, ok)

ObsSpec == ObsInit /\ [][ObsNext]_obsVars

-----------------------------------------------------------------------------
(* Properties *)

ObsTypeOK ==
    /\ draft \in ConnectionTexts /\ storage \in {{}, {"invalid"}} \cup {{t} : t \in ConnectionTexts}
    /\ saved \in BOOLEAN
    /\ shown \in 0 .. MaxTokens /\ obs \in 0 .. MaxTokens
    /\ status \in {"idle", "applying", "applied", "failed"}
    /\ sends \subseteq Sends

\* While the page says that the settings are saved, the next load brings back what
\* leads to the same address; and while it says "applying", exactly one of the calls
\* under way is the panel's, however often the panel came back meanwhile.
NoticesAreTrue ==
    /\ saved => Address(Read(storage)) = Address(draft)
    /\ Cardinality({k \in sends : k.here}) = IF status = "applying" THEN 1 ELSE 0
=============================================================================

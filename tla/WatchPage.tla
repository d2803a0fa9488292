------------------------------- MODULE WatchPage -----------------------------
(***************************************************************************)
(* What the watch page (frontend/src/features/watch/page/WatchPage.tsx)    *)
(* lets its stream player see: the room it has selected, the password form *)
(* in front of it, the credential, the end of the stream.  The page and    *)
(* the StreamPlayer share the inputs of the hook, which the page computes  *)
(* at every render, and isCredentialDenied, which it reads.                *)
(*                                                                         *)
(* The owner may set or clear the password of the room at any time, while  *)
(* the page keeps the copies of hasPassword it was given.  React runs the  *)
(* effect of a change of isCredentialDenied before the next timer or       *)
(* answer.                                                                 *)
(***************************************************************************)
EXTENDS StreamPlayer

\* No credential, a bypass token or a password the backend accepts, one it does not.
ASSUME WatchPageAssumption == {"none", "right", "wrong"} \subseteq Credentials

VARIABLES
    protected,      \* the backend: the room has a password
    selected,       \* selectedRoomId is not ""
    listed,         \* what rooms says of the room
    fetched,        \* fetchedRoom
    bypass,         \* bypassToken
    submitted,      \* passwordSubmitted
    password,       \* passwordInput when it was submitted last
    over,           \* commentsDisabled or roomNotFound
    noticed         \* the isCredentialDenied the page's effect has run with

copies == <<listed, fetched>>
form == <<bypass, submitted, password, noticed>>
page == <<protected, selected, copies, form, over>>
pageVars == <<vars, page>>

\* A copy of a room is asked for, open or locked, or it never comes: the request fails
\* or the room is not in the answer.
Copies == {"asked", "absent", "open", "locked"}
CopyOf(isProtected) == IF isProtected THEN "locked" ELSE "open"

\* fetchedRoom?.hasPassword ?? selectedRoom?.hasPassword ?? false.
HasPassword ==
    selected /\ "locked" = IF fetched \in {"open", "locked"} THEN fetched ELSE listed

ShowPasswordForm == HasPassword /\ bypass = "none" /\ ~ submitted

RoomLoaded == {listed, fetched} \cap {"open", "locked"} # {}

\* activeRoomId is not "".
Active == selected /\ RoomLoaded /\ ~ over /\ ~ ShowPasswordForm

RoomCredential ==
    IF bypass # "none" THEN bypass ELSE IF submitted THEN password ELSE "none"

PageInit ==
    /\ Init
    /\ protected \in BOOLEAN
    /\ selected = FALSE
    /\ listed = "asked" /\ fetched = "asked"
    /\ bypass = wanted.credential
    /\ submitted = FALSE /\ password = "wrong"
    /\ over = FALSE /\ noticed = FALSE

\* A render: the inputs of the hook follow the state of the page.
Render ==
    /\ wanted' = [room |-> Active', ended |-> over', quality |-> wanted.quality,
                  credential |-> RoomCredential']
    /\ UNCHANGED <<effect, changes, attempt, timer, connection, srcObject, attached, screen>>

-----------------------------------------------------------------------------
(* The page *)

\* The room of the query, or the first of the list.  The effects of the new id reset
\* the form, which has not been used yet, and ask for the room.
SelectRoom ==
    /\ ~ selected
    /\ selected' = TRUE
    /\ UNCHANGED <<protected, copies, form, over>>
    /\ Render

\* useRooms asks once; it does not ask again on this page.
ListArrives ==
    /\ listed = "asked"
    /\ listed' \in {CopyOf(protected), "absent"}
    /\ UNCHANGED <<protected, selected, fetched, form, over>>
    /\ Render

RoomArrives ==
    /\ selected /\ fetched = "asked"
    /\ fetched' \in {CopyOf(protected), "absent"}
    /\ UNCHANGED <<protected, selected, listed, form, over>>
    /\ Render

\* React runs the effects of a render before it handles the next event of the viewer.
SubmitPassword(p) ==
    /\ ShowPasswordForm
    /\ effect = wanted /\ noticed = denied
    /\ submitted' = TRUE /\ password' = p
    /\ UNCHANGED <<protected, selected, copies, bypass, noticed, over>>
    /\ Render

\* Mutant: a refusal changes the words of the form, and does not bring it back.
NoticeDeniedOnly ==
    /\ noticed # denied
    /\ noticed' = denied
    /\ UNCHANGED <<vars, protected, selected, copies, bypass, submitted, password, over>>

\* The effect of isCredentialDenied.
NoticeDenied ==
    /\ noticed # denied
    /\ noticed' = denied
    /\ submitted' = (submitted /\ ~ denied)
    /\ UNCHANGED <<protected, selected, copies, bypass, password, over>>
    /\ Render

\* Mutant: the hook is not told of the end of the stream.
RoomIsOverUntold ==
    /\ selected /\ ~ over
    /\ over' = TRUE
    /\ UNCHANGED <<vars, protected, selected, copies, form>>

\* The stream ends, or the room is not found.
RoomIsOver ==
    /\ selected /\ ~ over
    /\ over' = TRUE
    /\ UNCHANGED <<protected, selected, copies, form>>
    /\ Render

\* The owner sets or clears the password.
OwnerTogglesPassword ==
    /\ changes < MaxChanges
    /\ changes' = changes + 1
    /\ protected' = ~ protected
    /\ UNCHANGED <<wanted, effect, attempt, timer, connection, srcObject, attached, screen,
                   selected, copies, form, over>>

Page ==
    \/ SelectRoom \/ ListArrives \/ RoomArrives \/ NoticeDenied \/ RoomIsOver
    \/ (\E p \in {"right", "wrong"} : SubmitPassword(p))
    \/ OwnerTogglesPassword

-----------------------------------------------------------------------------
(* The player, whose credential decides the answer of the backend *)

Accepted == ~ protected \/ effect.credential = "right"

\* What a canceled attempt carried is forgotten, and it may be refused.
RefusedByBackend(a) ==
    /\ Canceled(a) \/ ~ Accepted
    /\ AccessForbidden(a)

GrantedByBackend(a) ==
    /\ Canceled(a) \/ Accepted
    /\ \E offer \in Offers : AccessGranted(a, offer)

Player(a) ==
    \/ RunEffect(a) \/ TimerFires(a)
    \/ RefusedByBackend(a) \/ GrantedByBackend(a)
    \/ OfferArrives(a) \/ AttemptFails(a) \/ NegotiationHangs(a)
    \/ Answered(a) \/ PlaybackStarts(a) \/ PlaybackFails(a)
    \/ (\E forGood \in BOOLEAN : ConnectionLost(a, forGood))

\* A step of the player, with the page's effect up to date.
Quiet(step) == noticed = denied /\ step /\ UNCHANGED page

PageNext == Page \/ Quiet(\E a \in Attempts : Player(a))

PageSpec == PageInit /\ [][PageNext]_pageVars

\* React runs the effects and timers fire.  Every await ends: while answers of a kind
\* are awaited, be it by one attempt after the other, some of them come, so not every
\* attempt fails.  Nothing is asked of the viewer or the owner.
PageFairness ==
    /\ WF_pageVars(NoticeDenied)
    /\ WF_pageVars(Quiet(\E a \in Attempts : RunEffect(a)))
    /\ \A a \in Attempts : WF_pageVars(Quiet(TimerFires(a) \/ NegotiationHangs(a)))
    /\ SF_pageVars(Quiet(\E a \in Attempts : RefusedByBackend(a) \/ GrantedByBackend(a)))
    /\ SF_pageVars(Quiet(\E a \in Attempts : OfferArrives(a)))
    /\ SF_pageVars(Quiet(\E a \in Attempts : Answered(a)))

-----------------------------------------------------------------------------
(* Properties *)

PageTypeOK ==
    /\ TypeOK
    /\ listed \in Copies /\ fetched \in Copies
    /\ bypass \in Credentials /\ password \in {"right", "wrong"}
    /\ {protected, selected, submitted, over, noticed} \subseteq BOOLEAN

\* The page gave up its copy of hasPassword, or it is not true any more.
Stale == HasPassword # protected

\* Whoever has entered a password watches in the end or is asked again, for any number
\* of wrong passwords, lost connections and late refusals, unless the room is over or
\* its password was set or cleared behind the page's back.
PasswordIsDecided ==
    submitted ~> attached # NoQuality \/ ShowPasswordForm \/ over \/ Stale

\* The player serves the room the page shows: once React has run the effects, nothing is
\* attached behind the password form, after the end of the room, or before it is there,
\* and the video is dark.  The exception is in the statement: an attempt that was
\* waiting for its offer when its effect was cleaned up still lights the video when the
\* offer comes, behind the form or after the end.
PlaysWhatIsShown ==
    effect = wanted /\ ~ Active => attached = NoQuality /\ (Lit => Canceled(srcObject))

\* A refusal takes back the password it was for: once React has run the effects, a room
\* that is refused is not one whose password counts as entered, however late the answer
\* to an earlier password comes.
RefusalAsksAgain ==
    denied /\ noticed = denied /\ effect = wanted /\ Active => ~ submitted

\* The page and its player agree whenever React has run the effects: the player holds no
\* stream of its own for what the page does not show, and the page does not take for
\* granted what the player was refused.
PageAndPlayerAgree == PlaysWhatIsShown /\ RefusalAsksAgain
=============================================================================

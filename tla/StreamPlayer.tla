----------------------------- MODULE StreamPlayer ----------------------------
(***************************************************************************)
(* The stream player of the watch page: the attach effect of               *)
(* frontend/src/features/watch/model/useStreamPlayer.ts over one           *)
(* OvenMediaEnginePlayer (features/player/lib/oven_media_engine_player.ts).*)
(*                                                                         *)
(* An attempt is one execution of attachStreamWhenReady with what its      *)
(* closure and the callbacks it passes to the player hold: the quality it  *)
(* was made for, whether its effect has been cleaned up (canceled), the    *)
(* qualities it was offered.  It starts as a timer or in an effect, waits  *)
(* at each await, and its connection can live on after it returned; a slot *)
(* is free again when nothing of the attempt is left.                      *)
(*                                                                         *)
(* The watch page shows one room: roomId is that room or "".  Nothing the  *)
(* code does depends on the signalling socket once the offer has arrived,  *)
(* so it is left out from there on.                                        *)
(***************************************************************************)
EXTENDS Integers, FiniteSets

CONSTANTS
    Attempts,       \* slots for attempts
    NoAttempt,      \* the null of connection and srcObject, and of a timerId that is 0
    Variants,       \* 1 .. n: the quality variants, best first
    Offers,         \* sets of variants the backend finds in the media server
    Credentials,    \* values of credential and of a status that is not "ended"
    MaxChanges      \* bound: changes of the inputs of the hook

AutoQuality == 0           \* autoQualityId
NoQuality == -1     \* attachedQualityIdRef is ""
Qualities == {AutoQuality} \cup Variants

ASSUME StreamPlayerAssumption ==
    /\ NoAttempt \notin Attempts
    /\ Variants \in SUBSET (Nat \ {0})
    /\ IsFiniteSet(Variants)
    /\ Offers \in SUBSET (SUBSET Variants)
    /\ MaxChanges \in Nat

VARIABLES
    wanted,         \* the inputs of the hook: roomId, streamStatus, quality, credential
    effect,         \* the inputs the current effect was made with
    changes,        \* number of changes of the inputs so far
    attempt,        \* the attempts
    timer,          \* the attempt timerId stands for
    connection,     \* OvenMediaEnginePlayer.connection, by its attempt
    srcObject,      \* video.srcObject, by the attempt that assigned it last
    attached,       \* attachedQualityIdRef (attachedRoomIdRef is set and reset with it)
    loading,        \* isStreamLoading
    denied,         \* isCredentialDenied
    menu            \* playbackQualities, {} before an access

inputs == <<wanted, effect, changes>>
screen == <<loading, denied, menu>>
vars == <<inputs, attempt, timer, connection, srcObject, attached, screen>>

Inputs == [room : BOOLEAN, ended : BOOLEAN, quality : Qualities, credential : Credentials]

Stages == {"idle", "timer", "access", "offer", "negotiate", "playing", "refused"}

\* link is the RTCPeerConnection of the attempt: none, open, or open and reported
\* insufficient by its network monitor.
Attempt == [stage : Stages, canceled : BOOLEAN, quality : Qualities,
            options : SUBSET Qualities, link : {"none", "open", "reported"}]

Idle == [stage |-> "idle", canceled |-> FALSE, quality |-> AutoQuality, options |-> {},
         link |-> "none"]

Init ==
    /\ wanted \in {i \in Inputs : ~ i.room /\ ~ i.ended /\ i.quality = AutoQuality}
    /\ effect = wanted
    /\ changes = 0
    /\ attempt = [a \in Attempts |-> Idle]
    /\ timer = NoAttempt
    /\ connection = NoAttempt
    /\ srcObject = NoAttempt
    /\ attached = NoQuality
    /\ loading = FALSE
    /\ denied = FALSE
    /\ menu = {}

Canceled(a) == attempt[a].canceled
Open(a) == attempt[a].link # "none"

\* The video element plays: the stream it was given is that of an open connection.
Lit == srcObject # NoAttempt /\ Open(srcObject)

\* An attempt that returned and has no connection is a free slot.
Settled(r) == IF r.stage = "idle" /\ r.link = "none" THEN Idle ELSE r

\* The attempts when a goes on to a stage.
To(a, stage) == [attempt EXCEPT ![a] = Settled([@ EXCEPT !.stage = stage])]

-----------------------------------------------------------------------------
(* stream_quality.ts *)

\* playbackQualityOptions: the automatic quality first, then each variant once.
PlaybackQualityOptions(offer) == {AutoQuality} \cup offer

\* selectedPlaybackQuality.
SelectedQuality(options, quality) == IF quality \in options THEN quality ELSE AutoQuality

\* downgradedPlaybackQuality: the next worse variant, the first one from "auto"; a
\* set of at most one quality.
Downgraded(options, quality) ==
    LET worse == {v \in options \ {AutoQuality} : v > quality}
    IN  IF quality \in options
        THEN {v \in worse : \A w \in worse : v <= w} ELSE {}

-----------------------------------------------------------------------------
(* OvenMediaEnginePlayer.destroy, and the helpers of the effect *)

\* destroy closes the connection the player holds, with its monitors; closing it
\* here fires no event.
Closed(f, c) ==
    [a \in Attempts |-> IF a = c THEN Settled([f[a] EXCEPT !.link = "none"]) ELSE f[a]]

\* Mutant: the stream is detached, and no reconnect is scheduled.
JustDetach(f) ==
    /\ attempt' = Closed(f, connection)
    /\ connection' = NoAttempt
    /\ attached' = NoQuality
    /\ UNCHANGED timer

\* detachStream, and scheduleReconnect in a free slot: a timer of the current effect.
\* An earlier one that has not fired stays, and timerId forgets it.  Removing the
\* attribute src and load() leave srcObject, which goes dark with its connection.
DetachAndReconnect(f) ==
    LET closed == Closed(f, connection)
    IN  \E b \in Attempts :
          /\ closed[b] = Idle
          /\ attempt' = [closed EXCEPT ![b].stage = "timer", ![b].quality = effect.quality]
          /\ timer' = b
          /\ connection' = NoAttempt
          /\ attached' = NoQuality

\* The catch of attachStreamWhenReady.
Catch(a) ==
    IF Canceled(a)
    THEN attempt' = To(a, "idle") /\ UNCHANGED <<timer, connection, attached, screen>>
    ELSE /\ DetachAndReconnect(To(a, "idle"))
         /\ menu' = {} /\ loading' = FALSE
         /\ UNCHANGED denied

-----------------------------------------------------------------------------
(* The effect *)

\* The page changes an input: the room is selected, gated, ended or left, the viewer
\* chooses a quality, a credential is given, the stream status changes.
ChangeInputs(i) ==
    /\ changes < MaxChanges
    /\ i # wanted
    /\ wanted' = i
    /\ changes' = changes + 1
    /\ UNCHANGED <<effect, attempt, timer, connection, srcObject, attached, screen>>

\* What is left of an attempt when its effect is canceled: it still goes on from its
\* await, and a forgotten timer still fires, but its callbacks do nothing.
Cancel(r) ==
    CASE r = Idle \/ r.stage = "refused" -> Idle
      [] r.stage = "timer" -> [r EXCEPT !.canceled = TRUE]
      [] r.stage = "playing" -> Settled([Idle EXCEPT !.canceled = TRUE, !.link = r.link])
      [] OTHER -> [r EXCEPT !.canceled = TRUE, !.quality = AutoQuality, !.options = {}]

\* The cleanup of an effect: the timer it remembers is cleared, and the stream is
\* detached.
CancelAll ==
    LET closed == Closed(attempt, connection)
    IN  [a \in Attempts |-> IF a = timer /\ closed[a].stage = "timer" THEN Idle
                            ELSE Settled(Cancel(closed[a]))]

\* React runs the cleanup and then the effect, whose attempt starts in slot a.
RunEffect(a) ==
    LET started == [Idle EXCEPT !.stage = "access", !.quality = wanted.quality]
    IN  /\ effect # wanted
        /\ effect' = wanted
        /\ CancelAll[a] = Idle
        /\ timer' = NoAttempt
        /\ connection' = NoAttempt
        /\ attached' = NoQuality
        /\ IF wanted.room /\ ~ wanted.ended
           THEN /\ attempt' = [CancelAll EXCEPT ![a] = started]
                /\ loading' = TRUE
                /\ denied' = FALSE
                /\ UNCHANGED menu
           ELSE /\ attempt' = CancelAll
                /\ loading' = FALSE
                /\ menu' = {}
                /\ UNCHANGED denied
        /\ UNCHANGED <<wanted, changes, srcObject>>

-----------------------------------------------------------------------------
(* attachStreamWhenReady from one await to the next *)

\* A timer fires, perhaps one that a canceled effect had forgotten.
TimerFires(a) ==
    /\ attempt[a].stage = "timer"
    /\ timer' = IF timer = a THEN NoAttempt ELSE timer
    /\ IF attached = attempt[a].quality
       THEN attempt' = To(a, "idle") /\ UNCHANGED screen
       ELSE /\ attempt' = To(a, "access")
            /\ loading' = TRUE /\ denied' = FALSE
            /\ UNCHANGED menu
    /\ UNCHANGED <<inputs, srcObject, connection, attached>>

\* fetchStreamAccess answers 401 or 403.  canceled is not looked at.
AccessForbidden(a) ==
    /\ attempt[a].stage = "access"
    /\ attempt' = To(a, IF Canceled(a) THEN "idle" ELSE "refused")
    /\ denied' = TRUE /\ loading' = FALSE
    /\ UNCHANGED <<inputs, srcObject, timer, connection, attached, menu>>

\* It answers; attach begins with destroy and asks for an offer.
AccessGranted(a, offer) ==
    LET options == PlaybackQualityOptions(offer)
    IN  /\ attempt[a].stage = "access"
        /\ IF Canceled(a)
           THEN attempt' = To(a, "idle") /\ UNCHANGED <<connection, menu>>
           ELSE /\ attempt' = [Closed(attempt, connection) EXCEPT
                                 ![a].stage = "offer", ![a].options = options]
                /\ connection' = NoAttempt
                /\ menu' = options
        /\ UNCHANGED <<inputs, srcObject, timer, attached, loading, denied>>

\* requestOffer resolves, and attach creates the connection and gives its stream to the
\* video, to play by itself, whatever the player holds by now and whether or not the
\* effect is canceled.
OfferArrives(a) ==
    /\ attempt[a].stage = "offer"
    /\ attempt' = [attempt EXCEPT ![a].stage = "negotiate", ![a].link = "open"]
    /\ connection' = a
    /\ srcObject' = a
    /\ UNCHANGED <<inputs, timer, attached, screen>>

\* An answer that is no access, no offer, an error of the socket, or an await of the
\* negotiation that rejects.
AttemptFails(a) ==
    /\ attempt[a].stage \in {"access", "offer", "negotiate"}
    /\ Catch(a)
    /\ UNCHANGED <<inputs, srcObject>>

\* waitForIceGathering waits for an event that a closed connection never fires.
NegotiationHangs(a) ==
    /\ attempt[a].stage = "negotiate" /\ ~ Open(a)
    /\ attempt' = To(a, "idle")
    /\ UNCHANGED <<inputs, srcObject, timer, connection, attached, screen>>

\* Mutant: canceled is not looked at after attach.
AnsweredAnyway(a) ==
    /\ attempt[a].stage = "negotiate" /\ Open(a)
    /\ attempt' = To(a, "playing")
    /\ attached' = SelectedQuality(attempt[a].options, attempt[a].quality)
    /\ loading' = FALSE
    /\ UNCHANGED <<inputs, srcObject, timer, connection, denied, menu>>

\* The answer is sent and attach resolves; startVideoPlayback is called.
Answered(a) ==
    /\ attempt[a].stage = "negotiate" /\ Open(a)
    /\ IF Canceled(a)
       THEN attempt' = To(a, "idle") /\ UNCHANGED <<attached, loading>>
       ELSE /\ attempt' = To(a, "playing")
            /\ attached' = SelectedQuality(attempt[a].options, attempt[a].quality)
            /\ loading' = FALSE
    /\ UNCHANGED <<inputs, srcObject, timer, connection, denied, menu>>

\* startVideoPlayback resolves, or rejects: play() failed, and not for want of a
\* gesture.
PlaybackStarts(a) ==
    /\ attempt[a].stage = "playing"
    /\ attempt' = To(a, "idle")
    /\ UNCHANGED <<inputs, srcObject, timer, connection, attached, screen>>

PlaybackFails(a) ==
    /\ attempt[a].stage = "playing"
    /\ DetachAndReconnect(To(a, "idle"))
    /\ UNCHANGED <<inputs, srcObject, screen>>

-----------------------------------------------------------------------------
(* Callbacks of the connection and of the viewer *)

\* onConnectionClosed: the connection is disconnected or fails for good, or its video
\* track ends or is muted for videoTrackRecoveryDelayMs.  What is detached is what
\* the player holds, be it this connection or not.
ConnectionLost(a, forGood) ==
    LET lost == IF forGood THEN Closed(attempt, a) ELSE attempt
    IN  /\ Open(a)
        /\ IF Canceled(a)
           THEN attempt' = lost /\ UNCHANGED <<timer, connection, attached>>
           ELSE DetachAndReconnect(lost)
        /\ UNCHANGED <<inputs, srcObject, screen>>

\* The network monitor of a connection reports, once: a worse quality is wanted.
NetworkInsufficient(a) ==
    /\ attempt[a].link = "open" /\ ~ Canceled(a)
    /\ attempt' = [attempt EXCEPT ![a].link = "reported"]
    /\ LET options == attempt[a].options
           current == IF attached # NoQuality THEN attached
                      ELSE SelectedQuality(options, attempt[a].quality)
       IN  IF Downgraded(options, current) = {} THEN UNCHANGED wanted
           ELSE \E q \in Downgraded(options, current) :
                   wanted' = [wanted EXCEPT !.quality = q]
    /\ UNCHANGED <<effect, changes, timer, connection, srcObject, attached, screen>>

-----------------------------------------------------------------------------
Answer(a) ==
    \/ AccessForbidden(a)
    \/ \E offer \in Offers : AccessGranted(a, offer)
    \/ OfferArrives(a)
    \/ AttemptFails(a)
    \/ NegotiationHangs(a)
    \/ Answered(a)
    \/ PlaybackStarts(a)
    \/ PlaybackFails(a)

Next ==
    \/ \E i \in Inputs : ChangeInputs(i)
    \/ \E a \in Attempts :
          \/ RunEffect(a) \/ TimerFires(a) \/ Answer(a)
          \/ \E forGood \in BOOLEAN : ConnectionLost(a, forGood)
          \/ NetworkInsufficient(a)

Spec == Init /\ [][Next]_vars

-----------------------------------------------------------------------------
(* Properties *)

TypeOK ==
    /\ wanted \in Inputs /\ effect \in Inputs
    /\ changes \in 0 .. MaxChanges
    /\ attempt \in [Attempts -> Attempt]
    /\ timer \in Attempts \cup {NoAttempt}
    /\ connection \in Attempts \cup {NoAttempt}
    /\ srcObject \in Attempts \cup {NoAttempt}
    /\ attached \in Qualities \cup {NoQuality}
    /\ loading \in BOOLEAN /\ denied \in BOOLEAN
    /\ menu \in SUBSET Qualities

Showing == effect.room /\ ~ effect.ended

InStage(stages) == {a \in Attempts : attempt[a].stage \in stages /\ ~ Canceled(a)}

\* While the room is shown the player is attached or refused, or an attempt or timer
\* of the current effect will go on: no order of failures, late answers, lost
\* connections and forgotten timers leaves the page waiting for nothing.
NotStranded ==
    Showing => \/ attached # NoQuality
               \/ InStage({"timer", "access", "offer", "negotiate", "refused"}) # {}

\* What is attached belongs to the current effect, however late an earlier one
\* answers: nothing is attached once the room is left or has ended, and what is
\* attached is the chosen quality, or the automatic one in its place.  What the video
\* plays is an attempt of the current effect or one whose offer came after its effect
\* was cleaned up; in either case the connection the player holds, which the next
\* cleanup ends, so no stream plays on that nothing can stop.
AttachedIsCurrent ==
    /\ attached # NoQuality => Showing /\ attached \in {effect.quality, AutoQuality}
    /\ Lit => /\ srcObject = connection
              /\ ~ Canceled(srcObject) => Showing /\ attempt[srcObject].quality = effect.quality

\* A room that is shown is attached in the end, unless the viewer is refused or the
\* inputs change first.
EventuallyAttached ==
    Showing ~> attached # NoQuality \/ InStage({"refused"}) # {} \/ ~ Showing \/ effect # wanted
=============================================================================

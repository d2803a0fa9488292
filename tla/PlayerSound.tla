------------------------------ MODULE PlayerSound ----------------------------
(***************************************************************************)
(* Play, pause and sound of the video element of the watch page:           *)
(* startVideoPlayback of features/player/lib/oven_media_engine_player.ts,  *)
(* the listeners of useStreamPlayer.ts, and WatchPage.tsx, which keeps     *)
(* copies of paused and muted in its state and whose render writes muted   *)
(* back to the element.                                                    *)
(*                                                                         *)
(* The element changes at once; its events are queued and their handlers   *)
(* read the element when they run.  play() answers later: it resolves, or  *)
(* rejects because it was not allowed, because a pause or a load came in   *)
(* between (AbortError, which the code treats alike), or with another      *)
(* error, which is thrown on.                                              *)
(***************************************************************************)
EXTENDS Naturals

VARIABLES
    paused, muted,              \* the video element
    emptied,                    \* it was loaded anew, which sets paused without an event
    events,                     \* its queued events
    starts,                     \* calls of play() that wait
    isPaused, isMuted,          \* the state of the page
    mutedProp,                  \* the muted of the last render
    isManualPlaybackRequired,
    isMutedAutoplay,
    preferredMuted              \* preferredMutedRef, {} for null

element == <<paused, muted, emptied, events>>
state == <<isPaused, isMuted, mutedProp>>
notices == <<isManualPlaybackRequired, isMutedAutoplay>>
soundVars == <<element, starts, state, notices, preferredMuted>>

Events == {"play", "pause", "volumechange"}

\* Who called play(): the attach effect, its second try without sound, togglePlayback,
\* the return to the tab.  A call waits, or is refused and has not been told yet.
Callers == {"auto", "mutedAuto", "toggle", "restore"}
Starts == [by : Callers, refused : BOOLEAN]

SoundInit ==
    /\ paused = TRUE /\ muted = FALSE /\ emptied = FALSE /\ events = {}
    /\ starts = {}
    /\ isPaused = TRUE /\ isMuted = FALSE /\ mutedProp = FALSE
    /\ isManualPlaybackRequired = FALSE /\ isMutedAutoplay = FALSE
    /\ preferredMuted = {}

-----------------------------------------------------------------------------
(* The element *)

\* muted is set to m; evs are other events of the same step.
SetMuted(m, evs) ==
    /\ muted' = m
    /\ events' = events \cup evs \cup (IF m # muted THEN {"volumechange"} ELSE {})

\* play(), called by c with the sound set to m: at once, or not at all.  rest are the
\* calls that still wait.
PlayWith(c, m, rest) ==
    \/ /\ paused' = FALSE
       /\ SetMuted(m, IF paused THEN {"play"} ELSE {})
       /\ starts' = rest \cup {[by |-> c, refused |-> FALSE]}
    \/ /\ SetMuted(m, {})
       /\ starts' = rest \cup {[by |-> c, refused |-> TRUE]}
       /\ UNCHANGED paused

\* What a pause and a load do to the calls that wait.
Aborted(rest) == {[s EXCEPT !.refused = TRUE] : s \in rest}

\* The browser pauses: media keys, another tab, a phone call.
BrowserPauses ==
    /\ ~ paused
    /\ paused' = TRUE
    /\ events' = events \cup {"pause"}
    /\ starts' = Aborted(starts)
    /\ UNCHANGED <<muted, emptied, state, notices, preferredMuted>>

-----------------------------------------------------------------------------
(* useStreamPlayer *)

\* The stream is attached: startVideoPlayback with the sound on.
Attached ==
    /\ ~ \E s \in starts : s.by \in {"auto", "mutedAuto"}
    /\ PlayWith("auto", FALSE, starts)
    /\ emptied' = FALSE
    /\ isManualPlaybackRequired' = FALSE /\ isMutedAutoplay' = FALSE
    /\ UNCHANGED <<state, preferredMuted>>

\* detachStream, and what its callers and the start of an attempt do to the notices.
Detach(rest) ==
    /\ paused' = TRUE
    /\ emptied' = TRUE
    /\ starts' = Aborted(rest)
    /\ isManualPlaybackRequired' = FALSE /\ isMutedAutoplay' = FALSE
    /\ UNCHANGED <<muted, events, state, preferredMuted>>

Detached == Detach(starts)

\* A start of the effect resolves.  A result that is canceled tells nobody.
StartResolved(s, canceled) ==
    /\ s \in starts /\ ~ s.refused /\ s.by \in {"auto", "mutedAuto"}
    /\ starts' = starts \ {s}
    /\ IF canceled THEN UNCHANGED notices
       ELSE /\ isManualPlaybackRequired' = FALSE
            /\ isMutedAutoplay' = (s.by = "mutedAuto")
    /\ UNCHANGED <<element, state, preferredMuted>>

\* It rejects: the first try is repeated without sound, unless the sound is off
\* already; then the viewer is asked to touch the screen.
StartRefused(s, canceled) ==
    /\ s \in starts /\ s.refused /\ s.by \in {"auto", "mutedAuto"}
    /\ IF s.by = "auto" /\ ~ muted
       THEN /\ PlayWith("mutedAuto", TRUE, starts \ {s})
            /\ UNCHANGED <<emptied, notices>>
       ELSE /\ starts' = starts \ {s}
            /\ IF canceled THEN UNCHANGED notices
               ELSE isManualPlaybackRequired' = TRUE /\ isMutedAutoplay' = FALSE
            /\ UNCHANGED element
    /\ UNCHANGED <<state, preferredMuted>>

\* restorePlaybackAfterTabReturn.
ReturnToTab ==
    LET m == muted /\ preferredMuted # {FALSE}
    IN  /\ IF paused
           THEN ~ (\E s \in starts : s.by = "restore") /\ PlayWith("restore", m, starts)
           ELSE SetMuted(m, {}) /\ UNCHANGED <<paused, starts>>
        /\ UNCHANGED <<emptied, state, notices, preferredMuted>>

-----------------------------------------------------------------------------
(* WatchPage *)

\* togglePlayback.
TogglePlayback ==
    /\ ~ \E s \in starts : s.by = "toggle"
    /\ IF paused
       THEN PlayWith("toggle", FALSE, starts) /\ UNCHANGED <<isPaused, isMuted>>
       ELSE /\ paused' = TRUE
            /\ events' = events \cup {"pause"}
            /\ starts' = Aborted(starts)
            /\ isPaused' = TRUE /\ isMuted' = muted
            /\ UNCHANGED muted
    /\ UNCHANGED <<emptied, mutedProp, notices, preferredMuted>>

\* The play() of the viewer or of the return ends; the first updates the page.
StartEnds(s) ==
    /\ s \in starts /\ s.by \in {"toggle", "restore"}
    /\ starts' = starts \ {s}
    /\ IF s.by = "toggle" THEN isPaused' = paused /\ isMuted' = muted
       ELSE UNCHANGED <<isPaused, isMuted>>
    /\ UNCHANGED <<element, mutedProp, notices, preferredMuted>>

\* play() rejects with another error, which startVideoPlayback throws on.  The effect
\* detaches; nobody catches it after a button or a return, and the page is not updated.
StartThrows(s) ==
    /\ s \in starts /\ s.refused
    /\ IF s.by \in {"auto", "mutedAuto"} THEN Detach(starts \ {s})
       ELSE starts' = starts \ {s} /\ UNCHANGED <<element, state, notices, preferredMuted>>

\* toggleMuted.
ToggleMuted ==
    /\ SetMuted(~ muted, {})
    /\ isMutedAutoplay' = (isMutedAutoplay /\ muted')
    /\ isPaused' = paused /\ isMuted' = muted'
    /\ UNCHANGED <<paused, emptied, starts, mutedProp, isManualPlaybackRequired,
                   preferredMuted>>

\* Mutant: the page listens to no volumechange.
HandleEventsOfPlayback(e) ==
    /\ e \in events
    /\ events' = events \ {e}
    /\ emptied' = (emptied /\ e = "volumechange")
    /\ isManualPlaybackRequired' = (isManualPlaybackRequired /\ e # "play")
    /\ preferredMuted' = IF e = "volumechange" THEN {muted} ELSE preferredMuted
    /\ isMutedAutoplay' = (isMutedAutoplay /\ (e = "volumechange" => muted))
    /\ IF e = "volumechange" THEN UNCHANGED <<isPaused, isMuted>>
       ELSE isPaused' = paused /\ isMuted' = muted
    /\ UNCHANGED <<paused, muted, starts, mutedProp>>

\* updatePlayerState for each event, with the listeners of useStreamPlayer:
\* clearPlaybackMessage for play, hideMutedAutoplayNotice for volumechange.
HandleEvent(e) ==
    /\ e \in events
    /\ events' = events \ {e}
    /\ emptied' = FALSE
    /\ isManualPlaybackRequired' = (isManualPlaybackRequired /\ e # "play")
    /\ preferredMuted' = IF e = "volumechange" THEN {muted} ELSE preferredMuted
    /\ isMutedAutoplay' = (isMutedAutoplay /\ (e = "volumechange" => muted))
    /\ isPaused' = paused /\ isMuted' = muted
    /\ UNCHANGED <<paused, muted, starts, mutedProp>>

\* React renders <video muted={isMuted}>: a prop that has changed is written to the
\* element, whatever the element has become meanwhile.
RenderMuted ==
    /\ isMuted # mutedProp
    /\ mutedProp' = isMuted
    /\ SetMuted(isMuted, {})
    /\ UNCHANGED <<paused, emptied, starts, isPaused, isMuted, notices, preferredMuted>>

-----------------------------------------------------------------------------
SoundNext ==
    \/ BrowserPauses \/ Attached \/ Detached
    \/ \E s \in starts, canceled \in BOOLEAN :
          StartResolved(s, canceled) \/ StartRefused(s, canceled)
    \/ ReturnToTab \/ TogglePlayback \/ ToggleMuted
    \/ (\E s \in starts : StartEnds(s) \/ StartThrows(s))
    \/ (\E e \in events : HandleEvent(e))
    \/ RenderMuted

SoundSpec == SoundInit /\ [][SoundNext]_soundVars

-----------------------------------------------------------------------------
(* Properties *)

SoundTypeOK ==
    /\ paused \in BOOLEAN /\ muted \in BOOLEAN /\ emptied \in BOOLEAN
    /\ isPaused \in BOOLEAN /\ isMuted \in BOOLEAN /\ mutedProp \in BOOLEAN
    /\ isManualPlaybackRequired \in BOOLEAN /\ isMutedAutoplay \in BOOLEAN
    /\ events \subseteq Events
    /\ starts \subseteq Starts
    /\ preferredMuted \in SUBSET BOOLEAN

SoundSettled == events = {} /\ starts = {} /\ isMuted = mutedProp

\* When no event, call or render is on its way, the buttons tell the truth and the
\* preference for the next return to the tab is what the viewer hears, whatever
\* order writes, events and renders came in.
ButtonsTellTheTruth ==
    SoundSettled => /\ isMuted = muted
                    /\ isPaused = paused \/ emptied
                    /\ preferredMuted \subseteq {muted}
=============================================================================

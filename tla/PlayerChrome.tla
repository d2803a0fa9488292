----------------------------- MODULE PlayerChrome ---------------------------
(***************************************************************************)
(* Around the video: fullscreen (features/watch/model/useFullscreen.ts),   *)
(* picture in picture (usePictureInPicture.ts, lib/video_presentation.ts), *)
(* the controls that hide when the pointer rests                           *)
(* (usePlayerControlsVisibility.ts, ui/WatchPlayer.tsx) and the settings   *)
(* popover (useSettingsPopover.ts).                                        *)
(*                                                                         *)
(* The browser does what it is asked for later or not at all, tells of it  *)
(* in an event that is queued, and lets the viewer leave either mode by    *)
(* itself.  Where the stage has no fullscreen of its own (iOS) the video   *)
(* goes to the native player, which sends no document event.               *)
(***************************************************************************)
EXTENDS Naturals, FiniteSets

CONSTANTS Platforms     \* "element" or "native" fullscreen

VARIABLES
    platform,           \* canEnterElementFullscreen of the stage
    fullscreen,         \* document.fullscreenElement is the stage, or the native player shows
    pip,                \* isPictureInPictureActive
    asked,              \* requests the browser has not answered
    browserEvents,      \* its queued events
    isFullscreen,
    isPictureInPicture,
    playing,            \* the video is not paused
    resume,             \* shouldResumeAfterVideoFullscreenRef
    resuming,           \* the timers of 500 ms that call play()
    hidden,             \* document.visibilityState
    playable,           \* shouldEnablePointerControls
    controlsVisible,
    idleTimers,         \* timers of playerControlsIdleDelayMs that have not fired
    idleTimer,          \* controlsIdleTimerRef is not null
    settingsOpen

browser == <<fullscreen, pip, asked, browserEvents>>
modes == <<isFullscreen, isPictureInPicture>>
video == <<playing, resume, resuming>>
idle == <<controlsVisible, idleTimers, idleTimer>>
stage == <<hidden, playable, settingsOpen>>
chromeVars == <<platform, browser, modes, video, idle, stage>>

Requests == {"fullscreen", "exitFullscreen", "pip", "exitPip"}
BrowserEvents == {"fullscreenchange", "endfullscreen", "pipchange"}

ChromeInit ==
    /\ platform \in Platforms
    /\ fullscreen = FALSE /\ pip = FALSE /\ asked = {} /\ browserEvents = {}
    /\ isFullscreen = FALSE /\ isPictureInPicture = FALSE
    /\ playing \in BOOLEAN /\ resume = FALSE /\ resuming = 0
    /\ hidden = FALSE /\ playable \in BOOLEAN /\ settingsOpen = FALSE
    /\ controlsVisible = FALSE /\ idleTimers = 0 /\ idleTimer = FALSE

-----------------------------------------------------------------------------
(* usePlayerControlsVisibility *)

\* clearControlsIdleTimer: the timers that are left.
Cleared == IF idleTimer THEN idleTimers - 1 ELSE idleTimers

\* Mutant: the timer that runs already is forgotten.
RevealAgain ==
    /\ controlsVisible' = TRUE
    /\ idleTimers' = idleTimers + 1
    /\ idleTimer' = TRUE

RevealControlsUntilIdle ==
    /\ controlsVisible' = TRUE
    /\ idleTimers' = Cleared + 1
    /\ idleTimer' = TRUE

HideControls ==
    /\ controlsVisible' = FALSE
    /\ idleTimers' = Cleared
    /\ idleTimer' = FALSE

IdleTimerFires ==
    /\ idleTimers > 0
    /\ controlsVisible' = FALSE
    /\ idleTimers' = idleTimers - 1
    /\ idleTimer' = FALSE
    /\ UNCHANGED <<platform, browser, modes, video, stage>>

\* The pointer moves over the stage, or a mouse leaves it.
PointerMoves ==
    /\ playable
    /\ RevealControlsUntilIdle
    /\ UNCHANGED <<platform, browser, modes, video, stage>>

PointerLeaves ==
    /\ playable
    /\ HideControls
    /\ UNCHANGED <<platform, browser, modes, video, stage>>

\* The stream ends, or a gesture is wanted; a timer that runs goes on.
PlayableChanges ==
    /\ playable' = ~ playable
    /\ UNCHANGED <<platform, browser, modes, video, idle, hidden, settingsOpen>>

-----------------------------------------------------------------------------
(* useFullscreen *)

Ask(request) == asked' = asked \cup {request}

\* toggleFullscreen, by the button or the shortcut.  Whether the stage is fullscreen is
\* the browser's word; in the native player there is nothing to press.
ToggleFullscreen ==
    /\ CASE platform = "native" ->
              /\ ~ fullscreen
              /\ resume' = playing
              /\ Ask("fullscreen")
         [] OTHER ->
              /\ Ask(IF fullscreen THEN "exitFullscreen" ELSE "fullscreen")
              /\ UNCHANGED resume
    /\ UNCHANGED <<platform, fullscreen, pip, browserEvents, modes, playing, resuming, idle, stage>>

\* The browser changes the mode, for a request or by itself (Escape, a swipe, the end of
\* the native player, which pauses the video).
SetFullscreen(on, request) ==
    /\ asked' = asked \ {request}
    /\ fullscreen' = on
    /\ browserEvents' = browserEvents \cup
         (CASE on = fullscreen -> {}
            [] platform = "element" -> {"fullscreenchange"}
            [] OTHER -> IF on THEN {} ELSE {"endfullscreen"})
    /\ playing' = (playing /\ (platform = "element" \/ on))
    /\ UNCHANGED <<platform, pip, modes, resume, resuming, idle, stage>>

EntersFullscreen == "fullscreen" \in asked /\ SetFullscreen(TRUE, "fullscreen")
ExitsFullscreen == fullscreen /\ SetFullscreen(FALSE, "exitFullscreen")

\* updateFullscreenState and syncFullscreenControls, which read what is there by now.
FullscreenChanged ==
    /\ "fullscreenchange" \in browserEvents
    /\ browserEvents' = browserEvents \ {"fullscreenchange"}
    /\ isFullscreen' = fullscreen
    /\ IF fullscreen THEN RevealControlsUntilIdle ELSE HideControls
    /\ UNCHANGED <<platform, fullscreen, pip, asked, isPictureInPicture, video, stage>>

\* resumeAfterVideoFullscreen.  A second timer in the 500 ms of the first adds nothing.
NativeFullscreenEnded ==
    /\ "endfullscreen" \in browserEvents
    /\ browserEvents' = browserEvents \ {"endfullscreen"}
    /\ isFullscreen' = FALSE
    /\ resuming' = IF resume /\ resuming = 0 THEN 1 ELSE resuming
    /\ UNCHANGED <<platform, fullscreen, pip, asked, isPictureInPicture, playing, resume>>
    /\ UNCHANGED <<idle, stage>>

Resume ==
    /\ resuming > 0
    /\ resuming' = resuming - 1
    /\ playing' \in {playing, TRUE}
    /\ UNCHANGED <<platform, browser, modes, resume, idle, stage>>

-----------------------------------------------------------------------------
(* usePictureInPicture *)

\* togglePictureInPicture.
TogglePictureInPicture ==
    /\ Ask(IF pip THEN "exitPip" ELSE "pip")
    /\ UNCHANGED <<platform, fullscreen, pip, browserEvents, modes, video, idle, stage>>

\* The page is hidden or shown; enterPictureInPictureWhenHidden.
VisibilityChanges ==
    /\ hidden' = ~ hidden
    /\ IF ~ hidden /\ playing /\ ~ pip THEN Ask("pip") ELSE UNCHANGED asked
    /\ UNCHANGED <<platform, fullscreen, pip, browserEvents, modes, video, idle, playable,
                   settingsOpen>>

SetPictureInPicture(on, request) ==
    /\ asked' = asked \ {request}
    /\ pip' = on
    /\ browserEvents' = IF on = pip THEN browserEvents ELSE browserEvents \cup {"pipchange"}
    /\ UNCHANGED <<platform, fullscreen, modes, video, idle, stage>>

EntersPictureInPicture == "pip" \in asked /\ SetPictureInPicture(TRUE, "pip")
ExitsPictureInPicture == pip /\ SetPictureInPicture(FALSE, "exitPip")

\* Mutant: the event is taken for a change, and the browser is not asked.
PictureInPictureToggled ==
    /\ "pipchange" \in browserEvents
    /\ browserEvents' = browserEvents \ {"pipchange"}
    /\ isPictureInPicture' = ~ isPictureInPicture
    /\ UNCHANGED <<platform, fullscreen, pip, asked, isFullscreen, video, idle, stage>>

\* syncPictureInPictureState.
PictureInPictureChanged ==
    /\ "pipchange" \in browserEvents
    /\ browserEvents' = browserEvents \ {"pipchange"}
    /\ isPictureInPicture' = pip
    /\ UNCHANGED <<platform, fullscreen, pip, asked, isFullscreen, video, idle, stage>>

\* The browser refuses what it was asked for.
Refused(request) ==
    /\ request \in asked
    /\ asked' = asked \ {request}
    /\ UNCHANGED <<platform, fullscreen, pip, browserEvents, modes, video, idle, stage>>

-----------------------------------------------------------------------------
\* The viewer plays or pauses; toggleSettings, and a press outside the open popover.
PlayOrPause ==
    /\ playing' = ~ playing
    /\ UNCHANGED <<platform, browser, modes, resume, resuming, idle, stage>>

ToggleSettings ==
    /\ settingsOpen' = ~ settingsOpen
    /\ UNCHANGED <<platform, browser, modes, video, idle, hidden, playable>>

ChromeNext ==
    \/ IdleTimerFires \/ PointerMoves \/ PointerLeaves \/ PlayableChanges
    \/ ToggleFullscreen \/ EntersFullscreen \/ ExitsFullscreen
    \/ FullscreenChanged \/ NativeFullscreenEnded \/ Resume
    \/ TogglePictureInPicture \/ VisibilityChanges
    \/ EntersPictureInPicture \/ ExitsPictureInPicture \/ PictureInPictureChanged
    \/ (\E request \in Requests : Refused(request))
    \/ PlayOrPause \/ ToggleSettings

ChromeSpec == ChromeInit /\ [][ChromeNext]_chromeVars

-----------------------------------------------------------------------------
(* Properties *)

ChromeTypeOK ==
    /\ platform \in Platforms
    /\ asked \subseteq Requests /\ browserEvents \subseteq BrowserEvents
    /\ fullscreen \in BOOLEAN /\ pip \in BOOLEAN
    /\ isFullscreen \in BOOLEAN /\ isPictureInPicture \in BOOLEAN
    /\ playing \in BOOLEAN /\ resume \in BOOLEAN /\ hidden \in BOOLEAN /\ playable \in BOOLEAN
    /\ controlsVisible \in BOOLEAN /\ idleTimer \in BOOLEAN /\ settingsOpen \in BOOLEAN
    /\ idleTimers \in Nat /\ resuming \in Nat

\* The controls are visible exactly while one timer runs that will hide them, and the
\* page holds on to that timer: the pointer, a change of fullscreen and an earlier timer
\* neither hide them early nor leave them up.
ControlsHideOnce ==
    /\ idleTimers = IF controlsVisible THEN 1 ELSE 0
    /\ idleTimer = controlsVisible

\* When every event has been handled the buttons show the mode the browser is in,
\* whether the page asked for it or not, but for the native player.
ButtonsFollowBrowser ==
    browserEvents = {} => /\ isPictureInPicture = pip
                          /\ isFullscreen = (fullscreen /\ platform = "element")
=============================================================================

---------------------------- MODULE PlayerProofs ----------------------------
(***************************************************************************)
(* Theorems about the player of the watch page.  StreamPlayer, for any     *)
(* number of attempts under way, any qualities and any number of changes   *)
(* of the inputs: what is attached belongs to the current effect, and the  *)
(* page is never left waiting for nothing.  PlayerSound and PlayerChrome,  *)
(* for any number of presses, loads, timers and events: whatever order     *)
(* they come in, the buttons end up telling the truth, and the controls    *)
(* hide once.                                                              *)
(***************************************************************************)
EXTENDS StreamPlayer, PlayerSound, PlayerChrome, TLAPS

-----------------------------------------------------------------------------
(* The stream                                                              *)

\* Something of the attempt is left, and its effect has not been cleaned up.
Live(r) == ~ r.canceled /\ (r.stage # "idle" \/ r.link # "none")

\* It will go on by itself, or has been refused.  A negotiation goes on while its
\* connection is open: once that is closed it may wait for ever.
GoesOn(r) ==
    /\ ~ r.canceled
    /\ \/ r.stage \in {"timer", "access", "offer", "refused"}
       \/ r.stage = "negotiate" /\ r.link # "none"

\* What is live was made for the inputs e.
Current(r, e) ==
    /\ Live(r) => e.room /\ ~ e.ended /\ r.quality = e.quality
    /\ r.stage = "playing" => ~ r.canceled

CurrentInv == \A a \in Attempts : Current(attempt[a], effect)

\* What is attached is what the current effect asks for.
AttachedQuality == attached # NoQuality => Showing /\ attached \in {effect.quality, AutoQuality}

GoesOnInv == Showing => attached # NoQuality \/ \E a \in Attempts : GoesOn(attempt[a])

IInv == TypeOK /\ CurrentInv /\ AttachedQuality /\ GoesOnInv

-----------------------------------------------------------------------------
(* Lemmas about the operators *)

LEMMA QualityTypes == NoQuality \notin Qualities /\ AutoQuality \in Qualities
<1>1. Variants \subseteq Nat /\ -1 \notin Nat /\ -1 # 0
  BY StreamPlayerAssumption DEF StreamPlayerAssumption
<1>2. NoQuality = -1 /\ Qualities = {0} \cup Variants /\ AutoQuality = 0
  BY DEF NoQuality, Qualities, AutoQuality
<1> QED
  BY <1>1, <1>2

LEMMA IdleType == Idle \in Attempt /\ ~ Live(Idle) /\ Idle.canceled = FALSE /\ Idle.stage = "idle"
<1>1. Idle = [stage |-> "idle", canceled |-> FALSE, quality |-> AutoQuality, options |-> {},
               link |-> "none"]
  BY DEF Idle
<1>2. Idle.canceled = FALSE /\ Idle.stage = "idle" /\ Idle.link = "none"
  BY <1>1
<1>3. Idle \in Attempt
  BY <1>1, QualityTypes DEF Attempt, Stages
<1> QED
  BY <1>2, <1>3 DEF Live

LEMMA SettledFacts ==
  ASSUME NEW r \in Attempt
  PROVE  /\ Settled(r) \in Attempt
         /\ Settled(r).stage = r.stage
         /\ r.stage # "idle" => Settled(r) = r
         /\ \A e : Current(r, e) => Current(Settled(r), e)
<1>1. CASE r.stage = "idle" /\ r.link = "none"
  BY <1>1, IdleType DEF Settled, Current
<1>2. CASE ~ (r.stage = "idle" /\ r.link = "none")
  BY <1>2 DEF Settled
<1> QED
  BY <1>1, <1>2

LEMMA ToFacts ==
  ASSUME attempt \in [Attempts -> Attempt], NEW a \in Attempts, NEW next \in Stages
  PROVE  /\ To(a, next) \in [Attempts -> Attempt]
         /\ \A b \in Attempts \ {a} : To(a, next)[b] = attempt[b]
         /\ To(a, next)[a] = Settled([attempt[a] EXCEPT !.stage = next])
         /\ next # "idle" => To(a, next)[a] = [attempt[a] EXCEPT !.stage = next]
<1>1. [attempt[a] EXCEPT !.stage = next] \in Attempt
  BY DEF Attempt
<1>2. [attempt[a] EXCEPT !.stage = next].stage = next
  BY DEF Attempt
<1>3. Settled([attempt[a] EXCEPT !.stage = next]) \in Attempt
  BY <1>1, SettledFacts
<1>4. next # "idle" =>
        Settled([attempt[a] EXCEPT !.stage = next]) = [attempt[a] EXCEPT !.stage = next]
  BY <1>1, <1>2, SettledFacts
<1> QED
  BY <1>3, <1>4 DEF To

LEMMA ClosedFacts ==
  ASSUME NEW f \in [Attempts -> Attempt], NEW c
  PROVE  /\ Closed(f, c) \in [Attempts -> Attempt]
         /\ \A b \in Attempts : /\ b # c => Closed(f, c)[b] = f[b]
                                /\ Closed(f, c)[b].stage = f[b].stage
                                /\ f[b].stage # "idle" =>
                                      Closed(f, c)[b] = IF b = c THEN [f[b] EXCEPT !.link = "none"]
                                                        ELSE f[b]
                                /\ \A e : Current(f[b], e) => Current(Closed(f, c)[b], e)
<1> SUFFICES ASSUME NEW b \in Attempts
             PROVE  /\ (IF b = c THEN Settled([f[b] EXCEPT !.link = "none"]) ELSE f[b]) \in Attempt
                    /\ b # c => Closed(f, c)[b] = f[b]
                    /\ Closed(f, c)[b].stage = f[b].stage
                    /\ f[b].stage # "idle" =>
                          Closed(f, c)[b] = IF b = c THEN [f[b] EXCEPT !.link = "none"] ELSE f[b]
                    /\ \A e : Current(f[b], e) => Current(Closed(f, c)[b], e)
  BY DEF Closed
<1>1. Closed(f, c)[b] = IF b = c THEN Settled([f[b] EXCEPT !.link = "none"]) ELSE f[b]
  BY DEF Closed
<1>2. [f[b] EXCEPT !.link = "none"] \in Attempt /\ [f[b] EXCEPT !.link = "none"].stage = f[b].stage
  BY DEF Attempt
<1>3. \A e : Current(f[b], e) => Current([f[b] EXCEPT !.link = "none"], e)
  BY DEF Attempt, Current, Live
<1> QED
  BY <1>1, <1>2, <1>3, SettledFacts

LEMMA SelectedType ==
  ASSUME NEW options \in SUBSET Qualities, NEW quality \in Qualities
  PROVE  /\ SelectedQuality(options, quality) \in Qualities
         /\ SelectedQuality(options, quality) \in {quality, AutoQuality}
<1>1. CASE quality \in options
  BY <1>1 DEF SelectedQuality
<1>2. CASE quality \notin options
  BY <1>2, QualityTypes DEF SelectedQuality
<1> QED
  BY <1>1, <1>2

\* A stream that is detached and will be reconnected: the timer is of the current effect,
\* and goes on.
LEMMA DetachFacts ==
  ASSUME effect \in Inputs, Showing, NEW f \in [Attempts -> Attempt],
         \A b \in Attempts : Current(f[b], effect), DetachAndReconnect(f)
  PROVE  /\ attempt' \in [Attempts -> Attempt]
         /\ timer' \in Attempts /\ connection' = NoAttempt /\ attached' = NoQuality
         /\ \A b \in Attempts : Current(attempt'[b], effect)
         /\ \E b \in Attempts : GoesOn(attempt'[b])
<1> DEFINE closed == Closed(f, connection)
<1>1. closed \in [Attempts -> Attempt] /\ \A b \in Attempts : Current(closed[b], effect)
  BY ClosedFacts
<1> HIDE DEF closed
<1>2. PICK b \in Attempts :
        /\ closed[b] = Idle
        /\ attempt' = [closed EXCEPT ![b].stage = "timer", ![b].quality = effect.quality]
        /\ timer' = b /\ connection' = NoAttempt /\ attached' = NoQuality
  BY DEF DetachAndReconnect, closed
<1>3. attempt' = [closed EXCEPT ![b] = [Idle EXCEPT !.stage = "timer", !.quality = effect.quality]]
  BY <1>1, <1>2
<1>4. effect.quality \in Qualities
  BY DEF Inputs
<1>5. /\ [Idle EXCEPT !.stage = "timer", !.quality = effect.quality] \in Attempt
      /\ [Idle EXCEPT !.stage = "timer", !.quality = effect.quality].stage = "timer"
      /\ [Idle EXCEPT !.stage = "timer", !.quality = effect.quality].quality = effect.quality
      /\ ~ [Idle EXCEPT !.stage = "timer", !.quality = effect.quality].canceled
  BY <1>4 DEF Idle, Attempt, Stages
<1>6. Current([Idle EXCEPT !.stage = "timer", !.quality = effect.quality], effect)
  BY <1>5 DEF Current, Showing
<1>7. GoesOn([Idle EXCEPT !.stage = "timer", !.quality = effect.quality])
  BY <1>5 DEF GoesOn
<1> QED
  BY <1>1, <1>2, <1>3, <1>5, <1>6, <1>7

-----------------------------------------------------------------------------
(* Two kinds of steps *)

\* One attempt goes on, and stays current; what went on by itself still does.
LEMMA GoesOnStep ==
  ASSUME IInv, NEW a \in Attempts, UNCHANGED <<effect, attached>>,
         \A b \in Attempts \ {a} : attempt'[b] = attempt[b],
         Current(attempt'[a], effect), GoesOn(attempt[a]) => GoesOn(attempt'[a])
  PROVE  CurrentInv' /\ AttachedQuality' /\ GoesOnInv'
<1>1. CurrentInv'
  BY DEF IInv, CurrentInv
<1>2. AttachedQuality'
  BY DEF IInv, AttachedQuality, Showing
<1>3. GoesOnInv'
  <2>1. \A b \in Attempts : GoesOn(attempt[b]) => GoesOn(attempt'[b])
    OBVIOUS
  <2> QED
    BY <2>1 DEF IInv, GoesOnInv, Showing
<1> QED
  BY <1>1, <1>2, <1>3

\* The stream is detached and reconnected.
LEMMA DetachStep ==
  ASSUME IInv, Showing, NEW f \in [Attempts -> Attempt],
         \A b \in Attempts : Current(f[b], effect), DetachAndReconnect(f),
         UNCHANGED <<inputs, srcObject>>, loading' \in BOOLEAN, denied' \in BOOLEAN, menu' \in SUBSET Qualities
  PROVE  IInv'
<1>1. TypeOK /\ effect \in Inputs
  BY DEF IInv, TypeOK
<1>2. /\ attempt' \in [Attempts -> Attempt]
      /\ timer' \in Attempts /\ connection' = NoAttempt /\ attached' = NoQuality
      /\ \A b \in Attempts : Current(attempt'[b], effect)
      /\ \E b \in Attempts : GoesOn(attempt'[b])
  BY <1>1, DetachFacts
<1>3. UNCHANGED <<wanted, effect, changes, srcObject>>
  BY DEF inputs
<1>4. TypeOK'
  BY <1>1, <1>2, <1>3, Zenon DEF TypeOK
<1>5. CurrentInv'
  BY <1>2, <1>3 DEF CurrentInv
<1>6. AttachedQuality' /\ GoesOnInv'
  BY <1>2 DEF AttachedQuality, GoesOnInv
<1> QED
  BY <1>4, <1>5, <1>6 DEF IInv

-----------------------------------------------------------------------------
(* The actions, one by one *)

LEMMA RunEffectStep ==
  ASSUME IInv, NEW a \in Attempts, RunEffect(a)
  PROVE  IInv'
<1> DEFINE closed == Closed(attempt, connection)
           started == [Idle EXCEPT !.stage = "access", !.quality = wanted.quality]
<1>0. TypeOK
  BY DEF IInv
<1>1. closed \in [Attempts -> Attempt] /\ \A b \in Attempts : Current(closed[b], effect)
  BY <1>0, ClosedFacts DEF TypeOK, IInv, CurrentInv
<1>2. CancelAll = [b \in Attempts |-> IF b = timer /\ closed[b].stage = "timer" THEN Idle
                                      ELSE Settled(Cancel(closed[b]))]
  BY DEF CancelAll
<1> HIDE DEF closed
<1>3. ASSUME NEW r \in Attempt, Current(r, effect)
      PROVE  Cancel(r) \in Attempt /\ \A e : Current(Cancel(r), e)
  <2>1. CASE r = Idle \/ r.stage = "refused"
    <3>1. Cancel(r) = Idle
      BY <2>1, IdleType DEF Cancel
    <3> QED
      BY <3>1, IdleType DEF Current
  <2>2. CASE r.stage = "timer" /\ r # Idle
    <3>1. Cancel(r) = [r EXCEPT !.canceled = TRUE]
      BY <2>2, IdleType DEF Cancel
    <3> QED
      BY <2>2, <3>1 DEF Attempt, Current, Live
  <2>3. CASE r.stage = "playing" /\ r # Idle
    <3> DEFINE left == [Idle EXCEPT !.canceled = TRUE, !.link = r.link]
    <3>1. Cancel(r) = Settled(left)
      BY <2>3 DEF Cancel
    <3>2. left \in Attempt /\ left.stage = "idle" /\ left.canceled
      BY QualityTypes DEF Idle, Attempt, Stages
    <3>3. \A e : Current(left, e)
      BY <3>2 DEF Current, Live
    <3> HIDE DEF left
    <3> QED
      BY <3>1, <3>2, <3>3, SettledFacts
  <2>4. CASE r # Idle /\ r.stage \notin {"refused", "timer", "playing"}
    <3>1. Cancel(r) = [r EXCEPT !.canceled = TRUE, !.quality = AutoQuality, !.options = {}]
      BY <2>4 DEF Cancel
    <3> QED
      BY <2>4, <3>1, QualityTypes DEF Attempt, Current, Live
  <2> QED
    BY <2>1, <2>2, <2>3, <2>4
<1>4. CancelAll \in [Attempts -> Attempt] /\ \A b \in Attempts : \A e : Current(CancelAll[b], e)
  <2> SUFFICES ASSUME NEW b \in Attempts
               PROVE  CancelAll[b] \in Attempt /\ \A e : Current(CancelAll[b], e)
    BY <1>2
  <2>1. CASE b = timer /\ closed[b].stage = "timer"
    BY <1>2, <2>1, IdleType DEF Current
  <2>2. CASE ~ (b = timer /\ closed[b].stage = "timer")
    <3>1. CancelAll[b] = Settled(Cancel(closed[b]))
      BY <1>2, <2>2
    <3>2. Cancel(closed[b]) \in Attempt /\ \A e : Current(Cancel(closed[b]), e)
      BY <1>1, <1>3
    <3> QED
      BY <3>1, <3>2, SettledFacts
  <2> QED
    BY <2>1, <2>2
<1>5. effect' = wanted /\ wanted \in Inputs /\ wanted.quality \in Qualities
      /\ UNCHANGED <<wanted, changes, srcObject>>
      /\ timer' = NoAttempt /\ connection' = NoAttempt /\ attached' = NoQuality
  BY <1>0 DEF RunEffect, TypeOK, Inputs
<1>6. CASE wanted.room /\ ~ wanted.ended
  <2>1. attempt' = [CancelAll EXCEPT ![a] = started] /\ loading' = TRUE /\ denied' = FALSE
        /\ UNCHANGED menu
    BY <1>6 DEF RunEffect
  <2>2. /\ started \in Attempt /\ started.stage = "access" /\ ~ started.canceled
        /\ started.quality = wanted.quality
    BY <1>5, QualityTypes DEF Idle, Attempt, Stages
  <2> HIDE DEF started
  <2>3. Current(started, wanted) /\ GoesOn(started)
    BY <1>6, <2>2 DEF Current, GoesOn
  <2>4. attempt' \in [Attempts -> Attempt] /\ attempt'[a] = started
        /\ \A b \in Attempts : Current(attempt'[b], wanted)
    BY <1>4, <2>1, <2>2, <2>3
  <2>5. TypeOK'
    BY <1>0, <1>5, <2>1, <2>4, Zenon DEF TypeOK
  <2> QED
    BY <1>5, <2>3, <2>4, <2>5 DEF IInv, CurrentInv, AttachedQuality, GoesOnInv
<1>7. CASE ~ (wanted.room /\ ~ wanted.ended)
  <2>1. attempt' = CancelAll /\ loading' = FALSE /\ menu' = {} /\ UNCHANGED denied
    BY <1>7 DEF RunEffect
  <2>2. menu' \in SUBSET Qualities
    BY <2>1
  <2>3. TypeOK'
    BY <1>0, <1>4, <1>5, <2>1, <2>2, Zenon DEF TypeOK
  <2>4. ~ Showing'
    BY <1>5, <1>7 DEF Showing
  <2> QED
    BY <1>4, <1>5, <2>1, <2>3, <2>4 DEF IInv, CurrentInv, AttachedQuality, GoesOnInv
<1> QED
  BY <1>6, <1>7

\* attempt[a] as the step of a finds it.
LEMMA AttemptFacts ==
  ASSUME IInv, NEW a \in Attempts
  PROVE  /\ TypeOK /\ attempt \in [Attempts -> Attempt] /\ effect \in Inputs
         /\ attempt[a] \in Attempt /\ Current(attempt[a], effect)
         /\ \A b \in Attempts : Current(attempt[b], effect)
         /\ Live(attempt[a]) => Showing
BY DEF IInv, TypeOK, CurrentInv, Current, Showing

\* An attempt whose stage alone changes.
LEMMA ToStep ==
  ASSUME IInv, NEW a \in Attempts, NEW next \in Stages, attempt' = To(a, next),
         UNCHANGED <<effect, attached>>,
         attempt[a].stage # "idle",
         next = "playing" => ~ Canceled(a),
         GoesOn(attempt[a]) => next \in {"timer", "access", "offer", "refused"}
  PROVE  attempt' \in [Attempts -> Attempt] /\ CurrentInv' /\ AttachedQuality' /\ GoesOnInv'
<1>1. /\ attempt' \in [Attempts -> Attempt]
      /\ \A b \in Attempts \ {a} : attempt'[b] = attempt[b]
      /\ attempt'[a] = Settled([attempt[a] EXCEPT !.stage = next])
      /\ next # "idle" => attempt'[a] = [attempt[a] EXCEPT !.stage = next]
  BY AttemptFacts, ToFacts
<1>2. attempt[a] \in Attempt /\ Current(attempt[a], effect)
  BY AttemptFacts
<1>3. [attempt[a] EXCEPT !.stage = next] \in Attempt
      /\ Current([attempt[a] EXCEPT !.stage = next], effect)
  BY <1>2 DEF Attempt, Current, Live, Canceled
<1>4. Current(attempt'[a], effect)
  BY <1>1, <1>3, SettledFacts
<1>5. GoesOn(attempt[a]) => GoesOn(attempt'[a])
  BY <1>1, <1>2 DEF GoesOn, Attempt
<1> QED
  BY <1>1, <1>4, <1>5, GoesOnStep

\* An attempt that ends leaves every attempt current.
LEMMA ToIdleFacts ==
  ASSUME IInv, NEW a \in Attempts
  PROVE  /\ To(a, "idle") \in [Attempts -> Attempt]
         /\ \A b \in Attempts : Current(To(a, "idle")[b], effect)
<1>1. /\ To(a, "idle") \in [Attempts -> Attempt]
      /\ \A b \in Attempts \ {a} : To(a, "idle")[b] = attempt[b]
      /\ To(a, "idle")[a] = Settled([attempt[a] EXCEPT !.stage = "idle"])
  BY AttemptFacts, ToFacts DEF Stages
<1>2. [attempt[a] EXCEPT !.stage = "idle"] \in Attempt
      /\ Current([attempt[a] EXCEPT !.stage = "idle"], effect)
  BY AttemptFacts DEF Attempt, Current, Live, Stages
<1>3. Current(To(a, "idle")[a], effect)
  BY <1>1, <1>2, SettledFacts
<1> QED
  BY <1>1, <1>3, AttemptFacts

LEMMA TimerStep ==
  ASSUME IInv, NEW a \in Attempts, TimerFires(a)
  PROVE  IInv'
<1>1. TypeOK /\ attempt[a].quality \in Qualities /\ attempt[a].stage = "timer"
      /\ "idle" \in Stages /\ "access" \in Stages
  BY AttemptFacts DEF Attempt, TimerFires, Stages
<1>2. UNCHANGED <<wanted, effect, changes, srcObject, connection, attached>>
      /\ timer' \in Attempts \cup {NoAttempt}
  BY <1>1 DEF TimerFires, inputs, TypeOK
<1>3. CASE attached = attempt[a].quality
  <2>1. attempt' = To(a, "idle") /\ UNCHANGED <<loading, denied, menu>>
    BY <1>3 DEF TimerFires, screen
  <2>2. /\ attempt' \in [Attempts -> Attempt]
        /\ \A b \in Attempts \ {a} : attempt'[b] = attempt[b]
        /\ attempt'[a] = Settled([attempt[a] EXCEPT !.stage = "idle"])
    BY <1>1, <2>1, AttemptFacts, ToFacts
  <2>3. Current([attempt[a] EXCEPT !.stage = "idle"], effect)
        /\ [attempt[a] EXCEPT !.stage = "idle"] \in Attempt
    BY <1>1, AttemptFacts DEF Attempt, Current, Live, Stages
  <2>4. CurrentInv'
    BY <1>2, <2>2, <2>3, SettledFacts DEF CurrentInv, IInv
  <2>5. attached' # NoQuality
    BY <1>1, <1>2, <1>3, QualityTypes
  <2>6. AttachedQuality' /\ GoesOnInv'
    BY <1>2, <2>5 DEF AttachedQuality, GoesOnInv, IInv, Showing
  <2>7. TypeOK'
    BY <1>1, <1>2, <2>1, <2>2, Zenon DEF TypeOK
  <2> QED
    BY <2>4, <2>6, <2>7 DEF IInv
<1>4. CASE attached # attempt[a].quality
  <2>1. attempt' = To(a, "access") /\ loading' = TRUE /\ denied' = FALSE /\ UNCHANGED menu
    BY <1>4 DEF TimerFires
  <2>2. attempt' \in [Attempts -> Attempt] /\ CurrentInv' /\ AttachedQuality' /\ GoesOnInv'
    BY <1>1, <1>2, <2>1, ToStep
  <2>3. TypeOK'
    BY <1>1, <1>2, <2>1, <2>2, Zenon DEF TypeOK
  <2> QED
    BY <2>2, <2>3 DEF IInv
<1> QED
  BY <1>3, <1>4

LEMMA ForbiddenStep ==
  ASSUME IInv, NEW a \in Attempts, AccessForbidden(a)
  PROVE  IInv'
<1>1. TypeOK /\ attempt[a].stage = "access" /\ "idle" \in Stages /\ "refused" \in Stages
  BY DEF IInv, AccessForbidden, Stages
<1>2. /\ UNCHANGED <<wanted, effect, changes, srcObject, timer, connection, attached, menu>>
      /\ denied' = TRUE /\ loading' = FALSE
      /\ attempt' = To(a, IF Canceled(a) THEN "idle" ELSE "refused")
  BY DEF AccessForbidden, inputs
<1>3. attempt' \in [Attempts -> Attempt] /\ CurrentInv' /\ AttachedQuality' /\ GoesOnInv'
  <2>1. CASE Canceled(a)
    <3>1. attempt' = To(a, "idle") /\ ~ GoesOn(attempt[a])
      BY <1>2, <2>1 DEF GoesOn, Canceled
    <3> QED
      BY <1>1, <1>2, <3>1, ToStep
  <2>2. CASE ~ Canceled(a)
    BY <1>1, <1>2, <2>2, ToStep
  <2> QED
    BY <2>1, <2>2
<1>4. TypeOK'
  BY <1>1, <1>2, <1>3, Zenon DEF TypeOK
<1> QED
  BY <1>3, <1>4 DEF IInv

LEMMA GrantedStep ==
  ASSUME IInv, NEW a \in Attempts, NEW offer \in Offers, AccessGranted(a, offer)
  PROVE  IInv'
<1> DEFINE options == PlaybackQualityOptions(offer)
           closed == Closed(attempt, connection)
<1>1. TypeOK /\ attempt[a].stage = "access" /\ "idle" \in Stages /\ "offer" \in Stages
  BY DEF IInv, AccessGranted, Stages
<1>2. options \in SUBSET Qualities
  BY StreamPlayerAssumption DEF StreamPlayerAssumption, PlaybackQualityOptions, Qualities
<1>3. UNCHANGED <<wanted, effect, changes, srcObject, timer, attached, loading, denied>>
  BY DEF AccessGranted, inputs
<1>4. CASE Canceled(a)
  <2>1. attempt' = To(a, "idle") /\ ~ GoesOn(attempt[a]) /\ UNCHANGED <<connection, menu>>
    BY <1>4 DEF AccessGranted, GoesOn, Canceled
  <2>2. attempt' \in [Attempts -> Attempt] /\ CurrentInv' /\ AttachedQuality' /\ GoesOnInv'
    BY <1>1, <1>3, <2>1, ToStep
  <2>3. TypeOK'
    BY <1>1, <1>3, <2>1, <2>2, Zenon DEF TypeOK
  <2> QED
    BY <2>2, <2>3 DEF IInv
<1>5. CASE ~ Canceled(a)
  <2>1. /\ attempt' = [closed EXCEPT ![a].stage = "offer", ![a].options = options]
        /\ connection' = NoAttempt /\ menu' = options
    BY <1>5 DEF AccessGranted
  <2>2. /\ closed \in [Attempts -> Attempt]
        /\ \A b \in Attempts : Current(closed[b], effect)
        /\ ~ closed[a].canceled /\ closed[a].stage = "access"
    <3>1. attempt[a] \in Attempt /\ ~ attempt[a].canceled
      BY <1>5, AttemptFacts DEF Canceled
    <3>2. closed[a] = IF a = connection THEN [attempt[a] EXCEPT !.link = "none"] ELSE attempt[a]
      BY <1>1, AttemptFacts, ClosedFacts
    <3>3. ~ closed[a].canceled
      BY <3>1, <3>2 DEF Attempt
    <3>4. closed[a].stage = attempt[a].stage
      BY <3>1, <3>2 DEF Attempt
    <3>5. /\ closed \in [Attempts -> Attempt]
          /\ \A b \in Attempts : Current(closed[b], effect)
      BY AttemptFacts, ClosedFacts
    <3> HIDE DEF closed
    <3> QED
      BY <1>1, <3>3, <3>4, <3>5
  <2> HIDE DEF closed, options
  <2>3. attempt' = [closed EXCEPT ![a] = [closed[a] EXCEPT !.stage = "offer", !.options = options]]
    BY <2>1, <2>2
  <2>4. /\ [closed[a] EXCEPT !.stage = "offer", !.options = options] \in Attempt
        /\ Current([closed[a] EXCEPT !.stage = "offer", !.options = options], effect)
        /\ GoesOn([closed[a] EXCEPT !.stage = "offer", !.options = options])
    <3>1. closed[a] \in Attempt /\ Current(closed[a], effect)
      BY <2>2
    <3> DEFINE r == closed[a]
               granted == [r EXCEPT !.stage = "offer", !.options = options]
    <3>2. r \in Attempt /\ Current(r, effect) /\ ~ r.canceled /\ r.stage = "access"
      BY <2>2, <3>1
    <3> HIDE DEF r
    <3>3. granted \in Attempt
      BY <1>1, <1>2, <3>2 DEF Attempt
    <3>4. /\ granted.stage = "offer" /\ ~ granted.canceled /\ granted.quality = r.quality
      BY <3>2 DEF Attempt
    <3>5. Current(granted, effect) /\ GoesOn(granted)
      BY <3>2, <3>4 DEF Current, Live, GoesOn
    <3> QED
      BY <3>3, <3>5 DEF r
  <2>5. attempt' \in [Attempts -> Attempt] /\ CurrentInv' /\ GoesOnInv'
    BY <1>3, <2>2, <2>3, <2>4 DEF CurrentInv, GoesOnInv
  <2>6. AttachedQuality'
    BY <1>3 DEF IInv, AttachedQuality, Showing
  <2>7. TypeOK'
    BY <1>1, <1>2, <1>3, <2>1, <2>5, Zenon DEF TypeOK
  <2> QED
    BY <2>5, <2>6, <2>7 DEF IInv
<1> QED
  BY <1>4, <1>5

LEMMA OfferStep ==
  ASSUME IInv, NEW a \in Attempts, OfferArrives(a)
  PROVE  IInv'
<1> DEFINE negotiating == [attempt[a] EXCEPT !.stage = "negotiate", !.link = "open"]
<1>1. TypeOK /\ attempt[a] \in Attempt /\ Current(attempt[a], effect) /\ attempt[a].stage = "offer"
  BY AttemptFacts DEF OfferArrives
<1>2. /\ attempt' = [attempt EXCEPT ![a] = negotiating] /\ connection' = a
      /\ srcObject' = a
      /\ UNCHANGED <<wanted, effect, changes, timer, attached, loading, denied, menu>>
  BY DEF OfferArrives, inputs, screen
<1>3. /\ negotiating \in Attempt /\ negotiating.stage = "negotiate" /\ negotiating.link = "open"
      /\ negotiating.canceled = attempt[a].canceled /\ negotiating.quality = attempt[a].quality
  BY <1>1 DEF Attempt, Stages
<1> HIDE DEF negotiating
<1>4. Current(negotiating, effect) /\ (GoesOn(attempt[a]) => GoesOn(negotiating))
  BY <1>1, <1>3 DEF Current, Live, GoesOn
<1>5. /\ attempt' \in [Attempts -> Attempt] /\ attempt'[a] = negotiating
      /\ \A b \in Attempts \ {a} : attempt'[b] = attempt[b]
  BY <1>2, <1>3, AttemptFacts
<1>6. CurrentInv' /\ AttachedQuality' /\ GoesOnInv'
  BY <1>2, <1>4, <1>5, GoesOnStep
<1>7. TypeOK'
  BY <1>1, <1>2, <1>5, Zenon DEF TypeOK
<1> QED
  BY <1>6, <1>7 DEF IInv

LEMMA FailsStep ==
  ASSUME IInv, NEW a \in Attempts, AttemptFails(a)
  PROVE  IInv'
<1>1. /\ TypeOK /\ attempt[a].stage \in {"access", "offer", "negotiate"} /\ "idle" \in Stages
      /\ UNCHANGED <<inputs, srcObject>> /\ Catch(a)
  BY DEF IInv, AttemptFails, Stages
<1>2. CASE Canceled(a)
  <2>1. /\ attempt' = To(a, "idle") /\ ~ GoesOn(attempt[a])
        /\ UNCHANGED <<wanted, effect, changes, srcObject, timer, connection, attached, loading,
                       denied, menu>>
    BY <1>1, <1>2 DEF Catch, GoesOn, Canceled, screen, inputs
  <2>2. attempt' \in [Attempts -> Attempt] /\ CurrentInv' /\ AttachedQuality' /\ GoesOnInv'
    BY <1>1, <2>1, ToStep
  <2>3. TypeOK'
    BY <1>1, <2>1, <2>2, Zenon DEF TypeOK
  <2> QED
    BY <2>2, <2>3 DEF IInv
<1>3. CASE ~ Canceled(a)
  <2>1. DetachAndReconnect(To(a, "idle")) /\ menu' = {} /\ loading' = FALSE /\ UNCHANGED denied
    BY <1>1, <1>3 DEF Catch
  <2>2. Showing
    BY <1>1, <1>3, AttemptFacts DEF Live, Canceled
  <2>3. /\ To(a, "idle") \in [Attempts -> Attempt]
        /\ \A b \in Attempts : Current(To(a, "idle")[b], effect)
    BY <1>1, ToIdleFacts
  <2>4. loading' \in BOOLEAN /\ denied' \in BOOLEAN /\ menu' \in SUBSET Qualities
    BY <1>1, <2>1, Zenon DEF TypeOK
  <2> DEFINE f == To(a, "idle")
  <2>5. f \in [Attempts -> Attempt] /\ (\A b \in Attempts : Current(f[b], effect))
        /\ DetachAndReconnect(f)
    BY <2>1, <2>3
  <2> HIDE DEF f
  <2> QED
    BY <1>1, <2>2, <2>4, <2>5, DetachStep
<1> QED
  BY <1>2, <1>3

LEMMA HangsStep ==
  ASSUME IInv, NEW a \in Attempts, NegotiationHangs(a)
  PROVE  IInv'
<1>1. TypeOK /\ attempt[a].stage = "negotiate" /\ ~ GoesOn(attempt[a]) /\ "idle" \in Stages
  BY DEF IInv, NegotiationHangs, Open, GoesOn, Stages
<1>2. /\ attempt' = To(a, "idle")
      /\ UNCHANGED <<wanted, effect, changes, srcObject, timer, connection, attached, loading,
                     denied, menu>>
  BY DEF NegotiationHangs, inputs, screen
<1>3. attempt' \in [Attempts -> Attempt] /\ CurrentInv' /\ AttachedQuality' /\ GoesOnInv'
  BY <1>1, <1>2, ToStep
<1>4. TypeOK'
  BY <1>1, <1>2, <1>3, Zenon DEF TypeOK
<1> QED
  BY <1>3, <1>4 DEF IInv

LEMMA AnsweredStep ==
  ASSUME IInv, NEW a \in Attempts, Answered(a)
  PROVE  IInv'
<1>1. /\ TypeOK /\ attempt[a] \in Attempt /\ attempt[a].stage = "negotiate"
      /\ "idle" \in Stages /\ "playing" \in Stages
      /\ UNCHANGED <<wanted, effect, changes, srcObject, timer, connection, denied, menu>>
  BY AttemptFacts DEF Answered, Stages, inputs
<1>2. CASE Canceled(a)
  <2>1. attempt' = To(a, "idle") /\ ~ GoesOn(attempt[a]) /\ UNCHANGED <<attached, loading>>
    BY <1>2 DEF Answered, GoesOn, Canceled
  <2>2. attempt' \in [Attempts -> Attempt] /\ CurrentInv' /\ AttachedQuality' /\ GoesOnInv'
    BY <1>1, <2>1, ToStep
  <2>3. TypeOK'
    BY <1>1, <2>1, <2>2, Zenon DEF TypeOK
  <2> QED
    BY <2>2, <2>3 DEF IInv
<1>3. CASE ~ Canceled(a)
  <2> DEFINE quality == SelectedQuality(attempt[a].options, attempt[a].quality)
  <2>1. attempt' = To(a, "playing") /\ attached' = quality /\ loading' = FALSE
    BY <1>3 DEF Answered
  <2>2. quality \in Qualities /\ quality \in {attempt[a].quality, AutoQuality}
    <3>1. attempt[a].options \in SUBSET Qualities /\ attempt[a].quality \in Qualities
      BY <1>1 DEF Attempt
    <3> QED
      BY <3>1, SelectedType
  <2> HIDE DEF quality
  <2>3. Live(attempt[a]) /\ Showing /\ attempt[a].quality = effect.quality
    BY <1>1, <1>3, AttemptFacts DEF Live, Current, Canceled
  <2>4. attached' # NoQuality /\ attached' \in {effect.quality, AutoQuality}
    BY <2>1, <2>2, <2>3, QualityTypes
  <2>5. AttachedQuality' /\ GoesOnInv'
    BY <1>1, <2>3, <2>4 DEF AttachedQuality, GoesOnInv, Showing
  <2>6. /\ attempt' \in [Attempts -> Attempt]
        /\ \A b \in Attempts \ {a} : attempt'[b] = attempt[b]
        /\ attempt'[a] = [attempt[a] EXCEPT !.stage = "playing"]
    BY <1>1, <2>1, AttemptFacts, ToFacts
  <2>7. Current(attempt'[a], effect)
    BY <1>1, <1>3, <2>3, <2>6 DEF Current, Live, Attempt, Canceled, Showing
  <2>8. CurrentInv'
    BY <1>1, <2>6, <2>7, AttemptFacts DEF CurrentInv
  <2>9. TypeOK'
    BY <1>1, <2>1, <2>2, <2>6, Zenon DEF TypeOK
  <2> QED
    BY <2>5, <2>8, <2>9 DEF IInv
<1> QED
  BY <1>2, <1>3

LEMMA PlaybackStep ==
  ASSUME IInv, NEW a \in Attempts, PlaybackStarts(a) \/ PlaybackFails(a)
  PROVE  IInv'
<1>1. TypeOK /\ attempt[a].stage = "playing" /\ ~ GoesOn(attempt[a]) /\ "idle" \in Stages
  BY DEF IInv, PlaybackStarts, PlaybackFails, GoesOn, Stages
<1>2. CASE PlaybackStarts(a)
  <2>1. /\ attempt' = To(a, "idle")
        /\ UNCHANGED <<wanted, effect, changes, srcObject, timer, connection, attached, loading,
                       denied, menu>>
    BY <1>2 DEF PlaybackStarts, inputs, screen
  <2>2. attempt' \in [Attempts -> Attempt] /\ CurrentInv' /\ AttachedQuality' /\ GoesOnInv'
    BY <1>1, <2>1, ToStep
  <2>3. TypeOK'
    BY <1>1, <2>1, <2>2, Zenon DEF TypeOK
  <2> QED
    BY <2>2, <2>3 DEF IInv
<1>3. CASE PlaybackFails(a)
  <2> DEFINE f == To(a, "idle")
  <2>1. DetachAndReconnect(f) /\ UNCHANGED <<inputs, srcObject>>
        /\ UNCHANGED <<loading, denied, menu>>
    BY <1>3 DEF PlaybackFails, screen
  <2>2. Showing
    BY <1>1, AttemptFacts DEF Current, Live
  <2>3. f \in [Attempts -> Attempt] /\ \A b \in Attempts : Current(f[b], effect)
    BY <1>1, ToIdleFacts
  <2>4. loading' \in BOOLEAN /\ denied' \in BOOLEAN /\ menu' \in SUBSET Qualities
    BY <1>1, <2>1, Zenon DEF TypeOK
  <2> HIDE DEF f
  <2> QED
    BY <2>1, <2>2, <2>3, <2>4, DetachStep
<1> QED
  BY <1>2, <1>3

LEMMA LostStep ==
  ASSUME IInv, NEW a \in Attempts, NEW forGood \in BOOLEAN, ConnectionLost(a, forGood)
  PROVE  IInv'
<1> DEFINE lost == IF forGood THEN Closed(attempt, a) ELSE attempt
<1>1. TypeOK /\ Open(a) /\ UNCHANGED <<inputs, srcObject>> /\ UNCHANGED <<loading, denied, menu>>
  BY DEF IInv, ConnectionLost, screen
<1>2. /\ lost \in [Attempts -> Attempt]
      /\ \A b \in Attempts : Current(lost[b], effect)
      /\ \A b \in Attempts \ {a} : lost[b] = attempt[b]
  <2>1. CASE forGood
    BY <2>1, AttemptFacts, ClosedFacts
  <2>2. CASE ~ forGood
    BY <2>2, AttemptFacts
  <2> QED
    BY <2>1, <2>2
<1>3. CASE Canceled(a)
  <2>1. /\ attempt' = lost /\ ~ GoesOn(attempt[a])
        /\ UNCHANGED <<wanted, effect, changes, srcObject, timer, connection, attached>>
    BY <1>1, <1>3 DEF ConnectionLost, GoesOn, Canceled, inputs
  <2> HIDE DEF lost
  <2>2. CurrentInv' /\ AttachedQuality' /\ GoesOnInv'
    BY <1>2, <2>1, GoesOnStep
  <2>3. TypeOK'
    BY <1>1, <1>2, <2>1, Zenon DEF TypeOK
  <2> QED
    BY <2>2, <2>3 DEF IInv
<1>4. CASE ~ Canceled(a)
  <2>1. DetachAndReconnect(lost)
    BY <1>4 DEF ConnectionLost
  <2>2. Showing
    BY <1>1, <1>4, AttemptFacts DEF Live, Open, Canceled
  <2>3. loading' \in BOOLEAN /\ denied' \in BOOLEAN /\ menu' \in SUBSET Qualities
    BY <1>1, Zenon DEF TypeOK
  <2> HIDE DEF lost
  <2> QED
    BY <1>1, <1>2, <2>1, <2>2, <2>3, DetachStep
<1> QED
  BY <1>3, <1>4

LEMMA NetworkStep ==
  ASSUME IInv, NEW a \in Attempts, NetworkInsufficient(a)
  PROVE  IInv'
<1> DEFINE reported == [attempt[a] EXCEPT !.link = "reported"]
<1>1. /\ TypeOK /\ attempt[a] \in Attempt /\ Current(attempt[a], effect)
      /\ attempt[a].link = "open" /\ attempt' = [attempt EXCEPT ![a] = reported]
      /\ UNCHANGED <<effect, changes, srcObject, timer, connection, attached, loading, denied,
                    menu>>
  BY AttemptFacts DEF NetworkInsufficient, screen
<1>2. /\ reported \in Attempt /\ reported.link = "reported" /\ reported.stage = attempt[a].stage
      /\ reported.canceled = attempt[a].canceled /\ reported.quality = attempt[a].quality
  BY <1>1 DEF Attempt
<1> HIDE DEF reported
<1>3. Current(reported, effect) /\ (GoesOn(attempt[a]) => GoesOn(reported))
  BY <1>1, <1>2 DEF Current, Live, GoesOn
<1>4. /\ attempt' \in [Attempts -> Attempt] /\ attempt'[a] = reported
      /\ \A b \in Attempts \ {a} : attempt'[b] = attempt[b]
  BY <1>1, <1>2, AttemptFacts
<1>5. CurrentInv' /\ AttachedQuality' /\ GoesOnInv'
  BY <1>1, <1>3, <1>4, GoesOnStep
<1>6. wanted' \in Inputs
  <2>1. wanted \in Inputs
    BY <1>1 DEF TypeOK
  <2>2. attempt[a].options \in SUBSET Qualities
    BY <1>1 DEF Attempt
  <2>3. \A current : Downgraded(attempt[a].options, current) \subseteq Qualities
    BY <2>2 DEF Downgraded
  <2>4. wanted' = wanted \/ \E q \in Qualities : wanted' = [wanted EXCEPT !.quality = q]
    BY <2>3 DEF NetworkInsufficient
  <2> QED
    BY <2>1, <2>4 DEF Inputs
<1>7. TypeOK'
  BY <1>1, <1>4, <1>6, Zenon DEF TypeOK
<1> QED
  BY <1>5, <1>7 DEF IInv

-----------------------------------------------------------------------------
(* What the video plays *)

\* The open connection the video was given is the one the player holds.
SourceHeld == Lit => srcObject = connection

\* No connection opens in the step, and the one the player held is held or closed.
NoneOpens ==
    \A b \in Attempts : attempt'[b].link # "none" => /\ attempt[b].link # "none"
                                                     /\ b = connection => b = connection'

LEMMA SourceKept ==
  ASSUME TypeOK, SourceHeld, UNCHANGED srcObject, NoneOpens
  PROVE  SourceHeld'
BY DEF TypeOK, SourceHeld, NoneOpens, Lit, Open

LEMMA SettledLink == ASSUME NEW r PROVE Settled(r).link = r.link
BY DEF Settled, Idle

LEMMA ToLinks ==
  ASSUME attempt \in [Attempts -> Attempt], NEW a \in Attempts, NEW next \in Stages
  PROVE  \A b \in Attempts : To(a, next)[b].link = attempt[b].link
<1>1. [attempt[a] EXCEPT !.stage = next].link = attempt[a].link
  BY DEF Attempt
<1>2. Settled([attempt[a] EXCEPT !.stage = next]).link = attempt[a].link
  BY <1>1, SettledLink
<1>3. /\ \A b \in Attempts \ {a} : To(a, next)[b] = attempt[b]
      /\ To(a, next)[a] = Settled([attempt[a] EXCEPT !.stage = next])
  BY ToFacts
<1> QED
  BY <1>2, <1>3

LEMMA ClosedLinks ==
  ASSUME NEW f \in [Attempts -> Attempt], NEW c
  PROVE  \A b \in Attempts : Closed(f, c)[b].link = IF b = c THEN "none" ELSE f[b].link
<1> SUFFICES ASSUME NEW b \in Attempts
             PROVE  Closed(f, c)[b].link = IF b = c THEN "none" ELSE f[b].link
  OBVIOUS
<1>1. Closed(f, c)[b] = IF b = c THEN Settled([f[b] EXCEPT !.link = "none"]) ELSE f[b]
  BY DEF Closed
<1>2. [f[b] EXCEPT !.link = "none"].link = "none"
  BY DEF Attempt
<1> QED
  BY <1>1, <1>2, SettledLink

LEMMA DetachLinks ==
  ASSUME NEW f \in [Attempts -> Attempt], DetachAndReconnect(f)
  PROVE  \A b \in Attempts : attempt'[b].link # "none" => f[b].link # "none" /\ b # connection
<1> DEFINE closed == Closed(f, connection)
<1>1. /\ closed \in [Attempts -> Attempt]
      /\ \A b \in Attempts : closed[b].link = IF b = connection THEN "none" ELSE f[b].link
  BY ClosedFacts, ClosedLinks
<1>2. PICK b \in Attempts :
        attempt' = [closed EXCEPT ![b].stage = "timer", ![b].quality = effect.quality]
  BY DEF DetachAndReconnect
<1> HIDE DEF closed
<1>3. \A c \in Attempts : attempt'[c].link = closed[c].link
  BY <1>1, <1>2 DEF Attempt
<1> QED
  BY <1>1, <1>3

LEMMA CancelLink == ASSUME NEW r \in Attempt PROVE Cancel(r).link \in {"none", r.link}
<1>1. CASE r = Idle \/ r.stage = "refused"
  BY <1>1 DEF Cancel, Idle
<1>2. CASE r.stage = "timer" /\ r # Idle
  BY <1>2 DEF Cancel, Attempt
<1>3. CASE r.stage = "playing" /\ r # Idle
  <2> DEFINE left == [Idle EXCEPT !.canceled = TRUE, !.link = r.link]
  <2>1. Cancel(r) = Settled(left)
    BY <1>3 DEF Cancel
  <2>2. left.link = r.link
    BY DEF Idle
  <2> HIDE DEF left
  <2> QED
    BY <2>1, <2>2, SettledLink
<1>4. CASE r # Idle /\ r.stage \notin {"refused", "timer", "playing"}
  BY <1>4 DEF Cancel, Attempt
<1> QED
  BY <1>1, <1>2, <1>3, <1>4

LEMMA CancelAllLinks ==
  ASSUME attempt \in [Attempts -> Attempt]
  PROVE  \A b \in Attempts : CancelAll[b].link # "none" =>
                                attempt[b].link # "none" /\ b # connection
<1> SUFFICES ASSUME NEW b \in Attempts, CancelAll[b].link # "none"
             PROVE  attempt[b].link # "none" /\ b # connection
  OBVIOUS
<1> DEFINE closed == Closed(attempt, connection)
<1>1. closed[b] \in Attempt /\ closed[b].link = IF b = connection THEN "none" ELSE attempt[b].link
  BY ClosedFacts, ClosedLinks
<1>2. CancelAll[b] = IF b = timer /\ closed[b].stage = "timer" THEN Idle
                     ELSE Settled(Cancel(closed[b]))
  BY DEF CancelAll
<1> HIDE DEF closed
<1>3. CancelAll[b] = Idle \/ CancelAll[b].link = Cancel(closed[b]).link
  BY <1>2, SettledLink
<1>4. Cancel(closed[b]).link # "none"
  BY <1>3 DEF Idle
<1> QED
  BY <1>1, <1>4, CancelLink

LEMMA SourceNext == IInv /\ SourceHeld /\ [Next]_vars => SourceHeld'
<1> SUFFICES ASSUME IInv, SourceHeld, [Next]_vars
             PROVE  SourceHeld'
  OBVIOUS
<1>0. TypeOK /\ attempt \in [Attempts -> Attempt] /\ connection \in Attempts \cup {NoAttempt}
  BY DEF IInv, TypeOK
<1>s. {"idle", "access", "refused", "playing"} \subseteq Stages
  BY DEF Stages
<1>1. ASSUME NEW i \in Inputs, ChangeInputs(i)
      PROVE  SourceHeld'
  BY <1>1 DEF ChangeInputs, SourceHeld, Lit, Open
<1>2. ASSUME NEW a \in Attempts, RunEffect(a)
      PROVE  SourceHeld'
  <2> DEFINE started == [Idle EXCEPT !.stage = "access", !.quality = wanted.quality]
  <2>1. UNCHANGED srcObject
        /\ (attempt' = CancelAll \/ attempt' = [CancelAll EXCEPT ![a] = started])
    BY <1>2 DEF RunEffect
  <2>2. started.link = "none" /\ CancelAll = [b \in Attempts |-> CancelAll[b]]
    BY DEF Idle, CancelAll
  <2> HIDE DEF started
  <2>3. \A b \in Attempts : attempt'[b].link # "none" => CancelAll[b].link # "none"
    BY <2>1, <2>2
  <2> QED
    BY <1>0, <2>1, <2>3, CancelAllLinks, SourceKept DEF NoneOpens
<1>3. ASSUME NEW a \in Attempts, TimerFires(a)
      PROVE  SourceHeld'
  <2>1. UNCHANGED <<srcObject, connection>>
        /\ (attempt' = To(a, "idle") \/ attempt' = To(a, "access"))
    BY <1>3 DEF TimerFires
  <2> QED
    BY <1>0, <1>s, <2>1, ToLinks, SourceKept DEF NoneOpens
<1>4. ASSUME NEW a \in Attempts, AccessForbidden(a)
      PROVE  SourceHeld'
  <2>1. UNCHANGED <<srcObject, connection>>
        /\ (attempt' = To(a, "idle") \/ attempt' = To(a, "refused"))
    BY <1>4 DEF AccessForbidden
  <2> QED
    BY <1>0, <1>s, <2>1, ToLinks, SourceKept DEF NoneOpens
<1>5. ASSUME NEW a \in Attempts, NEW offer \in Offers, AccessGranted(a, offer)
      PROVE  SourceHeld'
  <2>1. UNCHANGED srcObject
    BY <1>5 DEF AccessGranted
  <2>2. CASE Canceled(a)
    <3>1. attempt' = To(a, "idle") /\ UNCHANGED connection
      BY <1>5, <2>2 DEF AccessGranted
    <3> QED
      BY <1>0, <1>s, <2>1, <3>1, ToLinks, SourceKept DEF NoneOpens
  <2>3. CASE ~ Canceled(a)
    <3> DEFINE closed == Closed(attempt, connection)
    <3>1. attempt' = [closed EXCEPT ![a].stage = "offer",
                                    ![a].options = PlaybackQualityOptions(offer)]
      BY <1>5, <2>3 DEF AccessGranted
    <3>2. /\ closed \in [Attempts -> Attempt]
          /\ \A b \in Attempts : closed[b].link = IF b = connection THEN "none" ELSE attempt[b].link
      BY <1>0, ClosedFacts, ClosedLinks
    <3> HIDE DEF closed
    <3>3. \A b \in Attempts : attempt'[b].link = closed[b].link
      BY <3>1, <3>2 DEF Attempt
    <3> QED
      BY <1>0, <2>1, <3>2, <3>3, SourceKept DEF NoneOpens
  <2> QED
    BY <2>2, <2>3
<1>6. ASSUME NEW a \in Attempts, OfferArrives(a)
      PROVE  SourceHeld'
  BY <1>6 DEF OfferArrives, SourceHeld
<1>7. ASSUME NEW a \in Attempts, NEW f \in [Attempts -> Attempt], DetachAndReconnect(f),
             \A b \in Attempts : f[b].link # "none" => attempt[b].link # "none",
             UNCHANGED srcObject
      PROVE  SourceHeld'
  BY <1>0, <1>7, DetachLinks, SourceKept DEF NoneOpens
<1>8. ASSUME NEW a \in Attempts
      PROVE  /\ To(a, "idle") \in [Attempts -> Attempt]
             /\ \A b \in Attempts : To(a, "idle")[b].link = attempt[b].link
  BY <1>0, <1>s, ToFacts, ToLinks
<1>9. ASSUME NEW a \in Attempts, AttemptFails(a)
      PROVE  SourceHeld'
  <2>1. UNCHANGED srcObject
    BY <1>9 DEF AttemptFails
  <2>2. CASE Canceled(a)
    <3>1. attempt' = To(a, "idle") /\ UNCHANGED connection
      BY <1>9, <2>2 DEF AttemptFails, Catch
    <3> QED
      BY <1>0, <1>8, <2>1, <3>1, SourceKept DEF NoneOpens
  <2>3. CASE ~ Canceled(a)
    <3>1. DetachAndReconnect(To(a, "idle"))
      BY <1>9, <2>3 DEF AttemptFails, Catch
    <3> QED
      BY <1>7, <1>8, <2>1, <3>1
  <2> QED
    BY <2>2, <2>3
<1>10. ASSUME NEW a \in Attempts, NegotiationHangs(a) \/ PlaybackStarts(a)
       PROVE  SourceHeld'
  <2>1. attempt' = To(a, "idle") /\ UNCHANGED <<srcObject, connection>>
    BY <1>10 DEF NegotiationHangs, PlaybackStarts
  <2> QED
    BY <1>0, <1>8, <2>1, SourceKept DEF NoneOpens
<1>11. ASSUME NEW a \in Attempts, Answered(a)
       PROVE  SourceHeld'
  <2>1. UNCHANGED <<srcObject, connection>>
        /\ (attempt' = To(a, "idle") \/ attempt' = To(a, "playing"))
    BY <1>11 DEF Answered
  <2> QED
    BY <1>0, <1>s, <2>1, ToLinks, SourceKept DEF NoneOpens
<1>12. ASSUME NEW a \in Attempts, PlaybackFails(a)
       PROVE  SourceHeld'
  <2>1. DetachAndReconnect(To(a, "idle")) /\ UNCHANGED srcObject
    BY <1>12 DEF PlaybackFails
  <2> QED
    BY <1>7, <1>8, <2>1
<1>13. ASSUME NEW a \in Attempts, NEW forGood \in BOOLEAN, ConnectionLost(a, forGood)
       PROVE  SourceHeld'
  <2> DEFINE lost == IF forGood THEN Closed(attempt, a) ELSE attempt
  <2>1. /\ lost \in [Attempts -> Attempt]
        /\ \A b \in Attempts : lost[b].link # "none" => attempt[b].link # "none"
    BY <1>0, ClosedFacts, ClosedLinks
  <2>2. UNCHANGED srcObject
    BY <1>13 DEF ConnectionLost
  <2>3. CASE Canceled(a)
    <3>1. attempt' = lost /\ UNCHANGED connection
      BY <1>13, <2>3 DEF ConnectionLost
    <3> HIDE DEF lost
    <3> QED
      BY <1>0, <2>1, <2>2, <3>1, SourceKept DEF NoneOpens
  <2>4. CASE ~ Canceled(a)
    <3>1. DetachAndReconnect(lost)
      BY <1>13, <2>4 DEF ConnectionLost
    <3> HIDE DEF lost
    <3> QED
      BY <1>7, <2>1, <2>2, <3>1
  <2> QED
    BY <2>3, <2>4
<1>14. ASSUME NEW a \in Attempts, NetworkInsufficient(a)
       PROVE  SourceHeld'
  <2>1. /\ attempt[a].link = "open" /\ attempt' = [attempt EXCEPT ![a].link = "reported"]
        /\ UNCHANGED <<srcObject, connection>>
    BY <1>14 DEF NetworkInsufficient
  <2>2. \A b \in Attempts : attempt'[b].link # "none" => attempt[b].link # "none"
    BY <1>0, <2>1 DEF Attempt
  <2> QED
    BY <1>0, <2>1, <2>2, SourceKept DEF NoneOpens
<1>15. CASE UNCHANGED vars
  BY <1>15 DEF vars, SourceHeld, Lit, Open
<1> QED
  BY <1>1, <1>2, <1>3, <1>4, <1>5, <1>6, <1>9, <1>10, <1>11, <1>12, <1>13, <1>14, <1>15
     DEF Next, Answer

-----------------------------------------------------------------------------
(* The theorems *)

LEMMA InitInv == Init => IInv
<1> SUFFICES ASSUME Init
             PROVE  IInv
  OBVIOUS
<1>1. /\ wanted \in Inputs /\ ~ wanted.room /\ effect = wanted /\ changes = 0
      /\ attempt = [a \in Attempts |-> Idle] /\ timer = NoAttempt /\ connection = NoAttempt
      /\ srcObject = NoAttempt
      /\ attached = NoQuality /\ loading = FALSE /\ denied = FALSE /\ menu = {}
  BY DEF Init
<1>2. attempt \in [Attempts -> Attempt] /\ \A a \in Attempts : attempt[a] = Idle
  BY <1>1, IdleType
<1>3. changes \in 0 .. MaxChanges /\ menu \in SUBSET Qualities
  BY <1>1, StreamPlayerAssumption DEF StreamPlayerAssumption
<1>4. TypeOK
  BY <1>1, <1>2, <1>3, Zenon DEF TypeOK
<1>5. CurrentInv
  BY <1>2, IdleType DEF CurrentInv, Current
<1>6. AttachedQuality /\ GoesOnInv
  BY <1>1 DEF AttachedQuality, GoesOnInv, Showing
<1> QED
  BY <1>4, <1>5, <1>6 DEF IInv

LEMMA NextInv == IInv /\ [Next]_vars => IInv'
<1> SUFFICES ASSUME IInv, [Next]_vars
             PROVE  IInv'
  OBVIOUS
<1>1. ASSUME NEW i \in Inputs, ChangeInputs(i)
      PROVE  IInv'
  <2>1. /\ TypeOK /\ wanted' = i /\ changes' = changes + 1 /\ changes < MaxChanges
        /\ UNCHANGED <<effect, attempt, timer, connection, srcObject, attached, loading, denied,
                      menu>>
    BY <1>1 DEF IInv, ChangeInputs, screen
  <2>2. changes' \in 0 .. MaxChanges
    BY <2>1, StreamPlayerAssumption DEF StreamPlayerAssumption, TypeOK
  <2>3. TypeOK'
    BY <2>1, <2>2, Zenon DEF TypeOK
  <2> QED
    BY <2>1, <2>3 DEF IInv, CurrentInv, AttachedQuality, GoesOnInv, Showing
<1>2. ASSUME NEW a \in Attempts, RunEffect(a) \/ TimerFires(a)
      PROVE  IInv'
  BY <1>2, RunEffectStep, TimerStep
<1>3. ASSUME NEW a \in Attempts, Answer(a)
      PROVE  IInv'
  BY <1>3, ForbiddenStep, GrantedStep, OfferStep, FailsStep, HangsStep, AnsweredStep, PlaybackStep
     DEF Answer
<1>4. ASSUME NEW a \in Attempts, NEW forGood \in BOOLEAN, ConnectionLost(a, forGood)
      PROVE  IInv'
  BY <1>4, LostStep
<1>5. ASSUME NEW a \in Attempts, NetworkInsufficient(a)
      PROVE  IInv'
  BY <1>5, NetworkStep
<1>6. CASE UNCHANGED vars
  <2>1. UNCHANGED <<wanted, effect, changes, srcObject, attempt, timer, connection, attached,
                    loading, denied, menu>>
    BY <1>6 DEF vars, inputs, screen
  <2> QED
    BY <2>1 DEF IInv, TypeOK, CurrentInv, AttachedQuality, GoesOnInv, Showing
<1> QED
  BY <1>1, <1>2, <1>3, <1>4, <1>5, <1>6 DEF Next

\* The attempts, the connection and what the page shows keep their types.
THEOREM TypeCorrect == Spec => []TypeOK
<1>1. IInv => TypeOK
  BY DEF IInv
<1> QED
  BY <1>1, InitInv, NextInv, PTL DEF Spec

\* An open connection that was not cancelled is live, and so of the current effect.
LEMMA HeldIsCurrent == IInv /\ SourceHeld => AttachedIsCurrent
<1> SUFFICES ASSUME IInv, SourceHeld
             PROVE  AttachedIsCurrent
  OBVIOUS
<1>1. ASSUME Lit, ~ Canceled(srcObject)
      PROVE  Showing /\ attempt[srcObject].quality = effect.quality
  <2>1. srcObject \in Attempts /\ Live(attempt[srcObject])
    BY <1>1 DEF IInv, TypeOK, Lit, Open, Canceled, Live
  <2> QED
    BY <2>1 DEF IInv, CurrentInv, Current, Showing
<1> QED
  BY <1>1 DEF IInv, AttachedQuality, SourceHeld, AttachedIsCurrent

\* What is attached belongs to the room and the quality of the current effect, however
\* late the attempts of earlier effects answer; and what the video plays is the
\* connection the player holds, of the current effect unless it belongs to an attempt
\* whose offer came after its cleanup.
THEOREM AttachedToCurrent == Spec => []AttachedIsCurrent
<1>1. Init => SourceHeld
  BY DEF Init, SourceHeld, Lit
<1> QED
  BY <1>1, InitInv, NextInv, SourceNext, HeldIsCurrent, PTL DEF Spec

LEMMA GoesOnNotStranded == IInv => NotStranded
<1>1. ASSUME NEW a \in Attempts, GoesOn(attempt[a])
      PROVE  a \in InStage({"timer", "access", "offer", "negotiate", "refused"})
  BY <1>1 DEF GoesOn, InStage, Canceled
<1> QED
  BY <1>1 DEF IInv, GoesOnInv, NotStranded

\* While a room is shown the player is attached or refused, or an attempt or a timer of
\* the current effect will go on, over any order of failures, late answers, lost
\* connections and timers: a negotiation that hangs has been closed by an attempt that
\* goes on itself.
THEOREM NeverStranded == Spec => []NotStranded
  BY GoesOnNotStranded, InitInv, NextInv, PTL DEF Spec

-----------------------------------------------------------------------------
(* The sound                                                               *)

\* A try of the page that was refused with the sound on, and will be repeated without.
WillMute == \E s \in starts : s.by = "auto" /\ s.refused /\ ~ muted

\* The page has heard of the sound unless an event will tell it.
SoundInv ==
    "volumechange" \notin events => isMuted = muted /\ preferredMuted \subseteq {muted}

\* The page has heard of a pause or a start unless some event will tell it, the element
\* was loaded anew, or a refused try is about to cause an event.
PausedInv ==
    /\ events = {} => isPaused = paused \/ emptied \/ WillMute
    /\ emptied /\ ~ paused => "play" \in events

-----------------------------------------------------------------------------
(* Type correctness *)

LEMMA PlayWithType ==
  ASSUME SoundTypeOK, NEW c \in Callers, NEW m \in BOOLEAN, NEW rest \in SUBSET Starts,
         PlayWith(c, m, rest)
  PROVE  paused' \in BOOLEAN /\ muted' \in BOOLEAN /\ events' \subseteq Events
         /\ starts' \subseteq Starts
<1>1. muted' = m /\ events' \subseteq Events
  BY DEF SoundTypeOK, PlayWith, SetMuted, Events
<1>2. [by |-> c, refused |-> FALSE] \in Starts /\ [by |-> c, refused |-> TRUE] \in Starts
  BY DEF Starts
<1>3. starts' \subseteq Starts
  BY <1>2 DEF PlayWith
<1>4. paused' = FALSE \/ paused' = paused
  BY Zenon DEF PlayWith
<1> QED
  BY <1>1, <1>3, <1>4, Zenon DEF SoundTypeOK

LEMMA AbortedType == SoundTypeOK => \A rest \in SUBSET starts : Aborted(rest) \subseteq Starts
<1>1. \A s \in Starts : [s EXCEPT !.refused = TRUE] \in Starts
  BY DEF Starts
<1> QED
  BY <1>1 DEF SoundTypeOK, Aborted

LEMMA InitSoundType == SoundInit => SoundTypeOK
BY Zenon DEF SoundInit, SoundTypeOK

LEMMA NextSoundType == SoundTypeOK /\ [SoundNext]_soundVars => SoundTypeOK'
<1> SUFFICES ASSUME SoundTypeOK, [SoundNext]_soundVars
             PROVE  SoundTypeOK'
  OBVIOUS
<1> USE DEF SoundTypeOK
<1>a. \A rest \in SUBSET starts : Aborted(rest) \subseteq Starts
  BY AbortedType
<1>c. {"auto", "mutedAuto", "toggle", "restore"} = Callers
  BY DEF Callers
<1>1. CASE BrowserPauses
  BY <1>1, <1>a DEF BrowserPauses, state, notices, Events
<1>2. CASE Attached
  <2>1. PlayWith("auto", FALSE, starts)
    BY <1>2 DEF Attached
  <2>2. paused' \in BOOLEAN /\ muted' \in BOOLEAN /\ events' \subseteq Events
        /\ starts' \subseteq Starts
    BY <2>1, <1>c, PlayWithType
  <2> QED
    BY <1>2, <2>2, Zenon DEF Attached, state
<1>3. CASE Detached
  BY <1>3, <1>a, Zenon DEF Detached, Detach, state
<1>4. ASSUME NEW s \in starts, NEW canceled \in BOOLEAN, StartResolved(s, canceled)
      PROVE  SoundTypeOK'
  <2>1. (s.by = "mutedAuto") \in BOOLEAN /\ starts \ {s} \subseteq Starts
    OBVIOUS
  <2> QED
    BY <1>4, <2>1, Zenon DEF StartResolved, element, state, notices
<1>5. ASSUME NEW s \in starts, NEW canceled \in BOOLEAN, StartRefused(s, canceled)
      PROVE  SoundTypeOK'
  <2>1. starts \ {s} \in SUBSET Starts
    OBVIOUS
  <2>2. CASE s.by = "auto" /\ ~ muted
    <3>1. PlayWith("mutedAuto", TRUE, starts \ {s})
      BY <1>5, <2>2 DEF StartRefused
    <3>2. paused' \in BOOLEAN /\ muted' \in BOOLEAN /\ events' \subseteq Events
          /\ starts' \subseteq Starts
      BY <3>1, <2>1, <1>c, PlayWithType
    <3> QED
      BY <1>5, <2>2, <3>2, Zenon DEF StartRefused, notices, state
  <2>3. CASE ~ (s.by = "auto" /\ ~ muted)
    BY <1>5, <2>1, <2>3, Zenon DEF StartRefused, element, notices, state
  <2> QED
    BY <2>2, <2>3
<1>6. CASE ReturnToTab
  <2> DEFINE m == muted /\ preferredMuted # {FALSE}
  <2>1. m \in BOOLEAN
    OBVIOUS
  <2>2. \/ PlayWith("restore", m, starts)
        \/ SetMuted(m, {}) /\ UNCHANGED <<paused, starts>>
    BY <1>6 DEF ReturnToTab
  <2> HIDE DEF m
  <2>3. paused' \in BOOLEAN /\ muted' \in BOOLEAN /\ events' \subseteq Events
        /\ starts' \subseteq Starts
    <3>1. CASE PlayWith("restore", m, starts)
      BY <3>1, <2>1, <1>c, PlayWithType
    <3>2. CASE SetMuted(m, {}) /\ UNCHANGED <<paused, starts>>
      BY <3>2, <2>1 DEF SetMuted, Events
    <3> QED
      BY <2>2, <3>1, <3>2
  <2> QED
    BY <1>6, <2>3, Zenon DEF ReturnToTab, state, notices
<1>7. CASE TogglePlayback
  <2>1. CASE paused
    <3>1. PlayWith("toggle", FALSE, starts)
      BY <1>7, <2>1 DEF TogglePlayback
    <3>2. paused' \in BOOLEAN /\ muted' \in BOOLEAN /\ events' \subseteq Events
          /\ starts' \subseteq Starts
      BY <3>1, <1>c, PlayWithType
    <3> QED
      BY <1>7, <2>1, <3>2, Zenon DEF TogglePlayback, notices
  <2>2. CASE ~ paused
    <3>1. events \cup {"pause"} \subseteq Events
      BY DEF Events
    <3> QED
      BY <1>7, <2>2, <3>1, <1>a, Zenon DEF TogglePlayback, notices
  <2> QED
    BY <2>1, <2>2
<1>8. ASSUME NEW s \in starts, StartEnds(s)
      PROVE  SoundTypeOK'
  <2>1. starts \ {s} \subseteq Starts
    OBVIOUS
  <2> QED
    BY <1>8, <2>1, Zenon DEF StartEnds, element, notices
<1>9. CASE ToggleMuted
  <2>1. muted' \in BOOLEAN /\ events' \subseteq Events
    BY <1>9 DEF ToggleMuted, SetMuted, Events
  <2> QED
    BY <1>9, <2>1, Zenon DEF ToggleMuted
<1>10. ASSUME NEW e \in events, HandleEvent(e)
       PROVE  SoundTypeOK'
  <2>1. events \ {e} \subseteq Events /\ {muted} \in SUBSET BOOLEAN
    OBVIOUS
  <2> QED
    BY <1>10, <2>1, Zenon DEF HandleEvent
<1>11. CASE RenderMuted
  <2>1. muted' \in BOOLEAN /\ events' \subseteq Events
    BY <1>11 DEF RenderMuted, SetMuted, Events
  <2> QED
    BY <1>11, <2>1, Zenon DEF RenderMuted, notices
<1>12. CASE UNCHANGED soundVars
  BY <1>12, Zenon DEF soundVars, element, state, notices
<1>13. ASSUME NEW s \in starts, StartThrows(s)
       PROVE  SoundTypeOK'
  <2>1. starts \ {s} \subseteq Starts
    OBVIOUS
  <2> QED
    BY <1>13, <1>a, <2>1, Zenon DEF StartThrows, Detach, element, state, notices
<1> QED
  BY <1>1, <1>2, <1>3, <1>4, <1>5, <1>6, <1>7, <1>8, <1>9, <1>10, <1>11, <1>12, <1>13
     DEF SoundNext

\* The element, its calls and events and what the page knows of them keep their types.
THEOREM SoundTypeCorrect == SoundSpec => []SoundTypeOK
BY InitSoundType, NextSoundType, PTL DEF SoundSpec

-----------------------------------------------------------------------------
(* What the page knows of the sound *)

LEMMA SetMutedSound ==
  ASSUME SoundInv, NEW m, NEW evs, SetMuted(m, evs), UNCHANGED <<isMuted, preferredMuted>>
  PROVE  SoundInv'
<1>1. CASE m = muted
  BY <1>1 DEF SoundInv, SetMuted
<1>2. CASE m # muted
  BY <1>2 DEF SoundInv, SetMuted
<1> QED
  BY <1>1, <1>2

LEMMA PlayWithSound ==
  ASSUME SoundInv, NEW c, NEW m, NEW rest, PlayWith(c, m, rest),
         UNCHANGED <<isMuted, preferredMuted>>
  PROVE  SoundInv'
<1>1. PICK evs : SetMuted(m, evs)
  BY DEF PlayWith
<1> QED
  BY <1>1, SetMutedSound

LEMMA NextSound == SoundInv /\ [SoundNext]_soundVars => SoundInv'
<1> SUFFICES ASSUME SoundInv, [SoundNext]_soundVars
             PROVE  SoundInv'
  OBVIOUS
<1>1. CASE BrowserPauses \/ Detached
  BY <1>1 DEF BrowserPauses, Detached, Detach, state, SoundInv
<1>2. CASE Attached
  BY <1>2, PlayWithSound DEF Attached, state
<1>3. ASSUME NEW s \in starts, NEW canceled \in BOOLEAN,
             StartResolved(s, canceled) \/ StartRefused(s, canceled)
      PROVE  SoundInv'
  <2>1. UNCHANGED <<isMuted, preferredMuted>>
    BY <1>3 DEF StartResolved, StartRefused, state
  <2>2. \/ PlayWith("mutedAuto", TRUE, starts \ {s})
        \/ UNCHANGED <<muted, events>>
    BY <1>3 DEF StartResolved, StartRefused, element
  <2> QED
    BY <2>1, <2>2, PlayWithSound DEF SoundInv
<1>4. CASE ReturnToTab
  <2> DEFINE m == muted /\ preferredMuted # {FALSE}
  <2>1. /\ PlayWith("restore", m, starts) \/ SetMuted(m, {})
        /\ UNCHANGED <<isMuted, preferredMuted>>
    BY <1>4 DEF ReturnToTab, state
  <2> HIDE DEF m
  <2> QED
    BY <2>1, PlayWithSound, SetMutedSound
<1>5. CASE TogglePlayback
  <2>1. CASE paused
    <3>1. PlayWith("toggle", FALSE, starts) /\ UNCHANGED <<isMuted, preferredMuted>>
      BY <1>5, <2>1 DEF TogglePlayback
    <3> QED
      BY <3>1, PlayWithSound
  <2>2. CASE ~ paused
    BY <1>5, <2>2 DEF TogglePlayback, SoundInv
  <2> QED
    BY <2>1, <2>2
<1>6. ASSUME NEW s \in starts, StartEnds(s)
      PROVE  SoundInv'
  BY <1>6 DEF StartEnds, element, SoundInv
<1>7. CASE ToggleMuted
  <2>1. CASE (~ muted) = muted
    BY <2>1
  <2>2. CASE (~ muted) # muted
    BY <1>7, <2>2 DEF ToggleMuted, SetMuted, SoundInv
  <2> QED
    BY <2>1, <2>2
<1>8. ASSUME NEW e \in events, HandleEvent(e)
      PROVE  SoundInv'
  <2>1. CASE e = "volumechange"
    BY <1>8, <2>1, Zenon DEF HandleEvent, SoundInv
  <2>2. CASE e # "volumechange"
    BY <1>8, <2>2 DEF HandleEvent, SoundInv
  <2> QED
    BY <2>1, <2>2
<1>9. CASE RenderMuted
  BY <1>9, SetMutedSound DEF RenderMuted
<1>10. CASE UNCHANGED soundVars
  BY <1>10 DEF soundVars, element, state, SoundInv
<1>11. ASSUME NEW s \in starts, StartThrows(s)
       PROVE  SoundInv'
  BY <1>11 DEF StartThrows, Detach, element, state, SoundInv
<1> QED
  BY <1>1, <1>2, <1>3, <1>4, <1>5, <1>6, <1>7, <1>8, <1>9, <1>10, <1>11 DEF SoundNext

-----------------------------------------------------------------------------
(* What the page knows of playback *)

\* A call of play() makes an event or leaves the element as it was.
LEMMA PlayWithEvents ==
  ASSUME SoundTypeOK, NEW c, NEW m, NEW rest, PlayWith(c, m, rest)
  PROVE  /\ events \subseteq events'
         /\ ~ paused' => ~ paused \/ "play" \in events'
         /\ events' = {} => muted' = muted /\ paused' = paused
<1>1. CASE paused' = FALSE /\ SetMuted(m, IF paused THEN {"play"} ELSE {})
  <2>1. events \subseteq events' /\ (paused => "play" \in events')
    BY <1>1 DEF SetMuted
  <2>2. events' = {} => muted' = muted
    BY <1>1 DEF SetMuted
  <2>3. ~ paused => paused' = paused
    BY <1>1, Zenon DEF SoundTypeOK
  <2> QED
    BY <2>1, <2>2, <2>3
<1>2. CASE SetMuted(m, {}) /\ UNCHANGED paused
  <2>1. events \subseteq events' /\ (events' = {} => muted' = muted)
    BY <1>2 DEF SetMuted
  <2> QED
    BY <1>2, <2>1
<1> QED
  BY <1>1, <1>2 DEF PlayWith

\* One call more neither takes back an event nor a try that is about to make one.
LEMMA PlayWithPaused ==
  ASSUME SoundTypeOK, PausedInv, NEW c, NEW m, PlayWith(c, m, starts),
         UNCHANGED <<isPaused, emptied>>
  PROVE  PausedInv'
<1>1. events' # {} \/ (muted' = muted /\ paused' = paused)
  BY PlayWithEvents
<1>2. starts \subseteq starts'
  BY DEF PlayWith
<1>3. emptied' /\ ~ paused' => "play" \in events'
  BY PlayWithEvents DEF PausedInv
<1>4. events \subseteq events'
  BY PlayWithEvents
<1>5. events' = {} /\ WillMute => WillMute'
  <2> SUFFICES ASSUME events' = {}, NEW s \in starts, s.by = "auto", s.refused, ~ muted
               PROVE  WillMute'
    BY DEF WillMute
  <2>1. s \in starts' /\ ~ muted'
    BY <1>1, <1>2
  <2> QED
    BY <2>1 DEF WillMute
<1>6. events' = {} => isPaused' = paused' \/ emptied' \/ WillMute'
  <2> HAVE events' = {}
  <2>1. events = {} /\ paused' = paused
    BY <1>1, <1>4
  <2> QED
    BY <2>1, <1>5 DEF PausedInv
<1> QED
  BY <1>3, <1>6 DEF PausedInv

LEMMA NextPaused == SoundTypeOK /\ SoundInv /\ PausedInv /\ [SoundNext]_soundVars => PausedInv'
<1> SUFFICES ASSUME SoundTypeOK, SoundInv, PausedInv, [SoundNext]_soundVars
             PROVE  PausedInv'
  OBVIOUS
<1>a. ASSUME starts' = Aborted(starts), UNCHANGED muted, WillMute
      PROVE  WillMute'
  <2>1. PICK s \in starts : s.by = "auto" /\ s.refused /\ ~ muted
    BY <1>a DEF WillMute
  <2>2. s \in Starts
    BY DEF SoundTypeOK
  <2>3. [s EXCEPT !.refused = TRUE] \in starts'
    BY <1>a DEF Aborted
  <2>4. [s EXCEPT !.refused = TRUE].by = "auto" /\ [s EXCEPT !.refused = TRUE].refused
    BY <2>1, <2>2 DEF Starts
  <2> QED
    BY <1>a, <2>1, <2>3, <2>4 DEF WillMute
<1>1. CASE BrowserPauses
  BY <1>1 DEF BrowserPauses, PausedInv
<1>2. CASE Attached
  <2>1. PlayWith("auto", FALSE, starts) /\ emptied' = FALSE /\ isPaused' = isPaused
    BY <1>2 DEF Attached, state
  <2>2. ~ WillMute
    BY <1>2 DEF Attached, WillMute
  <2>3. CASE starts' = starts \cup {[by |-> "auto", refused |-> TRUE]}
    <3>1. [by |-> "auto", refused |-> TRUE] \in starts' /\ ~ muted'
      BY <2>1, <2>3 DEF PlayWith, SetMuted
    <3>2. WillMute'
      BY <3>1 DEF WillMute
    <3> QED
      BY <2>1, <3>2 DEF PausedInv
  <2>4. CASE paused' = FALSE /\ SetMuted(FALSE, IF paused THEN {"play"} ELSE {})
    <3>1. events' = {} => events = {} /\ ~ paused
      BY <2>4 DEF SetMuted
    <3>2. events = {} /\ ~ paused => isPaused = paused
      BY <2>2 DEF PausedInv
    <3>3. events' = {} => isPaused' = paused'
      BY <3>1, <3>2, <2>1, <2>4 DEF SoundTypeOK
    <3> QED
      BY <3>3, <2>1 DEF PausedInv
  <2> QED
    BY <2>1, <2>3, <2>4 DEF PlayWith
<1>3. CASE Detached
  BY <1>3 DEF Detached, Detach, PausedInv
<1>4. ASSUME NEW s \in starts, NEW canceled \in BOOLEAN,
             StartResolved(s, canceled) \/ StartRefused(s, canceled)
      PROVE  PausedInv'
  <2>1. UNCHANGED <<isPaused, emptied>>
    BY <1>4 DEF StartResolved, StartRefused, state, element
  <2>2. CASE /\ UNCHANGED element /\ starts' = starts \ {s}
             /\ ~ (s.by = "auto" /\ s.refused /\ ~ muted)
    <3>1. WillMute => WillMute'
      BY <2>2 DEF WillMute, element
    <3> QED
      BY <2>1, <2>2, <3>1 DEF PausedInv, element
  <2>3. CASE PlayWith("mutedAuto", TRUE, starts \ {s}) /\ ~ muted
    <3>1. "volumechange" \in events'
      BY <2>3 DEF PlayWith, SetMuted
    <3>2. emptied' /\ ~ paused' => "play" \in events'
      BY <2>1, <2>3, PlayWithEvents DEF PausedInv
    <3> QED
      BY <3>1, <3>2 DEF PausedInv
  <2> QED
    BY <1>4, <2>2, <2>3 DEF StartResolved, StartRefused
<1>5. CASE ReturnToTab
  <2> DEFINE m == muted /\ preferredMuted # {FALSE}
  <2>1. /\ \/ PlayWith("restore", m, starts)
           \/ SetMuted(m, {}) /\ UNCHANGED <<paused, starts>>
        /\ UNCHANGED <<isPaused, emptied>>
    BY <1>5 DEF ReturnToTab, state
  <2> HIDE DEF m
  <2>2. CASE PlayWith("restore", m, starts)
    BY <2>1, <2>2, PlayWithPaused
  <2>3. CASE SetMuted(m, {}) /\ UNCHANGED <<paused, starts>>
    <3>1. events' = {} => events = {} /\ muted' = muted
      BY <2>3 DEF SetMuted
    <3>2. events \subseteq events'
      BY <2>3 DEF SetMuted
    <3> QED
      BY <2>1, <2>3, <3>1, <3>2 DEF PausedInv, WillMute
  <2> QED
    BY <2>1, <2>2, <2>3
<1>6. CASE TogglePlayback
  <2>1. CASE paused
    <3>1. PlayWith("toggle", FALSE, starts) /\ UNCHANGED <<isPaused, emptied>>
      BY <1>6, <2>1 DEF TogglePlayback
    <3> QED
      BY <3>1, PlayWithPaused
  <2>2. CASE ~ paused
    BY <1>6, <2>2 DEF TogglePlayback, PausedInv
  <2> QED
    BY <2>1, <2>2
<1>7. ASSUME NEW s \in starts, StartEnds(s)
      PROVE  PausedInv'
  <2>1. WillMute => WillMute'
    BY <1>7 DEF StartEnds, element, WillMute
  <2>2. isPaused' = paused \/ isPaused' = isPaused
    BY <1>7 DEF StartEnds
  <2> QED
    BY <1>7, <2>1, <2>2 DEF StartEnds, element, PausedInv
<1>8. CASE ToggleMuted
  <2>1. isPaused' = paused' /\ UNCHANGED <<paused, emptied>> /\ events \subseteq events'
    BY <1>8 DEF ToggleMuted, SetMuted
  <2> QED
    BY <2>1 DEF PausedInv
<1>9. ASSUME NEW e \in events, HandleEvent(e)
      PROVE  PausedInv'
  BY <1>9, Zenon DEF HandleEvent, PausedInv
<1>10. CASE RenderMuted
  <2>1. /\ UNCHANGED <<paused, emptied, isPaused, starts>>
        /\ events \subseteq events'
        /\ events' # {} \/ muted' = muted
    BY <1>10 DEF RenderMuted, SetMuted
  <2> QED
    BY <2>1 DEF PausedInv, WillMute
<1>11. CASE UNCHANGED soundVars
  BY <1>11 DEF soundVars, element, state, PausedInv, WillMute
<1>12. ASSUME NEW s \in starts, StartThrows(s)
       PROVE  PausedInv'
  BY <1>12 DEF StartThrows, Detach, element, state, PausedInv, WillMute
<1> QED
  BY <1>1, <1>2, <1>3, <1>4, <1>5, <1>6, <1>7, <1>8, <1>9, <1>10, <1>11, <1>12 DEF SoundNext

\* When no event, call or render is on its way, the buttons show whether the video
\* plays and sounds, and the preference for the next return to the tab is what the
\* viewer hears.
THEOREM ButtonsTell == SoundSpec => []ButtonsTellTheTruth
<1>1. SoundInit => SoundInv /\ PausedInv
  BY Zenon DEF SoundInit, SoundInv, PausedInv
<1>2. SoundInv /\ PausedInv => ButtonsTellTheTruth
  BY DEF SoundInv, PausedInv, ButtonsTellTheTruth, SoundSettled, WillMute
<1>3. SoundTypeOK /\ SoundInv /\ PausedInv /\ [SoundNext]_soundVars
        => (SoundTypeOK /\ SoundInv /\ PausedInv)'
  BY NextSoundType, NextSound, NextPaused
<1> QED
  BY <1>1, <1>2, <1>3, InitSoundType, PTL DEF SoundSpec

-----------------------------------------------------------------------------
(* The controls                                                            *)

\* What the buttons show until the events that are queued have been handled: the document
\* events come of the stage alone, and the end of native fullscreen of the video alone.
ModesInv ==
    /\ "pipchange" \notin browserEvents => isPictureInPicture = pip
    /\ platform = "element" =>
          /\ "fullscreenchange" \notin browserEvents => isFullscreen = fullscreen
          /\ "endfullscreen" \notin browserEvents
    /\ platform # "element" => isFullscreen = FALSE /\ "fullscreenchange" \notin browserEvents

IdleInv == ChromeTypeOK /\ ControlsHideOnce

-----------------------------------------------------------------------------
(* Type correctness, with the timers of the controls *)

LEMMA ClearedType == IdleInv => Cleared = 0
BY DEF IdleInv, ChromeTypeOK, ControlsHideOnce, Cleared

LEMMA InitIdle == ChromeInit => IdleInv
<1>1. 0 \in Nat
  OBVIOUS
<1> QED
  BY <1>1, Zenon DEF ChromeInit, IdleInv, ChromeTypeOK, ControlsHideOnce

LEMMA NextIdle == IdleInv /\ [ChromeNext]_chromeVars => IdleInv'
<1> SUFFICES ASSUME IdleInv, [ChromeNext]_chromeVars
             PROVE  IdleInv'
  OBVIOUS
<1> USE DEF IdleInv, ChromeTypeOK, ControlsHideOnce, Requests, BrowserEvents,
        browser, modes, video, idle, stage, chromeVars
<1>n. 0 \in Nat /\ 1 \in Nat /\ 0 + 1 = 1
  OBVIOUS
<1>c. Cleared = 0
  BY ClearedType
<1>1. CASE IdleTimerFires
  <2>1. idleTimers - 1 = 0
    BY <1>1 DEF IdleTimerFires
  <2> QED
    BY <1>1, <2>1, <1>n, Zenon DEF IdleTimerFires
<1>2. CASE PointerMoves
  BY <1>2, <1>c DEF PointerMoves, RevealControlsUntilIdle
<1>3. CASE PointerLeaves
  BY <1>3, <1>c DEF PointerLeaves, HideControls
<1>4. CASE PlayableChanges
  BY <1>4 DEF PlayableChanges
<1>5. CASE ToggleFullscreen
  BY <1>5 DEF ToggleFullscreen, Ask
<1>6. CASE EntersFullscreen
  BY <1>6 DEF EntersFullscreen, SetFullscreen
<1>7. CASE ExitsFullscreen
  BY <1>7 DEF ExitsFullscreen, SetFullscreen
<1>8. CASE FullscreenChanged
  <2>1. CASE fullscreen
    BY <1>8, <2>1, <1>c, <1>n, Zenon DEF FullscreenChanged, RevealControlsUntilIdle
  <2>2. CASE ~ fullscreen
    BY <1>8, <2>2, <1>c, <1>n, Zenon DEF FullscreenChanged, HideControls
  <2> QED
    BY <2>1, <2>2
<1>9. CASE NativeFullscreenEnded
  BY <1>9 DEF NativeFullscreenEnded
<1>10. CASE Resume
  <2>1. resuming - 1 \in Nat
    BY <1>10 DEF Resume
  <2> QED
    BY <1>10, <2>1, Zenon DEF Resume
<1>11. CASE TogglePictureInPicture
  BY <1>11 DEF TogglePictureInPicture, Ask
<1>12. CASE VisibilityChanges
  BY <1>12 DEF VisibilityChanges, Ask
<1>13. CASE EntersPictureInPicture
  BY <1>13 DEF EntersPictureInPicture, SetPictureInPicture
<1>14. CASE ExitsPictureInPicture
  BY <1>14 DEF ExitsPictureInPicture, SetPictureInPicture
<1>15. CASE PictureInPictureChanged
  BY <1>15 DEF PictureInPictureChanged
<1>16. CASE \E request \in Requests : Refused(request)
  BY <1>16 DEF Refused
<1>17. CASE PlayOrPause
  BY <1>17 DEF PlayOrPause
<1>18. CASE ToggleSettings
  BY <1>18 DEF ToggleSettings
<1>19. CASE UNCHANGED chromeVars
  BY <1>19
<1> QED
  BY <1>1, <1>2, <1>3, <1>4, <1>5, <1>6, <1>7, <1>8, <1>9, <1>10, <1>11, <1>12, <1>13,
     <1>14, <1>15, <1>16, <1>17, <1>18, <1>19 DEF ChromeNext

\* The variables of the page keep their types, whatever the browser does and refuses.
THEOREM ChromeTypeCorrect == ChromeSpec => []ChromeTypeOK
<1>1. IdleInv => ChromeTypeOK
  BY DEF IdleInv
<1> QED
  BY <1>1, InitIdle, NextIdle, PTL DEF ChromeSpec

\* The controls of the player are visible exactly while the one timer that will hide
\* them runs, over any order of pointer moves, changes of fullscreen and timers.
THEOREM ControlsHide == ChromeSpec => []ControlsHideOnce
<1>1. IdleInv => ControlsHideOnce
  BY DEF IdleInv
<1> QED
  BY <1>1, InitIdle, NextIdle, PTL DEF ChromeSpec
-----------------------------------------------------------------------------
(* The buttons *)

LEMMA NextModes == ModesInv /\ [ChromeNext]_chromeVars => ModesInv'
<1> SUFFICES ASSUME ModesInv, [ChromeNext]_chromeVars
             PROVE  ModesInv'
  OBVIOUS
<1> USE DEF ModesInv, browser, modes, video, idle, stage, chromeVars
<1>1. CASE EntersFullscreen \/ ExitsFullscreen
  BY <1>1 DEF EntersFullscreen, ExitsFullscreen, SetFullscreen
<1>2. CASE EntersPictureInPicture \/ ExitsPictureInPicture
  BY <1>2 DEF EntersPictureInPicture, ExitsPictureInPicture, SetPictureInPicture
<1>3. CASE FullscreenChanged
  BY <1>3 DEF FullscreenChanged
<1>4. CASE NativeFullscreenEnded
  BY <1>4 DEF NativeFullscreenEnded
<1>5. CASE PictureInPictureChanged
  BY <1>5 DEF PictureInPictureChanged
<1>6. CASE \/ IdleTimerFires \/ PointerMoves \/ PointerLeaves \/ PlayableChanges
           \/ ToggleFullscreen \/ Resume \/ TogglePictureInPicture \/ VisibilityChanges
           \/ (\E request \in Requests : Refused(request))
           \/ PlayOrPause \/ ToggleSettings \/ UNCHANGED chromeVars
  <2>1. UNCHANGED <<platform, fullscreen, pip, browserEvents, isFullscreen, isPictureInPicture>>
    BY <1>6 DEF IdleTimerFires, PointerMoves, PointerLeaves, PlayableChanges,
       ToggleFullscreen, Resume, TogglePictureInPicture, VisibilityChanges, Refused,
       PlayOrPause, ToggleSettings
  <2> QED
    BY <2>1
<1> QED
  BY <1>1, <1>2, <1>3, <1>4, <1>5, <1>6 DEF ChromeNext

\* Once every event has been handled the buttons show the mode the browser is in, over
\* any order of requests, refusals, events and changes the viewer makes by himself.
THEOREM ButtonsFollow == ChromeSpec => []ButtonsFollowBrowser
<1>1. ChromeInit => IdleInv /\ ModesInv
  BY InitIdle, Zenon DEF ChromeInit, ModesInv
<1>2. IdleInv /\ ModesInv => ButtonsFollowBrowser
  BY DEF IdleInv, ChromeTypeOK, ModesInv, ButtonsFollowBrowser
<1> QED
  BY <1>1, <1>2, NextIdle, NextModes, PTL DEF ChromeSpec
=============================================================================

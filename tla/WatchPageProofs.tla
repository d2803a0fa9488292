--------------------------- MODULE WatchPageProofs --------------------------
(***************************************************************************)
(* Theorems about WatchPage, for any number of attempts under way, any     *)
(* qualities, any credentials and any number of changes of the inputs: no  *)
(* stream is attached behind the password form, a refusal takes the        *)
(* password back, and the player keeps its promises within the page.       *)
(***************************************************************************)
EXTENDS WatchPage, PlayerProofs

\* The page's own variables have their types.
FormInv ==
    /\ listed \in Copies /\ fetched \in Copies
    /\ bypass \in Credentials /\ password \in {"right", "wrong"}
    /\ {protected, selected, submitted, over, noticed} \subseteq BOOLEAN

\* The inputs of the hook are those of the last render, but for the quality.
RenderInv == wanted.room = Active /\ wanted.ended = over /\ wanted.credential = RoomCredential

\* While a refusal stands that the page has seen, a password counts as entered only if the
\* effect has not seen it yet: the effect of before shows no room.
RefusalInv == denied /\ noticed = denied /\ submitted => ~ effect.room

PageInv == IInv /\ SourceHeld /\ FormInv /\ RenderInv /\ RefusalInv

\* What a step of the page leaves of the player is its invariant.
LEMMA InputsChange ==
  ASSUME IInv, SourceHeld, wanted' \in Inputs, changes' \in 0 .. MaxChanges,
         UNCHANGED <<effect, attempt, timer, connection, srcObject, attached, screen>>
  PROVE  IInv' /\ SourceHeld'
<1>1. TypeOK /\ UNCHANGED <<effect, attempt, timer, connection, srcObject, attached, loading,
                            denied, menu>>
  BY DEF IInv, screen
<1>2. TypeOK'
  BY <1>1, Zenon DEF TypeOK
<1> QED
  BY <1>1, <1>2
     DEF IInv, CurrentInv, AttachedQuality, GoesOnInv, Showing, SourceHeld, Lit, Open

LEMMA RenderStep ==
  ASSUME IInv, SourceHeld, FormInv', Render
  PROVE  IInv' /\ SourceHeld' /\ RenderInv' /\ UNCHANGED <<effect, denied>>
<1>1. Active' \in BOOLEAN /\ RoomCredential' \in Credentials
  <2>1. Active' \in BOOLEAN
    BY DEF Active, FormInv
  <2>2. RoomCredential' \in Credentials
    BY WatchPageAssumption DEF WatchPageAssumption, FormInv, RoomCredential
  <2> QED
    BY <2>1, <2>2
<1>2. over' \in BOOLEAN /\ wanted.quality \in Qualities
  BY DEF FormInv, IInv, TypeOK, Inputs
<1>3. /\ wanted' = [room |-> Active', ended |-> over', quality |-> wanted.quality,
                    credential |-> RoomCredential']
      /\ UNCHANGED <<effect, changes, attempt, timer, connection, srcObject, attached, screen>>
  BY DEF Render
<1>4. wanted' \in Inputs
  BY <1>1, <1>2, <1>3, Zenon DEF Inputs
<1>5. changes' \in 0 .. MaxChanges
  BY <1>3 DEF IInv, TypeOK
<1>6. IInv' /\ SourceHeld'
  BY <1>3, <1>4, <1>5, InputsChange
<1>7. RenderInv'
  BY <1>3 DEF RenderInv
<1> QED
  BY <1>3, <1>6, <1>7 DEF screen


LEMMA InitPage == PageInit => PageInv
<1> SUFFICES ASSUME PageInit
             PROVE  PageInv
  OBVIOUS
<1>1. IInv /\ SourceHeld /\ wanted \in Inputs /\ ~ wanted.room /\ ~ wanted.ended
      /\ effect = wanted /\ ~ denied
  BY InitInv DEF PageInit, Init, SourceHeld, Lit
<1>2. /\ protected \in BOOLEAN /\ selected = FALSE /\ listed = "asked" /\ fetched = "asked"
      /\ bypass = wanted.credential /\ submitted = FALSE /\ password = "wrong"
      /\ over = FALSE /\ noticed = FALSE
  BY DEF PageInit
<1>3. FormInv
  BY <1>1, <1>2 DEF FormInv, Copies, Inputs
<1>4. Active = FALSE /\ RoomCredential = bypass
  BY <1>2 DEF Active, RoomCredential
<1>5. wanted.room = FALSE /\ wanted.ended = FALSE
  BY <1>1 DEF Inputs
<1>6. RenderInv /\ RefusalInv
  BY <1>1, <1>2, <1>4, <1>5 DEF RenderInv, RefusalInv
<1> QED
  BY <1>1, <1>3, <1>6 DEF PageInv

\* A step of the page itself.
LEMMA PageStep == PageInv /\ Page => PageInv'
<1> SUFFICES ASSUME PageInv, Page
             PROVE  PageInv'
  OBVIOUS
<1>0. IInv /\ SourceHeld /\ FormInv /\ RenderInv /\ RefusalInv
  BY DEF PageInv
<1>1. ASSUME Render, FormInv', UNCHANGED noticed, submitted' => submitted
      PROVE  PageInv'
  BY <1>0, <1>1, RenderStep DEF PageInv, RefusalInv
<1>2. CASE SelectRoom \/ ListArrives \/ RoomArrives \/ RoomIsOver
  <2>1. Render /\ FormInv' /\ UNCHANGED <<noticed, submitted>>
    BY <1>0, <1>2
       DEF SelectRoom, ListArrives, RoomArrives, RoomIsOver, FormInv, CopyOf, Copies, copies, form
  <2> QED
    BY <1>1, <2>1
<1>3. CASE NoticeDenied
  <2>1. /\ Render /\ noticed' = denied /\ submitted' = (submitted /\ ~ denied)
        /\ UNCHANGED <<protected, selected, listed, fetched, bypass, password, over>>
    BY <1>3 DEF NoticeDenied, copies
  <2>2. denied \in BOOLEAN
    BY <1>0 DEF IInv, TypeOK
  <2>3. FormInv'
    BY <1>0, <2>1, <2>2 DEF FormInv
  <2>4. IInv' /\ SourceHeld' /\ RenderInv' /\ UNCHANGED <<effect, denied>>
    BY <1>0, <2>1, <2>3, RenderStep
  <2> QED
    BY <2>1, <2>3, <2>4 DEF PageInv, RefusalInv
<1>4. ASSUME NEW p \in {"right", "wrong"}, SubmitPassword(p)
      PROVE  PageInv'
  <2>1. /\ Render /\ ShowPasswordForm /\ effect = wanted /\ submitted' = TRUE /\ password' = p
        /\ UNCHANGED <<protected, selected, listed, fetched, bypass, noticed, over>>
    BY <1>4 DEF SubmitPassword, copies
  <2>2. FormInv'
    BY <1>0, <1>4, <2>1 DEF FormInv
  <2>3. IInv' /\ SourceHeld' /\ RenderInv' /\ UNCHANGED <<effect, denied>>
    BY <1>0, <2>1, <2>2, RenderStep
  <2>4. ~ effect.room
    BY <1>0, <2>1 DEF RenderInv, Active
  <2> QED
    BY <2>2, <2>3, <2>4 DEF PageInv, RefusalInv
<1>5. CASE OwnerTogglesPassword
  <2>1. /\ changes < MaxChanges /\ changes' = changes + 1 /\ protected' = ~ protected
        /\ UNCHANGED <<wanted, effect, attempt, timer, connection, srcObject, attached, screen>>
        /\ UNCHANGED <<selected, listed, fetched, bypass, submitted, password, noticed, over>>
    BY <1>5 DEF OwnerTogglesPassword, copies, form
  <2>2. changes' \in 0 .. MaxChanges /\ wanted' \in Inputs
    BY <1>0, <2>1, StreamPlayerAssumption DEF StreamPlayerAssumption, IInv, TypeOK
  <2>3. IInv' /\ SourceHeld'
    BY <1>0, <2>1, <2>2, InputsChange
  <2>4. FormInv'
    BY <1>0, <2>1 DEF FormInv
  <2>5. RenderInv' /\ RefusalInv'
    BY <1>0, <2>1
       DEF RenderInv, RefusalInv, Active, RoomLoaded, ShowPasswordForm, HasPassword,
           RoomCredential, screen
  <2> QED
    BY <2>3, <2>4, <2>5 DEF PageInv
<1> QED
  BY <1>2, <1>3, <1>4, <1>5 DEF Page

\* A step of the player, which leaves the page as it is.
LEMMA PlayerStep ==
  ASSUME PageInv, NEW a \in Attempts, Player(a), noticed = denied, UNCHANGED page
  PROVE  PageInv'
<1>0. IInv /\ SourceHeld /\ FormInv /\ RenderInv /\ RefusalInv
  BY DEF PageInv
<1>1. UNCHANGED <<protected, selected, listed, fetched, bypass, submitted, password, noticed, over>>
  BY DEF page, copies, form
<1>2. IInv' /\ SourceHeld'
  <2>1. Next
    BY DEF Player, RefusedByBackend, GrantedByBackend, Next, Answer
  <2> QED
    BY <1>0, <2>1, NextInv, SourceNext
<1>3. UNCHANGED wanted
  BY DEF Player, RefusedByBackend, GrantedByBackend, RunEffect, TimerFires, AccessForbidden,
         AccessGranted, OfferArrives, AttemptFails, NegotiationHangs, Answered, PlaybackStarts,
         PlaybackFails, ConnectionLost, inputs
<1>4. FormInv'
  BY <1>0, <1>1 DEF FormInv
<1>5. RenderInv'
  BY <1>0, <1>1, <1>3
     DEF RenderInv, Active, RoomLoaded, ShowPasswordForm, HasPassword, RoomCredential
<1>6. RefusalInv'
  <2>1. CASE RunEffect(a)
    <3>1. CASE wanted.room /\ ~ wanted.ended
      BY <2>1, <3>1 DEF RunEffect, RefusalInv
    <3>2. CASE ~ (wanted.room /\ ~ wanted.ended)
      <4>1. effect' = wanted /\ UNCHANGED denied
        BY <2>1, <3>2 DEF RunEffect
      <4>2. ~ wanted.room
        BY <1>0, <3>2 DEF RenderInv, Active
      <4> QED
        BY <4>1, <4>2 DEF RefusalInv
    <3> QED
      BY <3>1, <3>2
  <2>2. CASE ~ RunEffect(a)
    <3>1. UNCHANGED effect
      BY <2>2
         DEF Player, RefusedByBackend, GrantedByBackend, TimerFires, AccessForbidden,
             AccessGranted, OfferArrives, AttemptFails, NegotiationHangs, Answered,
             PlaybackStarts, PlaybackFails, ConnectionLost, inputs
    <3>2. denied' => denied \/ noticed' # denied'
      BY <1>0, <1>1 DEF FormInv, IInv, TypeOK
    <3> QED
      BY <1>0, <1>1, <3>1, <3>2 DEF RefusalInv
  <2> QED
    BY <2>1, <2>2
<1> QED
  BY <1>2, <1>4, <1>5, <1>6 DEF PageInv

LEMMA NextPage == PageInv /\ [PageNext]_pageVars => PageInv'
<1> SUFFICES ASSUME PageInv, [PageNext]_pageVars
             PROVE  PageInv'
  OBVIOUS
<1>1. CASE Page
  BY <1>1, PageStep
<1>2. CASE Quiet(\E a \in Attempts : Player(a))
  BY <1>2, PlayerStep DEF Quiet
<1>3. CASE UNCHANGED pageVars
  <2>1. UNCHANGED <<vars, inputs, wanted, effect, changes, attempt, timer, connection, srcObject,
                    attached, screen, denied, protected, selected, listed, fetched, bypass, submitted,
                    password, over, noticed>>
    BY <1>3 DEF pageVars, page, copies, form, vars, inputs, screen
  <2>2. IInv' /\ SourceHeld'
    BY <2>1, NextInv, SourceNext DEF PageInv
  <2> QED
    BY <2>1, <2>2
       DEF PageInv, FormInv, RenderInv, RefusalInv, Active, RoomLoaded, ShowPasswordForm,
           HasPassword, RoomCredential
<1> QED
  BY <1>1, <1>2, <1>3 DEF PageNext

\* The page and the player it holds keep their types.
THEOREM PageTypeCorrect == PageSpec => []PageTypeOK
<1>1. PageInv => PageTypeOK
  BY DEF PageInv, FormInv, IInv, PageTypeOK
<1> QED
  BY <1>1, InitPage, NextPage, PTL DEF PageSpec

\* What holds of the player by itself holds of the player in the page, whose inputs follow
\* the room, the password form and the end of the stream instead of changing at will.
THEOREM PageKeepsPlayer == PageSpec => [](AttachedIsCurrent /\ NotStranded)
<1>1. PageInv => AttachedIsCurrent /\ NotStranded
  BY GoesOnNotStranded, HeldIsCurrent DEF PageInv
<1> QED
  BY <1>1, InitPage, NextPage, PTL DEF PageSpec

\* Once React has run the effects, nothing is attached behind the password form, after the
\* end of the room or before it is there, the video is dark but for an attempt whose offer
\* came after its cleanup, and a refused room is not one whose password counts as entered,
\* whatever late answers to earlier passwords have come.
THEOREM PageAgrees == PageSpec => []PageAndPlayerAgree
<1>1. PageInv => PlaysWhatIsShown
  <2> SUFFICES ASSUME PageInv, effect = wanted, ~ Active
               PROVE  attached = NoQuality /\ (Lit => Canceled(srcObject))
    BY DEF PlaysWhatIsShown
  <2>1. AttachedIsCurrent
    BY HeldIsCurrent DEF PageInv
  <2>2. ~ Showing
    BY DEF PageInv, RenderInv, Showing
  <2> QED
    BY <2>1, <2>2 DEF AttachedIsCurrent
<1>2. PageInv => RefusalAsksAgain
  BY DEF PageInv, RenderInv, RefusalInv, RefusalAsksAgain
<1>3. PageInv => PageAndPlayerAgree
  BY <1>1, <1>2 DEF PageAndPlayerAgree
<1> QED
  BY <1>3, InitPage, NextPage, PTL DEF PageSpec
=============================================================================

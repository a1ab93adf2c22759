---------------------------- MODULE SurfacesProofs ----------------------------
(***************************************************************************)
(* Surfaces for any number of turns, steps, holds and beats, whether or    *)
(* not holds come early and bounds late.                                   *)
(***************************************************************************)
EXTENDS Surfaces, SequenceTheorems, TLAPS

-----------------------------------------------------------------------------
(* The pet.                                                                 *)

PetShape(p) ==
    /\ DOMAIN p = DOMAIN PetStart
    /\ p.mode \in Modes
    /\ {p.armed, p.drag, p.raf, p.stranded} \subseteq BOOLEAN

(* An arrival stays armed only on the way to its target: that the frames go *)
(* on until then needs that drag mode has a drag to follow, and its loop.   *)
Travels(p) ==
    /\ p.armed => p.mode # "shadow" /\ (p.raf \/ p.stranded)
    /\ (p.mode = "drag") <=> p.drag
    /\ p.drag => p.raf

PetInv(p) == PetShape(p) /\ Travels(p)

\* Waking the loop and showing the state leave where the pet is going.
LEMMA FxKeeps ==
  ASSUME NEW p, NEW f, PetShape(p)
  PROVE  /\ PetShape(SetFx(p, f))
         /\ SetFx(p, f).mode = p.mode /\ SetFx(p, f).drag = p.drag /\ SetFx(p, f).armed = p.armed
         /\ SetFx(p, f).raf
  BY DEF SetFx, ApplyVisibility, Wake, PetShape, PetStart

LEMMA VisibilityKeeps ==
  ASSUME NEW p, PetInv(p)
  PROVE  PetInv(ApplyVisibility(p)) /\ PetInv(Wake(p))
  BY DEF ApplyVisibility, Wake, PetInv, PetShape, PetStart, Travels

\* A pointing event that ends the pulse, if any, wakes the loop.
LEMMA QuietKeeps ==
  ASSUME NEW p, PetShape(p)
  PROVE  /\ PetShape(QuietUnlessSpeaking(p))
         /\ QuietUnlessSpeaking(p).mode = p.mode /\ QuietUnlessSpeaking(p).drag = p.drag
         /\ QuietUnlessSpeaking(p).armed = p.armed
         /\ p.raf => QuietUnlessSpeaking(p).raf
  BY FxKeeps DEF QuietUnlessSpeaking

\* The events that send the pet on its way.
LEMMA PointingKeeps ==
  ASSUME NEW p, PetInv(p)
  PROVE  PetInv(OnPoint(p)) /\ PetInv(OnDrag(p))
  <1>1. PetInv(OnPoint(p))
    <2> DEFINE sent  == [p EXCEPT !.drag = FALSE, !.mode = "pointing", !.armed = TRUE]
               quiet == QuietUnlessSpeaking(sent)
    <2>1. PetShape(sent) /\ sent.mode = "pointing" /\ ~sent.drag
      BY DEF PetInv, PetShape, PetStart, Modes
    <2>2. PetShape(quiet) /\ quiet.mode = "pointing" /\ ~quiet.drag
      BY <2>1, QuietKeeps
    <2> HIDE DEF quiet
    <2>3. PetInv(Wake(ApplyVisibility(quiet)))
      BY <2>2 DEF PetInv, PetShape, PetStart, Travels, Wake, ApplyVisibility
    <2> QED BY <2>3 DEF OnPoint, quiet
  <1>2. PetInv(OnDrag(p))
    <2> DEFINE quiet == QuietUnlessSpeaking([p EXCEPT !.armed = TRUE])
    <2>1. PetShape([p EXCEPT !.armed = TRUE])
      BY DEF PetInv, PetShape, PetStart
    <2>2. PetShape(quiet)
      BY <2>1, QuietKeeps
    <2> HIDE DEF quiet
    <2>3. PetInv([quiet EXCEPT !.mode = "pointing", !.drag = FALSE, !.stranded = ~quiet.raf])
      BY <2>2 DEF PetInv, PetShape, PetStart, Travels, Modes
    <2>4. PetInv(Wake([quiet EXCEPT !.mode = "drag", !.drag = TRUE]))
      BY <2>2 DEF PetInv, PetShape, PetStart, Travels, Modes, Wake
    <2> QED BY <2>3, <2>4 DEF OnDrag, quiet
  <1> QED BY <1>1, <1>2

\* The events that call it back, and those that leave it where it is.
LEMMA OtherEventsKeep ==
  ASSUME NEW p, PetInv(p), NEW b \in BOOLEAN, NEW beat \in Beats
  PROVE  /\ PetInv(OnRelease(p)) /\ PetInv(OnListening(p)) /\ PetInv(OnThinking(p))
         /\ PetInv(OnSpeaking(p)) /\ PetInv(OnIdle(p))
         /\ PetInv(OnVisible(p, b)) /\ PetInv(OnActive(p, b)) /\ PetInv(OnSuppress(p))
         /\ PetInv(OnMouse(p, b)) /\ PetInv(RunBeat(p, beat))
  <1>1. ASSUME NEW r, PetShape(r), NEW f, Travels(r) \/ (~r.armed /\ ~r.drag /\ r.mode = "shadow")
        PROVE  PetInv(SetFx(r, f))
    BY <1>1, FxKeeps DEF PetInv, Travels
  <1>2. PetInv(OnRelease(p)) /\ PetInv(OnListening(p))
    <2>1. /\ PetShape([p EXCEPT !.armed = FALSE, !.drag = FALSE, !.mode = "shadow", !.idle = FALSE])
          /\ PetShape([p EXCEPT !.armed = FALSE, !.drag = FALSE, !.mode = "shadow"])
      BY DEF PetInv, PetShape, PetStart, Modes
    <2> QED BY <1>1, <2>1 DEF OnRelease, OnListening, PetInv, PetShape, PetStart
  <1>3. PetInv(OnThinking(p)) /\ PetInv(OnSpeaking(p)) /\ PetInv(OnIdle(p))
    BY <1>1 DEF OnThinking, OnSpeaking, OnIdle, PetInv
  <1>4. PetInv(OnVisible(p, b)) /\ PetInv(OnActive(p, b)) /\ PetInv(OnSuppress(p))
    BY DEF OnVisible, OnActive, OnSuppress, ApplyVisibility, PetInv, PetShape, PetStart, Travels
  <1>5. PetInv(OnMouse(p, b))
    BY DEF OnMouse, ApplyVisibility, Wake, PetInv, PetShape, PetStart, Travels
  <1>6. PetInv(RunBeat(p, beat))
    BY DEF RunBeat, Wake, PetInv, PetShape, PetStart, Travels
  <1> QED BY <1>2, <1>3, <1>4, <1>5, <1>6

\* Frames, timers and polls: a frame that comes to rest has told the arrival, unless
\* the pet follows a drag, and then it has not come to rest.
LEMMA OwnStepsKeep ==
  ASSUME PetInv(pet), FrameSettles \/ FrameLands \/ BeatFrame \/ BeatTimer \/ IdlePoll
                      \/ IdleElapses \/ ReduceMotion
  PROVE  PetInv(pet')
  <1>1. CASE FrameSettles
    BY <1>1 DEF FrameSettles, FollowsDrag, Settled, PetInv, PetShape, PetStart, Travels, Modes
  <1>2. CASE FrameLands
    BY <1>2 DEF FrameLands, Landed, PetInv, PetShape, PetStart, Travels, Modes
  <1>3. CASE BeatFrame
    BY <1>3 DEF BeatFrame, PetInv, PetShape, PetStart, Travels
  <1>4. CASE BeatTimer
    BY <1>4 DEF BeatTimer, PetInv, PetShape, PetStart, Travels
  <1>5. CASE IdlePoll
    BY <1>5, VisibilityKeeps DEF IdlePoll
  <1>6. CASE IdleElapses \/ ReduceMotion
    BY <1>6 DEF IdleElapses, ReduceMotion, PetInv, PetShape, PetStart, Travels
  <1> QED BY <1>1, <1>2, <1>3, <1>4, <1>5, <1>6


(* The pet alone, whatever events reach it and in whatever order: its armed *)
(* arrivals have their targets, and it is in drag mode exactly while a loop *)
(* draws a drag.  Surfaces sends only some of these orders.                 *)
THEOREM PetAlone == PetSpec => [](ArmedArrivalHasTarget /\ DragHasItsPath)
  <1>1. PetInit => PetInv(pet)
    BY DEF PetInit, PetStart, PetInv, PetShape, Travels, Modes
  <1>2. PetInv(pet) /\ [PetEvents \/ PetOwn]_pet => PetInv(pet)'
    <2> SUFFICES ASSUME PetInv(pet), PetEvents \/ PetOwn
                 PROVE  PetInv(pet')
      OBVIOUS
    <2>1. \E beat : beat \in Beats
      BY DEF Beats
    <2>2. CASE PetEvents
      BY <2>1, <2>2, PointingKeeps, OtherEventsKeep DEF PetEvents
    <2>3. CASE PetOwn
      BY <2>3, OwnStepsKeep DEF PetOwn
    <2> QED BY <2>2, <2>3
  <1>3. PetInv(pet) => ArmedArrivalHasTarget /\ DragHasItsPath
    <2> SUFFICES ASSUME PetInv(pet) PROVE ArmedArrivalHasTarget /\ DragHasItsPath
      OBVIOUS
    <2>1. pet.drag \in BOOLEAN
      BY DEF PetInv, PetShape
    <2> QED BY <2>1 DEF PetInv, Travels, ArmedArrivalHasTarget, DragHasItsPath
  <1> QED BY <1>1, <1>2, <1>3, PTL DEF PetSpec

-----------------------------------------------------------------------------
(* The overlay.                                                             *)

OverlayInv(o) ==
    /\ DOMAIN o = DOMAIN OverlayStart
    /\ o.onScreen \in BOOLEAN
    /\ o.stored # Nothing => o.onScreen

LEMMA CommandsKeep ==
  ASSUME NEW o, OverlayInv(o), NEW payload, NEW on
  PROVE  /\ OverlayInv(ShowOverlay(o, payload)) /\ OverlayInv(ShowGestureOverlay(o))
         /\ OverlayInv(HideOverlay(o)) /\ OverlayInv(EmitRecording(o, on))
         /\ OverlayInv(LayerMouse(o))
  BY DEF ShowOverlay, ShowGestureOverlay, HideOverlay, EmitRecording, LayerMouse, Emit,
         OverlayInv, OverlayStart

\* An order-out asks first whether something has been shown since.
LEMMA WebviewKeeps ==
  ASSUME OverlayInv(overlay), OverlayOwn
  PROVE  OverlayInv(overlay')
  <1>1. CASE OrderOut
    BY <1>1 DEF OrderOut, OverlayInv, OverlayStart
  <1>2. CASE Deliver
    BY <1>2 DEF Deliver, SetPayload, OverlayInv, OverlayStart
  <1>3. CASE ReadPayload \/ LayerListens \/ TrailFades
    BY <1>3 DEF ReadPayload, LayerListens, TrailFades, OverlayInv, OverlayStart
  <1>4. CASE Subscribe
    BY <1>4 DEF Subscribe, SetPayload, OverlayInv, OverlayStart
  <1> QED BY <1>1, <1>2, <1>3, <1>4 DEF OverlayOwn

-----------------------------------------------------------------------------
(* The composition.                                                         *)

SInv == /\ PetInv(pet) /\ OverlayInv(overlay) /\ submitting \in BOOLEAN

LEMMA SubmittingKeeps ==
  ASSUME NEW p, PetInv(p), NEW on \in BOOLEAN
  PROVE  PetInv(Submitting(p, on))
  <1>1. \E beat : beat \in Beats
    BY DEF Beats
  <1> QED BY <1>1, OtherEventsKeep DEF Submitting

(* The pet follows the pointer, and nothing is shown.                       *)
THEOREM SurfacesBegin == Init => SInv
  <1>1. PetInv(PetStart)
    BY DEF PetStart, PetInv, PetShape, Travels, Modes
  <1>2. OverlayInv(OverlayStart)
    <2>1. OverlayStart.stored = Nothing /\ OverlayStart.onScreen = FALSE
      BY DEF OverlayStart
    <2> QED BY <2>1 DEF OverlayInv
  <1> QED BY <1>1, <1>2 DEF Init, PetInit, SInv

\* A hold: its edges, its trail and the end of that.
LEMMA HoldKeeps ==
  ASSUME SInv, HoldBegins \/ BoundsArrive \/ HoldEnds \/ HideTimerFires
  PROVE  SInv'
  <1> USE DEF SInv
  <1>0. PetInv(OnListening(pet)) /\ PetInv(OnThinking(pet)) /\ PetInv(OnIdle(pet))
    BY OtherEventsKeep DEF Beats
  <1>1. CASE HoldBegins
    <2>1. PetInv(pet') /\ submitting' \in BOOLEAN
      BY <1>0, <1>1, SubmittingKeeps DEF HoldBegins
    <2>2. OverlayInv(overlay')
      <3> DEFINE told == EmitRecording(overlay, TRUE)
      <3>1. OverlayInv(told)
        BY CommandsKeep
      <3>2. OverlayInv(ShowGestureOverlay(told))
        BY <3>1, CommandsKeep
      <3> QED BY <1>1, <3>1, <3>2 DEF HoldBegins
    <2> QED BY <2>1, <2>2
  <1>2. CASE BoundsArrive
    BY <1>2, CommandsKeep DEF BoundsArrive, turnVars
  <1>3. CASE HoldEnds
    BY <1>0, <1>3, CommandsKeep DEF HoldEnds, turnVars
  <1>4. CASE HideTimerFires
    BY <1>4, CommandsKeep DEF HideTimerFires, turnVars
  <1> QED BY <1>1, <1>2, <1>3, <1>4

\* A turn, from its submission to its end.
LEMMA TurnKeeps ==
  ASSUME SInv, OpenTyping \/ TurnBegins \/ StepBegins \/ SubmitEnds \/ SpeechEnds \/ Release
  PROVE  SInv'
  <1> USE DEF SInv
  <1>0. PetInv(OnIdle(pet)) /\ PetInv(OnRelease(pet)) /\ PetInv(OnSpeaking(pet))
    BY OtherEventsKeep DEF Beats
  <1>1. OverlayInv(HideOverlay(overlay))
    BY CommandsKeep
  <1>2. CASE OpenTyping
    BY <1>0, <1>1, <1>2, SubmittingKeeps DEF OpenTyping, MarksOr
  <1>3. CASE TurnBegins
    BY <1>0, <1>1, <1>3, SubmittingKeeps DEF TurnBegins, MarksOr
  <1>4. CASE StepBegins
    BY <1>0, <1>4 DEF StepBegins
  <1>5. CASE SubmitEnds
    BY <1>5, SubmittingKeeps DEF SubmitEnds
  <1>6. CASE SpeechEnds
    BY <1>0, <1>6 DEF SpeechEnds, turnVars
  <1>7. CASE Release
    BY <1>0, <1>1, <1>7, SubmittingKeeps DEF Release
  <1> QED BY <1>2, <1>3, <1>4, <1>5, <1>6, <1>7

\* The reveal of a step, of the current turn or of one that is over.
LEMMA RevealKeeps ==
  ASSUME SInv, NEW i \in DOMAIN reveals, Reveal(i)
  PROVE  SInv'
  <1> USE DEF SInv
  <1>1. CASE RevealHides(i)
    BY <1>1, CommandsKeep DEF RevealHides, turnVars
  <1>2. CASE RevealDraws(i)
    BY <1>2, PointingKeeps DEF RevealDraws
  <1>3. CASE RevealShows(i)
    BY <1>3, CommandsKeep DEF RevealShows, turnVars
  <1>4. CASE RevealGlides(i)
    BY <1>4, CommandsKeep, PointingKeeps DEF RevealGlides, turnVars
  <1> QED BY <1>1, <1>2, <1>3, <1>4 DEF Reveal

\* What else stirs the pet, and the two windows' own steps.
LEMMA WindowsKeep ==
  ASSUME SInv, Stir \/ Onboard \/ PetSteps \/ OverlaySteps
  PROVE  SInv'
  <1> USE DEF SInv
  <1>0. ASSUME NEW b \in BOOLEAN, NEW beat \in Beats
        PROVE  /\ PetInv(OnMouse(pet, b)) /\ PetInv(OnVisible(pet, b)) /\ PetInv(OnSuppress(pet))
               /\ PetInv(RunBeat(pet, beat))
    BY OtherEventsKeep
  <1>1. CASE Stir
    <2>1. PetInv(pet')
      BY <1>0, <1>1, OwnStepsKeep DEF Stir, Beats
    <2>2. OverlayInv(overlay') /\ submitting' \in BOOLEAN
      BY <1>1, CommandsKeep DEF Stir, turnVars
    <2> QED BY <2>1, <2>2
  <1>2. CASE Onboard
    BY <1>0, <1>2 DEF Onboard, turnVars, Beats
  <1>3. CASE PetSteps
    BY <1>3, OwnStepsKeep DEF PetSteps, turnVars
  <1>4. CASE OverlaySteps
    BY <1>4, WebviewKeeps DEF OverlaySteps, turnVars
  <1> QED BY <1>1, <1>2, <1>3, <1>4

(* Every step of the notch, the pet and the overlay keeps the invariant.    *)
THEOREM SurfacesStep == SInv /\ [Next]_vars => SInv'
  <1> SUFFICES ASSUME SInv, [Next]_vars PROVE SInv'
    OBVIOUS
  <1>1. CASE UNCHANGED vars
    BY <1>1 DEF vars, turnVars, SInv
  <1> QED BY <1>1, HoldKeeps, TurnKeeps, RevealKeeps, WindowsKeep DEF Next, Notch

-----------------------------------------------------------------------------
(* Whatever is stored to be shown is on a panel that is ordered in, however *)
(* many order-outs of earlier hides are still asleep.                       *)
THEOREM PayloadStaysOnScreen == Spec => []PayloadIsOnScreen
  <1>1. SInv => PayloadIsOnScreen
    BY DEF SInv, OverlayInv, PayloadIsOnScreen
  <1> QED BY SurfacesBegin, SurfacesStep, <1>1, PTL DEF Spec

(* An armed arrival belongs to a target the pet is on its way to, and the   *)
(* frame that will tell it has been asked for.                              *)
THEOREM ArrivalsHaveTargets == Spec => []ArmedArrivalHasTarget
  <1>1. SInv => ArmedArrivalHasTarget
    BY DEF SInv, PetInv, Travels, ArmedArrivalHasTarget
  <1> QED BY SurfacesBegin, SurfacesStep, <1>1, PTL DEF Spec

-----------------------------------------------------------------------------
(***************************************************************************)
(* What the webview shows once it has taken every event.                   *)
(***************************************************************************)
Brings(e, p) == (e.name = "clear" /\ p = Nothing) \/ (e.name = "update" /\ e.payload = p)

Silent(s, i) == \A j \in i..Len(s) : s[j].name = "recording"

(* What the webview shows, or has read and is about to show.                *)
Holds(o) == IF o.view = "live" THEN o.shown ELSE o.read

(* The last event on its way that will change what is shown brings what is  *)
(* stored; if there is none, the webview has it, or has yet to read, or has *)
(* missed the last one between its read and its subscription.               *)
WillShow(o) ==
    \/ Silent(o.events, 1) /\ (o.view = "loading" \/ o.missed \/ Holds(o) = o.stored)
    \/ \E i \in 1..Len(o.events) : Brings(o.events[i], o.stored) /\ Silent(o.events, i + 1)

OverlayShape(o) ==
    /\ DOMAIN o = DOMAIN OverlayStart /\ \E S : o.events \in Seq(S)
    /\ o.view \in {"loading", "read", "live"} /\ o.missed \in BOOLEAN
    /\ o.view # "live" => o.shown = Nothing

ShowInv == OverlayShape(overlay) /\ WillShow(overlay)

\* An update or a clear brings what it stores, at the end of the queue.
LEMMA CommandShows ==
  ASSUME NEW o, OverlayShape(o), NEW p
  PROVE  /\ OverlayShape(ShowOverlay(o, p)) /\ WillShow(ShowOverlay(o, p))
         /\ ShowOverlay(o, p).view = o.view
         /\ OverlayShape(HideOverlay(o)) /\ WillShow(HideOverlay(o))
         /\ HideOverlay(o).view = o.view
  <1>1. PICK S : o.events \in Seq(S)
    BY DEF OverlayShape
  <1>2. ASSUME NEW e, NEW r, r.events = Append(o.events, e), Brings(e, r.stored)
        PROVE  WillShow(r) /\ \E T : r.events \in Seq(T)
    <2>1. o.events \in Seq(S \cup {e}) /\ e \in S \cup {e}
      BY <1>1, SeqMonotonic
    <2>2. /\ r.events \in Seq(S \cup {e}) /\ Len(r.events) = Len(o.events) + 1
          /\ Len(o.events) \in Nat /\ r.events[Len(o.events) + 1] = e
      BY <1>2, <2>1, AppendProperties
    <2>3. Silent(r.events, Len(r.events) + 1)
      BY <2>2 DEF Silent
    <2> QED BY <1>2, <2>2, <2>3 DEF WillShow
  <1>3. OverlayShape(ShowOverlay(o, p)) /\ WillShow(ShowOverlay(o, p))
    <2> DEFINE e == [name |-> "update", payload |-> p]
               r == ShowOverlay(o, p)
    <2>1. /\ DOMAIN r = DOMAIN OverlayStart /\ r.events = Append(o.events, e) /\ r.stored = p
          /\ r.view = o.view /\ r.missed = o.missed /\ r.shown = o.shown
      BY DEF ShowOverlay, Emit, OverlayShape, OverlayStart
    <2>2. Brings(e, r.stored)
      BY <2>1 DEF Brings
    <2> HIDE DEF e, r
    <2>3. WillShow(r) /\ \E T : r.events \in Seq(T)
      BY <1>2, <2>1, <2>2
    <2>4. OverlayShape(r)
      BY <2>1, <2>3 DEF OverlayShape
    <2> QED BY <2>3, <2>4 DEF r
  <1>4. OverlayShape(HideOverlay(o)) /\ WillShow(HideOverlay(o))
    <2> DEFINE e == [name |-> "clear"]
               r == HideOverlay(o)
    <2>1. /\ DOMAIN r = DOMAIN OverlayStart /\ r.events = Append(o.events, e) /\ r.stored = Nothing
          /\ r.view = o.view /\ r.missed = o.missed /\ r.shown = o.shown
      BY DEF HideOverlay, Emit, OverlayShape, OverlayStart
    <2>2. Brings(e, r.stored)
      BY <2>1 DEF Brings
    <2> HIDE DEF e, r
    <2>3. WillShow(r) /\ \E T : r.events \in Seq(T)
      BY <1>2, <2>1, <2>2
    <2>4. OverlayShape(r)
      BY <2>1, <2>3 DEF OverlayShape
    <2> QED BY <2>3, <2>4 DEF r
  <1>5. ShowOverlay(o, p).view = o.view /\ HideOverlay(o).view = o.view
    BY DEF ShowOverlay, HideOverlay, Emit, OverlayShape, OverlayStart
  <1> QED BY <1>3, <1>4, <1>5

\* A recording edge changes nothing that is shown.
LEMMA RecordingShows ==
  ASSUME NEW o, OverlayShape(o), NEW on
  PROVE  /\ OverlayShape(EmitRecording(o, on)) /\ EmitRecording(o, on).view = o.view
         /\ WillShow(o) => WillShow(EmitRecording(o, on))
  <1> DEFINE e == [name |-> "recording", active |-> on]
             r == EmitRecording(o, on)
  <1>1. /\ DOMAIN r = DOMAIN OverlayStart /\ r.events = Append(o.events, e)
        /\ r.stored = o.stored /\ r.shown = o.shown /\ r.view = o.view
        /\ r.read = o.read /\ r.missed = o.missed
    BY DEF EmitRecording, Emit, OverlayShape, OverlayStart
  <1>2. e.name = "recording"
    OBVIOUS
  <1> HIDE DEF e, r
  <1>3. PICK S : o.events \in Seq(S)
    BY DEF OverlayShape
  <1>4. o.events \in Seq(S \cup {e}) /\ e \in S \cup {e}
    BY <1>3, SeqMonotonic
  <1>5. /\ r.events \in Seq(S \cup {e}) /\ Len(r.events) = Len(o.events) + 1
        /\ Len(o.events) \in Nat /\ r.events[Len(o.events) + 1] = e
        /\ \A i \in 1..Len(o.events) : r.events[i] = o.events[i]
    BY <1>1, <1>4, AppendProperties
  <1>6. ASSUME NEW i \in Nat, i > 0, Silent(o.events, i)
        PROVE  Silent(r.events, i)
    BY <1>2, <1>5, <1>6 DEF Silent
  <1>7. ASSUME WillShow(o) PROVE WillShow(r)
    <2>1. CASE Silent(o.events, 1) /\ (o.view = "loading" \/ o.missed \/ Holds(o) = o.stored)
      BY <1>1, <1>6, <2>1 DEF WillShow, Holds
    <2>2. ASSUME NEW i \in 1..Len(o.events), Brings(o.events[i], o.stored), Silent(o.events, i + 1)
          PROVE  WillShow(r)
      BY <1>1, <1>5, <1>6, <2>2 DEF WillShow
    <2> QED BY <1>7, <2>1, <2>2 DEF WillShow
  <1>8. OverlayShape(r)
    BY <1>1, <1>5 DEF OverlayShape
  <1> QED BY <1>1, <1>7, <1>8 DEF r

\* A delivered event leaves those that follow it.
LEMMA DeliveryShows ==
  ASSUME ShowInv, Deliver
  PROVE  ShowInv'
  <1> DEFINE e == Head(overlay.events)
             s == overlay.events
             t == Tail(overlay.events)
  <1>1. PICK S : s \in Seq(S)
    BY DEF ShowInv, OverlayShape
  <1>2. s # <<>>
    BY DEF Deliver
  <1>3. /\ Len(s) \in Nat /\ Len(s) > 0 /\ e = s[1]
        /\ t \in Seq(S) /\ Len(t) = Len(s) - 1 /\ \A i \in 1..Len(t) : t[i] = s[i + 1]
    BY <1>1, <1>2, HeadTailProperties, EmptySeq
  <1>4. /\ DOMAIN overlay' = DOMAIN OverlayStart /\ overlay'.events = t
        /\ overlay'.view = overlay.view /\ overlay'.stored = overlay.stored
        /\ overlay'.read = overlay.read
        /\ overlay'.missed = IF e.name = "recording" THEN overlay.missed ELSE overlay.view = "read"
        /\ overlay'.shown = CASE e.name = "clear" -> Nothing
                              [] e.name = "update" /\ overlay.view = "live" -> e.payload
                              [] OTHER -> overlay.shown
    BY DEF Deliver, SetPayload, ShowInv, OverlayShape, OverlayStart
  <1> HIDE DEF e, s, t
  <1>5. ASSUME NEW i \in Nat, i > 1, Silent(s, i)
        PROVE  Silent(t, i - 1)
    BY <1>3, <1>5 DEF Silent
  <1>6. ASSUME Silent(s, 1),
               overlay.view = "loading" \/ overlay.missed \/ Holds(overlay) = overlay.stored
        PROVE  WillShow(overlay')
    <2>1. e.name = "recording" /\ Silent(s, 2)
      BY <1>3, <1>6 DEF Silent
    <2>2. Silent(t, 1)
      BY <1>5, <2>1
    <2>3. overlay'.shown = overlay.shown /\ overlay'.missed = overlay.missed
      BY <1>4, <2>1
    <2>4. Holds(overlay') = Holds(overlay)
      BY <1>4, <2>3 DEF Holds
    <2>5. Silent(overlay'.events, 1)
      BY <1>4, <2>2
    <2> QED BY <1>4, <1>6, <2>3, <2>4, <2>5 DEF WillShow
  <1>7. ASSUME NEW i \in 1..Len(s), Brings(s[i], overlay.stored), Silent(s, i + 1)
        PROVE  WillShow(overlay')
    <2>1. CASE i = 1
      <3>1. /\ overlay'.view = "read" => overlay'.missed
            /\ overlay'.view = "live" => overlay'.shown = overlay'.stored
        BY <1>3, <1>4, <1>7, <2>1 DEF Brings
      <3>2. Silent(t, 1)
        BY <1>5, <1>7, <2>1
      <3>3. overlay'.view \in {"loading", "read", "live"}
        BY <1>4 DEF ShowInv, OverlayShape
      <3> QED BY <1>4, <3>1, <3>2, <3>3 DEF WillShow, Holds
    <2>2. CASE i > 1
      <3>1. i - 1 \in 1..Len(t) /\ t[i - 1] = s[i]
        BY <1>3, <2>2
      <3>2. Silent(t, (i - 1) + 1)
        BY <1>3, <1>5, <1>7, <2>2
      <3> QED BY <1>4, <1>7, <3>1, <3>2 DEF WillShow
    <2> QED BY <2>1, <2>2
  <1>8. OverlayShape(overlay')
    <2>1. overlay'.missed \in BOOLEAN
      BY <1>4 DEF ShowInv, OverlayShape
    <2> QED BY <1>3, <1>4, <2>1 DEF ShowInv, OverlayShape
  <1>9. WillShow(overlay')
    BY <1>6, <1>7 DEF ShowInv, WillShow, s
  <1> QED BY <1>8, <1>9 DEF ShowInv

\* The webview reads what is stored, and shows it when it subscribes.
LEMMA SubscriptionShows ==
  ASSUME ShowInv, ReadPayload \/ Subscribe
  PROVE  ShowInv'
  <1>1. OverlayShape(overlay) /\ WillShow(overlay)
    BY DEF ShowInv
  <1>2. /\ DOMAIN overlay' = DOMAIN OverlayStart /\ overlay'.events = overlay.events
        /\ overlay'.stored = overlay.stored /\ overlay'.missed = overlay.missed
    BY <1>1 DEF ReadPayload, Subscribe, SetPayload, OverlayShape, OverlayStart
  <1>3. \/ overlay'.view = "read" /\ overlay'.read = overlay.stored /\ overlay'.shown = Nothing
        \/ overlay.view = "read" /\ overlay'.view = "live" /\ overlay'.shown = overlay.read
    BY <1>1 DEF ReadPayload, Subscribe, SetPayload, OverlayShape, OverlayStart
  <1>4. OverlayShape(overlay')
    BY <1>1, <1>2, <1>3 DEF OverlayShape
  <1>5. WillShow(overlay')
    BY <1>1, <1>2, <1>3 DEF WillShow, Holds
  <1> QED BY <1>4, <1>5 DEF ShowInv

\* The other steps of the overlay leave what is stored, shown and on its way.
LEMMA QuietStepShows ==
  ASSUME ShowInv, OrderOut \/ LayerListens \/ TrailFades \/ overlay' = LayerMouse(overlay)
  PROVE  ShowInv'
  <1>1. /\ DOMAIN overlay' = DOMAIN OverlayStart
        /\ overlay'.stored = overlay.stored /\ overlay'.read = overlay.read
        /\ overlay'.shown = overlay.shown /\ overlay'.events = overlay.events
        /\ overlay'.view = overlay.view /\ overlay'.missed = overlay.missed
    BY DEF OrderOut, LayerListens, TrailFades, LayerMouse, ShowInv, OverlayShape, OverlayStart
  <1> QED BY <1>1 DEF ShowInv, OverlayShape, WillShow, Holds

\* The webview will show what is stored, whatever the notch calls for.
LEMMA NotchShows ==
  ASSUME ShowInv, Notch
  PROVE  ShowInv'
  <1> DEFINE Good(o) == OverlayShape(o) /\ WillShow(o)
  <1>1. Good(overlay)
    BY DEF ShowInv
  <1>2. \A o, p : Good(o) => Good(ShowOverlay(o, p)) /\ Good(HideOverlay(o))
    BY CommandShows
  <1>3. \A o : \A on : Good(o) => Good(EmitRecording(o, on))
    BY RecordingShows
  <1>4. Good(overlay) => Good(ShowGestureOverlay(overlay)) /\ \A o \in MarksOr(overlay) : Good(o)
    BY <1>2 DEF ShowGestureOverlay, MarksOr
  <1> SUFFICES Good(overlay')
    BY DEF ShowInv
  <1> HIDE DEF Good
  <1>5. CASE HoldBegins
    <2>1. ShowGestureOverlay(EmitRecording(overlay, TRUE)) = ShowOverlay(EmitRecording(overlay, TRUE), Gesture)
      BY DEF ShowGestureOverlay
    <2> QED BY <1>1, <1>2, <1>3, <1>5, <2>1 DEF HoldBegins
  <1>6. CASE BoundsArrive \/ HoldEnds \/ HideTimerFires
    BY <1>1, <1>2, <1>3, <1>4, <1>6 DEF BoundsArrive, HoldEnds, HideTimerFires
  <1>7. CASE OpenTyping \/ TurnBegins \/ Release
    BY <1>1, <1>2, <1>4, <1>7 DEF OpenTyping, TurnBegins, Release
  <1>8. CASE StepBegins \/ SubmitEnds \/ SpeechEnds
    BY <1>1, <1>8 DEF StepBegins, SubmitEnds, SpeechEnds
  <1>9. CASE \E i \in DOMAIN reveals : Reveal(i)
    <2>1. PICK i \in DOMAIN reveals : Reveal(i)
      BY <1>9
    <2> QED BY <1>1, <1>2, <2>1 DEF Reveal, RevealHides, RevealDraws, RevealShows, RevealGlides
  <1> QED BY <1>5, <1>6, <1>7, <1>8, <1>9 DEF Notch

(* However many events are queued, the subscribed webview shows what the    *)
(* panel stores as soon as it has taken them all, unless the last one came  *)
(* between its read and its subscription.                                   *)
THEOREM WebviewCatchesUp == Spec => []OverlayCatchesUp
  <1>1. Init => ShowInv
    <2> SUFFICES ASSUME Init PROVE ShowInv
      OBVIOUS
    <2>1. /\ DOMAIN overlay = DOMAIN OverlayStart /\ overlay.events = <<>>
          /\ overlay.view = "loading" /\ overlay.missed = FALSE /\ overlay.shown = Nothing
      BY DEF Init, OverlayStart
    <2>2. OverlayShape(overlay)
      BY <2>1, EmptySeq DEF OverlayShape
    <2>3. WillShow(overlay)
      BY <2>1 DEF WillShow, Silent
    <2> QED BY <2>2, <2>3 DEF ShowInv
  <1>2. ShowInv /\ [Next]_vars => ShowInv'
    <2> SUFFICES ASSUME ShowInv, [Next]_vars PROVE ShowInv'
      OBVIOUS
    <2>1. ASSUME overlay' = overlay PROVE ShowInv'
      BY <2>1 DEF ShowInv
    <2>2. CASE Stir \/ Onboard \/ PetSteps
      <3>1. overlay' = overlay \/ overlay' = LayerMouse(overlay)
        BY <2>2 DEF Stir, Onboard, PetSteps
      <3> QED BY <2>1, <3>1, QuietStepShows
    <2>3. CASE OverlaySteps
      BY <2>3, QuietStepShows, DeliveryShows, SubscriptionShows DEF OverlaySteps, OverlayOwn
    <2>4. CASE UNCHANGED vars
      BY <2>1, <2>4 DEF vars
    <2> QED BY <2>2, <2>3, <2>4, NotchShows DEF Next
  <1>3. ShowInv => OverlayCatchesUp
    <2> SUFFICES ASSUME ShowInv, overlay.view = "live", overlay.events = <<>>, ~overlay.missed
                 PROVE  overlay.shown = overlay.stored
      BY DEF OverlayCatchesUp
    <2> QED BY DEF ShowInv, WillShow, Holds
  <1> QED BY <1>1, <1>2, <1>3, PTL DEF Spec
-----------------------------------------------------------------------------
(***************************************************************************)
(* The boxes of a turn that keeps them.                                    *)
(***************************************************************************)
Visuals == [mode : {"visual"}, turn : Turns, boxes : SUBSET Nat]
Rows    == [turn : Turns, step : Nat, stage : {"asking", "approach"}, payload : {Nothing} \cup Visuals]

BoxTypes ==
    /\ turn \in 0..MaxTurns /\ step \in Nat /\ keep \subseteq 1..turn
    /\ boxes \in [Turns -> SUBSET Nat]
    /\ reveals \in Seq(Rows)
    /\ DOMAIN overlay = DOMAIN OverlayStart
    /\ overlay.stored \in {Nothing, Gesture} \cup Visuals
    /\ overlay.stored \in Visuals => overlay.stored.turn <= turn

Awaits(i) == i \in 1..Len(reveals) /\ reveals[i].stage = "approach"

(* A payload that waits for its approach is of its turn, and holds boxes    *)
(* that its turn has drawn; the stored ones are among them, and those of    *)
(* approaches that end sooner.                                              *)
PayloadsGrow ==
    /\ \A i \in 1..Len(reveals) : reveals[i].turn <= turn
    /\ \A i \in 1..Len(reveals) : Awaits(i) => reveals[i].payload \in Visuals
                                              /\ reveals[i].payload.turn = reveals[i].turn
    /\ \A t \in keep :
         /\ \A i \in 1..Len(reveals) : Awaits(i) /\ reveals[i].turn = t =>
              /\ reveals[i].payload.boxes \subseteq boxes[t]
              /\ \A j \in 1..Len(reveals) : i <= j /\ Awaits(j) /\ reveals[j].turn = t =>
                   reveals[i].payload.boxes \subseteq reveals[j].payload.boxes
         /\ overlay.stored \in Visuals /\ overlay.stored.turn = t =>
              /\ overlay.stored.boxes \subseteq boxes[t]
              /\ \A i \in 1..Len(reveals) : Awaits(i) /\ reveals[i].turn = t =>
                   overlay.stored.boxes \subseteq reveals[i].payload.boxes

BoxInv == BoxTypes /\ PayloadsGrow

(***************************************************************************)
(* Removing an element of a sequence moves those that follow it.           *)
(***************************************************************************)
LEMMA RemoveAtProperties ==
  ASSUME NEW S, NEW s \in Seq(S), NEW i \in 1..Len(s)
  PROVE  /\ RemoveAt(s, i) \in Seq(S)
         /\ Len(RemoveAt(s, i)) = Len(s) - 1
         /\ \A j \in 1..(Len(s) - 1) : RemoveAt(s, i)[j] = IF j < i THEN s[j] ELSE s[j + 1]
  <1> DEFINE a == SubSeq(s, 1, i - 1)
             b == SubSeq(s, i + 1, Len(s))
  <1>1. Len(s) \in Nat /\ \A j \in 1..Len(s) : s[j] \in S
    BY LenProperties, ElementOfSeq
  <1>2. a \in Seq(S) /\ Len(a) = i - 1 /\ \A j \in 1..(i - 1) : a[j] = s[j]
    <2>1. \A j \in 1..(i - 1) : s[j] \in S
      BY <1>1
    <2>2. /\ a \in Seq(S) /\ Len(a) = IF 1 <= i - 1 THEN (i - 1) - 1 + 1 ELSE 0
          /\ \A j \in 1..((i - 1) - 1 + 1) : a[j] = s[1 + j - 1]
      BY <2>1, SubSeqProperties, 1 \in Int, i - 1 \in Int
    <2> QED BY <2>2
  <1>3. b \in Seq(S) /\ Len(b) = Len(s) - i /\ \A j \in 1..(Len(s) - i) : b[j] = s[i + j]
    <2>1. \A j \in (i + 1)..Len(s) : s[j] \in S
      BY <1>1
    <2>2. /\ b \in Seq(S) /\ Len(b) = IF i + 1 <= Len(s) THEN Len(s) - (i + 1) + 1 ELSE 0
          /\ \A j \in 1..(Len(s) - (i + 1) + 1) : b[j] = s[(i + 1) + j - 1]
      BY <1>1, <2>1, SubSeqProperties, i + 1 \in Int
    <2> QED BY <1>1, <2>2
  <1>4. RemoveAt(s, i) = a \o b
    BY DEF RemoveAt
  <1> HIDE DEF a, b
  <1>5. /\ a \o b \in Seq(S) /\ Len(a \o b) = Len(a) + Len(b)
        /\ \A j \in 1..(Len(a) + Len(b)) : (a \o b)[j] = IF j <= Len(a) THEN a[j] ELSE b[j - Len(a)]
    BY <1>2, <1>3, ConcatProperties
  <1>6. i \in Nat /\ i >= 1 /\ i <= Len(s) /\ Len(a) + Len(b) = Len(s) - 1
    BY <1>1, <1>2, <1>3
  <1>7. ASSUME NEW j \in 1..(Len(s) - 1)
        PROVE  (a \o b)[j] = IF j < i THEN s[j] ELSE s[j + 1]
    <2>1. CASE j < i
      BY <1>2, <1>5, <1>6, <2>1
    <2>2. CASE ~(j < i)
      <3>1. j - (i - 1) \in 1..(Len(s) - i) /\ i + (j - (i - 1)) = j + 1
        BY <1>1, <1>6, <2>2
      <3>2. (a \o b)[j] = b[j - (i - 1)]
        BY <1>2, <1>5, <1>6, <2>2
      <3> QED BY <1>3, <2>2, <3>1, <3>2
    <2> QED BY <2>1, <2>2
  <1> QED BY <1>4, <1>5, <1>6, <1>7

\* What a command stores.
LEMMA CommandStores ==
  ASSUME NEW o, DOMAIN o = DOMAIN OverlayStart, NEW p, NEW on
  PROVE  /\ DOMAIN ShowOverlay(o, p) = DOMAIN OverlayStart /\ ShowOverlay(o, p).stored = p
         /\ DOMAIN HideOverlay(o) = DOMAIN OverlayStart /\ HideOverlay(o).stored = Nothing
         /\ DOMAIN EmitRecording(o, on) = DOMAIN OverlayStart
         /\ EmitRecording(o, on).stored = o.stored
         /\ DOMAIN LayerMouse(o) = DOMAIN OverlayStart /\ LayerMouse(o).stored = o.stored
  BY DEF ShowOverlay, HideOverlay, EmitRecording, LayerMouse, Emit, OverlayStart

LEMMA WebviewStores ==
  ASSUME DOMAIN overlay = DOMAIN OverlayStart, OverlayOwn
  PROVE  DOMAIN overlay' = DOMAIN OverlayStart /\ overlay'.stored = overlay.stored
  BY DEF OverlayOwn, OrderOut, Deliver, ReadPayload, Subscribe, LayerListens, TrailFades,
         SetPayload, OverlayStart

(* A payload fits its turn when it holds only boxes the turn has drawn, and *)
(* no approach that is still to end would take one of them away.            *)
Fits(p, from) ==
    /\ p \in {Nothing, Gesture} \cup Visuals
    /\ p \in Visuals => p.turn <= turn
    /\ p \in Visuals /\ p.turn \in keep =>
         /\ p.boxes \subseteq boxes[p.turn]
         /\ \A j \in from : Awaits(j) /\ reveals[j].turn = p.turn =>
              p.boxes \subseteq reveals[j].payload.boxes

LEMMA StoredFits ==
  ASSUME BoxInv, NEW p \in {overlay.stored, Nothing, Gesture}
  PROVE  Fits(p, DOMAIN reveals)
  <1>1. DOMAIN reveals = 1..Len(reveals)
    BY DEF BoxInv, BoxTypes
  <1>2. Nothing \notin Visuals /\ Gesture \notin Visuals
    BY DEF Nothing, Gesture, Visuals
  <1>3. CASE p = overlay.stored
    <2>1. /\ p \in {Nothing, Gesture} \cup Visuals
          /\ p \in Visuals => p.turn <= turn
      BY <1>3 DEF BoxInv, BoxTypes
    <2>2. ASSUME p \in Visuals, p.turn \in keep
          PROVE  /\ p.boxes \subseteq boxes[p.turn]
                 /\ \A j \in 1..Len(reveals) : Awaits(j) /\ reveals[j].turn = p.turn =>
                      p.boxes \subseteq reveals[j].payload.boxes
      BY <1>3, <2>2 DEF BoxInv, PayloadsGrow
    <2> QED BY <1>1, <2>1, <2>2 DEF Fits
  <1>4. CASE p \in {Nothing, Gesture}
    BY <1>2, <1>4 DEF Fits
  <1> QED BY <1>3, <1>4

\* The reveals stay, and what is stored afterwards fits.
LEMMA BoxesRest ==
  ASSUME BoxInv, UNCHANGED <<reveals, boxes, turn, keep>>, step' \in Nat,
         DOMAIN overlay' = DOMAIN OverlayStart, overlay'.stored \in {overlay.stored, Nothing, Gesture}
  PROVE  BoxInv'
  <1>1. Fits(overlay'.stored, DOMAIN reveals)
    BY StoredFits
  <1>2. DOMAIN reveals = 1..Len(reveals)
    BY DEF BoxInv, BoxTypes
  <1>3. BoxTypes'
    BY <1>1 DEF BoxInv, BoxTypes, Fits
  <1>4. PayloadsGrow'
    BY <1>1, <1>2 DEF BoxInv, PayloadsGrow, Awaits, Fits
  <1> QED BY <1>3, <1>4 DEF BoxInv

\* A reveal is done, and what is stored afterwards fits those that remain.
LEMMA BoxesLeave ==
  ASSUME BoxInv, NEW i \in DOMAIN reveals, reveals' = RemoveAt(reveals, i),
         UNCHANGED <<boxes, turn, keep, step>>,
         DOMAIN overlay' = DOMAIN OverlayStart, Fits(overlay'.stored, (DOMAIN reveals) \ {i})
  PROVE  BoxInv'
  <1> DEFINE k(j) == IF j < i THEN j ELSE j + 1
  <1>1. DOMAIN reveals = 1..Len(reveals) /\ Len(reveals) \in Nat
    BY DEF BoxInv, BoxTypes
  <1>2. reveals' \in Seq(Rows) /\ Len(reveals') = Len(reveals) - 1
    BY <1>1, RemoveAtProperties DEF BoxInv, BoxTypes
  <1>3. \A j \in 1..Len(reveals') : reveals'[j] = reveals[k(j)] /\ k(j) \in (1..Len(reveals)) \ {i}
    <2>1. \A j \in 1..(Len(reveals) - 1) : RemoveAt(reveals, i)[j] = IF j < i THEN reveals[j] ELSE reveals[j + 1]
      BY <1>1, RemoveAtProperties DEF BoxInv, BoxTypes
    <2>2. \A j \in 1..Len(reveals') : k(j) \in (1..Len(reveals)) \ {i}
      BY <1>1, <1>2
    <2> QED BY <1>2, <2>1, <2>2
  <1>4. \A j, l \in 1..Len(reveals') : j <= l => k(j) <= k(l)
    BY <1>1, <1>2
  <1>5. \A j : Awaits(j)' => j \in 1..Len(reveals') /\ Awaits(k(j))
    BY <1>3 DEF Awaits
  <1>6. BoxTypes'
    BY <1>2 DEF BoxInv, BoxTypes, Fits
  <1>7. PayloadsGrow'
    <2> HIDE DEF k
    <2>1. PayloadsGrow
      BY DEF BoxInv
    <2>2. \A j \in 1..Len(reveals') :
            /\ reveals'[j].turn <= turn
            /\ Awaits(j)' => reveals'[j].payload \in Visuals /\ reveals'[j].payload.turn = reveals'[j].turn
      BY <1>3, <1>5, <2>1 DEF PayloadsGrow
    <2>3. \A t \in keep : \A j \in 1..Len(reveals') : Awaits(j)' /\ reveals'[j].turn = t =>
             /\ reveals'[j].payload.boxes \subseteq boxes[t]
             /\ \A l \in 1..Len(reveals') : j <= l /\ Awaits(l)' /\ reveals'[l].turn = t =>
                  reveals'[j].payload.boxes \subseteq reveals'[l].payload.boxes
      <3> SUFFICES ASSUME NEW t \in keep, NEW j \in 1..Len(reveals'), Awaits(j)', reveals'[j].turn = t
                   PROVE  /\ reveals'[j].payload.boxes \subseteq boxes[t]
                          /\ \A l \in 1..Len(reveals') : j <= l /\ Awaits(l)' /\ reveals'[l].turn = t =>
                               reveals'[j].payload.boxes \subseteq reveals'[l].payload.boxes
        OBVIOUS
      <3>1. Awaits(k(j)) /\ k(j) \in 1..Len(reveals) /\ reveals[k(j)].turn = t
        BY <1>3, <1>5
      <3>2. /\ reveals[k(j)].payload.boxes \subseteq boxes[t]
            /\ \A m \in 1..Len(reveals) : k(j) <= m /\ Awaits(m) /\ reveals[m].turn = t =>
                 reveals[k(j)].payload.boxes \subseteq reveals[m].payload.boxes
        BY <2>1, <3>1 DEF PayloadsGrow
      <3>3. ASSUME NEW l \in 1..Len(reveals'), j <= l, Awaits(l)', reveals'[l].turn = t
            PROVE  reveals'[j].payload.boxes \subseteq reveals'[l].payload.boxes
        <4>1. Awaits(k(l)) /\ k(l) \in 1..Len(reveals) /\ reveals[k(l)].turn = t /\ k(j) <= k(l)
          BY <1>3, <1>4, <1>5, <3>3
        <4> QED BY <1>3, <3>2, <4>1
      <3> QED BY <1>3, <3>2, <3>3
    <2>4. \A t \in keep : overlay'.stored \in Visuals /\ overlay'.stored.turn = t =>
             /\ overlay'.stored.boxes \subseteq boxes[t]
             /\ \A j \in 1..Len(reveals') : Awaits(j)' /\ reveals'[j].turn = t =>
                  overlay'.stored.boxes \subseteq reveals'[j].payload.boxes
      BY <1>1, <1>3, <1>5 DEF Fits
    <2> QED BY <2>2, <2>3, <2>4 DEF PayloadsGrow
  <1> QED BY <1>6, <1>7 DEF BoxInv
\* A step draws its box beside those the turn keeps, behind every approach under way.
LEMMA BoxesDrawn ==
  ASSUME BoxInv, NEW i \in DOMAIN reveals, RevealDraws(i)
  PROVE  BoxInv'
  <1> DEFINE k(j) == IF j < i THEN j ELSE j + 1
             r == reveals[i]
             n == Len(reveals)
             t == r.turn
  <1>1. DOMAIN reveals = 1..n /\ n \in Nat /\ n > 0 /\ r \in Rows
    BY ElementOfSeq DEF BoxInv, BoxTypes
  <1>2. PICK own \in {{}, {r.step}} :
           /\ boxes' = [boxes EXCEPT ![t] = @ \cup own]
           /\ reveals' = Append(RemoveAt(reveals, i),
                  [r EXCEPT !.stage = "approach", !.payload = Visual(t, BoxesWith(r, own))])
    BY DEF RevealDraws
  <1> DEFINE row == [r EXCEPT !.stage = "approach", !.payload = Visual(t, BoxesWith(r, own))]
  <1>3. UNCHANGED <<overlay, turn, step, keep>> /\ r.stage = "asking"
    BY DEF RevealDraws
  <1>4. /\ own \subseteq Nat /\ t \in Turns /\ t <= turn
        /\ boxes' \in [Turns -> SUBSET Nat] /\ boxes'[t] = boxes[t] \cup own
        /\ \A u \in Turns : boxes[u] \subseteq boxes'[u]
    BY <1>1, <1>2 DEF Rows, BoxInv, BoxTypes, PayloadsGrow
  <1>5. /\ BoxesWith(r, own) \subseteq Nat
        /\ t \in keep => BoxesWith(r, own) = boxes'[t]
    BY <1>4 DEF BoxesWith, BoxInv, BoxTypes
  <1>6. /\ row \in Rows /\ row.turn = t /\ row.stage = "approach"
        /\ row.payload \in Visuals /\ row.payload.turn = t
        /\ row.payload.boxes = BoxesWith(r, own)
    <2>1. Visual(t, BoxesWith(r, own)) \in Visuals
      BY <1>4, <1>5 DEF Visual, Visuals
    <2>2. Visual(t, BoxesWith(r, own)).turn = t /\ Visual(t, BoxesWith(r, own)).boxes = BoxesWith(r, own)
      BY DEF Visual
    <2> QED BY <1>1, <2>1, <2>2 DEF Rows
  <1> HIDE DEF row
  <1>7. /\ RemoveAt(reveals, i) \in Seq(Rows) /\ Len(RemoveAt(reveals, i)) = n - 1
        /\ \A j \in 1..(n - 1) : RemoveAt(reveals, i)[j] = IF j < i THEN reveals[j] ELSE reveals[j + 1]
    <2>1. reveals \in Seq(Rows) /\ i \in 1..Len(reveals)
      BY <1>1 DEF BoxInv, BoxTypes
    <2> QED BY <2>1, RemoveAtProperties
  <1>8. /\ reveals' \in Seq(Rows) /\ Len(reveals') = n /\ reveals'[n] = row
        /\ \A j \in 1..(n - 1) : reveals'[j] = RemoveAt(reveals, i)[j]
    <2>1. reveals' = Append(RemoveAt(reveals, i), row)
      BY <1>2 DEF row
    <2>2. /\ Append(RemoveAt(reveals, i), row) \in Seq(Rows)
          /\ Len(Append(RemoveAt(reveals, i), row)) = (n - 1) + 1
          /\ Append(RemoveAt(reveals, i), row)[(n - 1) + 1] = row
          /\ \A j \in 1..(n - 1) : Append(RemoveAt(reveals, i), row)[j] = RemoveAt(reveals, i)[j]
      BY <1>6, <1>7, AppendProperties
    <2>3. (n - 1) + 1 = n
      BY <1>1
    <2> QED BY <2>1, <2>2, <2>3
  <1>9. /\ \A j \in 1..(n - 1) : k(j) \in 1..n
        /\ \A j \in 1..(n - 1) : reveals'[j] = reveals[k(j)]
        /\ \A j, l \in 1..(n - 1) : j <= l => k(j) <= k(l)
    <2>1. \A j \in 1..(n - 1) : k(j) \in 1..n
      BY <1>1
    <2>2. \A j, l \in 1..(n - 1) : j <= l => k(j) <= k(l)
      BY <1>1
    <2>3. \A j \in 1..(n - 1) : RemoveAt(reveals, i)[j] = reveals[k(j)]
      BY <1>7
    <2> QED BY <1>8, <2>1, <2>2, <2>3
  <1> HIDE DEF k, r, n, t
  <1>10. \A j \in 1..(n - 1) : Awaits(j)' => Awaits(k(j))
    BY <1>8, <1>9 DEF Awaits, n
  <1>11. PayloadsGrow /\ BoxTypes
    BY DEF BoxInv
  <1>12. BoxTypes'
    BY <1>3, <1>4, <1>8, <1>11 DEF BoxTypes
  <1>13. \A j \in 1..Len(reveals') :
           /\ reveals'[j].turn <= turn
           /\ Awaits(j)' => reveals'[j].payload \in Visuals /\ reveals'[j].payload.turn = reveals'[j].turn
    <2> SUFFICES ASSUME NEW j \in 1..n
                 PROVE  /\ reveals'[j].turn <= turn
                        /\ Awaits(j)' => /\ reveals'[j].payload \in Visuals
                                         /\ reveals'[j].payload.turn = reveals'[j].turn
      BY <1>8
    <2>1. CASE j = n
      BY <1>4, <1>6, <1>8, <2>1
    <2>2. CASE j \in 1..(n - 1)
      BY <1>9, <1>10, <1>11, <2>2 DEF PayloadsGrow, n
    <2> QED BY <1>1, <2>1, <2>2
  <1>14. ASSUME NEW u \in keep, NEW j \in 1..n, Awaits(j)', reveals'[j].turn = u
         PROVE  /\ reveals'[j].payload.boxes \subseteq boxes'[u]
                /\ \A l \in 1..n : j <= l /\ Awaits(l)' /\ reveals'[l].turn = u =>
                     reveals'[j].payload.boxes \subseteq reveals'[l].payload.boxes
    <2>1. CASE j = n
      <3>1. u = t /\ reveals'[j].payload.boxes = boxes'[u]
        BY <1>5, <1>6, <1>8, <1>14, <2>1
      <3>2. \A l \in 1..n : j <= l => l = j
        BY <1>1, <2>1
      <3> QED BY <3>1, <3>2
    <2>2. CASE j \in 1..(n - 1)
      <3>1. Awaits(k(j)) /\ k(j) \in 1..Len(reveals) /\ reveals[k(j)].turn = u /\ reveals'[j] = reveals[k(j)]
        BY <1>9, <1>10, <1>14, <2>2 DEF n
      <3>2. /\ reveals[k(j)].payload.boxes \subseteq boxes[u]
            /\ \A m \in 1..Len(reveals) : k(j) <= m /\ Awaits(m) /\ reveals[m].turn = u =>
                 reveals[k(j)].payload.boxes \subseteq reveals[m].payload.boxes
        BY <1>11, <3>1 DEF PayloadsGrow
      <3>3. u \in Turns
        <4>1. reveals'[j] \in Rows
          BY <1>8, <2>2, ElementOfSeq
        <4> QED BY <1>14, <4>1 DEF Rows
      <3>4. reveals'[j].payload.boxes \subseteq boxes'[u]
        BY <1>4, <3>1, <3>2, <3>3
      <3>5. ASSUME NEW l \in 1..n, j <= l, Awaits(l)', reveals'[l].turn = u
            PROVE  reveals'[j].payload.boxes \subseteq reveals'[l].payload.boxes
        <4>1. CASE l = n
          BY <1>5, <1>6, <1>8, <3>4, <3>5, <4>1
        <4>2. CASE l \in 1..(n - 1)
          <5>1. Awaits(k(l)) /\ k(l) \in 1..Len(reveals) /\ k(j) <= k(l) /\ reveals'[l] = reveals[k(l)]
            BY <1>9, <1>10, <2>2, <3>5, <4>2 DEF n
          <5> QED BY <3>1, <3>2, <3>5, <5>1
        <4> QED BY <1>1, <4>1, <4>2
      <3> QED BY <3>4, <3>5
    <2> QED BY <1>1, <2>1, <2>2
  <1>15. ASSUME NEW u \in keep, overlay'.stored \in Visuals, overlay'.stored.turn = u
         PROVE  /\ overlay'.stored.boxes \subseteq boxes'[u]
                /\ \A j \in 1..n : Awaits(j)' /\ reveals'[j].turn = u =>
                     overlay'.stored.boxes \subseteq reveals'[j].payload.boxes
    <2>1. /\ overlay'.stored = overlay.stored
          /\ overlay.stored.boxes \subseteq boxes[u]
          /\ \A j \in 1..Len(reveals) : Awaits(j) /\ reveals[j].turn = u =>
               overlay.stored.boxes \subseteq reveals[j].payload.boxes
      BY <1>3, <1>11, <1>15 DEF PayloadsGrow
    <2>2. u \in Turns
      BY <1>15 DEF Visuals
    <2>3. overlay'.stored.boxes \subseteq boxes'[u]
      BY <1>4, <2>1, <2>2
    <2>4. ASSUME NEW j \in 1..n, Awaits(j)', reveals'[j].turn = u
          PROVE  overlay'.stored.boxes \subseteq reveals'[j].payload.boxes
      <3>1. CASE j = n
        BY <1>5, <1>6, <1>8, <2>3, <2>4, <3>1
      <3>2. CASE j \in 1..(n - 1)
        <4>1. Awaits(k(j)) /\ k(j) \in 1..Len(reveals) /\ reveals'[j] = reveals[k(j)]
          BY <1>9, <1>10, <2>4, <3>2 DEF n
        <4> QED BY <2>1, <2>4, <4>1
      <3> QED BY <1>1, <3>1, <3>2
    <2> QED BY <2>3, <2>4
  <1>16. PayloadsGrow'
    BY <1>3, <1>8, <1>13, <1>14, <1>15 DEF PayloadsGrow
  <1> QED BY <1>12, <1>16 DEF BoxInv

\* A step begins: its row waits behind the others, with nothing to show yet.
LEMMA BoxesAsk ==
  ASSUME BoxInv, StepBegins
  PROVE  BoxInv'
  <1> DEFINE n == Len(reveals)
             row == [turn |-> turn, step |-> step + 1, stage |-> "asking", payload |-> Nothing]
  <1>1. /\ n \in Nat /\ UNCHANGED <<overlay, turn, keep, boxes>> /\ step' = step + 1
        /\ reveals' = Append(reveals, row)
    BY DEF BoxInv, BoxTypes, StepBegins
  <1>2. turn \in Turns /\ step + 1 \in Nat
    BY BoundsAssumption DEF BoxInv, BoxTypes, Turns, StepBegins
  <1>3. row \in Rows
    BY <1>2 DEF Rows
  <1>4. row.turn = turn /\ row.stage = "asking"
    OBVIOUS
  <1> HIDE DEF row
  <1>5. /\ reveals' \in Seq(Rows) /\ Len(reveals') = n + 1 /\ reveals'[n + 1] = row
        /\ \A j \in 1..n : reveals'[j] = reveals[j]
    BY <1>1, <1>3, AppendProperties DEF BoxInv, BoxTypes
  <1> HIDE DEF n
  <1>6. \A j : Awaits(j)' => Awaits(j) /\ j \in 1..n /\ j \in 1..Len(reveals)
    <2> SUFFICES ASSUME NEW j \in 1..(n + 1), Awaits(j)'
                 PROVE  Awaits(j) /\ j \in 1..n /\ j \in 1..Len(reveals)
      BY <1>5 DEF Awaits
    <2>1. j # n + 1
      BY <1>4, <1>5 DEF Awaits
    <2>2. j \in 1..n
      BY <1>1, <2>1
    <2> QED BY <1>5, <2>2 DEF Awaits, n
  <1>7. PayloadsGrow /\ BoxTypes
    BY DEF BoxInv
  <1>8. BoxTypes'
    BY <1>1, <1>2, <1>5, <1>7 DEF BoxTypes
  <1>9. \A j \in 1..Len(reveals') : reveals'[j].turn <= turn
    <2> SUFFICES ASSUME NEW j \in 1..(n + 1) PROVE reveals'[j].turn <= turn
      BY <1>5
    <2>0. j \in 1..n \/ j = n + 1
      <3>1. n \in Nat
        BY <1>1
      <3> QED BY <3>1
    <2>1. CASE j \in 1..n
      BY <1>5, <1>7, <2>1 DEF PayloadsGrow, n
    <2>2. CASE j = n + 1
      <3>1. reveals'[j].turn = turn
        BY <1>4, <1>5, <2>2
      <3>2. turn <= turn
        BY <1>2 DEF Turns
      <3> QED BY <3>1, <3>2
    <2> QED BY <2>0, <2>1, <2>2
  <1>10. \A j \in 1..Len(reveals') : Awaits(j)' => Awaits(j) /\ j \in 1..Len(reveals) /\ reveals'[j] = reveals[j]
    BY <1>5, <1>6
  <1>11. PayloadsGrow'
    BY <1>1, <1>7, <1>9, <1>10 DEF PayloadsGrow
  <1> QED BY <1>8, <1>11 DEF BoxInv
\* A reveal shows what its turn has drawn, or nothing.
LEMMA RevealFits ==
  ASSUME BoxInv, NEW i \in DOMAIN reveals, RevealHides(i) \/ RevealShows(i) \/ RevealGlides(i)
  PROVE  /\ reveals' = RemoveAt(reveals, i) /\ UNCHANGED <<boxes, turn, keep, step>>
         /\ DOMAIN overlay' = DOMAIN OverlayStart
         /\ Fits(overlay'.stored, (DOMAIN reveals) \ {i})
         /\ overlay'.stored \in Visuals /\ overlay'.stored.turn \in keep
            /\ overlay.stored \in Visuals /\ overlay.stored.turn = overlay'.stored.turn
              => overlay.stored.boxes \subseteq overlay'.stored.boxes
  <1>1. /\ DOMAIN reveals = 1..Len(reveals) /\ Len(reveals) \in Nat
        /\ reveals[i] \in Rows /\ reveals[i].turn <= turn
        /\ BoxTypes /\ PayloadsGrow
    BY ElementOfSeq DEF BoxInv, BoxTypes, PayloadsGrow
  <1>2. Nothing \notin Visuals /\ Gesture \notin Visuals
    BY DEF Nothing, Gesture, Visuals
  <1>3. DOMAIN overlay = DOMAIN OverlayStart
    BY <1>1 DEF BoxTypes
  <1>4. reveals' = RemoveAt(reveals, i) /\ UNCHANGED <<boxes, turn, keep, step>>
    BY DEF RevealHides, RevealShows, RevealGlides, turnVars
  <1>5. CASE RevealHides(i)
    <2>1. DOMAIN overlay' = DOMAIN OverlayStart /\ overlay'.stored = Nothing
      BY <1>3, <1>5, CommandStores DEF RevealHides
    <2> QED BY <1>2, <1>4, <2>1 DEF Fits
  <1>6. CASE RevealShows(i)
    <2> DEFINE p == reveals[i].payload
    <2>1. DOMAIN overlay' = DOMAIN OverlayStart /\ overlay'.stored = p
      BY <1>3, <1>6, CommandStores DEF RevealShows
    <2>2. Awaits(i) /\ \A j \in 1..Len(reveals) : Awaits(j) => i <= j
      BY <1>1, <1>6 DEF RevealShows, Awaits
    <2>3. p \in Visuals /\ p.turn = reveals[i].turn
      BY <1>1, <2>2 DEF PayloadsGrow
    <2> HIDE DEF p
    <2>4. ASSUME p.turn \in keep
          PROVE  /\ p.boxes \subseteq boxes[p.turn]
                 /\ \A j \in 1..Len(reveals) : Awaits(j) /\ reveals[j].turn = p.turn =>
                      p.boxes \subseteq reveals[j].payload.boxes
                 /\ overlay.stored \in Visuals /\ overlay.stored.turn = p.turn =>
                      overlay.stored.boxes \subseteq p.boxes
      BY <1>1, <2>2, <2>3, <2>4 DEF PayloadsGrow, p
    <2>5. Fits(p, (DOMAIN reveals) \ {i})
      BY <1>1, <2>3, <2>4 DEF Fits
    <2> QED BY <1>4, <2>1, <2>4, <2>5
  <1>7. CASE RevealGlides(i)
    <2> DEFINE t == reveals[i].turn
    <2>1. PICK own \in {{}, {reveals[i].step}} :
             /\ BoxesWith(reveals[i], {}) = {}
             /\ own # {} => t \notin keep
             /\ overlay' = ShowOverlay(overlay, Visual(t, own))
      BY <1>7 DEF RevealGlides
    <2> DEFINE p == Visual(t, own)
    <2>2. DOMAIN overlay' = DOMAIN OverlayStart /\ overlay'.stored = p
      BY <1>3, <2>1, CommandStores
    <2>3. p.turn = t /\ p.boxes = own /\ p \in Visuals
      BY <1>1 DEF Rows, Visual, Visuals
    <2> HIDE DEF p, t
    <2>4. ASSUME t \in keep
          PROVE  /\ own = {} /\ boxes[t] = {}
                 /\ overlay.stored \in Visuals /\ overlay.stored.turn = t =>
                      overlay.stored.boxes \subseteq {}
      <3>1. own = {} /\ boxes[t] = {}
        BY <2>1, <2>4 DEF BoxesWith, t
      <3> QED BY <1>1, <2>4, <3>1 DEF PayloadsGrow
    <2>5. Fits(p, (DOMAIN reveals) \ {i})
      BY <1>1, <2>3, <2>4 DEF Fits, t
    <2> QED BY <1>4, <2>2, <2>3, <2>4, <2>5
  <1> QED BY <1>5, <1>6, <1>7

\* What the other steps store is what was stored, a trail, or nothing.
LEMMA BoxesOtherwise ==
  ASSUME BoxInv, Next, ~StepBegins, \A i \in DOMAIN reveals : ~Reveal(i)
  PROVE  /\ BoxInv'
         /\ overlay'.stored \in {overlay.stored, Nothing, Gesture}
  <1> DEFINE Kept(o) == /\ DOMAIN o = DOMAIN OverlayStart
                        /\ o.stored \in {overlay.stored, Nothing, Gesture}
  <1>1. BoxTypes /\ PayloadsGrow /\ Kept(overlay)
    BY DEF BoxInv, BoxTypes
  <1>2. \A o : Kept(o) => Kept(HideOverlay(o)) /\ Kept(ShowGestureOverlay(o))
    BY CommandStores DEF ShowGestureOverlay
  <1>3. \A o : \A on : Kept(o) => Kept(EmitRecording(o, on))
    BY CommandStores
  <1>4. \A o \in MarksOr(overlay) : Kept(o)
    BY <1>1, <1>2 DEF MarksOr
  <1>5. Kept(LayerMouse(overlay))
    BY <1>1, CommandStores
  <1>6. ASSUME OverlayOwn PROVE Kept(overlay')
    BY <1>1, <1>6, WebviewStores
  <1> HIDE DEF Kept
  <1>7. Kept(overlay')
    <2>1. CASE HoldBegins
      BY <1>1, <1>2, <1>3, <2>1 DEF HoldBegins
    <2>2. CASE BoundsArrive \/ HoldEnds \/ HideTimerFires
      BY <1>1, <1>2, <1>3, <2>2 DEF BoundsArrive, HoldEnds, HideTimerFires
    <2>3. CASE OpenTyping \/ TurnBegins \/ Release
      BY <1>1, <1>2, <1>4, <2>3 DEF OpenTyping, TurnBegins, Release
    <2>4. CASE SubmitEnds \/ SpeechEnds
      BY <1>1, <2>4 DEF SubmitEnds, SpeechEnds
    <2>5. CASE Stir \/ Onboard \/ PetSteps
      BY <1>1, <1>5, <2>5 DEF Stir, Onboard, PetSteps
    <2>6. CASE OverlaySteps
      BY <1>6, <2>6 DEF OverlaySteps
    <2> QED BY <2>1, <2>2, <2>3, <2>4, <2>5, <2>6 DEF Next, Notch
  <1>8. CASE TurnBegins
    <2>1. /\ turn' = turn + 1 /\ turn < MaxTurns /\ keep' \in {keep, keep \cup {turn + 1}}
          /\ step' = 0 /\ UNCHANGED <<boxes, reveals>>
      BY <1>8 DEF TurnBegins
    <2>2. turn \in 0..MaxTurns /\ MaxTurns \in Nat
      BY <1>1, BoundsAssumption DEF BoxTypes
    <2>3. turn' \in 0..MaxTurns /\ keep' \subseteq 1..turn'
      BY <1>1, <2>1, <2>2 DEF BoxTypes
    <2>4. BoxTypes'
      <3>1. overlay'.stored \in {Nothing, Gesture} \cup Visuals
        BY <1>1, <1>7 DEF Kept, BoxTypes
      <3>2. overlay'.stored \in Visuals => overlay'.stored.turn <= turn'
        <4>1. Nothing \notin Visuals /\ Gesture \notin Visuals
          BY DEF Nothing, Gesture, Visuals
        <4>2. overlay'.stored \in Visuals => overlay'.stored.turn <= turn /\ overlay'.stored.turn \in Nat
          BY <1>1, <1>7, <4>1 DEF Kept, BoxTypes, Visuals, Turns
        <4> QED BY <2>1, <2>2, <4>2
      <3> QED BY <1>1, <1>7, <2>1, <2>3, <3>1, <3>2 DEF BoxTypes, Kept
    <2>5. \A i \in 1..Len(reveals) : reveals[i].turn <= turn'
      <3> SUFFICES ASSUME NEW i \in 1..Len(reveals) PROVE reveals[i].turn <= turn'
        OBVIOUS
      <3>1. reveals[i].turn \in Nat /\ reveals[i].turn <= turn
        <4>1. reveals[i] \in Rows
          BY <1>1, ElementOfSeq DEF BoxTypes
        <4>2. reveals[i].turn \in Turns
          BY <4>1 DEF Rows
        <4>3. reveals[i].turn <= turn
          BY <1>1 DEF PayloadsGrow
        <4> QED BY <4>2, <4>3 DEF Turns
      <3>2. turn' = turn + 1 /\ turn \in Nat
        BY <2>1, <2>2
      <3> QED BY <3>1, <3>2
    <2>6. ASSUME NEW u \in keep', u \notin keep
          PROVE  /\ \A i \in 1..Len(reveals) : reveals[i].turn # u
                 /\ overlay'.stored \in Visuals => overlay'.stored.turn # u
      <3>1. u = turn + 1
        BY <2>1, <2>6
      <3>2. \A i \in 1..Len(reveals) : reveals[i].turn <= turn
        BY <1>1 DEF PayloadsGrow
      <3>3. overlay'.stored \in Visuals => overlay'.stored.turn <= turn
        <4>1. Nothing \notin Visuals /\ Gesture \notin Visuals
          BY DEF Nothing, Gesture, Visuals
        <4> QED BY <1>1, <1>7, <4>1 DEF Kept, BoxTypes
      <3> QED BY <2>2, <3>1, <3>2, <3>3
    <2>7. ASSUME NEW u \in keep'
          PROVE  /\ \A i \in 1..Len(reveals) : Awaits(i) /\ reveals[i].turn = u =>
                      /\ reveals[i].payload.boxes \subseteq boxes[u]
                      /\ \A j \in 1..Len(reveals) : i <= j /\ Awaits(j) /\ reveals[j].turn = u =>
                           reveals[i].payload.boxes \subseteq reveals[j].payload.boxes
                 /\ overlay'.stored \in Visuals /\ overlay'.stored.turn = u =>
                      /\ overlay'.stored.boxes \subseteq boxes[u]
                      /\ \A i \in 1..Len(reveals) : Awaits(i) /\ reveals[i].turn = u =>
                           overlay'.stored.boxes \subseteq reveals[i].payload.boxes
      <3>1. CASE u \notin keep
        BY <2>6, <3>1
      <3>2. CASE u \in keep
        <4>1. overlay'.stored \in Visuals => overlay'.stored = overlay.stored
          BY <1>7 DEF Kept, Nothing, Gesture, Visuals
        <4> QED BY <1>1, <3>2, <4>1 DEF PayloadsGrow
      <3> QED BY <3>1, <3>2
    <2>8. PayloadsGrow'
      BY <1>1, <2>1, <2>5, <2>7 DEF PayloadsGrow, Awaits
    <2> QED BY <1>7, <2>4, <2>8 DEF BoxInv, Kept
  <1>9. CASE ~TurnBegins
    <2>1. UNCHANGED <<reveals, boxes, turn, keep>> /\ step' \in {0, step}
      <3>1. CASE HoldBegins \/ BoundsArrive \/ HoldEnds \/ HideTimerFires
        BY <3>1 DEF HoldBegins, BoundsArrive, HoldEnds, HideTimerFires, turnVars
      <3>2. CASE OpenTyping \/ Release \/ SubmitEnds \/ SpeechEnds
        BY <3>2 DEF OpenTyping, Release, SubmitEnds, SpeechEnds, turnVars
      <3>3. CASE Stir \/ Onboard \/ PetSteps \/ OverlaySteps
        BY <3>3 DEF Stir, Onboard, PetSteps, OverlaySteps, turnVars
      <3> QED BY <1>9, <3>1, <3>2, <3>3 DEF Next, Notch
    <2>2. step' \in Nat
      BY <1>1, <2>1 DEF BoxTypes
    <2>3. BoxInv'
      BY <1>7, <2>1, <2>2, BoxesRest DEF Kept
    <2> QED BY <1>7, <2>3 DEF Kept
  <1> QED BY <1>8, <1>9

(* A turn that keeps its boxes never loses one that is shown, in whatever   *)
(* order the reveals of its steps get on.                                   *)
THEOREM BoxesAreKept == Spec => KeptBoxesStay
  <1> DEFINE A == \A t \in keep :
                    /\ overlay.stored.mode = "visual" /\ overlay.stored'.mode = "visual"
                    /\ overlay.stored.turn = t /\ overlay.stored'.turn = t
                    => overlay.stored.boxes \subseteq overlay.stored'.boxes
  <1>1. Init => BoxInv
    <2> SUFFICES ASSUME Init PROVE BoxInv
      OBVIOUS
    <2>1. /\ turn = 0 /\ step = 0 /\ keep = {} /\ boxes = [t \in Turns |-> {}] /\ reveals = <<>>
          /\ DOMAIN overlay = DOMAIN OverlayStart /\ overlay.stored = Nothing
      BY DEF Init, OverlayStart
    <2>2. Nothing \notin Visuals
      BY DEF Nothing, Visuals
    <2>3. BoxTypes
      <3>1. 0 \in 0..MaxTurns
        BY BoundsAssumption
      <3> QED BY <2>1, <2>2, <3>1, EmptySeq DEF BoxTypes
    <2>4. PayloadsGrow
      BY <2>1, EmptySeq DEF PayloadsGrow
    <2> QED BY <2>3, <2>4 DEF BoxInv
  <1>2. ASSUME BoxInv, [Next]_vars PROVE BoxInv' /\ [A]_vars
    <2>1. CASE UNCHANGED vars
      <3>1. UNCHANGED <<reveals, boxes, turn, keep, step, overlay>>
        BY <2>1 DEF vars, turnVars
      <3>2. step \in Nat /\ DOMAIN overlay = DOMAIN OverlayStart
        BY <1>2 DEF BoxInv, BoxTypes
      <3> QED BY <1>2, <2>1, <3>1, <3>2, BoxesRest
    <2>2. ASSUME NEW i \in DOMAIN reveals, RevealHides(i) \/ RevealShows(i) \/ RevealGlides(i)
          PROVE  BoxInv' /\ A
      <3>1. BoxInv'
        BY <1>2, <2>2, RevealFits, BoxesLeave
      <3>2. /\ overlay.stored \in {Nothing, Gesture} \cup Visuals
            /\ overlay'.stored \in {Nothing, Gesture} \cup Visuals
        BY <1>2, <3>1 DEF BoxInv, BoxTypes
      <3>3. \A p \in {Nothing, Gesture} \cup Visuals : p.mode = "visual" => p \in Visuals
        BY DEF Nothing, Gesture
      <3> QED BY <1>2, <2>2, <3>1, <3>2, <3>3, RevealFits
    <2>3. ASSUME NEW i \in DOMAIN reveals, RevealDraws(i)
          PROVE  BoxInv' /\ A
      <3>1. overlay' = overlay
        BY <2>3 DEF RevealDraws
      <3> QED BY <1>2, <2>3, <3>1, BoxesDrawn
    <2>4. CASE StepBegins
      <3>1. overlay' = overlay
        BY <2>4 DEF StepBegins
      <3> QED BY <1>2, <2>4, <3>1, BoxesAsk
    <2>5. CASE Next /\ ~StepBegins /\ \A i \in DOMAIN reveals : ~Reveal(i)
      <3>1. BoxInv' /\ overlay'.stored \in {overlay.stored, Nothing, Gesture}
        BY <1>2, <2>5, BoxesOtherwise
      <3>2. Nothing.mode # "visual" /\ Gesture.mode # "visual"
        BY DEF Nothing, Gesture
      <3>3. A
        BY <3>1, <3>2
      <3> QED BY <3>1, <3>3
    <2> QED BY <1>2, <2>1, <2>2, <2>3, <2>4, <2>5 DEF Reveal
  <1> QED BY <1>1, <1>2, PTL DEF Spec, KeptBoxesStay
================================================================================

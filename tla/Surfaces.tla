------------------------------ MODULE Surfaces ------------------------------
(***************************************************************************)
(* What the user sees of a turn: the notch drives the pet and the overlay  *)
(* by calls and events that none of them waits for.                        *)
(*                                                                         *)
(*   src/notch/NotchApp.tsx          the ptt:recording and context:changed *)
(*                                   listeners, resetPreviousTurn,         *)
(*                                   cursorActive                          *)
(*   src/notch/notchTutor.ts         revealStep                            *)
(*   src/overlay/targetRouting.ts    routeVisualTargets,                   *)
(*                                   releaseVisualTargets                  *)
(*   src/onboarding                  the pet's suppress and its beats      *)
(*                                                                         *)
(* Turns, their superseding and their speech are NotchTurns' and           *)
(* Narration's: a turn here is steps that begin one after another.  The    *)
(* reveal of a step reads no abort signal, so one of an ended turn goes on.*)
(***************************************************************************)
EXTENDS Pet, OverlayPanel, FiniteSets

CONSTANTS MaxTurns,   \* bound on the turns
          MaxSteps,   \* bound on the steps of a turn
          MaxHolds,   \* bound on the push-to-talk holds
          MaxStirs,   \* bound on what else stirs the pet
          MaxBeats,   \* bound on the beats that run at once
          MaxQueue,   \* bound on the overlay's events that wait when the notch sends another
          MaxAsleep,  \* bound on the order-outs asleep
          SlowBounds  \* whether the display's bounds may come in after the hold's trail is over

ASSUME BoundsAssumption == /\ {MaxTurns, MaxSteps} \subseteq Nat \ {0}
                           /\ {MaxHolds, MaxStirs, MaxBeats, MaxQueue, MaxAsleep} \subseteq Nat
ASSUME ModeAssumption == SlowBounds \in BOOLEAN

Turns == 1..MaxTurns

VARIABLES
    hold,       \* gestureRecordingRef
    holds,      \* how many holds there have been
    bounds,     \* displayBoundsRef: unknown, asked for, known
    hideTimer,  \* gestureHideTimerRef is set
    turn,       \* how many turns have started
    step,       \* the step of the turn that began last; none once it is over
    keep,       \* turns whose response says keepBoxes
    boxes,      \* shownBoxes of each turn
    submitting, \* isSubmitting
    reveals,    \* revealStep calls under way, in the order they started to wait
    stirs       \* how much has stirred the pet

holdVars == <<hold, holds, bounds, hideTimer>>
turnVars == <<turn, step, keep, boxes, submitting>>
vars == <<pet, overlay, holdVars, turnVars, reveals, stirs>>

Init ==
    /\ PetInit /\ overlay = OverlayStart
    /\ hold = FALSE /\ holds = 0 /\ bounds = "unknown" /\ hideTimer = FALSE
    /\ turn = 0 /\ step = 0 /\ keep = {} /\ boxes = [t \in Turns |-> {}] /\ submitting = FALSE
    /\ reveals = <<>>
    /\ stirs = 0

\* The bounds, as guards of the calls that emit an event and put an order-out to sleep.
MayEmit == Len(overlay.events) < MaxQueue
MayHide == MayEmit /\ overlay.orderOuts < MaxAsleep

\* setIsSubmitting, whose effect tells the pet.
Submitting(p, on) == IF submitting = on THEN p ELSE OnActive(p, on)

(* Slips this code could have had, for the mutation runs.                   *)

OwnBoxAlone(r, own) == own
HideTimerForgets ==
    /\ MayHide /\ hideTimer /\ (SlowBounds \/ bounds # "asked")
    /\ hideTimer' = FALSE
    /\ UNCHANGED <<pet, overlay, hold, holds, bounds, turnVars, reveals, stirs>>

-----------------------------------------------------------------------------
(* The hold.                                                                *)

\* The onboarding is over: its last beat too, and its entrance took back its suppress.
MayHold == pet.beats = <<>> /\ ~pet.suppressed

HoldBegins ==
    /\ MayEmit /\ MayHold /\ ~hold /\ holds < MaxHolds
    /\ hold' = TRUE /\ holds' = holds + 1
    /\ hideTimer' = FALSE
    /\ pet' = Submitting(OnListening(pet), FALSE)
    /\ submitting' = FALSE /\ step' = 0
    /\ LET told == EmitRecording(overlay, TRUE)
       IN  IF bounds = "known" THEN overlay' = ShowGestureOverlay(told) /\ UNCHANGED bounds
                               ELSE overlay' = told /\ bounds' = "asked"
    /\ UNCHANGED <<turn, keep, boxes, reveals, stirs>>

\* getDisplayBounds answers: the trail is shown whether or not the hold goes on.
BoundsArrive ==
    /\ MayEmit /\ bounds = "asked"
    /\ bounds' = "known"
    /\ overlay' = ShowGestureOverlay(overlay)
    /\ UNCHANGED <<pet, hold, holds, hideTimer, turnVars, reveals, stirs>>

\* A release with nothing recorded leaves the pet idle.
HoldEnds ==
    /\ MayEmit /\ hold
    /\ hold' = FALSE /\ hideTimer' = TRUE
    /\ pet' \in {OnThinking(pet), OnIdle(pet)}
    /\ overlay' = EmitRecording(overlay, FALSE)
    /\ UNCHANGED <<holds, bounds, turnVars, reveals, stirs>>

HideTimerFires ==
    /\ MayHide /\ hideTimer /\ (SlowBounds \/ bounds # "asked")
    /\ hideTimer' = FALSE
    /\ overlay' = IF hold THEN overlay ELSE HideOverlay(overlay)
    /\ UNCHANGED <<pet, hold, holds, bounds, turnVars, reveals, stirs>>

-----------------------------------------------------------------------------
(* The turn.                                                                *)

\* resetPreviousTurn and submitQuery leave the overlay alone while a trail is
\* drawn or fades on it.
MarksOr(o) == {o, HideOverlay(o)}

\* A tap opens the typing capsule; the pet stays where the last turn sent it.
OpenTyping ==
    /\ MayHide /\ turn > 0 /\ ~hold /\ (submitting \/ step > 0)
    /\ overlay' \in MarksOr(overlay)
    /\ submitting' = FALSE /\ step' = 0
    /\ pet' = Submitting(OnIdle(pet), FALSE)
    /\ UNCHANGED <<holdVars, turn, keep, boxes, reveals, stirs>>

\* submitQuery takes the pet back, and with it the swirl of the release.
TurnBegins ==
    /\ MayHide /\ MayHold /\ ~hold /\ turn < MaxTurns
    /\ turn' = turn + 1 /\ step' = 0
    /\ keep' \in {keep, keep \cup {turn + 1}}
    /\ overlay' \in MarksOr(overlay)
    /\ submitting' = TRUE
    /\ pet' = Submitting(OnRelease(pet), TRUE)
    /\ UNCHANGED <<holdVars, boxes, reveals, stirs>>

\* A step's clip starts: its reveal asks which application is in front.
StepBegins ==
    /\ ~hold /\ step < MaxSteps /\ turn > 0 /\ (submitting \/ step > 0)
    /\ Len(reveals) < MaxSteps
    /\ step' = step + 1
    /\ pet' = OnSpeaking(pet)
    /\ reveals' = Append(reveals, [turn |-> turn, step |-> step + 1, stage |-> "asking", payload |-> Nothing])
    /\ UNCHANGED <<overlay, holdVars, turn, keep, boxes, submitting, stirs>>

\* submitQuery is over once it has handed the answer to the player.
SubmitEnds ==
    /\ submitting /\ step > 0
    /\ submitting' = FALSE /\ pet' = Submitting(pet, FALSE)
    /\ UNCHANGED <<overlay, holdVars, turn, step, keep, boxes, reveals, stirs>>

\* The last clip has ended.
SpeechEnds ==
    /\ step > 0 /\ pet.fx = "speaking"
    /\ pet' = OnIdle(pet)
    /\ UNCHANGED <<overlay, holdVars, turnVars, reveals, stirs>>

\* releaseVisualTargets: context:changed, or an explicit dismissal.
Release ==
    /\ MayHide /\ ~hold /\ (submitting \/ step > 0)
    /\ overlay' = HideOverlay(overlay)
    /\ submitting' = FALSE /\ step' = 0
    /\ pet' = Submitting(OnRelease(pet), FALSE)
    /\ UNCHANGED <<holdVars, turn, keep, boxes, reveals, stirs>>

-----------------------------------------------------------------------------
(* The reveal of a step.                                                    *)

\* Another application is in front, or the step has nothing to show.
RevealHides(i) ==
    /\ MayHide /\ reveals[i].stage = "asking"
    /\ reveals' = RemoveAt(reveals, i)
    /\ overlay' = HideOverlay(overlay)
    /\ UNCHANGED <<pet, holdVars, turnVars, stirs>>

\* The boxes drawn so far, when the turn keeps them, and the step's own.
BoxesWith(r, own) == own \cup (IF r.turn \in keep THEN boxes[r.turn] ELSE {})

\* A box: the pet flies to its corner, and the box waits for the approach.  A
\* step without one draws a kept box again.
RevealDraws(i) ==
    LET r == reveals[i]
    IN  /\ r.stage = "asking"
        /\ \E own \in {{}, {r.step}} :
              /\ BoxesWith(r, own) # {}
              /\ boxes' = [boxes EXCEPT ![r.turn] = @ \cup own]
              /\ reveals' = Append(RemoveAt(reveals, i),
                     [r EXCEPT !.stage = "approach", !.payload = Visual(r.turn, BoxesWith(r, own))])
        /\ pet' = OnDrag(pet)
        /\ UNCHANGED <<overlay, holdVars, turn, step, keep, submitting, stirs>>

\* DRAW_APPROACH_MS later; approaches last equally long.
RevealShows(i) ==
    /\ MayEmit /\ reveals[i].stage = "approach"
    /\ \A j \in 1..(i - 1) : reveals[j].stage # "approach"
    /\ reveals' = RemoveAt(reveals, i)
    /\ overlay' = ShowOverlay(overlay, reveals[i].payload)
    /\ UNCHANGED <<pet, holdVars, turnVars, stirs>>

\* A point without a box, or the glide of a single box: shown at once.
RevealGlides(i) ==
    LET r == reveals[i]
    IN  /\ MayEmit /\ r.stage = "asking"
        /\ \E own \in {{}, {r.step}} :
              /\ BoxesWith(r, {}) = {}
              /\ own # {} => r.turn \notin keep /\ r.step > 1
              /\ overlay' = ShowOverlay(overlay, Visual(r.turn, own))
        /\ pet' = OnPoint(pet)
        /\ reveals' = RemoveAt(reveals, i)
        /\ UNCHANGED <<holdVars, turnVars, stirs>>

Reveal(i) == RevealHides(i) \/ RevealDraws(i) \/ RevealShows(i) \/ RevealGlides(i)

-----------------------------------------------------------------------------
(* What else stirs the pet: the mouse or its rest, the keyboard that hides *)
(* the system's cursor, the settings; before the first hold, the onboarding.*)

Stir ==
    /\ stirs < MaxStirs /\ stirs' = stirs + 1
    /\ \/ \E moved \in BOOLEAN : pet' = OnMouse(pet, moved) /\ overlay' = LayerMouse(overlay)
       \/ \E v \in BOOLEAN : pet' = OnVisible(pet, v) /\ UNCHANGED overlay
       \/ (IdleElapses \/ ReduceMotion) /\ UNCHANGED overlay
    /\ UNCHANGED <<holdVars, turnVars, reveals>>

Onboard ==
    /\ turn = 0 /\ holds = 0
    /\ \/ \E b \in Beats : Len(pet.beats) < MaxBeats /\ pet' = RunBeat(pet, b)
       \/ pet' = OnSuppress(pet)
    /\ UNCHANGED <<overlay, holdVars, turnVars, reveals, stirs>>

PetSteps == /\ FrameSettles \/ FrameLands \/ BeatFrame \/ BeatTimer \/ IdlePoll
            /\ UNCHANGED <<overlay, holdVars, turnVars, reveals, stirs>>

OverlaySteps == OverlayOwn /\ UNCHANGED <<pet, holdVars, turnVars, reveals, stirs>>

Notch == \/ HoldBegins \/ BoundsArrive \/ HoldEnds \/ HideTimerFires
         \/ OpenTyping \/ TurnBegins \/ StepBegins \/ SubmitEnds \/ SpeechEnds \/ Release
         \/ \E i \in DOMAIN reveals : Reveal(i)

Next == Notch \/ Stir \/ Onboard \/ PetSteps \/ OverlaySteps

\* Frames, timers and replies come; nothing the user does has to.
Fairness ==
    /\ WF_vars(Deliver /\ UNCHANGED <<pet, holdVars, turnVars, reveals, stirs>>)
    /\ WF_vars(OrderOut /\ UNCHANGED <<pet, holdVars, turnVars, reveals, stirs>>)
    /\ WF_vars(TrailFades /\ UNCHANGED <<pet, holdVars, turnVars, reveals, stirs>>)
    /\ WF_vars(BoundsArrive) /\ WF_vars(HideTimerFires)

Spec == Init /\ [][Next]_vars

FairSpec == Spec /\ Fairness

-----------------------------------------------------------------------------
(* Properties.                                                              *)

TypeOK ==
    /\ PetTypeOK /\ OverlayTypeOK
    /\ hold \in BOOLEAN /\ holds \in 0..MaxHolds /\ hideTimer \in BOOLEAN
    /\ bounds \in {"unknown", "asked", "known"}
    /\ turn \in 0..MaxTurns /\ step \in 0..MaxSteps /\ submitting \in BOOLEAN
    /\ keep \subseteq 1..turn /\ boxes \in [Turns -> SUBSET (1..MaxSteps)]
    /\ \A r \in ToSet(reveals) : /\ r.turn \in 1..turn /\ r.step \in 1..MaxSteps
                                /\ r.stage \in {"asking", "approach"}
    /\ stirs \in 0..MaxStirs

\* The boxes of a turn that keeps them stay on the screen as its later steps add
\* theirs, whatever the order in which the reveals get on (notchTutor.ts:160-166).
KeptBoxesStay ==
    [][\A t \in keep :
         /\ overlay.stored.mode = "visual" /\ overlay.stored'.mode = "visual"
         /\ overlay.stored.turn = t /\ overlay.stored'.turn = t
         => overlay.stored.boxes \subseteq overlay.stored'.boxes]_vars

\* After the hold the trail's loop stops, or its layer goes: a release that no
\* layer heard leaves it recording only until the notch hides it
\* (GestureLayer.tsx:223-225, NotchApp.tsx:1040-1046), unless the webview was
\* subscribing when it was told so.
TrailEnds ==
    ~hold ~> (hold \/ ~overlay.layer.mounted \/ ~overlay.layer.loop \/ overlay.missed)
=============================================================================

-------------------------------- MODULE Pet --------------------------------
(***************************************************************************)
(* The companion cursor, "the pet": what its window does with the events   *)
(* it hears and with its own frames and timers.                            *)
(*                                                                         *)
(*   src/cursor/useCursorEngine.ts                                         *)
(*                                                                         *)
(* The refs of the hook are the fields of one record; a listener is an     *)
(* operator from the pet before the event to the pet after it, so that a   *)
(* module composing the pet can hand it several events in one step.        *)
(* Positions are left out: a frame finds the springs at rest or it does    *)
(* not, and of a drag what matters is whether one is under way.            *)
(***************************************************************************)
EXTENDS Naturals, SequencesExt

VARIABLE pet

Fx    == {"none", "listening", "thinking", "speaking"}
Modes == {"shadow", "pointing", "drag"}
Beats == {"entrance", "celebrate"}
NoBeat == <<>>

PetStart ==
    [mode |-> "shadow", fx |-> "none",
     armed |-> FALSE,       \* pointArrivalPendingRef
     turn |-> FALSE,        \* turnActiveRef
     sys |-> TRUE,          \* sysVisibleRef
     idle |-> FALSE,        \* IDLE_HIDE_MS have passed since lastActivityRef
     hidden |-> FALSE,      \* hiddenAppliedRef
     suppressed |-> FALSE,
     drag |-> FALSE,        \* dragRef is set
     raf |-> FALSE,         \* a frame is requested
     reduce |-> FALSE,      \* reduceMotionRef
     stranded |-> FALSE,    \* the armed target was reached by snapTo while the loop was parked
     beat |-> NoBeat,       \* shell.dataset.beat
     beats |-> <<>>]        \* the beats whose timer has yet to run, and whether their
                            \* frame has set dataset.beat

-----------------------------------------------------------------------------
(* What the listeners share.                                                *)

Eligible(p) == ~p.turn /\ p.mode = "shadow" /\ p.fx = "none"

ApplyVisibility(p) ==
    [p EXCEPT !.hidden = p.suppressed \/ (Eligible(p) /\ (~p.sys \/ p.idle))]

Wake(p) == [p EXCEPT !.raf = TRUE, !.stranded = FALSE]

SetFx(p, f) == ApplyVisibility(Wake([p EXCEPT !.fx = f]))

\* A pointing event keeps the speaking pulse, and ends any other.
QuietUnlessSpeaking(p) == IF p.fx = "speaking" THEN p ELSE SetFx(p, "none")

BeatName(p, b) == <<b, p.reduce>>

\* data-beat is taken off, set again by the next frame, cleared by a timer.
RunBeat(p, b) ==
    LET shown == IF b = "entrance"
                 THEN [p EXCEPT !.suppressed = FALSE, !.idle = FALSE, !.sys = TRUE, !.hidden = FALSE]
                 ELSE p
    IN  Wake([shown EXCEPT !.beat = NoBeat, !.beats = Append(@, [name |-> BeatName(p, b), set |-> FALSE])])

-----------------------------------------------------------------------------
(* Slips this code could have had, for the mutation runs.                   *)

ListeningKeepsArrival(p) == SetFx([p EXCEPT !.drag = FALSE, !.mode = "shadow"], "listening")

-----------------------------------------------------------------------------
(* The events.                                                              *)

\* cursor:mouse; the keepalive repeats the last position.
OnMouse(p, moved) ==
    LET seen == IF moved THEN ApplyVisibility([p EXCEPT !.idle = FALSE, !.sys = TRUE]) ELSE p
    IN  IF seen.mode = "shadow" THEN Wake(seen) ELSE seen

OnPoint(p) ==
    Wake(ApplyVisibility(QuietUnlessSpeaking(
        [p EXCEPT !.drag = FALSE, !.mode = "pointing", !.armed = TRUE])))

\* Under reduced motion the pet is put on the corner, and no frame is asked for.
OnDrag(p) ==
    LET quiet == QuietUnlessSpeaking([p EXCEPT !.armed = TRUE])
    IN  IF quiet.reduce
        THEN [quiet EXCEPT !.mode = "pointing", !.drag = FALSE, !.stranded = ~quiet.raf]
        ELSE Wake([quiet EXCEPT !.mode = "drag", !.drag = TRUE])

OnRelease(p) ==
    SetFx([p EXCEPT !.armed = FALSE, !.drag = FALSE, !.mode = "shadow", !.idle = FALSE], "none")

OnListening(p) ==
    SetFx([p EXCEPT !.armed = FALSE, !.drag = FALSE, !.mode = "shadow"], "listening")

OnThinking(p) == SetFx(p, "thinking")
OnSpeaking(p) == SetFx(p, "speaking")
OnIdle(p)     == SetFx(p, "none")

OnVisible(p, v) == ApplyVisibility([p EXCEPT !.sys = v])
OnActive(p, on) == ApplyVisibility([p EXCEPT !.turn = on, !.idle = @ /\ ~on])
OnSuppress(p)   == ApplyVisibility([p EXCEPT !.suppressed = TRUE])

-----------------------------------------------------------------------------
(* The window's own steps.                                                  *)

\* The springs come to rest: the loop parks, and an armed arrival is told.
Settled(p) ==
    [p EXCEPT !.raf = FALSE, !.armed = @ /\ p.mode # "pointing"]

\* The box is drawn: the pet rests at its far corner in pointing mode.
Landed(p) == [p EXCEPT !.mode = "pointing", !.drag = FALSE, !.armed = FALSE]

FollowsDrag == pet.mode = "drag" /\ pet.drag

FrameSettles == /\ pet.raf /\ ~FollowsDrag
                /\ pet' = Settled(pet)

FrameLands == /\ pet.raf /\ FollowsDrag
              /\ pet' = Landed(pet)

BeatFrame ==
    \E i \in DOMAIN pet.beats :
        /\ ~pet.beats[i].set /\ \A j \in 1..(i - 1) : pet.beats[j].set
        /\ pet' = [pet EXCEPT !.beat = pet.beats[i].name, !.beats[i].set = TRUE]

\* The window of a beat is many frames long; the kinds of beats have windows of their own.
BeatTimer ==
    \E i \in DOMAIN pet.beats :
        /\ pet.beats[i].set
        /\ pet' = [pet EXCEPT !.beats = RemoveAt(@, i),
                              !.beat = IF @ = pet.beats[i].name THEN NoBeat ELSE @]

IdleElapses == /\ ~pet.idle
               /\ pet' = [pet EXCEPT !.idle = TRUE]

\* idleInterval, every 250 ms.
IdlePoll == pet' = ApplyVisibility(pet)

\* Reduce Motion is switched in the system's settings.
ReduceMotion == pet' = [pet EXCEPT !.reduce = ~@]

-----------------------------------------------------------------------------
(* The pet alone, under any order of events.                                *)

PetInit == pet = PetStart

PetEvents ==
    \/ \E moved \in BOOLEAN : pet' = OnMouse(pet, moved)
    \/ \E v \in BOOLEAN : pet' = OnVisible(pet, v)
    \/ \E on \in BOOLEAN : pet' = OnActive(pet, on)
    \/ \E b \in Beats : pet' = RunBeat(pet, b)
    \/ pet' \in {OnPoint(pet), OnDrag(pet), OnRelease(pet), OnListening(pet), OnThinking(pet),
                 OnSpeaking(pet), OnIdle(pet), OnSuppress(pet)}

PetOwn == FrameSettles \/ FrameLands \/ BeatFrame \/ BeatTimer \/ IdleElapses \/ IdlePoll \/ ReduceMotion

PetSpec == PetInit /\ [][PetEvents \/ PetOwn]_pet

-----------------------------------------------------------------------------
BeatNames == Beats \X BOOLEAN

PetTypeOK ==
    pet \in [mode : Modes, fx : Fx, beat : {NoBeat} \cup BeatNames,
             beats : Seq([name : BeatNames, set : BOOLEAN]),
             armed : BOOLEAN, turn : BOOLEAN, sys : BOOLEAN, idle : BOOLEAN, hidden : BOOLEAN,
             suppressed : BOOLEAN, drag : BOOLEAN, raf : BOOLEAN, reduce : BOOLEAN,
             stranded : BOOLEAN]

(* An armed arrival belongs to a target the pet is on its way to, and a     *)
(* frame that will tell it has been asked for: a release or a new hold      *)
(* takes it back.  Only a box put in place under reduced motion may wait    *)
(* without a frame (README, "Where the code and its comments differ").      *)
ArmedArrivalHasTarget ==
    pet.armed => pet.mode # "shadow" /\ (pet.raf \/ pet.stranded)

(* The pet is in drag mode exactly while it has a drag to follow, and the   *)
(* loop that draws it runs: no event leaves the mode without its path.      *)
DragHasItsPath ==
    (pet.mode = "drag") = pet.drag /\ (pet.drag => pet.raf)
=============================================================================

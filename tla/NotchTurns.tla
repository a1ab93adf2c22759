----------------------------- MODULE NotchTurns -----------------------------
(***************************************************************************)
(* The turn machine of the notch: which turn owns the capsule, the overlay *)
(* and the guide pointer while turns supersede one another.                *)
(*                                                                         *)
(*   src/notch/NotchApp.tsx     resetPreviousTurn, submitQuery,            *)
(*                              processCapturedAudio, runClickTurn,        *)
(*                              playResponseAndArm,                        *)
(*                              armPointerFromAwaitClick, hideNotch        *)
(*   src/notch/notchTutor.ts    revealStep                                 *)
(*   src/notch/idleClose.ts     shouldIdleClose                            *)
(*                                                                         *)
(* JavaScript runs one handler at a time: an action is the code between    *)
(* two awaits.  A turn is an async function whose AbortSignal is read only *)
(* where the code reads it.  Turns are numbered in the order they start;   *)
(* an answer is one spoken step, and the pointer-watch and the clips are   *)
(* abstracted here to what the turns see of them (PointerWatch and         *)
(* Narration model their inside).                                          *)
(***************************************************************************)
EXTENDS Naturals, FiniteSets

CONSTANTS MaxTurns,     \* bound on the turns
          MaxHolds      \* bound on the push-to-talk holds

ASSUME BoundsAssumption == MaxTurns \in Nat \ {0} /\ MaxHolds \in Nat

Turns == 1..MaxTurns
None  == 0            \* no turn; an overlay with nothing on it
Marks == MaxTurns + 1 \* an overlay with the user's own strokes on it

VARIABLES
    turns,      \* how many turns have started
    current,    \* the turn of turnAbortRef's controller
    aborted,    \* turns whose controller was aborted
    pc,         \* where each turn is
    reveal,     \* turns whose revealStep has yet to place its visuals
    arming,     \* turns whose pointer waits for its frame hash
    submitting, \* isSubmittingRef
    settled,    \* answerSettledRef
    voice,      \* voiceCaptureStateRef
    errorTimer, \* voiceErrorTimeoutRef is set
    hold,       \* the push-to-talk hold, as its events reach the notch
    recording,  \* pttRecordingRef, gestureRecordingRef
    strokes,    \* gestureBufferRef holds points
    hideTimer,  \* gestureHideTimerRef is set
    holds,      \* how many holds there have been
    notch,      \* what the capsule shows; a superseded turn's thinking is "orphaned"
    overlay,    \* whose visuals are on the overlay
    watched,    \* whose pointer the pointer-watch watches
    guide,      \* pendingAwaitClickRef
    armed,      \* the native click watch
    torn        \* the pointer of the current turn was cleared while it was still being
                \* armed, or torn down by a superseded turn

pointerVars == <<watched, guide, armed, torn>>
voiceVars   == <<voice, errorTimer>>
holdVars    == <<hold, recording, strokes, hideTimer, holds>>
turnVars    == <<turns, current, aborted>>
notchVars == <<turnVars, pc, reveal, arming, submitting, settled, voiceVars, holdVars,
          notch, overlay, pointerVars>>

-----------------------------------------------------------------------------
NotchInit ==
    /\ turns = 0 /\ current = None /\ aborted = {}
    /\ pc = [t \in Turns |-> "unborn"]
    /\ reveal = {} /\ arming = {}
    /\ submitting = FALSE /\ settled = FALSE
    /\ voice = "idle" /\ errorTimer = FALSE
    /\ hold = "up" /\ recording = FALSE /\ strokes = FALSE /\ hideTimer = FALSE /\ holds = 0
    /\ notch = "hidden"
    /\ overlay = None
    /\ watched = None /\ guide = None /\ armed = FALSE /\ torn = FALSE

(* Slips this code could have had, for the mutation runs.                   *)

SupersededNever(t) == FALSE
ClickSettledQuietly(t) ==
    /\ pc[t] = "settling"
    /\ pc' = [pc EXCEPT ![t] = IF t \in aborted THEN "over" ELSE "tutor"] \/ pc' = [pc EXCEPT ![t] = "over"]
    /\ UNCHANGED <<turnVars, submitting, settled, reveal, arming, voiceVars, holdVars, notch, overlay,
                   pointerVars>>

-----------------------------------------------------------------------------
(* What the handlers share.                                                 *)

\* signal.aborted
Superseded(t) == t \in aborted

\* stopAnswerPlayback: the clips stop, and what is queued sees a newer epoch.
StopPlayback == [t \in Turns |-> IF pc[t] \in {"queued", "direct", "speaking", "upgrade"}
                                 THEN "over" ELSE pc[t]]

\* pointerWatchRef.clear, pendingAwaitClickRef and disarmFollowClick.  A live turn
\* that waits for its hash does not hear of it.
ClearPointer ==
    /\ watched' = None /\ guide' = None /\ armed' = FALSE
    /\ torn' = (arming \ aborted' # {})

\* A new controller, for turn t or for no turn yet.
OpenController(t) == aborted' = aborted \cup ({current} \ {None}) /\ current' = t

\* resetPreviousTurn, but for the controller and the turns' places.
ResetPreviousTurn ==
    /\ ClearPointer
    /\ settled' = FALSE
    /\ overlay' = IF recording \/ strokes THEN overlay ELSE None

\* hideNotch.  It aborts no controller.
HideNotch ==
    /\ UNCHANGED <<turnVars, reveal, arming, holdVars>>
    /\ pc' = StopPlayback
    /\ ClearPointer
    /\ settled' = FALSE /\ submitting' = FALSE
    /\ voice' = "idle"
    /\ notch' = "hidden" /\ overlay' = None

-----------------------------------------------------------------------------
(* The user, through the events of the native side.                         *)

\* ptt:recording: the stroke buffer is fresh and the gesture overlay is shown.
HoldBegins ==
    /\ hold = "up" /\ holds < MaxHolds
    /\ hold' = "begun" /\ holds' = holds + 1
    /\ recording' = TRUE /\ strokes' = FALSE /\ hideTimer' = FALSE
    /\ overlay' = Marks
    /\ UNCHANGED <<turnVars, pc, reveal, arming, submitting, settled, voiceVars, notch, pointerVars>>

\* The listening payload of the same hold.
Listening ==
    /\ hold = "begun"
    /\ hold' = "listening"
    /\ OpenController(None) /\ ResetPreviousTurn
    /\ pc' = StopPlayback
    /\ submitting' = FALSE /\ voice' = "idle" /\ notch' = "listening"
    /\ UNCHANGED <<turns, reveal, arming, errorTimer, recording, strokes, hideTimer, holds>>

\* The release: cursor points may have come in, and the strokes start to fade.
HoldEnds ==
    /\ hold = "listening"
    /\ hold' = "released"
    /\ recording' = FALSE /\ hideTimer' = TRUE
    /\ strokes' \in BOOLEAN
    /\ UNCHANGED <<turnVars, pc, reveal, arming, submitting, settled, voiceVars, holds, notch,
                   overlay, pointerVars>>

GestureFaded ==
    /\ hideTimer
    /\ hideTimer' = FALSE
    /\ overlay' = IF recording THEN overlay ELSE None
    /\ UNCHANGED <<turnVars, pc, reveal, arming, submitting, settled, voiceVars, hold, recording,
                   strokes, holds, notch, pointerVars>>

\* The microphone had nothing: no ptt:audio follows the release.
NothingRecorded ==
    /\ hold = "released"
    /\ hold' = "up"
    /\ UNCHANGED <<turnVars, pc, reveal, arming, submitting, settled, voiceVars, recording, strokes,
                   hideTimer, holds, notch, overlay, pointerVars>>

\* ptt:audio: processCapturedAudio up to its first await.
Audio ==
    LET t == turns + 1 IN
    /\ hold = "released" /\ turns < MaxTurns
    /\ hold' = "up"
    /\ turns' = t
    /\ OpenController(t) /\ ResetPreviousTurn
    /\ pc' = [StopPlayback EXCEPT ![t] = "paywall"]
    /\ voice' = "transcribing" /\ errorTimer' = FALSE
    /\ notch' = "thinking"
    /\ UNCHANGED <<reveal, arming, submitting, recording, strokes, hideTimer, holds>>

\* A tap: the captured payload opens the typing box.
OpenTyping ==
    /\ hold = "up"
    /\ OpenController(None) /\ ResetPreviousTurn
    /\ pc' = StopPlayback
    /\ submitting' = FALSE /\ voice' = "idle" /\ notch' = "typing"
    /\ UNCHANGED <<turns, reveal, arming, errorTimer, holdVars>>

Dismiss ==
    /\ notch # "hidden"
    /\ HideNotch
    /\ UNCHANGED errorTimer

-----------------------------------------------------------------------------
(* A turn.                                                                  *)

\* checkPaywalled returns.  The upgrade line is played as the answer, and when
\* it ends it notes the activity and no more.
PaywallAnswers(t) ==
    /\ pc[t] = "paywall"
    /\ \/ pc' = [pc EXCEPT ![t] = "stt"] /\ UNCHANGED <<voice, notch>>
       \/ IF Superseded(t)
          THEN pc' = [pc EXCEPT ![t] = "over"] /\ UNCHANGED <<voice, notch>>
          ELSE /\ pc' = [StopPlayback EXCEPT ![t] = "upgrade"]
               /\ voice' = "idle" /\ notch' = "upgrade"
    /\ UNCHANGED <<turnVars, reveal, arming, submitting, settled, errorTimer, holdVars, overlay,
                   pointerVars>>

UpgradeEnds(t) ==
    /\ pc[t] = "upgrade"
    /\ pc' = [pc EXCEPT ![t] = "over"]
    /\ UNCHANGED <<turnVars, reveal, arming, submitting, settled, voiceVars, holdVars, notch,
                   overlay, pointerVars>>

\* transcribeAudio returns a transcript, or it is empty or fails.
Transcribed(t) ==
    /\ pc[t] = "stt"
    /\ \/ /\ pc' = [pc EXCEPT ![t] = IF Superseded(t) THEN "over" ELSE "composing"]
          /\ UNCHANGED <<voiceVars, notch>>
       \/ /\ pc' = [pc EXCEPT ![t] = "over"]
          /\ IF Superseded(t) THEN UNCHANGED <<voiceVars, notch>>
             ELSE voice' = "error" /\ errorTimer' = TRUE /\ notch' = "error"
    /\ UNCHANGED <<turnVars, reveal, arming, submitting, settled, holdVars, overlay, pointerVars>>

ErrorExpires ==
    /\ errorTimer
    /\ errorTimer' = FALSE
    /\ IF voice = "error" THEN HideNotch
       ELSE UNCHANGED <<turnVars, pc, reveal, arming, submitting, settled, voice, holdVars, notch,
                        overlay, pointerVars>>

\* submitQuery up to its first await: the turn takes the notch.
TakeNotch(t, place, keepOverlay) ==
    /\ pc' = [StopPlayback EXCEPT ![t] = place]
    /\ ClearPointer
    /\ settled' = FALSE /\ submitting' = TRUE
    /\ voice' = "idle" /\ notch' = IF t \in aborted' THEN "orphaned" ELSE "thinking"
    /\ overlay' = IF keepOverlay THEN overlay ELSE None

\* The screenshot is there and the strokes are on it; the signal is not read.
SubmitVoice(t) ==
    /\ pc[t] = "composing"
    /\ UNCHANGED <<turnVars, reveal, arming, errorTimer, hold, recording, hideTimer, holds>>
    /\ strokes' = FALSE
    /\ TakeNotch(t, "gate", strokes)

SubmitTyped ==
    LET t == turns + 1 IN
    /\ notch = "typing" /\ ~submitting /\ turns < MaxTurns
    /\ turns' = t
    /\ OpenController(t)
    /\ TakeNotch(t, "tutor", FALSE)
    /\ UNCHANGED <<reveal, arming, errorTimer, holdVars>>

\* The gate answers the question itself, or sends the turn to the screen.
GateAnswers(t) ==
    /\ pc[t] = "gate"
    /\ IF Superseded(t)
       THEN pc' = [pc EXCEPT ![t] = "over"] /\ UNCHANGED <<submitting, notch>>
       ELSE \/ pc' = [pc EXCEPT ![t] = "tutor"] /\ UNCHANGED <<submitting, notch>>
            \/ pc' = [pc EXCEPT ![t] = "direct"] /\ submitting' = FALSE /\ notch' = "answer"
    /\ UNCHANGED <<turnVars, reveal, arming, settled, voiceVars, holdVars, overlay, pointerVars>>

\* askTutorFromNotch returns an answer (a failure is one too), with or without
\* a target to click; playResponseAndArm queues it.
TutorAnswers(t) ==
    /\ pc[t] = "tutor"
    /\ IF Superseded(t)
       THEN pc' = [pc EXCEPT ![t] = "over"] /\ UNCHANGED <<submitting, notch>>
       ELSE pc' = [pc EXCEPT ![t] = "queued"] /\ submitting' = FALSE /\ notch' = "answer"
    /\ UNCHANGED <<turnVars, reveal, arming, settled, voiceVars, holdVars, overlay, pointerVars>>

\* The clip plays: a direct answer hides the overlay; a step draws its pointer,
\* if it waits for a click, and starts placing its visuals.
SpeechStarts(t) ==
    /\ pc[t] \in {"queued", "direct"}
    /\ pc' = [StopPlayback EXCEPT ![t] = "speaking"]
    /\ IF pc[t] = "direct" THEN overlay' = None /\ UNCHANGED <<reveal, arming, guide>>
       ELSE \/ reveal' = reveal \cup {t} /\ UNCHANGED <<overlay, arming, guide>>
            \/ /\ reveal' = reveal \cup {t} /\ arming' = arming \cup {t}
               /\ guide' = t /\ overlay' = t
    /\ UNCHANGED <<turnVars, submitting, settled, voiceVars, holdVars, notch, watched, armed, torn>>

\* revealStep after its look at the frontmost app: no signal is read.
RevealPlaces(t) ==
    /\ t \in reveal
    /\ reveal' = reveal \ {t}
    /\ overlay' \in {t, None}
    /\ UNCHANGED <<turnVars, pc, arming, submitting, settled, voiceVars, holdVars, notch, pointerVars>>

\* armPointerFromAwaitClick after its frame hash: the watch and the native click
\* watch are armed, or what is drawn by now is torn down.
PointerHashed(t) ==
    /\ t \in arming
    /\ arming' = arming \ {t}
    /\ IF Superseded(t)
       THEN /\ guide' = None /\ armed' = FALSE /\ overlay' = None
            /\ torn' = (torn \/ guide # None)
            /\ UNCHANGED watched
       ELSE watched' = t /\ armed' = TRUE /\ UNCHANGED <<guide, torn, overlay>>
    /\ UNCHANGED <<turnVars, pc, reveal, submitting, settled, voiceVars, holdVars, notch>>

\* onSettled: a superseded answer of steps does not settle.
SpeechEnds(t) ==
    /\ pc[t] = "speaking"
    /\ pc' = [pc EXCEPT ![t] = "over"]
    /\ settled' = (settled \/ ~Superseded(t))
    /\ UNCHANGED <<turnVars, reveal, arming, submitting, voiceVars, holdVars, notch, overlay,
                   pointerVars>>

\* onValidClick: runClickTurn up to its settle delay.  The line being spoken
\* goes on.
Click ==
    LET t == turns + 1 IN
    /\ watched # None /\ armed /\ turns < MaxTurns
    /\ turns' = t
    /\ OpenController(t)
    /\ ClearPointer
    /\ pc' = [pc EXCEPT ![t] = "settling"]
    /\ settled' = FALSE /\ submitting' = TRUE
    /\ notch' = "thinking" /\ overlay' = None
    /\ UNCHANGED <<reveal, arming, voiceVars, holdVars>>

\* The screen has settled and is captured, or the capture fails.
ClickSettled(t) ==
    /\ pc[t] = "settling"
    /\ \/ /\ pc' = [pc EXCEPT ![t] = IF Superseded(t) THEN "over" ELSE "tutor"]
          /\ UNCHANGED <<submitting, settled>>
       \/ /\ pc' = [pc EXCEPT ![t] = "over"]
          /\ IF Superseded(t) THEN UNCHANGED <<submitting, settled>>
             ELSE submitting' = FALSE /\ settled' = TRUE
    /\ UNCHANGED <<turnVars, reveal, arming, voiceVars, holdVars, notch, overlay, pointerVars>>

\* onIdleFade, longer after the pointer was armed than its step takes to speak.
IdleFade ==
    /\ watched # None /\ pc[watched] # "speaking"
    /\ UNCHANGED <<turnVars, arming>> /\ ClearPointer
    /\ settled' = TRUE
    /\ overlay' = None
    /\ UNCHANGED <<pc, reveal, submitting, voiceVars, holdVars, notch>>

\* shouldIdleClose, for an empty query and a pointer elsewhere, and the guard of
\* the interval around it.
ShouldIdleClose ==
    /\ watched = None
    /\ settled /\ ~submitting /\ voice = "idle" /\ ~recording

IdleClose ==
    /\ ShouldIdleClose
    /\ HideNotch
    /\ UNCHANGED errorTimer

-----------------------------------------------------------------------------
User == HoldBegins \/ HoldEnds \/ OpenTyping \/ SubmitTyped \/ Click \/ Dismiss

Events == Listening \/ Audio \/ NothingRecorded

Step(t) ==
    \/ PaywallAnswers(t) \/ UpgradeEnds(t) \/ Transcribed(t) \/ SubmitVoice(t)
    \/ GateAnswers(t) \/ TutorAnswers(t) \/ SpeechStarts(t) \/ RevealPlaces(t)
    \/ PointerHashed(t) \/ SpeechEnds(t) \/ ClickSettled(t)

Timers == GestureFaded \/ ErrorExpires \/ IdleFade \/ IdleClose

NotchNext == User \/ Events \/ Timers \/ \E t \in Turns : Step(t)

NotchSpec == NotchInit /\ [][NotchNext]_notchVars

\* Answers come, clips end, timers fire, the native events of a hold are
\* delivered and a key held is let go; the user need do nothing else.
FairNotchSpec == NotchSpec /\ WF_notchVars(Listening) /\ WF_notchVars(HoldEnds) /\ WF_notchVars(Audio \/ NothingRecorded)
                 /\ WF_notchVars(GestureFaded) /\ WF_notchVars(ErrorExpires)
                 /\ WF_notchVars(IdleFade) /\ WF_notchVars(IdleClose)
                 /\ \A t \in Turns : WF_notchVars(Step(t))

-----------------------------------------------------------------------------
(* Properties.                                                              *)

Places == {"unborn", "paywall", "upgrade", "stt", "composing", "gate", "settling", "tutor",
           "queued", "direct", "speaking", "over"}

NotchTypeOK ==
    /\ turns \in 0..MaxTurns /\ current \in 0..turns /\ aborted \subseteq 1..turns
    /\ pc \in [Turns -> Places]
    /\ reveal \subseteq 1..turns /\ arming \subseteq 1..turns
    /\ submitting \in BOOLEAN /\ settled \in BOOLEAN /\ errorTimer \in BOOLEAN
    /\ voice \in {"idle", "transcribing", "error"}
    /\ hold \in {"up", "begun", "listening", "released"}
    /\ recording \in BOOLEAN /\ strokes \in BOOLEAN /\ hideTimer \in BOOLEAN
    /\ holds \in 0..MaxHolds
    /\ notch \in {"hidden", "listening", "typing", "thinking", "orphaned", "upgrade",
                  "answer", "error"}
    /\ overlay \in Turns \cup {None, Marks}
    /\ watched \in Turns \cup {None} /\ guide \in Turns \cup {None} /\ armed \in BOOLEAN
    /\ torn \in BOOLEAN

\* The pointer the watch watches is the current turn's, whatever superseded what
\* while it was drawn and hashed: a click always runs the turn the user sees
\* (armPointerFromAwaitClick, resetPreviousTurn).  The native side sends its clicks
\* and the watch can show it again, unless it was cleared while it was being armed,
\* or a superseded turn tore it down.
PointerIsCurrent ==
    watched # None => watched = current /\ (torn \/ (guide = watched /\ armed))

\* The idle close never tears down a turn the user waits for ("Its stale
\* markAnswerSettled would arm an idle-close that tears down the incoming turn",
\* NotchApp.tsx:520).
IdleCloseSparesTurns ==
    ShouldIdleClose => \A t \in Turns \ aborted : pc[t] \in {"unborn", "over"}

\* Once the turn ends, so does the thinking capsule, whatever superseded what.  Only
\* the one a superseded turn puts up after its screenshot (NotchApp.tsx:1343) has
\* nobody to end it, unless a turn is under way.
Working == {"paywall", "stt", "composing", "gate", "tutor"}

ThinkingEnds ==
    /\ notch = "thinking" ~> notch # "thinking"
    /\ notch = "orphaned" /\ (\E t \in Turns \ aborted : pc[t] \in Working) ~> notch # "orphaned"

\* "then let the notch idle-close" (NotchApp.tsx:1262): the upgrade line closes.
UpgradeCloses == notch = "upgrade" ~> notch # "upgrade"

\* "so a stale in-flight answer can no longer paint over the fresh
\* listening/typing UI" (NotchApp.tsx:307): no step of a superseded turn changes
\* what the capsule shows.
StaleTurnPaintsNothing ==
    [][\A t \in aborted : pc'[t] # pc[t] => notch' = notch /\ submitting' = submitting]_notchVars

\* "or wipe pen marks" (NotchApp.tsx:308): no step of a superseded turn takes
\* the user's strokes off the overlay.
StaleTurnSparesMarks ==
    [][\A t \in aborted : t \in (reveal \ reveal') \cup (arming \ arming') =>
          (overlay = Marks => overlay' = Marks)]_notchVars

\* "Explicit dismiss also tears down a pending guide pointer" (NotchApp.tsx:950):
\* behind a hidden notch no pointer waits for a click.
DismissedHasNoPointer == notch = "hidden" => watched = None
=============================================================================

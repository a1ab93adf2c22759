------------------------------ MODULE Narration ------------------------------
(***************************************************************************)
(* Who speaks when: the filler, the answer and the click-turn's            *)
(* acknowledgement, and the promises by which one queues behind another.   *)
(*                                                                         *)
(*   src/notch/useTTSPlayback.ts  stopAnswerPlayback, begin/endNarration,  *)
(*                                playSteps, speakFiller,                  *)
(*                                speakFollowClipDone, openFillerGate      *)
(*   src/notch/NotchApp.tsx       runClickTurn's no-cut queue              *)
(*                                                                         *)
(* A turn's answer is one line.  A promise is named after the turn that    *)
(* made it.  What awaits a promise resumes before the next event, so an    *)
(* event finds everything Settled; a line that is cut ends its narration   *)
(* in the step that cuts it.  A line is playing from its call of play, its *)
(* synthesis included.  Every clip is shorter than the 12 s caps, so a cap *)
(* only ever fires while nobody speaks.  Speech gives the lines their      *)
(* clips, and the actions their next-state relation.                       *)
(***************************************************************************)
EXTENDS Naturals, FiniteSets

CONSTANTS MaxTurns,   \* bound on the turns
          MaxClicks   \* bound on the turns that a click starts

ASSUME BoundsAssumption == MaxTurns \in Nat \ {0} /\ MaxClicks \in Nat

Turns == 1..MaxTurns
None  == 0   \* no turn; the promise resolved from the start

VARIABLES
    turns,     \* how many turns have started
    current,   \* the turn of turnAbortRef's controller
    aborted,   \* turns whose signal is aborted
    clicks,    \* turns started by a click
    pointer,   \* the turn whose pointer waits for a click
    line,      \* where each turn's answer is
    behind,    \* the filler promise each queued line waits for
    stale,     \* queued lines that saw a newer playback epoch
    filler,    \* fillerAudioRef
    gate,      \* fillerDoneRef
    opener,    \* fillerResolveRef
    opened,    \* filler promises resolved
    done,      \* narrationDoneRef
    ender,     \* narrationDoneResolveRef
    resolved,  \* narration promises resolved
    awaits,    \* currentSpeechDone of each click-turn
    ack        \* each click-turn's acknowledgement

turnVars  == <<turns, current, aborted, clicks>>
fillVars  == <<filler, gate, opener, opened>>
doneVars  == <<done, ender, resolved>>
vars == <<turnVars, pointer, line, behind, stale, fillVars, doneVars, awaits, ack>>

Init ==
    /\ turns = 0 /\ current = None /\ aborted = {} /\ clicks = {}
    /\ pointer = None
    /\ line = [t \in Turns |-> "unborn"]
    /\ behind = [t \in Turns |-> None]
    /\ stale = {}
    /\ filler = None /\ gate = None /\ opener = None /\ opened = {None}
    /\ done = None /\ ender = None /\ resolved = {None}
    /\ awaits = [t \in Turns |-> None]
    /\ ack = [t \in Turns |-> "none"]

Playing  == {t \in Turns : line[t] = "playing"}
Acking   == {t \in Turns : ack[t] = "speaking"}
Silent   == Playing = {} /\ Acking = {} /\ filler = None

-----------------------------------------------------------------------------
(* Slips this code could have had, for the mutation runs.                   *)

SupersededLinesForgotten(t) == {}
SpeechEndedAtOnce(t) == TRUE

-----------------------------------------------------------------------------
(* The refs.                                                                *)

EndNarration == resolved' = resolved \cup {ender} /\ ender' = None

\* The lines that turn t's stopAnswerPlayback takes out of the queue.
SupersededLines(t) == {q \in Turns \ {t} : line[q] = "queued"}

\* The one playing is cut.
Stopped == [q \in Turns |-> IF q \in Playing THEN "over" ELSE line[q]]

\* The rest of it.  Cutting an acknowledgement opens its gate, unless its turn
\* is one of the dead.
StopAnswerPlayback(t, dead) ==
    /\ stale' = stale \cup SupersededLines(t)
    /\ filler' = None
    /\ opener' = None
    /\ opened' = opened \cup {opener} \cup (Acking \ dead)
    /\ ack' = [q \in Turns |-> IF q \in Acking THEN "over" ELSE ack[q]]
    /\ IF Playing = {} THEN UNCHANGED <<ender, resolved>> ELSE EndNarration

\* speechEnded
SpeechEnded(t) == awaits[t] \in resolved

\* What awaits a resolved promise runs before the next event.
Settled == \A t \in Turns : /\ line[t] = "queued" => behind[t] \notin opened
                            /\ ack[t] = "waiting" => ~SpeechEnded(t)

Superseded == aborted \cup ({current} \ {None})

NewTurn(t) == t = turns + 1 /\ turns' = t /\ current' = t /\ aborted' = Superseded

-----------------------------------------------------------------------------
(* Turns by voice.                                                          *)

\* The user speaks, or types: what is being said stops.
Ask(t) ==
    /\ Settled
    /\ NewTurn(t)
    /\ StopAnswerPlayback(t, Superseded)
    /\ line' = [Stopped EXCEPT ![t] = "asked"]
    /\ pointer' = None
    /\ UNCHANGED <<clicks, behind, gate, done, awaits>>

\* The gate sends the turn to the screen and speaks its "let me look".
FillerStarts(t) ==
    /\ Settled
    /\ line[t] = "asked" /\ t \notin clicks \cup aborted
    /\ line' = [line EXCEPT ![t] = "looking"]
    /\ gate' = t /\ opener' = t /\ filler' = t
    /\ UNCHANGED <<turnVars, pointer, behind, stale, opened, doneVars, awaits, ack>>

\* finishFiller
FillerEnds ==
    /\ Settled
    /\ filler # None
    /\ filler' = None
    /\ opened' = opened \cup {opener} /\ opener' = None
    /\ UNCHANGED <<turnVars, pointer, line, behind, stale, gate, doneVars, awaits, ack>>

-----------------------------------------------------------------------------
(* Turns by click.                                                          *)

\* runClickTurn: the line goes on; its promise is kept, and a gate opened.
Click(t) ==
    /\ Settled
    /\ pointer # None /\ Cardinality(clicks) < MaxClicks
    /\ NewTurn(t)
    /\ clicks' = clicks \cup {t}
    /\ pointer' = None
    /\ line' = [line EXCEPT ![t] = "asked"]
    /\ awaits' = [awaits EXCEPT ![t] = done]
    /\ gate' = t /\ opener' = t
    /\ ack' = [ack EXCEPT ![t] = "asked"]
    /\ UNCHANGED <<behind, stale, filler, opened, doneVars>>

\* The acknowledgement's text arrives; empty, or before the line ended, it is
\* not spoken.
AckArrives(t) ==
    /\ Settled
    /\ ack[t] = "asked"
    /\ IF t \in aborted
       THEN ack' = [ack EXCEPT ![t] = "over"] /\ opened' = opened \cup {t}
       ELSE /\ \/ ack' = [ack EXCEPT ![t] = "waiting"]
               \/ SpeechEnded(t) /\ ack' = [ack EXCEPT ![t] = "speaking"]
            /\ UNCHANGED opened
    /\ UNCHANGED <<turnVars, pointer, line, behind, stale, filler, gate, opener, doneVars, awaits>>

\* The line the turn waits for has ended (or its cap), or the acknowledgement
\* is spoken: the gate opens.
AckOver(t) ==
    /\ \/ ack[t] = "waiting" /\ (SpeechEnded(t) \/ (Settled /\ Silent))
       \/ ack[t] = "speaking" /\ Settled
    /\ ack' = [ack EXCEPT ![t] = "over"]
    /\ opened' = IF t \in aborted THEN opened ELSE opened \cup {t}
    /\ UNCHANGED <<turnVars, pointer, line, behind, stale, filler, gate, opener, doneVars, awaits>>

-----------------------------------------------------------------------------
(* The answer.                                                              *)

\* playSteps up to its wait.  A click-turn asks the tutor once it has its
\* acknowledgement.
Answer(t) ==
    /\ Settled
    /\ line[t] \in {"asked", "looking"} /\ ack[t] # "asked"
    /\ IF t \in aborted
       THEN /\ line' = [line EXCEPT ![t] = "over"]
            /\ UNCHANGED <<behind, gate, done, ender>>
       ELSE /\ line' = [line EXCEPT ![t] = "queued"]
            /\ done' = t /\ ender' = t
            /\ behind' = [behind EXCEPT ![t] = gate] /\ gate' = None
    /\ UNCHANGED <<turnVars, pointer, stale, filler, opener, opened, resolved, awaits, ack>>

GateOf(t) == behind[t] \in opened \/ (Settled /\ Silent)

\* The wait is over: a stale line ends, another one stops whatever is playing.
LineStarts(t) ==
    /\ line[t] = "queued" /\ GateOf(t)
    /\ IF t \in stale
       THEN /\ line' = [line EXCEPT ![t] = "over"]
            /\ EndNarration
            /\ UNCHANGED <<pointer, stale, filler, opener, opened, ack>>
       ELSE /\ StopAnswerPlayback(t, aborted)
            /\ line' = [Stopped EXCEPT ![t] = "playing"]
            /\ UNCHANGED pointer
    /\ UNCHANGED <<turnVars, behind, gate, done, awaits>>

\* armAwaitClick, as the last step begins to speak: a superseded turn points nowhere.
Points(t) ==
    /\ Settled
    /\ line[t] = "playing" /\ pointer # t
    /\ pointer' = IF t \in aborted THEN pointer ELSE t
    /\ UNCHANGED <<turnVars, line, behind, stale, fillVars, doneVars, awaits, ack>>

LineEnds(t) ==
    /\ Settled
    /\ line[t] = "playing"
    /\ line' = [line EXCEPT ![t] = "over"]
    /\ EndNarration
    /\ UNCHANGED <<turnVars, pointer, behind, stale, fillVars, done, awaits, ack>>

-----------------------------------------------------------------------------
(* Properties.                                                              *)

TypeOK ==
    /\ turns \in 0..MaxTurns /\ current \in 0..turns
    /\ aborted \subseteq 1..turns /\ clicks \subseteq 1..turns
    /\ line \in [Turns -> {"unborn", "asked", "looking", "queued", "playing", "over"}]
    /\ ack \in [Turns -> {"none", "asked", "waiting", "speaking", "over"}]
    /\ {pointer, filler, gate, opener, done, ender} \subseteq 0..turns
    /\ opened \cup resolved \cup stale \subseteq 0..turns
    /\ behind \in [Turns -> 0..turns] /\ awaits \in [Turns -> 0..turns]

\* The line turn t was clicked through counts as ended although it plays on: it is a
\* click-turn's own, queued while the line before it was being spoken, whose end then
\* resolved its promise (the next line has overwritten the resolver).
EndedTooSoon(t) ==
    awaits[t] \in clicks \cap resolved /\ Playing = {awaits[t]} /\ Acking = {} /\ filler = None

\* "so the answer never cuts the current line" (NotchApp.tsx:851): an answer starts once
\* the line, the acknowledgement and the filler before it are over.  In a guide of several
\* clicks that fails for one line only, whose promise its predecessor's end resolved.
AnswerNeverCuts ==
    [][\A t \in Turns : line[t] = "queued" /\ line'[t] = "playing" => Silent \/ EndedTooSoon(t)]_vars

\* "a queued answer can detect it was superseded by a newer turn while waiting
\* for the filler, and not play stale" (useTTSPlayback.ts:70).
StaleNeverSpeaks ==
    [][\A t \in aborted : line'[t] = "playing" => line[t] = "playing"]_vars
=============================================================================

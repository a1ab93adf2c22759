-------------------------------- MODULE Speech --------------------------------
(***************************************************************************)
(* The clips a line of Narration is made of.                               *)
(*                                                                         *)
(*   src/notch/streamingTts.ts    StreamingClip: a stream, or its fallback *)
(*   src/notch/useTTSPlayback.ts  playSteps' prefetch and its loop         *)
(*   src/notch/clipPrewarm.ts     the one clip warmed ahead                *)
(*   src/notch/notchTutor.ts      askTutorFromNotch and its early step     *)
(*   src/core/runtimePlanner.ts   the streamed turn that announces it      *)
(*                                                                         *)
(* A turn of Narration asks the tutor, whose stream may announce the first *)
(* step before the answer is there, or after the turn timed out.  Its line *)
(* then speaks its steps one clip after another.  A step says one of two   *)
(* sentences, so that steps of different turns can say the same.  A line   *)
(* that is over keeps no clips; what its streams still deliver is dropped. *)
(***************************************************************************)
EXTENDS Narration

CONSTANTS MaxSteps,   \* bound on the steps of an answer
          LongTurns   \* the turns whose answers may have more than one

ASSUME StepsAssumption == MaxSteps \in Nat \ {0} /\ LongTurns \subseteq Turns

VARIABLES
    clips,    \* the clips of each line, by step
    warm,     \* `slot`: the clip warmed ahead
    token,    \* activeTurn
    asked,    \* turns that have asked the tutor
    announced \* turns whose stream has announced its first step

clipVars   == <<clips, warm, token, asked, announced>>
speechVars == <<vars, clipVars>>

Steps  == 1..MaxSteps
\* Not a step of the answer; a step nobody has prefetched.
NoClip == [net |-> "none", play |-> "idle", from |-> None]
\* The constructor starts the synthesis.
Synthesized(t) == [net |-> "pending", play |-> "idle", from |-> t]
Unmade == [NoClip EXCEPT !.net = "unmade"]
NoClips == [i \in Steps |-> NoClip]
\* Clips that are paused are over, with what their streams still deliver.
Paused == NoClips

Say(t, i) == (t + i) % 2

SpeechInit ==
    /\ Init
    /\ clips = [t \in Turns |-> NoClips]
    /\ warm = NoClip /\ token = None
    /\ asked = {} /\ announced = {}

-----------------------------------------------------------------------------
(* Slips this code could have had, for the mutation runs.                   *)

ByTextAlone(t) == 1
PlayedFromUnscheduled(net) == "sounding"

-----------------------------------------------------------------------------
(* The warm clip.                                                           *)

\* beginPrewarmTurn's return value.
Token(t) == t

\* takePrewarmedClip: by text, for the active turn.
Takes(t, i) ==
    /\ warm # NoClip
    /\ Say(warm.from, 1) = Say(t, i) /\ Token(warm.from) = token

\* prefetch(i), for the clips cs of t and the steps in I; neighbours never say the
\* same.
Prefetched(cs, t, I) ==
    [i \in Steps |-> IF i \notin I \/ cs[i] # Unmade THEN cs[i]
                    ELSE IF Takes(t, i) THEN warm ELSE Synthesized(t)]

WarmLeft(cs, t, I) == IF \E i \in I \cap Steps : cs[i] = Unmade /\ Takes(t, i) THEN NoClip ELSE warm

\* Whoever is cut, and the lines that end because of it, pause all their clips.
Silenced == [q \in Turns |-> IF q \in Playing THEN Paused ELSE clips[q]]

-----------------------------------------------------------------------------
(* Asking.                                                                  *)

\* A new turn by voice stops the playback, and the warm clip with it.
AskAloud(t) ==
    /\ Ask(t)
    /\ clips' = Silenced /\ warm' = NoClip
    /\ UNCHANGED <<token, asked, announced>>

\* askTutorFromNotch, with the filler or after the click's acknowledgement.
BeginTutor(t) ==
    /\ token' = Token(t) /\ warm' = NoClip
    /\ asked' = asked \cup {t}
    /\ UNCHANGED <<clips, announced>>

Look(t) == FillerStarts(t) /\ BeginTutor(t)

AskAfterClick(t) ==
    /\ Settled
    /\ t \in clicks \ (asked \cup aborted) /\ ack[t] # "asked"
    /\ BeginTutor(t)
    /\ UNCHANGED vars

\* runTurn: a stream announces its first step once, be its turn over or not.
Announcing == asked \ announced

\* StepStreamReader: the step is whole, and is not read again.
FirstStepRead(t) == t \in Announcing /\ announced' = announced \cup {t}

\* setPrewarmedClip: a superseded turn's clip is dropped.
SetPrewarmedClip(t) == warm' = IF Token(t) = token THEN Synthesized(t) ELSE warm

\* onEarlyStep(0)
EarlyStep(t) ==
    /\ Settled
    /\ FirstStepRead(t)
    /\ SetPrewarmedClip(t)
    /\ UNCHANGED <<vars, clips, token, asked>>

-----------------------------------------------------------------------------
(* The answer.                                                              *)

\* A turn that timed out or failed, or a reply without steps.
NoSteps == 0
\* The fallback of a reply that cannot be read: one step, and none that was announced.
Unreadable == MaxSteps + 1

\* How many steps the reply to t may have, as parseTutorPlannerResponse reads it.
Replies(t) == {NoSteps, Unreadable} \cup (IF t \in LongTurns THEN Steps ELSE {1})

\* The planner never rejects: a failure is an answer without steps.
Outcomes(t) == {NoSteps} \cup Replies(t)

\* "A failed turn still has to say something": no steps become one, and playSteps
\* prefetches up to its wait.
Spoken(t, n) ==
    IF n \in {NoSteps, Unreadable} THEN [NoClips EXCEPT ![1] = Synthesized(t)]
    ELSE Prefetched([i \in Steps |-> IF i <= n THEN Unmade ELSE NoClip], t, {1, 2})

TutorAnswers(t) ==
    /\ line'[t] = "queued" /\ t \in asked
    /\ \E n \in Outcomes(t) : clips' = [clips EXCEPT ![t] = Spoken(t, n)]
    /\ warm' = NoClip

\* playAnswerAudio, for a turn that needs no screen.
GateAnswers(t) ==
    /\ line'[t] = "queued" /\ t \notin asked \cup clicks
    /\ clips' = [clips EXCEPT ![t][1] = Synthesized(t)]
    /\ UNCHANGED warm

\* askTutorFromNotch's catch drops the warm clip, whosever it is.
Discarded(t) == IF t \in asked THEN {NoClip} ELSE {}

\* A superseded turn shows and says nothing.
AnswerDropped(t) ==
    /\ line'[t] = "over"
    /\ warm' \in {warm} \cup Discarded(t)
    /\ UNCHANGED clips

AnswerSpoken(t) ==
    /\ Answer(t)
    /\ TutorAnswers(t) \/ GateAnswers(t) \/ AnswerDropped(t)
    /\ UNCHANGED <<token, asked, announced>>

-----------------------------------------------------------------------------
(* The streams.                                                             *)

\* The first chunk, the end of the stream, or its failure before any audio.  Audio
\* that stops midway ends the stream too.
NetSteps == {<<"pending", "audio">>, <<"audio", "ended">>, <<"pending", "failed">>}

\* scheduleEnd: only a clip that has started, and whose stream has ended, sets the
\* timer of its end.
PlayedFrom(net) == IF net = "ended" THEN "ending" ELSE "sounding"
Heard(c, net) == [c EXCEPT !.net = net,
                           !.play = IF @ = "sounding" /\ net = "ended" THEN "ending" ELSE @]

Stream(t, i) ==
    /\ Settled
    /\ \E s \in NetSteps : clips[t][i].net = s[1]
                           /\ clips' = [clips EXCEPT ![t][i] = Heard(@, s[2])]
    /\ UNCHANGED <<vars, warm, token, asked, announced>>

WarmStream ==
    /\ Settled
    /\ \E s \in NetSteps : warm.net = s[1] /\ warm' = Heard(warm, s[2])
    /\ UNCHANGED <<vars, clips, token, asked, announced>>

-----------------------------------------------------------------------------
(* The loop.                                                                *)

\* steps.length, and the loop's i, 0 before it begins.
steps(t) == Cardinality({i \in Steps : clips[t][i] # NoClip})
step(t)  == Cardinality({i \in Steps : clips[t][i].play # "idle"})
At(t)    == clips[t][step(t)]

\* The clip of step i is asked to play.
Play(cs, i) == [cs EXCEPT ![i].play = "called"]

\* The wait behind filler or line is over.
BeginLine(t) ==
    /\ LineStarts(t)
    /\ IF line'[t] = "over"
       THEN /\ clips' = [clips EXCEPT ![t] = Paused]
            /\ UNCHANGED warm
       ELSE /\ clips' = [Silenced EXCEPT ![t] = Play(clips[t], 1)]
            /\ warm' = NoClip
    /\ UNCHANGED <<token, asked, announced>>

\* onplay: startStep prefetches two ahead, and the last step points.
StartStep(t, play) ==
    LET ahead == {step(t) + 1, step(t) + 2} IN
    /\ clips' = [clips EXCEPT ![t] = [Prefetched(clips[t], t, ahead)
                                        EXCEPT ![step(t)].play = play]]
    /\ warm' = WarmLeft(clips[t], t, ahead)
    /\ \/ step(t) = steps(t) /\ Points(t)
       \/ UNCHANGED vars
    /\ UNCHANGED <<token, asked, announced>>

\* play() has a first signal: audio.
Sounds(t) ==
    /\ Settled /\ line[t] = "playing"
    /\ At(t).play = "called" /\ At(t).net \in {"audio", "ended"}
    /\ StartStep(t, PlayedFrom(At(t).net))

\* Or none: the whole clip is synthesized again, and heard, or given up with its
\* step shown all the same.
FallsBack(t) ==
    /\ Settled /\ line[t] = "playing"
    /\ At(t).play = "called" /\ At(t).net = "failed"
    /\ \E play \in {"ending", "over"} : StartStep(t, play)

\* The clip has sounded to its end.
ClipEnds(t) ==
    /\ Settled /\ line[t] = "playing" /\ At(t).play = "ending"
    /\ clips' = [clips EXCEPT ![t][step(t)].play = "over"]
    /\ UNCHANGED <<vars, warm, token, asked, announced>>

\* After the gap the next one plays.
NextStep(t) ==
    /\ Settled /\ line[t] = "playing"
    /\ At(t).play = "over" /\ step(t) < steps(t)
    /\ LET i == step(t) + 1 IN
         /\ clips' = [clips EXCEPT ![t] = Play(Prefetched(clips[t], t, {i}), i)]
         /\ warm' = WarmLeft(clips[t], t, {i})
    /\ UNCHANGED <<vars, token, asked, announced>>

EndLine(t) ==
    /\ LineEnds(t)
    /\ At(t).play = "over" /\ step(t) = steps(t)
    /\ clips' = [clips EXCEPT ![t] = NoClips]
    /\ UNCHANGED <<warm, token, asked, announced>>

-----------------------------------------------------------------------------
Listen(t) == (Click(t) \/ AckArrives(t)) /\ UNCHANGED clipVars
Resume(t) == AckOver(t) /\ UNCHANGED clipVars
Loop(t)   == \/ BeginLine(t) \/ Sounds(t) \/ FallsBack(t) \/ ClipEnds(t)
             \/ NextStep(t) \/ EndLine(t) \/ \E i \in Steps : Stream(t, i)
FillerOver == FillerEnds /\ UNCHANGED clipVars

SpeechNext ==
    \/ FillerOver \/ WarmStream
    \/ \E t \in Turns : \/ AskAloud(t) \/ Listen(t) \/ Look(t) \/ AskAfterClick(t)
                        \/ EarlyStep(t) \/ AnswerSpoken(t) \/ Resume(t) \/ Loop(t)

SpeechSpec == SpeechInit /\ [][SpeechNext]_speechVars

\* A synthesis ends or times out (speech.rs:475), clips play to their end, timers
\* fire.  Nobody has to ask or click, and no model has to answer.
SpeechFairSpec ==
    /\ SpeechSpec
    /\ WF_speechVars(FillerOver) /\ WF_speechVars(WarmStream)
    /\ \A t \in Turns : WF_speechVars(Loop(t)) /\ WF_speechVars(Resume(t))

-----------------------------------------------------------------------------
(* Properties.                                                              *)

Clips == [net : {"none", "unmade", "pending", "audio", "ended", "failed"},
          play : {"idle", "called", "sounding", "ending", "over"}, from : Turns \cup {None}]

SpeechTypeOK ==
    /\ TypeOK
    /\ clips \in [Turns -> [Steps -> Clips]] /\ warm \in Clips
    /\ token \in Turns \cup {None}
    /\ asked \subseteq 1..turns /\ announced \subseteq asked

\* A turn never speaks "audio synthesized from the old screenshot"
\* (clipPrewarm.ts:31-37): no clip of a line was warmed by an earlier turn, even when
\* both say the same and the old stream is late.
NoOldAudio ==
    \A t \in Turns : \A i \in Steps : clips[t][i].from # None => clips[t][i].from >= t

\* An answer that is queued ends: it is spoken to its end, or cut, however its streams
\* fail or end early ("no step is left silent", useTTSPlayback.ts:243-246), and whoever
\* waits behind it goes on.
LinesEnd == \A t \in Turns : line[t] = "queued" ~> line[t] = "over"
===============================================================================

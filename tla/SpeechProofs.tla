----------------------------- MODULE SpeechProofs -----------------------------
(***************************************************************************)
(* Speech for any number of turns, clicks and steps.                       *)
(***************************************************************************)
EXTENDS Speech, FiniteSetTheorems, TLAPS

Lines == {"unborn", "asked", "looking", "queued", "playing", "over"}

(* The turn in charge is the newest: every other one that was born is       *)
(* aborted, so only the newest can ask the tutor.                           *)
NewestInCharge ==
    /\ turns \in Nat /\ current = turns
    /\ \A s \in Turns : s < turns => s \in aborted
    /\ clicks \subseteq 1..turns
    /\ line \in [Turns -> Lines]
    /\ \A t \in Turns : line[t] # "unborn" => t <= turns

(* The token in force is that of the last turn that asked.                  *)
TokenIsLast ==
    /\ token \in Nat /\ asked \subseteq 1..turns
    /\ \A t \in asked : t <= token

(* What is warm was warmed under that token.                                *)
WarmIsCurrent == warm \in Clips /\ (warm.from # None => warm.from = token)

(* A clip is of its line's turn or of a later one, and a step that has yet  *)
(* to be prefetched belongs to a turn that asked.                           *)
FreshLine(t, cs) ==
    /\ cs \in [Steps -> Clips]
    /\ \A i \in Steps : /\ cs[i].from # None => cs[i].from >= t
                        /\ cs[i].net = "unmade" => t \in asked

LinesAreFresh ==
    /\ clips = [t \in Turns |-> clips[t]]
    /\ \A t \in Turns : FreshLine(t, clips[t])

AInv == NewestInCharge /\ TokenIsLast /\ WarmIsCurrent /\ LinesAreFresh

-----------------------------------------------------------------------------
LEMMA Numbers == /\ Turns \subseteq Nat \ {0} /\ Steps \subseteq Nat \ {0}
                 /\ 1 \in Steps /\ None = 0
  BY BoundsAssumption, StepsAssumption DEF Turns, Steps, None

\* The clips a line can be given.
LEMMA ClipsAreTyped ==
  ASSUME NEW t \in Turns
  PROVE  /\ {NoClip, Unmade, Synthesized(t)} \subseteq Clips
         /\ NoClip.from = None /\ NoClip.net # "unmade"
         /\ Unmade.from = None /\ Unmade.net = "unmade"
         /\ Synthesized(t).from = t /\ Synthesized(t).net # "unmade"
  BY DEF NoClip, Unmade, Synthesized, Clips

\* prefetch takes the warm clip only for a step nobody has made, which is of a turn
\* that asked: the token is its own or that of a later one.
LEMMA PrefetchKeeps ==
  ASSUME TokenIsLast, WarmIsCurrent, NEW t \in Turns, NEW cs, FreshLine(t, cs), NEW I
  PROVE  FreshLine(t, Prefetched(cs, t, I))
  <1> SUFFICES ASSUME NEW i \in Steps
               PROVE  /\ Prefetched(cs, t, I)[i] \in Clips
                      /\ Prefetched(cs, t, I)[i].from # None => Prefetched(cs, t, I)[i].from >= t
                      /\ Prefetched(cs, t, I)[i].net = "unmade" => t \in asked
    BY DEF FreshLine, Prefetched
  <1>1. Prefetched(cs, t, I)[i] = cs[i] \/ cs[i] = Unmade
    BY DEF Prefetched
  <1>2. CASE Prefetched(cs, t, I)[i] = cs[i]
    BY <1>2 DEF FreshLine
  <1>3. CASE cs[i] = Unmade
    <2>1. t \in asked /\ t <= token
      BY <1>3, ClipsAreTyped DEF FreshLine, TokenIsLast
    <2>2. Prefetched(cs, t, I)[i] \in {cs[i], warm, Synthesized(t)}
      BY DEF Prefetched
    <2>3. warm \in Clips /\ (warm.from # None => warm.from >= t)
      BY <2>1, Numbers DEF WarmIsCurrent, TokenIsLast
    <2> QED BY <1>2, <2>1, <2>2, <2>3, ClipsAreTyped, Numbers
  <1> QED BY <1>1, <1>2, <1>3

LEMMA TakingKeeps ==
  ASSUME WarmIsCurrent, NEW cs, NEW t \in Turns, NEW I
  PROVE  WarmLeft(cs, t, I) \in Clips
         /\ (WarmLeft(cs, t, I).from # None => WarmLeft(cs, t, I).from = token)
  BY ClipsAreTyped DEF WarmLeft, WarmIsCurrent

Plays == {"idle", "called", "sounding", "ending", "over"}
Nets  == {"none", "unmade", "pending", "audio", "ended", "failed"}

\* Playing a clip, or hearing more of it, leaves its turn alone.
LEMMA PlayingKeeps ==
  ASSUME NEW t \in Turns, NEW cs, FreshLine(t, cs), NEW j, NEW play \in Plays
  PROVE  FreshLine(t, [cs EXCEPT ![j].play = play])
  <1> DEFINE c2 == [cs EXCEPT ![j].play = play]
  <1>1. \A i \in Steps : /\ c2[i] \in Clips
                         /\ c2[i].from = cs[i].from /\ c2[i].net = cs[i].net
    BY DEF FreshLine, Clips, Plays
  <1>2. c2 \in [Steps -> Clips]
    BY <1>1 DEF FreshLine
  <1> QED BY <1>1, <1>2 DEF FreshLine

LEMMA HearingKeeps ==
  ASSUME NEW c \in Clips, NEW net \in Nets
  PROVE  Heard(c, net) \in Clips /\ Heard(c, net).from = c.from /\ Heard(c, net).net = net
  BY DEF Heard, Clips, Nets

LEMMA SilenceKeeps ==
  ASSUME LinesAreFresh, NEW q \in Turns
  PROVE  FreshLine(q, Silenced[q]) /\ FreshLine(q, Paused) /\ FreshLine(q, NoClips)
  BY ClipsAreTyped DEF LinesAreFresh, FreshLine, Silenced, Paused, NoClips

-----------------------------------------------------------------------------
(* Who is in charge.                                                        *)

\* Whatever moves lines on, and starts no turn, leaves the newest in charge.
LEMMA SameTurns ==
  ASSUME NewestInCharge, UNCHANGED <<turns, current, clicks>>, aborted \subseteq aborted',
         line' \in [Turns -> Lines],
         \A t \in Turns : line'[t] # "unborn" => line[t] # "unborn"
  PROVE  NewestInCharge' /\ turns <= turns'
  BY DEF NewestInCharge

LEMMA NewTurnTakesOver ==
  ASSUME NewestInCharge, NEW t \in Turns, NewTurn(t), clicks' \subseteq clicks \cup {t},
         line' \in [Turns -> Lines],
         \A s \in Turns : line'[s] # "unborn" => line[s] # "unborn" \/ s = t
  PROVE  NewestInCharge' /\ turns <= turns'
  <1>1. turns' = turns + 1 /\ current' = turns' /\ aborted' = aborted \cup ({turns} \ {None}) /\ t = turns'
    BY DEF NewTurn, Superseded, NewestInCharge
  <1>2. \A s \in Turns : s < turns' => s \in aborted'
    BY <1>1, Numbers DEF NewestInCharge
  <1> QED BY <1>1, <1>2 DEF NewestInCharge

LEMMA StoppedLines ==
  ASSUME NewestInCharge, NEW t \in Turns, NEW to \in Lines
  PROVE  /\ Stopped \in [Turns -> Lines]
         /\ [Stopped EXCEPT ![t] = to] \in [Turns -> Lines]
         /\ \A s \in Turns : [Stopped EXCEPT ![t] = to][s] # "unborn" => line[s] # "unborn" \/ s = t
  BY DEF NewestInCharge, Stopped, Playing, Lines

LEMMA ChargeStep ==
  ASSUME NewestInCharge, [SpeechNext]_speechVars
  PROVE  NewestInCharge' /\ turns <= turns'
  <1> DEFINE Onward == /\ UNCHANGED <<turns, current, clicks, aborted>>
                       /\ line' \in [Turns -> Lines]
                       /\ \A t \in Turns : line'[t] # "unborn" => line[t] # "unborn"
  <1>0. Onward => NewestInCharge' /\ turns <= turns'
    BY SameTurns
  <1>1. UNCHANGED <<turnVars, line>> => Onward
    BY DEF NewestInCharge, turnVars
  <1>2. ASSUME NEW t \in Turns, AskAloud(t) PROVE NewestInCharge' /\ turns <= turns'
    <2>1. "asked" \in Lines
      BY DEF Lines
    <2> QED BY <1>2, <2>1, NewTurnTakesOver, StoppedLines DEF AskAloud, Ask
  <1>3. ASSUME NEW t \in Turns, Listen(t) PROVE NewestInCharge' /\ turns <= turns'
    <2>1. CASE Click(t)
      BY <2>1, NewTurnTakesOver DEF Click, NewestInCharge, Lines
    <2>2. CASE AckArrives(t)
      BY <1>0, <1>1, <2>2 DEF AckArrives
    <2> QED BY <1>3, <2>1, <2>2 DEF Listen
  <1>4. ASSUME NEW t \in Turns, Look(t) PROVE Onward
    BY <1>4 DEF Look, FillerStarts, turnVars, NewestInCharge, Lines
  <1>5. ASSUME NEW t \in Turns, AnswerSpoken(t) PROVE Onward
    BY <1>5 DEF AnswerSpoken, Answer, turnVars, NewestInCharge, Lines
  <1>6. ASSUME NEW t \in Turns, BeginLine(t) PROVE Onward
    <2>1. UNCHANGED <<turns, current, clicks, aborted>> /\ line[t] = "queued"
      BY <1>6 DEF BeginLine, LineStarts, turnVars
    <2>2. line' = [line EXCEPT ![t] = "over"] \/ line' = [Stopped EXCEPT ![t] = "playing"]
      BY <1>6 DEF BeginLine, LineStarts
    <2>3. line' \in [Turns -> Lines] /\ \A s \in Turns : line'[s] # "unborn" => line[s] # "unborn" \/ s = t
      BY <2>2, StoppedLines DEF NewestInCharge, Lines
    <2> QED BY <2>1, <2>3
  <1>7. ASSUME NEW t \in Turns, EndLine(t) PROVE Onward
    BY <1>7 DEF EndLine, LineEnds, turnVars, NewestInCharge, Lines
  <1>8. ASSUME NEW t \in Turns, Sounds(t) \/ FallsBack(t) PROVE UNCHANGED <<turnVars, line>>
    BY <1>8 DEF Sounds, FallsBack, StartStep, Points, vars
  <1>9. ASSUME NEW t \in Turns, AskAfterClick(t) \/ EarlyStep(t) \/ ClipEnds(t) \/ NextStep(t)
                                \/ \E i \in Steps : Stream(t, i)
        PROVE  UNCHANGED <<turnVars, line>>
    BY <1>9 DEF AskAfterClick, EarlyStep, ClipEnds, NextStep, Stream, vars
  <1>10. ASSUME NEW t \in Turns, Resume(t) PROVE UNCHANGED <<turnVars, line>>
    BY <1>10 DEF Resume, AckOver
  <1>11. ASSUME FillerOver \/ WarmStream \/ UNCHANGED speechVars PROVE UNCHANGED <<turnVars, line>>
    BY <1>11 DEF FillerOver, FillerEnds, WarmStream, speechVars, vars
  <1> QED
    BY <1>0, <1>1, <1>2, <1>3, <1>4, <1>5, <1>6, <1>7, <1>8, <1>9, <1>10, <1>11
       DEF SpeechNext, Loop

-----------------------------------------------------------------------------
(* What is warm, and what the lines hold.                                   *)

\* A line is given clips of its own, the others keep theirs.
LEMMA OneLineMoves ==
  ASSUME LinesAreFresh, NEW t \in Turns, NEW cs, clips' = [clips EXCEPT ![t] = cs],
         asked \subseteq asked', FreshLine(t, cs)
  PROVE  LinesAreFresh'
  <1>1. \A q \in Turns : clips'[q] = IF q = t THEN cs ELSE clips[q]
    BY DEF LinesAreFresh
  <1>2. \A q \in Turns : FreshLine(q, clips'[q])
    BY <1>1 DEF LinesAreFresh
  <1> QED BY <1>2 DEF LinesAreFresh, FreshLine

LEMMA TokenStays ==
  ASSUME NewestInCharge, NewestInCharge', turns <= turns', TokenIsLast, UNCHANGED <<token, asked>>
  PROVE  TokenIsLast'
  BY DEF TokenIsLast, NewestInCharge

ClipInv == TokenIsLast /\ WarmIsCurrent /\ LinesAreFresh

\* A step that leaves token and questions as they were has only its clips to account for.
LEMMA ClipsMove ==
  ASSUME NewestInCharge, NewestInCharge', turns <= turns', ClipInv, UNCHANGED <<token, asked>>,
         UNCHANGED warm \/ warm' = NoClip,
         UNCHANGED clips \/ LinesAreFresh'
  PROVE  ClipInv'
  <1>1. TokenIsLast'
    BY TokenStays DEF ClipInv
  <1>2. NoClip \in Clips /\ NoClip.from = None
    BY DEF NoClip, Clips
  <1>3. WarmIsCurrent'
    BY <1>2 DEF ClipInv, WarmIsCurrent
  <1>4. LinesAreFresh'
    BY DEF ClipInv, LinesAreFresh, FreshLine
  <1> QED BY <1>1, <1>3, <1>4 DEF ClipInv

\* Only the newest turn can ask the tutor, and the warm clip goes.
LEMMA AskingKeeps ==
  ASSUME NewestInCharge, NewestInCharge', turns <= turns', ClipInv, NEW t \in Turns,
         BeginTutor(t), t \notin aborted, t <= turns
  PROVE  ClipInv'
  <1>1. token' = t /\ warm' = NoClip /\ asked' = asked \cup {t} /\ UNCHANGED clips
    BY DEF BeginTutor, Token
  <1>2. t = turns
    BY Numbers DEF NewestInCharge
  <1>3. TokenIsLast'
    BY <1>1, <1>2, Numbers DEF ClipInv, TokenIsLast, NewestInCharge
  <1>4. WarmIsCurrent'
    BY <1>1, ClipsAreTyped DEF WarmIsCurrent
  <1>5. LinesAreFresh'
    BY <1>1 DEF ClipInv, LinesAreFresh, FreshLine
  <1> QED BY <1>3, <1>4, <1>5 DEF ClipInv

LEMMA NewClipsAreFresh ==
  ASSUME TokenIsLast, WarmIsCurrent, NEW t \in Turns, t \in asked, NEW n
  PROVE  FreshLine(t, Spoken(t, n))
  <1>1. FreshLine(t, [NoClips EXCEPT ![1] = Synthesized(t)])
    BY ClipsAreTyped, Numbers DEF FreshLine, NoClips
  <1> DEFINE blank == [i \in Steps |-> IF i <= n THEN Unmade ELSE NoClip]
  <1>2. FreshLine(t, blank)
    BY ClipsAreTyped DEF FreshLine
  <1>3. FreshLine(t, Prefetched(blank, t, {1, 2}))
    BY <1>2, PrefetchKeeps
  <1> QED BY <1>1, <1>3 DEF Spoken

LEMMA AnswerKeeps ==
  ASSUME NewestInCharge, NewestInCharge', turns <= turns', ClipInv, NEW t \in Turns, AnswerSpoken(t)
  PROVE  ClipInv'
  <1>0. UNCHANGED <<token, asked>>
    BY DEF AnswerSpoken
  <1>1. CASE TutorAnswers(t)
    <2>1. PICK n \in Outcomes(t) : clips' = [clips EXCEPT ![t] = Spoken(t, n)]
      BY <1>1 DEF TutorAnswers
    <2>2. t \in asked /\ warm' = NoClip
      BY <1>1 DEF TutorAnswers
    <2>3. LinesAreFresh'
      BY <1>0, <2>1, <2>2, NewClipsAreFresh, OneLineMoves DEF ClipInv
    <2> QED BY <1>0, <2>2, <2>3, ClipsMove
  <1>2. CASE GateAnswers(t)
    <2> DEFINE cs == [clips[t] EXCEPT ![1] = Synthesized(t)]
    <2>1. clips' = [clips EXCEPT ![t] = cs] /\ UNCHANGED warm
      BY <1>2 DEF GateAnswers
    <2>2. FreshLine(t, cs)
      BY ClipsAreTyped, Numbers DEF ClipInv, LinesAreFresh, FreshLine
    <2> HIDE DEF cs
    <2>3. LinesAreFresh'
      BY <1>0, <2>1, <2>2, OneLineMoves DEF ClipInv
    <2> QED BY <1>0, <2>1, <2>3, ClipsMove
  <1>3. CASE AnswerDropped(t)
    <2>1. UNCHANGED clips /\ (UNCHANGED warm \/ warm' = NoClip)
      BY <1>3 DEF AnswerDropped, Discarded
    <2> QED BY <1>0, <2>1, ClipsMove
  <1> QED BY <1>1, <1>2, <1>3 DEF AnswerSpoken

\* A stream of a line's clip, or of the warm one, delivers.
LEMMA StreamKeeps ==
  ASSUME NewestInCharge, NewestInCharge', turns <= turns', ClipInv,
         WarmStream \/ \E t \in Turns, i \in Steps : Stream(t, i)
  PROVE  ClipInv'
  <1>0. \A s \in NetSteps : s[2] \in Nets \ {"unmade"}
    BY DEF NetSteps, Nets
  <1>1. CASE WarmStream
    <2>1. PICK s \in NetSteps : warm' = Heard(warm, s[2])
      BY <1>1 DEF WarmStream
    <2>2. WarmIsCurrent'
      BY <1>0, <1>1, <2>1, HearingKeeps DEF WarmStream, ClipInv, WarmIsCurrent
    <2>3. UNCHANGED <<clips, token, asked>>
      BY <1>1 DEF WarmStream
    <2> QED BY <2>2, <2>3, TokenStays DEF ClipInv, LinesAreFresh, FreshLine
  <1>2. ASSUME NEW t \in Turns, NEW i \in Steps, Stream(t, i) PROVE ClipInv'
    <2>1. PICK s \in NetSteps : clips' = [clips EXCEPT ![t][i] = Heard(clips[t][i], s[2])]
      BY <1>2 DEF Stream
    <2> DEFINE cs == [clips[t] EXCEPT ![i] = Heard(clips[t][i], s[2])]
    <2>2. clips' = [clips EXCEPT ![t] = cs]
      BY <2>1 DEF ClipInv, LinesAreFresh
    <2>3. FreshLine(t, clips[t]) /\ clips[t][i] \in Clips
      BY DEF ClipInv, LinesAreFresh, FreshLine
    <2>4. FreshLine(t, cs)
      BY <1>0, <2>3, HearingKeeps DEF FreshLine
    <2> HIDE DEF cs
    <2>5. UNCHANGED <<warm, token, asked>>
      BY <1>2 DEF Stream
    <2>6. LinesAreFresh'
      BY <2>2, <2>4, <2>5, OneLineMoves DEF ClipInv
    <2> QED BY <2>5, <2>6, ClipsMove
  <1> QED BY <1>1, <1>2

\* The loop of a line: its start, its clips one after another, its end.
LEMMA LoopKeeps ==
  ASSUME NewestInCharge, NewestInCharge', turns <= turns', ClipInv, NEW t \in Turns,
         BeginLine(t) \/ Sounds(t) \/ FallsBack(t) \/ ClipEnds(t) \/ NextStep(t) \/ EndLine(t)
  PROVE  ClipInv'
  <1>0. UNCHANGED <<token, asked>>
    BY DEF BeginLine, Sounds, FallsBack, StartStep, ClipEnds, NextStep, EndLine
  <1>1. FreshLine(t, clips[t])
    BY DEF ClipInv, LinesAreFresh
  <1>2. CASE BeginLine(t)
    <2>1. CASE line'[t] = "over"
      <3>1. clips' = [clips EXCEPT ![t] = Paused] /\ UNCHANGED warm
        BY <1>2, <2>1 DEF BeginLine
      <3>2. LinesAreFresh'
        BY <1>0, <3>1, SilenceKeeps, OneLineMoves DEF ClipInv
      <3> QED BY <1>0, <3>1, <3>2, ClipsMove
    <2>2. CASE line'[t] # "over"
      <3> DEFINE mine == Play(clips[t], 1)
      <3>1. clips' = [Silenced EXCEPT ![t] = mine] /\ warm' = NoClip
        BY <1>2, <2>2 DEF BeginLine
      <3>2. FreshLine(t, mine)
        BY <1>1, PlayingKeeps DEF Play, Plays
      <3> HIDE DEF mine
      <3>3. \A q \in Turns : clips'[q] = IF q = t THEN mine ELSE Silenced[q]
        BY <3>1 DEF Silenced
      <3>4. \A q \in Turns : FreshLine(q, clips'[q])
        BY <3>2, <3>3, SilenceKeeps DEF ClipInv
      <3>5. clips' = [q \in Turns |-> clips'[q]]
        BY <3>1 DEF Silenced
      <3>6. LinesAreFresh'
        BY <1>0, <3>4, <3>5 DEF LinesAreFresh, FreshLine
      <3> QED BY <1>0, <3>1, <3>6, ClipsMove
    <2> QED BY <2>1, <2>2
  <1>3. ASSUME NEW play \in Plays, StartStep(t, play) PROVE ClipInv'
    <2> DEFINE ahead == {step(t) + 1, step(t) + 2}
               cs == [Prefetched(clips[t], t, ahead) EXCEPT ![step(t)].play = play]
    <2>1. clips' = [clips EXCEPT ![t] = cs] /\ warm' = WarmLeft(clips[t], t, ahead)
      BY <1>3 DEF StartStep
    <2>2. FreshLine(t, cs)
      BY <1>1, PrefetchKeeps, PlayingKeeps DEF ClipInv
    <2>3. WarmIsCurrent'
      BY <1>0, <2>1, TakingKeeps DEF ClipInv, WarmIsCurrent
    <2> HIDE DEF cs
    <2>4. LinesAreFresh'
      BY <1>0, <2>1, <2>2, OneLineMoves DEF ClipInv
    <2> QED BY <1>0, <2>3, <2>4, TokenStays DEF ClipInv
  <1>4. CASE Sounds(t) \/ FallsBack(t)
    BY <1>3, <1>4 DEF Sounds, FallsBack, PlayedFrom, Plays
  <1>5. CASE ClipEnds(t)
    <2> DEFINE cs == [clips[t] EXCEPT ![step(t)].play = "over"]
    <2>1. clips' = [clips EXCEPT ![t] = cs] /\ UNCHANGED warm
      BY <1>5 DEF ClipEnds, ClipInv, LinesAreFresh
    <2>2. FreshLine(t, cs)
      BY <1>1, PlayingKeeps DEF Plays
    <2> HIDE DEF cs
    <2>3. LinesAreFresh'
      BY <1>0, <2>1, <2>2, OneLineMoves DEF ClipInv
    <2> QED BY <1>0, <2>1, <2>3, ClipsMove
  <1>6. CASE NextStep(t)
    <2> DEFINE i  == step(t) + 1
               cs == Play(Prefetched(clips[t], t, {i}), i)
    <2>1. clips' = [clips EXCEPT ![t] = cs] /\ warm' = WarmLeft(clips[t], t, {i})
      BY <1>6 DEF NextStep
    <2>2. FreshLine(t, cs)
      BY <1>1, PrefetchKeeps, PlayingKeeps DEF ClipInv, Play, Plays
    <2>3. WarmIsCurrent'
      BY <1>0, <2>1, TakingKeeps DEF ClipInv, WarmIsCurrent
    <2> HIDE DEF cs
    <2>4. LinesAreFresh'
      BY <1>0, <2>1, <2>2, OneLineMoves DEF ClipInv
    <2> QED BY <1>0, <2>3, <2>4, TokenStays DEF ClipInv
  <1>7. CASE EndLine(t)
    <2>1. clips' = [clips EXCEPT ![t] = NoClips] /\ UNCHANGED warm
      BY <1>7 DEF EndLine
    <2>2. LinesAreFresh'
      BY <1>0, <2>1, SilenceKeeps, OneLineMoves DEF ClipInv
    <2> QED BY <1>0, <2>1, <2>2, ClipsMove
  <1> QED BY <1>2, <1>4, <1>5, <1>6, <1>7

-----------------------------------------------------------------------------
(* Nobody has spoken yet, and nothing is warm.                              *)
THEOREM SpeechBegins == SpeechInit => AInv
  <1> SUFFICES ASSUME SpeechInit PROVE AInv
    OBVIOUS
  <1>1. NewestInCharge
    BY Numbers DEF SpeechInit, Init, NewestInCharge, Lines
  <1>2. TokenIsLast
    BY Numbers DEF SpeechInit, TokenIsLast
  <1>3. WarmIsCurrent /\ LinesAreFresh
    BY ClipsAreTyped DEF SpeechInit, WarmIsCurrent, LinesAreFresh, FreshLine, NoClips, NoClip, Clips
  <1> QED BY <1>1, <1>2, <1>3 DEF AInv

(* Every step keeps the newest turn in charge and its clips its own.        *)
THEOREM SpeechSteps == AInv /\ [SpeechNext]_speechVars => AInv'
  <1> SUFFICES ASSUME AInv, [SpeechNext]_speechVars PROVE AInv'
    OBVIOUS
  <1>0. NewestInCharge /\ NewestInCharge' /\ turns <= turns' /\ ClipInv
    BY ChargeStep DEF AInv, ClipInv
  <1>1. ASSUME NEW t \in Turns, AskAloud(t) PROVE ClipInv'
    <2>1. clips' = Silenced /\ warm' = NoClip /\ UNCHANGED <<token, asked>>
      BY <1>1 DEF AskAloud
    <2>2. LinesAreFresh'
      <3>1. \A q \in Turns : FreshLine(q, Silenced[q])
        BY <1>0, SilenceKeeps DEF ClipInv
      <3> QED BY <2>1, <3>1 DEF LinesAreFresh, FreshLine, Silenced
    <2> QED BY <1>0, <2>1, <2>2, ClipsMove
  <1>2. ASSUME UNCHANGED <<clips, warm, token, asked>> PROVE ClipInv'
    BY <1>0, <1>2, ClipsMove
  <1>3. ASSUME NEW t \in Turns, Look(t) \/ AskAfterClick(t) PROVE ClipInv'
    <2>1. BeginTutor(t) /\ t \notin aborted
      BY <1>3 DEF Look, FillerStarts, AskAfterClick
    <2>2. t <= turns
      BY <1>0, <1>3, Numbers DEF Look, FillerStarts, AskAfterClick, NewestInCharge
    <2> QED BY <1>0, <2>1, <2>2, AskingKeeps
  <1>4. ASSUME NEW t \in Turns, EarlyStep(t) PROVE ClipInv'
    <2>1. UNCHANGED <<clips, token, asked>>
          /\ warm' = IF Token(t) = token THEN Synthesized(t) ELSE warm
      BY <1>4 DEF EarlyStep, SetPrewarmedClip
    <2>2. WarmIsCurrent'
      BY <1>0, <2>1, ClipsAreTyped DEF ClipInv, WarmIsCurrent, Token
    <2> QED BY <1>0, <2>1, <2>2, TokenStays DEF ClipInv, LinesAreFresh, FreshLine
  <1>5. ASSUME NEW t \in Turns, Loop(t) PROVE ClipInv'
    BY <1>0, <1>5, LoopKeeps, StreamKeeps DEF Loop
  <1>6. ASSUME FillerOver \/ UNCHANGED speechVars PROVE UNCHANGED <<clips, warm, token, asked>>
    BY <1>6 DEF FillerOver, speechVars, clipVars
  <1>7. ASSUME NEW t \in Turns, Listen(t) \/ Resume(t) PROVE UNCHANGED <<clips, warm, token, asked>>
    BY <1>7 DEF Listen, Resume, clipVars
  <1>8. ClipInv'
    BY <1>0, <1>1, <1>2, <1>3, <1>4, <1>5, <1>6, <1>7, AnswerKeeps, StreamKeeps DEF SpeechNext
  <1> QED BY <1>0, <1>8 DEF AInv, ClipInv

(* However turns, clicks, streams and late announcements interleave, no     *)
(* line holds a clip that was synthesized for an earlier turn.              *)
THEOREM NoOldClipIsHeld == SpeechSpec => []NoOldAudio
  <1>1. AInv => NoOldAudio
    BY DEF AInv, LinesAreFresh, FreshLine, NoOldAudio
  <1> QED BY SpeechBegins, SpeechSteps, <1>1, PTL DEF SpeechSpec

-----------------------------------------------------------------------------
(***************************************************************************)
(* Who speaks when: the queue of lines.                                    *)
(***************************************************************************)
(* A line that is queued is the newest turn's, or knows that it is stale;   *)
(* and a pointer waits for a click only once the newest line is spoken.     *)
QueueInv ==
    /\ turns \in 0..MaxTurns /\ aborted \subseteq 1..turns /\ turns \notin aborted
    /\ \A t \in Turns : line[t] = "queued" /\ t # turns => t \in stale
    /\ pointer # None => pointer = turns /\ line[turns] \in {"playing", "over"}

Acks == {"none", "asked", "waiting", "speaking", "over"}

(* What a turn has left behind is named after a turn that was born.         *)
NamesAreOld ==
    /\ ack \in [Turns -> Acks] /\ behind \in [Turns -> Nat] /\ awaits \in [Turns -> Nat]
    /\ {filler, gate, opener, done, ender} \subseteq 0..turns
    /\ opened \subseteq 0..turns /\ resolved \subseteq 0..turns
    /\ stale \subseteq 1..turns /\ turns \notin stale
    /\ \A t \in Turns : ack[t] # "none" => t \in clicks
    /\ None \in opened /\ gate \in opened \cup {opener}

(* Lines speak one at a time, and no filler over them.                      *)
OneSpeaks ==
    /\ \A p, q \in Playing : p = q
    /\ Playing # {} => filler = None
    /\ \A p \in Playing : p = turns \/ turns \in clicks
    /\ Acking \subseteq {turns}

(* A superseded line is queued only until it notices, and meanwhile all is  *)
(* silent: the newest turn was asked aloud and has done nothing yet.        *)
StaleAreNoticed ==
    \A q \in Turns : line[q] = "queued" /\ q # turns =>
        behind[q] \in opened /\ turns \notin clicks /\ line[turns] = "asked"

(* The newest turn, by what its line waits for.                             *)
AskedAloud == Silent /\ opener = None /\ turns \notin opened

Looking == /\ turns \notin clicks /\ Playing = {} /\ Acking = {}
           /\ gate = turns /\ (turns \in opened => filler = None)

QueuedAloud == /\ Playing = {} /\ Acking = {}
               /\ filler # None => behind[turns] = turns /\ turns \notin opened

\* A click-turn's line speaks after the one it was clicked through; should that one
\* count as ended while it speaks, it is itself a click-turn's.
Clicked(named) ==
    /\ filler = None /\ named = turns
    /\ ack[turns] \in {"asked", "waiting", "speaking"} => turns \notin opened
    /\ ack[turns] = "speaking" => SpeechEnded(turns)
    /\ Playing \subseteq {awaits[turns]}
    /\ turns \in opened /\ Playing # {} => SpeechEnded(turns)
    /\ SpeechEnded(turns) /\ Playing # {} => awaits[turns] \in clicks

NewestWaits ==
    turns # 0 =>
    /\ line[turns] # "unborn"
    /\ line[turns] = "asked" =>
         IF turns \in clicks THEN Clicked(gate) ELSE AskedAloud
    /\ line[turns] = "looking" => Looking
    /\ line[turns] = "queued" =>
         /\ behind[turns] \in opened \cup {opener} /\ ack[turns] # "asked"
         /\ IF turns \in clicks THEN Clicked(behind[turns]) ELSE QueuedAloud
    /\ line[turns] \in {"playing", "over"} =>
         filler = None /\ Acking = {} /\ ack[turns] # "asked" /\ Playing \subseteq {turns}
    /\ line[turns] = "over" => Playing = {}

(* The promise in force is the newest line's own; that of a turn by voice   *)
(* is kept by its line alone.                                               *)
PromiseIsOwn ==
    turns # 0 =>
    /\ line[turns] \in {"asked", "looking"} => turns \notin resolved /\ ender # turns
    /\ line[turns] \in {"queued", "playing"} =>
         done = turns /\ (turns \notin clicks => ender = turns /\ turns \notin resolved)

CutInv == /\ NamesAreOld /\ OneSpeaks /\ StaleAreNoticed /\ NewestWaits /\ PromiseIsOwn

\* What Speech adds leaves Narration to its own actions.
NarrationMoves ==
    \/ \E t \in Turns : \/ Ask(t) \/ FillerStarts(t) \/ Click(t) \/ AckArrives(t) \/ AckOver(t)
                        \/ Answer(t) \/ LineStarts(t) \/ Points(t) \/ LineEnds(t)
    \/ FillerEnds \/ UNCHANGED vars

LEMMA SpeechRefinesNarration == [SpeechNext]_speechVars => NarrationMoves
  <1> SUFFICES ASSUME [SpeechNext]_speechVars PROVE NarrationMoves
    OBVIOUS
  <1>1. CASE UNCHANGED speechVars \/ FillerOver \/ WarmStream
    BY <1>1 DEF speechVars, FillerOver, WarmStream, NarrationMoves
  <1>2. ASSUME NEW t \in Turns, AskAloud(t) \/ Listen(t) \/ Look(t) \/ AskAfterClick(t)
                                \/ EarlyStep(t) \/ AnswerSpoken(t) \/ Resume(t)
        PROVE  NarrationMoves
    BY <1>2 DEF AskAloud, Listen, Look, AskAfterClick, EarlyStep, AnswerSpoken, Resume, NarrationMoves
  <1>3. ASSUME NEW t \in Turns, Loop(t) PROVE NarrationMoves
    BY <1>3 DEF Loop, BeginLine, Sounds, FallsBack, StartStep, ClipEnds, NextStep, EndLine, Stream,
                NarrationMoves
  <1> QED BY <1>1, <1>2, <1>3 DEF SpeechNext

\* A line starts only from the queue, and a stale one does not start.
LEMMA QueueStep ==
  ASSUME NewestInCharge, QueueInv, [SpeechNext]_speechVars
  PROVE  /\ QueueInv'
         /\ \A t \in aborted : line'[t] = "playing" => line[t] = "playing"
  <1> DEFINE Quiet == \A t \in aborted : line'[t] = "playing" => line[t] = "playing"
  <1>0. /\ turns \in Nat /\ current = turns /\ line \in [Turns -> Lines] /\ MaxTurns \in Nat
        /\ Turns = 1..MaxTurns /\ None = 0 /\ aborted \subseteq Turns
        /\ \A t \in Turns : t < turns => t \in aborted
        /\ \A t \in Turns : line[t] # "unborn" => t <= turns
        /\ \A t \in Turns : t \notin aborted /\ line[t] # "unborn" => t = turns
    BY BoundsAssumption DEF NewestInCharge, QueueInv, Turns, None
  <1>1. ASSUME NEW t \in Turns, NewTurn(t), pointer' = None,
               stale \subseteq stale',
               \A q \in Turns \ {t} : /\ line'[q] = "playing" => line[q] = "playing"
                                      /\ line'[q] = "queued" => line[q] = "queued"
                                      /\ line'[q] = "queued" /\ q = turns => q \in stale'
        PROVE  QueueInv' /\ Quiet
    <2>1. turns' = t /\ t = turns + 1 /\ aborted' = aborted \cup ({turns} \ {0})
      BY <1>0, <1>1 DEF NewTurn, Superseded
    <2>2. turns' \in 0..MaxTurns /\ aborted' \subseteq 1..turns' /\ turns' \notin aborted' /\ t \notin aborted
      BY <1>0, <2>1 DEF QueueInv
    <2>3. Quiet
      BY <1>0, <1>1, <2>2
    <2>4. \A q \in Turns : line'[q] = "queued" /\ q # turns' => q \in stale'
      BY <1>1, <2>1 DEF QueueInv
    <2> QED BY <1>0, <1>1, <2>2, <2>3, <2>4 DEF QueueInv
  <1>2. ASSUME UNCHANGED <<turns, aborted>>, stale \subseteq stale',
               \A q \in Turns : /\ line'[q] = "queued" /\ q # turns => line[q] = "queued"
                                /\ line'[q] = "playing" /\ q \in aborted => line[q] = "playing",
               pointer' # None => /\ pointer' = turns /\ line'[turns] \in {"playing", "over"}
        PROVE  QueueInv' /\ Quiet
    <2>1. Quiet
      BY <1>0, <1>2
    <2>2. QueueInv'
      BY <1>2 DEF QueueInv
    <2> QED BY <2>1, <2>2
  <1>3. ASSUME UNCHANGED <<turns, aborted, line, pointer>>, stale \subseteq stale'
        PROVE  QueueInv' /\ Quiet
    BY <1>2, <1>3 DEF QueueInv
  <1>4. ASSUME NEW t \in Turns, Ask(t) PROVE QueueInv' /\ Quiet
    <2>1. /\ NewTurn(t) /\ pointer' = None
          /\ stale' = stale \cup {q \in Turns \ {t} : line[q] = "queued"}
      BY <1>4 DEF Ask, StopAnswerPlayback, SupersededLines
    <2>2. \A q \in Turns \ {t} : line'[q] = IF q \in Playing THEN "over" ELSE line[q]
      BY <1>4 DEF Ask, Stopped
    <2> QED BY <1>1, <2>1, <2>2
  <1>5. ASSUME NEW t \in Turns, Click(t) PROVE QueueInv' /\ Quiet
    <2>1. NewTurn(t) /\ pointer' = None /\ UNCHANGED stale /\ pointer # None
      BY <1>5 DEF Click
    <2>2. \A q \in Turns \ {t} : line'[q] = line[q]
      BY <1>0, <1>5 DEF Click
    <2>3. line[turns] # "queued"
      BY <2>1 DEF QueueInv
    <2> QED BY <1>1, <2>1, <2>2, <2>3
  <1>6. ASSUME NEW t \in Turns, FillerStarts(t) \/ Answer(t) \/ LineEnds(t) PROVE QueueInv' /\ Quiet
    <2>1. UNCHANGED <<turns, aborted, pointer, stale>>
      BY <1>6 DEF FillerStarts, Answer, LineEnds, turnVars
    <2>2. /\ \E to \in {"looking", "queued", "over"} : line' = [line EXCEPT ![t] = to]
          /\ line'[t] = "queued" => t \notin aborted /\ line[t] # "unborn"
          /\ line[t] \in {"playing", "over"} => line'[t] = "over"
      BY <1>0, <1>6 DEF FillerStarts, Answer, LineEnds
    <2>3. \A q \in Turns : /\ line'[q] = "queued" /\ q # turns => line[q] = "queued"
                           /\ line'[q] = "playing" => line[q] = "playing"
      BY <1>0, <2>2
    <2>4. pointer # None => line'[turns] \in {"playing", "over"}
      <3>1. ASSUME pointer # None PROVE line'[turns] \in {"playing", "over"}
        <4>1. line[turns] \in {"playing", "over"} /\ turns \in Turns
          BY <1>0, <3>1 DEF QueueInv
        <4> QED BY <1>0, <2>2, <4>1
      <3> QED BY <3>1
    <2> QED BY <1>2, <2>1, <2>3, <2>4 DEF QueueInv
  <1>7. ASSUME NEW t \in Turns, LineStarts(t) PROVE QueueInv' /\ Quiet
    <2>1. UNCHANGED <<turns, aborted, pointer>> /\ line[t] = "queued" /\ stale \subseteq stale'
      BY <1>7 DEF LineStarts, turnVars, StopAnswerPlayback
    <2>2. \/ line' = [line EXCEPT ![t] = "over"]
          \/ t \notin stale /\ line' = [Stopped EXCEPT ![t] = "playing"]
      BY <1>7 DEF LineStarts
    <2>3. t \notin stale => t = turns
      BY <2>1 DEF QueueInv
    <2>4. \A q \in Turns \ {t} : line'[q] \in {line[q], "over"}
      BY <1>0, <2>2 DEF Stopped
    <2>5. line'[t] = "over" \/ (line'[t] = "playing" /\ t = turns)
      BY <1>0, <2>2, <2>3 DEF Stopped
    <2>6. \A q \in Turns : /\ line'[q] = "queued" => line[q] = "queued"
                           /\ line'[q] = "playing" /\ q \in aborted => line[q] = "playing"
      BY <2>4, <2>5 DEF QueueInv
    <2>7. pointer # None => line'[turns] \in {"playing", "over"}
      <3>1. ASSUME pointer # None PROVE line'[turns] \in {"playing", "over"}
        <4>1. line[turns] \in {"playing", "over"} /\ turns \in Turns
          BY <1>0, <3>1 DEF QueueInv
        <4> QED BY <2>1, <2>4, <4>1
      <3> QED BY <3>1
    <2> QED BY <1>2, <2>1, <2>6, <2>7 DEF QueueInv
  <1>8. ASSUME NEW t \in Turns, Points(t) PROVE QueueInv' /\ Quiet
    <2>1. UNCHANGED <<turns, aborted, line, stale>> /\ line[t] = "playing"
          /\ pointer' = IF t \in aborted THEN pointer ELSE t
      BY <1>8 DEF Points, turnVars
    <2> QED BY <1>0, <1>2, <2>1 DEF QueueInv
  <1>9. ASSUME NEW t \in Turns, AckArrives(t) \/ AckOver(t) PROVE QueueInv' /\ Quiet
    BY <1>3, <1>9 DEF AckArrives, AckOver, turnVars
  <1>10. ASSUME FillerEnds \/ UNCHANGED vars PROVE QueueInv' /\ Quiet
    BY <1>3, <1>10 DEF FillerEnds, turnVars, vars
  <1> QED
    BY <1>4, <1>5, <1>6, <1>7, <1>8, <1>9, <1>10, SpeechRefinesNarration DEF NarrationMoves

(* The line of a superseded turn never starts, though nothing takes it out  *)
(* of the queue: it is stale before the promise it waits for can resolve.   *)
THEOREM StaleLinesStaySilent == SpeechSpec => StaleNeverSpeaks
  <1> DEFINE A == \A t \in aborted : line'[t] = "playing" => line[t] = "playing"
  <1>1. SpeechInit => QueueInv
    BY BoundsAssumption DEF SpeechInit, Init, QueueInv, None
  <1>2. AInv /\ QueueInv /\ [SpeechNext]_speechVars => QueueInv' /\ [A]_vars
    BY QueueStep DEF AInv
  <1> QED BY SpeechBegins, SpeechSteps, <1>1, <1>2, PTL DEF SpeechSpec, StaleNeverSpeaks

-----------------------------------------------------------------------------
(* Nothing is cut but a line that counts as ended.                          *)

CutAll == NewestInCharge /\ QueueInv /\ CutInv

LEMMA CutFacts ==
  ASSUME CutAll
  PROVE  /\ turns \in Nat /\ current = turns /\ MaxTurns \in Nat /\ turns <= MaxTurns
         /\ Turns = 1..MaxTurns /\ None = 0
         /\ line \in [Turns -> Lines] /\ clicks \subseteq 1..turns
         /\ \A t \in Turns : line[t] # "unborn" => t <= turns
         /\ \A t \in Turns : t \notin aborted /\ (line[t] # "unborn" \/ t \in clicks) => t = turns
         /\ NamesAreOld /\ OneSpeaks /\ StaleAreNoticed /\ NewestWaits /\ PromiseIsOwn
         /\ turns \notin aborted
         /\ Playing \subseteq Turns /\ Acking \subseteq Turns /\ Acking \subseteq clicks
         /\ turns # 0 => turns \in Turns
  <1>1. /\ turns \in Nat /\ current = turns /\ MaxTurns \in Nat /\ turns <= MaxTurns
        /\ Turns = 1..MaxTurns /\ None = 0 /\ clicks \subseteq 1..turns
        /\ turns # 0 => turns \in Turns
    BY BoundsAssumption DEF CutAll, NewestInCharge, QueueInv, Turns, None
  <1>2. /\ line \in [Turns -> Lines]
        /\ \A t \in Turns : line[t] # "unborn" => t <= turns
        /\ \A t \in Turns : t < turns => t \in aborted
        /\ NamesAreOld /\ OneSpeaks /\ StaleAreNoticed /\ NewestWaits /\ PromiseIsOwn
        /\ turns \notin aborted
    BY DEF CutAll, NewestInCharge, QueueInv, CutInv
  <1>3. \A t \in Turns : t \notin aborted /\ (line[t] # "unborn" \/ t \in clicks) => t = turns
    BY <1>1, <1>2
  <1>4. Playing \subseteq Turns /\ Acking \subseteq Turns /\ Acking \subseteq clicks
    BY <1>2 DEF Playing, Acking, NamesAreOld
  <1> QED BY <1>1, <1>2, <1>3, <1>4

LEMMA SettledQueue ==
  ASSUME CutAll, Settled
  PROVE  \A q \in Turns : line[q] = "queued" => q = turns
  BY CutFacts DEF Settled, StaleAreNoticed

\* A turn by voice silences everything.
LEMMA AskCuts ==
  ASSUME CutAll, NEW t \in Turns, Ask(t)
  PROVE  CutInv'
  <1>0. Settled /\ turns' = t /\ t = turns + 1 /\ turns \in Nat
    BY CutFacts DEF Ask, NewTurn
  <1>1. /\ UNCHANGED <<clicks, behind, gate, done, awaits>>
        /\ filler' = None /\ opener' = None
        /\ opened' = opened \cup {opener} \cup (Acking \ Superseded)
        /\ stale' = stale \cup {q \in Turns \ {t} : line[q] = "queued"}
        /\ ack' = [q \in Turns |-> IF q \in Acking THEN "over" ELSE ack[q]]
    BY DEF Ask, StopAnswerPlayback, SupersededLines
  <1>2. \/ UNCHANGED <<ender, resolved>>
        \/ resolved' = resolved \cup {ender} /\ ender' = None
    BY DEF Ask, StopAnswerPlayback, EndNarration
  <1>3. \A q \in Turns : line'[q] = IF q = t THEN "asked" ELSE IF q \in Playing THEN "over" ELSE line[q]
    BY DEF Ask, Stopped
  <1>4. Playing' = {} /\ Acking' = {}
    BY <1>1, <1>3 DEF Playing, Acking
  <1>5. opened' \subseteq 0..turns /\ clicks \subseteq 1..turns /\ resolved' \subseteq 0..turns
        /\ ender' \in 0..turns
    BY <1>0, <1>1, <1>2, CutFacts, SMTT(30) DEF NamesAreOld
  <1>6. NamesAreOld'
    <2>1. ack' \in [Turns -> Acks] /\ \A q \in Turns : ack'[q] # "none" => q \in clicks'
      BY <1>1, CutFacts DEF NamesAreOld, Acks, Acking
    <2>2. {filler, gate, opener, done, ender}' \subseteq 0..turns'
      BY <1>0, <1>1, <1>5, CutFacts DEF NamesAreOld
    <2>3. stale' \subseteq 1..turns' /\ turns' \notin stale'
      BY <1>0, <1>1, CutFacts, SMTT(30) DEF NamesAreOld
    <2>4. None \in opened' /\ gate' \in opened' \cup {opener'}
      BY <1>1, CutFacts DEF NamesAreOld
    <2>5. opened' \subseteq 0..turns' /\ resolved' \subseteq 0..turns'
      BY <1>0, <1>5
    <2>6. behind' \in [Turns -> Nat] /\ awaits' \in [Turns -> Nat]
      BY <1>1, CutFacts DEF NamesAreOld
    <2> QED BY <2>1, <2>2, <2>3, <2>4, <2>5, <2>6 DEF NamesAreOld
  <1>7. OneSpeaks'
    BY <1>4 DEF OneSpeaks
  <1>8. StaleAreNoticed'
    <2> SUFFICES ASSUME NEW q \in Turns, line'[q] = "queued", q # t
                 PROVE  behind'[q] \in opened' /\ t \notin clicks /\ line'[t] = "asked"
      BY <1>0, <1>1 DEF StaleAreNoticed
    <2>1. line[q] = "queued"
      BY <1>3
    <2>2. q = turns /\ turns # 0
      BY <1>0, <2>1, SettledQueue, CutFacts
    <2>3. behind[q] \in opened \cup {opener}
      BY <2>1, <2>2, CutFacts DEF NewestWaits
    <2> QED BY <1>0, <1>1, <1>3, <1>5, <2>3
  <1>9. NewestWaits'
    <2>1. line'[turns'] = "asked" /\ turns' \notin clicks'
      BY <1>0, <1>1, <1>3, <1>5
    <2>2. AskedAloud'
      BY <1>0, <1>1, <1>4, <1>5 DEF AskedAloud, Silent
    <2> QED BY <2>1, <2>2 DEF NewestWaits
  <1>10. PromiseIsOwn'
    BY <1>0, <1>3, <1>5 DEF PromiseIsOwn
  <1> QED BY <1>6, <1>7, <1>8, <1>9, <1>10 DEF CutInv

\* A click leaves the line it comes through alone, and waits for its promise.
LEMMA ClickCuts ==
  ASSUME CutAll, NEW t \in Turns, Click(t)
  PROVE  CutInv'
  <1>0. Settled /\ turns' = t /\ t = turns + 1 /\ turns \in Nat /\ pointer # None
    BY CutFacts DEF Click, NewTurn
  <1>1. /\ UNCHANGED <<behind, stale, filler, opened, doneVars>>
        /\ clicks' = clicks \cup {t} /\ gate' = t /\ opener' = t
        /\ awaits' = [awaits EXCEPT ![t] = done] /\ ack' = [ack EXCEPT ![t] = "asked"]
        /\ line' = [line EXCEPT ![t] = "asked"]
    BY DEF Click
  <1>3. line[turns] \in {"playing", "over"} /\ turns # 0
    BY <1>0, CutFacts DEF CutAll, QueueInv
  <1>4. filler = None /\ Acking = {} /\ Playing \subseteq {turns}
    BY <1>3, CutFacts DEF NewestWaits
  <1>5. Playing' = Playing /\ Acking' = {}
    <2>1. t \notin Playing
      BY <1>0, <1>4
    <2>2. Playing' = Playing
      BY <1>1, <2>1, CutFacts DEF Playing
    <2>3. Acking' = {}
      BY <1>1, <1>4, CutFacts DEF Acking, NamesAreOld
    <2> QED BY <2>2, <2>3
  <1>6. NamesAreOld'
    <2>1. ack' \in [Turns -> Acks] /\ \A q \in Turns : ack'[q] # "none" => q \in clicks'
      BY <1>1, CutFacts DEF NamesAreOld, Acks
    <2>2. {filler, gate, opener, done, ender}' \subseteq 0..turns'
      BY <1>0, <1>1, CutFacts DEF NamesAreOld, doneVars
    <2>3. stale' \subseteq 1..turns' /\ turns' \notin stale'
      BY <1>0, <1>1, CutFacts DEF NamesAreOld
    <2>4. None \in opened' /\ gate' \in opened' \cup {opener'}
      BY <1>1, CutFacts DEF NamesAreOld
    <2>5. opened' \subseteq 0..turns' /\ resolved' \subseteq 0..turns'
      BY <1>0, <1>1, CutFacts DEF NamesAreOld, doneVars
    <2>6. behind' \in [Turns -> Nat] /\ awaits' \in [Turns -> Nat]
      <3>1. done \in Nat
        BY CutFacts DEF NamesAreOld
      <3> QED BY <1>1, <3>1, CutFacts DEF NamesAreOld
    <2> QED BY <2>1, <2>2, <2>3, <2>4, <2>5, <2>6 DEF NamesAreOld
  <1>7. OneSpeaks'
    BY <1>0, <1>1, <1>4, <1>5 DEF OneSpeaks
  <1>8. StaleAreNoticed'
    <2> SUFFICES ASSUME NEW q \in Turns, line'[q] = "queued", q # t PROVE FALSE
      BY <1>0 DEF StaleAreNoticed
    <2>1. line[q] = "queued"
      BY <1>1, CutFacts
    <2> QED BY <1>0, <1>3, <2>1, SettledQueue
  <1>9. t \notin opened /\ t \notin resolved /\ ender # t
    BY <1>0, CutFacts DEF NamesAreOld
  <1>10. NewestWaits'
    <2>1. line'[turns'] = "asked" /\ turns' \in clicks'
      BY <1>0, <1>1, CutFacts
    <2>2. Playing # {} => done = turns /\ (turns \notin clicks => turns \notin resolved)
      BY <1>3, <1>4, CutFacts DEF PromiseIsOwn, NewestWaits
    <2>3. awaits'[t] = done /\ resolved' = resolved
      BY <1>1, CutFacts DEF NamesAreOld, doneVars
    <2>4. ack'[t] = "asked"
      BY <1>1, CutFacts DEF NamesAreOld
    <2>5. Clicked(gate)'
      BY <1>0, <1>1, <1>4, <1>5, <1>9, <2>2, <2>3, <2>4 DEF Clicked, SpeechEnded
    <2> QED BY <2>1, <2>5 DEF NewestWaits
  <1>11. PromiseIsOwn'
    BY <1>0, <1>1, <1>9, CutFacts DEF PromiseIsOwn, doneVars
  <1> QED BY <1>6, <1>7, <1>8, <1>10, <1>11 DEF CutInv

\* The filler begins while all is silent, and ends.
LEMMA FillerCuts ==
  ASSUME CutAll, FillerEnds \/ \E t \in Turns : FillerStarts(t)
  PROVE  CutInv'
  <1>1. ASSUME NEW t \in Turns, FillerStarts(t) PROVE CutInv'
    <2>0. t = turns /\ turns \in Nat /\ turns # 0 /\ line[turns] = "asked" /\ turns \notin clicks
      BY <1>1, CutFacts DEF FillerStarts
    <2>1. /\ UNCHANGED <<turns, clicks, behind, stale, opened, doneVars, awaits, ack>>
          /\ line' = [line EXCEPT ![t] = "looking"]
          /\ gate' = turns /\ opener' = turns /\ filler' = turns /\ Settled
      BY <1>1, <2>0 DEF FillerStarts, turnVars
    <2>2. Silent /\ turns \notin opened
      BY <2>0, CutFacts DEF NewestWaits, AskedAloud
    <2>3. Playing' = {} /\ Acking' = {}
      BY <2>1, <2>2, CutFacts DEF Playing, Acking, Silent
    <2>4. NamesAreOld'
      BY <2>0, <2>1, CutFacts DEF NamesAreOld, doneVars
    <2>5. OneSpeaks'
      BY <2>3 DEF OneSpeaks
    <2>6. StaleAreNoticed'
      BY <2>1, SettledQueue, CutFacts DEF StaleAreNoticed
    <2>7. NewestWaits'
      <3>1. line'[turns'] = "looking"
        BY <2>0, <2>1, CutFacts
      <3>2. Looking'
        BY <2>0, <2>1, <2>2, <2>3 DEF Looking
      <3> QED BY <3>1, <3>2 DEF NewestWaits
    <2>8. PromiseIsOwn'
      BY <2>0, <2>1, CutFacts DEF PromiseIsOwn, doneVars
    <2> QED BY <2>4, <2>5, <2>6, <2>7, <2>8 DEF CutInv
  <1>2. CASE FillerEnds
    <2>1. /\ UNCHANGED <<turns, clicks, line, behind, stale, gate, doneVars, awaits, ack>>
          /\ filler # None /\ filler' = None /\ opener' = None
          /\ opened' = opened \cup {opener}
      BY <1>2 DEF FillerEnds, turnVars
    <2>2. Playing' = Playing /\ Acking' = Acking
      BY <2>1 DEF Playing, Acking
    <2>3. /\ line[turns] = "looking" => Looking
          /\ line[turns] = "queued" => /\ behind[turns] \in opened \cup {opener} /\ ack[turns] # "asked"
                                       /\ turns \notin clicks /\ QueuedAloud
          /\ line[turns] \notin {"asked", "playing", "over", "unborn"}
          /\ turns # 0
      <3>1. turns # 0
        BY <2>1, CutFacts DEF NamesAreOld
      <3> QED BY <2>1, <3>1, CutFacts DEF NewestWaits, Clicked, AskedAloud, Silent
    <2>4. NamesAreOld'
      BY <2>1, CutFacts DEF NamesAreOld, doneVars
    <2>5. OneSpeaks'
      BY <2>1, <2>2, CutFacts DEF OneSpeaks
    <2>6. StaleAreNoticed'
      BY <2>1, CutFacts DEF StaleAreNoticed
    <2>7. NewestWaits'
      <3>1. line[turns] = "looking" => Looking'
        BY <2>1, <2>2, <2>3 DEF Looking
      <3>2. line[turns] = "queued" => QueuedAloud'
        BY <2>1, <2>2, <2>3 DEF QueuedAloud
      <3> QED BY <2>1, <2>3, <3>1, <3>2 DEF NewestWaits
    <2>8. PromiseIsOwn'
      BY <2>1, CutFacts DEF PromiseIsOwn, doneVars
    <2> QED BY <2>4, <2>5, <2>6, <2>7, <2>8 DEF CutInv
  <1> QED BY <1>1, <1>2

\* A superseded acknowledgement is not spoken; the newest one only once the line
\* it came after has ended.
LEMMA AckArrivesCuts ==
  ASSUME CutAll, NEW t \in Turns, AckArrives(t)
  PROVE  CutInv'
  <1>0. /\ UNCHANGED <<turns, clicks, line, behind, stale, filler, gate, opener, doneVars, awaits>>
        /\ ack[t] = "asked" /\ t \in clicks /\ t # 0 /\ turns # 0 /\ t \in 0..turns
    BY CutFacts DEF AckArrives, turnVars, NamesAreOld
  <1>1. \E to \in {"over", "waiting", "speaking"} : ack' = [ack EXCEPT ![t] = to]
    BY DEF AckArrives
  <1>2. ack' \in [Turns -> Acks] /\ \A q \in Turns : ack'[q] # "none" => q \in clicks
    BY <1>0, <1>1, CutFacts DEF NamesAreOld, Acks
  <1>3. Playing' = Playing
    BY <1>0 DEF Playing
  <1>4. UNCHANGED opened \/ opened' = opened \cup {t}
    BY DEF AckArrives
  <1>5. NamesAreOld'
    BY <1>0, <1>2, <1>4, CutFacts DEF NamesAreOld, doneVars
  <1>6. StaleAreNoticed'
    BY <1>0, <1>4, CutFacts DEF StaleAreNoticed
  <1>7. PromiseIsOwn'
    BY <1>0, CutFacts DEF PromiseIsOwn, doneVars
  <1>8. CASE t \in aborted
    <2>1. ack' = [ack EXCEPT ![t] = "over"] /\ t # turns
      BY <1>8, CutFacts DEF AckArrives
    <2>2. Acking' = Acking /\ (turns \in opened' <=> turns \in opened) /\ opened \subseteq opened'
          /\ ack'[turns] = ack[turns]
      BY <1>0, <1>4, <2>1, CutFacts DEF Acking, NamesAreOld
    <2>3. OneSpeaks'
      BY <1>0, <1>3, <2>2, CutFacts DEF OneSpeaks
    <2>4. NewestWaits'
      <3>1. AskedAloud => AskedAloud'
        BY <1>0, <1>3, <2>2 DEF AskedAloud, Silent
      <3>2. Looking => Looking'
        BY <1>0, <1>3, <2>2 DEF Looking
      <3>3. QueuedAloud => QueuedAloud'
        BY <1>0, <1>3, <2>2 DEF QueuedAloud
      <3>4. (Clicked(gate) => Clicked(gate)') /\ (Clicked(behind[turns]) => Clicked(behind[turns])')
        <4>1. SpeechEnded(turns)' = SpeechEnded(turns)
          BY <1>0 DEF SpeechEnded, doneVars
        <4>2. \A n \in {gate, behind[turns]} : Clicked(n) => Clicked(n)'
          BY <1>0, <1>3, <2>2, <4>1 DEF Clicked
        <4>3. gate' = gate /\ behind'[turns'] = behind[turns]
          BY <1>0
        <4> QED BY <4>2, <4>3 DEF Clicked
      <3> QED BY <1>0, <1>3, <2>2, <3>1, <3>2, <3>3, <3>4, CutFacts DEF NewestWaits
    <2> QED BY <1>5, <1>6, <1>7, <2>3, <2>4 DEF CutInv
  <1>9. CASE t \notin aborted
    <2>1. t = turns /\ UNCHANGED opened
          /\ (ack' = [ack EXCEPT ![t] = "waiting"] \/ (SpeechEnded(t) /\ ack' = [ack EXCEPT ![t] = "speaking"]))
      BY <1>0, <1>9, CutFacts DEF AckArrives
    <2>2. line[turns] = "asked" /\ Clicked(gate) /\ Acking = {}
      <3>1. line[turns] \in Lines
        BY <2>1, CutFacts
      <3>2. line[turns] = "asked"
        BY <1>0, <2>1, <3>1, CutFacts DEF NewestWaits, Looking, Lines
      <3>3. turns \notin Acking
        BY <1>0, <2>1 DEF Acking
      <3> QED BY <1>0, <2>1, <3>2, <3>3, CutFacts DEF NewestWaits, OneSpeaks
    <2>3. Acking' \subseteq {turns}
      <3>1. \A q \in Turns : q # t => ack'[q] = ack[q]
        BY <2>1, CutFacts DEF NamesAreOld
      <3>2. \A q \in Turns : ack[q] # "speaking"
        BY <2>2 DEF Acking
      <3>3. Acking' \subseteq {t}
        BY <3>1, <3>2 DEF Acking
      <3> QED BY <2>1, <3>3
    <2>4. OneSpeaks'
      BY <1>0, <1>3, <2>3, CutFacts DEF OneSpeaks
    <2>5. Clicked(gate)'
      <3>1. SpeechEnded(turns)' = SpeechEnded(turns)
        BY <1>0 DEF SpeechEnded, doneVars
      <3>2. ack'[turns] = "speaking" => SpeechEnded(turns)
        BY <2>1, CutFacts DEF NamesAreOld
      <3>3. turns \notin opened
        BY <1>0, <2>1, <2>2 DEF Clicked
      <3> QED BY <1>0, <1>3, <2>1, <2>2, <3>1, <3>2, <3>3 DEF Clicked
    <2>6. NewestWaits'
      BY <1>0, <2>1, <2>2, <2>5 DEF NewestWaits
    <2> QED BY <1>5, <1>6, <1>7, <2>4, <2>6 DEF CutInv
  <1> QED BY <1>8, <1>9

\* The gate of the newest turn opens when nobody speaks.
LEMMA AckOverCuts ==
  ASSUME CutAll, NEW t \in Turns, AckOver(t)
  PROVE  CutInv'
  <1>0. /\ UNCHANGED <<turns, clicks, line, behind, stale, filler, gate, opener, doneVars, awaits>>
        /\ ack[t] \in {"waiting", "speaking"} /\ ack' = [ack EXCEPT ![t] = "over"]
        /\ opened' = IF t \in aborted THEN opened ELSE opened \cup {t}
    BY DEF AckOver, turnVars
  <1>1. t \in clicks /\ turns # 0 /\ t \in 0..turns
    BY <1>0, CutFacts DEF NamesAreOld
  <1>2. ack' \in [Turns -> Acks] /\ \A q \in Turns : ack'[q] # "none" => q \in clicks
    BY <1>0, CutFacts DEF NamesAreOld, Acks
  <1>3. Playing' = Playing /\ Acking' \subseteq Acking
    BY <1>0, CutFacts DEF Playing, Acking, NamesAreOld
  <1>4. NamesAreOld'
    BY <1>0, <1>1, <1>2, CutFacts DEF NamesAreOld, doneVars
  <1>5. StaleAreNoticed'
    BY <1>0, CutFacts DEF StaleAreNoticed
  <1>6. PromiseIsOwn'
    BY <1>0, CutFacts DEF PromiseIsOwn, doneVars
  <1>7. OneSpeaks'
    BY <1>0, <1>3, CutFacts DEF OneSpeaks
  <1>8. CASE t \in aborted
    <2>1. t # turns /\ UNCHANGED opened /\ ack'[turns] = ack[turns]
      BY <1>0, <1>1, <1>8, CutFacts DEF NamesAreOld
    <2>2. NewestWaits'
      <3>1. AskedAloud => AskedAloud'
        BY <1>0, <1>3, <2>1 DEF AskedAloud, Silent
      <3>2. Looking => Looking'
        BY <1>0, <1>3, <2>1 DEF Looking
      <3>3. QueuedAloud => QueuedAloud'
        BY <1>0, <1>3, <2>1 DEF QueuedAloud
      <3>4. (Clicked(gate) => Clicked(gate)') /\ (Clicked(behind[turns]) => Clicked(behind[turns])')
        BY <1>0, <1>3, <2>1 DEF Clicked, SpeechEnded, doneVars
      <3> QED BY <1>0, <1>3, <2>1, <3>1, <3>2, <3>3, <3>4, CutFacts DEF NewestWaits
    <2> QED BY <1>4, <1>5, <1>6, <1>7, <2>2 DEF CutInv
  <1>9. CASE t \notin aborted
    <2>1. t = turns /\ opened' = opened \cup {turns} /\ ack'[turns] = "over"
      BY <1>0, <1>1, <1>9, CutFacts DEF NamesAreOld
    <2>2. ASSUME NEW named, Clicked(named) PROVE Clicked(named)'
      <3>1. SpeechEnded(turns)' = SpeechEnded(turns)
        BY <1>0 DEF SpeechEnded, doneVars
      <3>2. Playing # {} => SpeechEnded(turns)
        BY <1>0, <2>1, <2>2 DEF AckOver, Clicked, Silent
      <3>3. turns' = turns /\ filler' = filler /\ clicks' = clicks /\ awaits' = awaits
        BY <1>0
      <3> QED BY <1>3, <2>1, <2>2, <3>1, <3>2, <3>3 DEF Clicked
    <2>3. Acking' = {}
      BY <1>0, <2>1, CutFacts DEF OneSpeaks, Acking, NamesAreOld
    <2>4. line[turns] = "asked" => Clicked(gate)'
      BY <1>0, <1>1, <2>1, <2>2, CutFacts DEF NewestWaits, Clicked
    <2>5. line[turns] = "queued" => Clicked(behind[turns])'
      BY <1>0, <1>1, <2>1, <2>2, CutFacts DEF NewestWaits, Clicked
    <2>6. line[turns] # "looking"
      BY <1>1, <2>1, CutFacts DEF NewestWaits, Looking
    <2>7. NewestWaits'
      BY <1>0, <1>1, <1>3, <2>1, <2>3, <2>4, <2>5, <2>6, CutFacts DEF NewestWaits
    <2> QED BY <1>4, <1>5, <1>6, <1>7, <2>7 DEF CutInv
  <1> QED BY <1>8, <1>9

\* The answer queues behind the gate of its own turn, or behind one that is open.
LEMMA AnswerCuts ==
  ASSUME CutAll, NEW t \in Turns, Answer(t)
  PROVE  CutInv'
  <1>0. /\ UNCHANGED <<turns, clicks, stale, filler, opener, opened, resolved, awaits, ack>>
        /\ Settled /\ line[t] \in {"asked", "looking"} /\ ack[t] # "asked"
        /\ turns # 0 /\ t # 0
    BY CutFacts DEF Answer, turnVars
  <1>1. CASE t \in aborted
    <2>1. /\ line' = [line EXCEPT ![t] = "over"] /\ UNCHANGED <<behind, gate, done, ender>>
          /\ t # turns
      BY <1>1, CutFacts DEF Answer
    <2>2. /\ line'[turns] = line[turns] /\ Playing' = Playing /\ Acking' = Acking
          /\ \A q \in Turns : line'[q] = "queued" => line[q] = "queued"
      BY <1>0, <2>1, CutFacts DEF Playing, Acking
    <2>3. NamesAreOld'
      BY <1>0, <2>1, CutFacts DEF NamesAreOld
    <2>4. OneSpeaks'
      BY <1>0, <2>2, CutFacts DEF OneSpeaks
    <2>5. StaleAreNoticed'
      BY <1>0, <2>2, SettledQueue DEF StaleAreNoticed
    <2>6. NewestWaits'
      <3>1. AskedAloud => AskedAloud'
        BY <1>0, <2>2 DEF AskedAloud, Silent
      <3>2. Looking => Looking'
        BY <1>0, <2>1, <2>2 DEF Looking
      <3>3. QueuedAloud => QueuedAloud'
        BY <1>0, <2>1, <2>2 DEF QueuedAloud
      <3>4. (Clicked(gate) => Clicked(gate)') /\ (Clicked(behind[turns]) => Clicked(behind[turns])')
        BY <1>0, <2>1, <2>2 DEF Clicked, SpeechEnded
      <3> QED BY <1>0, <2>1, <2>2, <3>1, <3>2, <3>3, <3>4, CutFacts DEF NewestWaits
    <2>7. PromiseIsOwn'
      BY <1>0, <2>1, <2>2, CutFacts DEF PromiseIsOwn
    <2> QED BY <2>3, <2>4, <2>5, <2>6, <2>7 DEF CutInv
  <1>2. CASE t \notin aborted
    <2>1. t = turns
      BY <1>0, <1>2, CutFacts
    <2>2. /\ line' = [line EXCEPT ![t] = "queued"] /\ done' = turns /\ ender' = turns
          /\ behind' = [behind EXCEPT ![t] = gate] /\ gate' = None
      BY <1>2, <2>1 DEF Answer
    <2>3. /\ line'[turns] = "queued" /\ behind'[turns] = gate
          /\ \A q \in Turns : q # turns => line'[q] = line[q]
      BY <2>1, <2>2, CutFacts DEF NamesAreOld
    <2>4. Playing' = Playing /\ Acking' = Acking
      BY <1>0, <2>1, <2>3 DEF Playing, Acking
    <2>5. NamesAreOld'
      <3>1. gate \in Nat /\ turns \in 0..turns /\ None \in 0..turns
        BY CutFacts DEF NamesAreOld
      <3>2. behind' \in [Turns -> Nat]
        BY <2>2, <3>1, CutFacts DEF NamesAreOld
      <3> QED BY <1>0, <2>2, <3>1, <3>2, CutFacts DEF NamesAreOld
    <2>6. OneSpeaks'
      BY <1>0, <2>4, CutFacts DEF OneSpeaks
    <2>7. StaleAreNoticed'
      BY <1>0, <2>3, SettledQueue DEF StaleAreNoticed
    <2>8. NewestWaits'
      <3>1. gate \in opened \cup {opener}
        BY CutFacts DEF NamesAreOld
      <3>2. turns \in clicks => Clicked(gate)
        BY <1>0, <2>1, CutFacts DEF NewestWaits, Looking
      <3>3. turns \in clicks => Clicked(behind[turns])'
        BY <1>0, <2>3, <2>4, <3>2 DEF Clicked, SpeechEnded
      <3>4. turns \notin clicks => QueuedAloud'
        BY <1>0, <2>1, <2>3, <2>4, CutFacts DEF NewestWaits, AskedAloud, Looking, QueuedAloud, Silent
      <3> QED BY <1>0, <2>1, <2>3, <3>1, <3>3, <3>4 DEF NewestWaits
    <2>9. PromiseIsOwn'
      BY <1>0, <2>1, <2>2, <2>3, CutFacts DEF PromiseIsOwn
    <2> QED BY <2>5, <2>6, <2>7, <2>8, <2>9 DEF CutInv
  <1> QED BY <1>1, <1>2

\* Only the newest line starts, in silence or over a line that counts as ended.
LEMMA StartIsSilent ==
  ASSUME CutAll, NEW t \in Turns, LineStarts(t), t \notin stale
  PROVE  /\ t = turns /\ turns # 0 /\ line[turns] = "queued"
         /\ Silent \/ EndedTooSoon(t)
  <1>1. line[t] = "queued" /\ GateOf(t)
    BY DEF LineStarts
  <1>2. t = turns /\ turns # 0
    BY <1>1, CutFacts DEF CutAll, QueueInv
  <1>3. CASE behind[t] \in opened
    <2>1. CASE turns \in clicks
      <3>1. Clicked(behind[turns])
        BY <1>1, <1>2, <2>1, CutFacts DEF NewestWaits
      <3>2. turns \in opened /\ filler = None /\ turns \notin Acking
        BY <1>2, <1>3, <3>1 DEF Clicked, Acking
      <3>3. Acking = {}
        BY <3>2, CutFacts DEF OneSpeaks
      <3>4. Playing # {} => /\ awaits[t] \in clicks \cap resolved
                            /\ Playing = {awaits[t]}
        BY <1>2, <3>1, <3>2 DEF Clicked, SpeechEnded
      <3> QED BY <1>1, <1>2, <3>2, <3>3, <3>4 DEF Silent, EndedTooSoon
    <2>2. CASE turns \notin clicks
      <3>1. QueuedAloud
        BY <1>1, <1>2, <2>2, CutFacts DEF NewestWaits
      <3> QED BY <1>1, <1>2, <1>3, <3>1 DEF QueuedAloud, Silent
    <2> QED BY <2>1, <2>2
  <1> QED BY <1>1, <1>2, <1>3 DEF GateOf

LEMMA StartCuts ==
  ASSUME CutAll, NEW t \in Turns, LineStarts(t)
  PROVE  CutInv'
  <1>0. UNCHANGED <<turns, clicks, behind, gate, done, awaits>> /\ line[t] = "queued" /\ t # 0
        /\ turns # 0
    BY CutFacts DEF LineStarts, turnVars
  <1>1. CASE t \in stale
    <2>1. /\ line' = [line EXCEPT ![t] = "over"] /\ resolved' = resolved \cup {ender} /\ ender' = None
          /\ UNCHANGED <<pointer, stale, filler, opener, opened, ack>> /\ t # turns
      BY <1>1, CutFacts DEF LineStarts, EndNarration, NamesAreOld
    <2>2. turns \notin clicks /\ line[turns] = "asked" /\ AskedAloud
      BY <1>0, <2>1, CutFacts DEF StaleAreNoticed, NewestWaits
    <2>3. /\ line'[turns] = "asked" /\ Playing' = Playing /\ Acking' = Acking
          /\ \A q \in Turns : line'[q] = "queued" => line[q] = "queued"
      BY <1>0, <2>1, <2>2, CutFacts DEF Playing, Acking
    <2>4. NamesAreOld'
      BY <1>0, <2>1, CutFacts DEF NamesAreOld
    <2>5. OneSpeaks'
      BY <1>0, <2>1, <2>3, CutFacts DEF OneSpeaks
    <2>6. StaleAreNoticed'
      BY <1>0, <2>1, <2>2, <2>3, CutFacts DEF StaleAreNoticed
    <2>7. NewestWaits'
      BY <1>0, <2>1, <2>2, <2>3 DEF NewestWaits, AskedAloud, Silent
    <2>8. PromiseIsOwn'
      BY <1>0, <2>1, <2>2, <2>3, CutFacts DEF PromiseIsOwn
    <2> QED BY <2>4, <2>5, <2>6, <2>7, <2>8 DEF CutInv
  <1>2. CASE t \notin stale
    <2>1. /\ t = turns /\ turns # 0 /\ filler = None /\ Acking = {}
          /\ Playing # {} => turns \in clicks
      <3>1. t = turns /\ turns # 0 /\ (Silent \/ EndedTooSoon(t)) /\ line[turns] = "queued"
        BY <1>2, StartIsSilent
      <3>2. \A p \in Playing : p # turns
        BY <3>1 DEF Playing
      <3> QED BY <3>1, <3>2, CutFacts DEF OneSpeaks, Silent, EndedTooSoon
    <2>2. /\ filler' = None /\ opener' = None
          /\ opened' = opened \cup {opener} \cup (Acking \ aborted)
          /\ stale' = stale \cup {q \in Turns \ {t} : line[q] = "queued"}
          /\ ack' = [q \in Turns |-> IF q \in Acking THEN "over" ELSE ack[q]]
          /\ (IF Playing = {} THEN UNCHANGED <<ender, resolved>>
              ELSE resolved' = resolved \cup {ender} /\ ender' = None)
          /\ line' = [Stopped EXCEPT ![t] = "playing"]
      BY <1>2, <2>1 DEF LineStarts, StopAnswerPlayback, SupersededLines, EndNarration
    <2>3. \A q \in Turns : line'[q] = IF q = t THEN "playing"
                                       ELSE IF q \in Playing THEN "over" ELSE line[q]
      BY <2>1, <2>2 DEF Stopped
    <2>4. \A q \in Turns : ack'[q] = ack[q]
      BY <2>1, <2>2
    <2>5. Playing' = {turns} /\ Acking' = {}
      BY <2>1, <2>3, <2>4 DEF Playing, Acking
    <2>6. NamesAreOld'
      <3>1. ack' \in [Turns -> Acks]
        BY <2>2, CutFacts DEF NamesAreOld, Acks
      <3>2. \A q \in Turns : ack'[q] # "none" => q \in clicks
        BY <2>4, CutFacts DEF NamesAreOld
      <3>3. opened' \subseteq 0..turns /\ gate \in opened'
        BY <2>1, <2>2, CutFacts DEF NamesAreOld
      <3>5. resolved' \subseteq 0..turns /\ ender' \in 0..turns
        BY <2>2, CutFacts DEF NamesAreOld
      <3>4. stale' \subseteq 1..turns /\ turns \notin stale'
        BY <2>1, <2>2, CutFacts DEF NamesAreOld
      <3> QED BY <1>0, <2>2, <3>1, <3>2, <3>3, <3>4, <3>5, CutFacts DEF NamesAreOld
    <2>7. OneSpeaks'
      BY <1>0, <2>2, <2>5 DEF OneSpeaks
    <2>8. StaleAreNoticed'
      <3> SUFFICES ASSUME NEW q \in Turns, line'[q] = "queued", q # turns PROVE FALSE
        BY <1>0 DEF StaleAreNoticed
      <3>1. line[q] = "queued"
        BY <2>1, <2>3
      <3> QED BY <1>0, <2>1, <3>1, CutFacts DEF StaleAreNoticed
    <2>9. NewestWaits'
      <3>1. line'[turns] = "playing" /\ ack'[turns] # "asked"
        BY <1>0, <2>1, <2>3, <2>4, CutFacts DEF NewestWaits
      <3> QED BY <1>0, <2>2, <2>5, <3>1 DEF NewestWaits
    <2>10. PromiseIsOwn'
      BY <1>0, <2>1, <2>2, <2>3, CutFacts DEF PromiseIsOwn
    <2> QED BY <2>6, <2>7, <2>8, <2>9, <2>10 DEF CutInv
  <1> QED BY <1>1, <1>2

\* The line that ends was the only one.
LEMMA EndCuts ==
  ASSUME CutAll, NEW t \in Turns, LineEnds(t)
  PROVE  CutInv'
  <1>0. /\ UNCHANGED <<turns, clicks, behind, stale, filler, gate, opener, opened, done, awaits, ack>>
        /\ line' = [line EXCEPT ![t] = "over"] /\ line[t] = "playing" /\ Settled
        /\ resolved' = resolved \cup {ender} /\ ender' = None /\ t # 0 /\ turns # 0
    BY CutFacts DEF LineEnds, turnVars, fillVars, EndNarration
  <1>1. \A q \in Turns : line'[q] = IF q = t THEN "over" ELSE line[q]
    BY <1>0, CutFacts
  <1>2. filler = None /\ Playing = {t} /\ (t = turns \/ turns \in clicks)
    BY <1>0, CutFacts DEF OneSpeaks, Playing
  <1>3. Playing' = {} /\ Acking' = Acking
    <2>1. \A q \in Turns : line[q] = "playing" => q = t
      BY <1>2 DEF Playing
    <2> QED BY <1>0, <1>1, <1>2, <2>1 DEF Playing, Acking
  <1>4. NamesAreOld'
    BY <1>0, CutFacts DEF NamesAreOld
  <1>5. OneSpeaks'
    BY <1>0, <1>3, CutFacts DEF OneSpeaks
  <1>6. StaleAreNoticed'
    BY <1>0, <1>1, SettledQueue DEF StaleAreNoticed
  <1>7. CASE t = turns
    <2>1. line'[turns] = "over" /\ ack[turns] # "asked"
      BY <1>0, <1>1, <1>7, CutFacts DEF NewestWaits
    <2>2. NewestWaits'
      BY <1>0, <1>2, <1>3, <1>7, <2>1, CutFacts DEF NewestWaits
    <2>3. PromiseIsOwn'
      BY <1>0, <2>1 DEF PromiseIsOwn
    <2> QED BY <1>4, <1>5, <1>6, <2>2, <2>3 DEF CutInv
  <1>8. CASE t # turns
    <2>1. line'[turns] = line[turns] /\ turns \in clicks
      BY <1>0, <1>1, <1>2, <1>8, CutFacts
    <2>2. Clicked(gate) => Clicked(gate)'
      BY <1>0, <1>3 DEF Clicked, SpeechEnded
    <2>3. Clicked(behind[turns]) => Clicked(behind[turns])'
      BY <1>0, <1>3 DEF Clicked, SpeechEnded
    <2>4. line[turns] # "looking"
      BY <1>0, <2>1, CutFacts DEF NewestWaits, Looking
    <2>5. NewestWaits'
      BY <1>0, <1>2, <1>3, <2>1, <2>2, <2>3, <2>4, CutFacts DEF NewestWaits
    <2>6. PromiseIsOwn'
      BY <1>0, <2>1, CutFacts DEF PromiseIsOwn
    <2> QED BY <1>4, <1>5, <1>6, <2>5, <2>6 DEF CutInv
  <1> QED BY <1>7, <1>8

(* However many turns and clicks, a line starts only when the line before   *)
(* it, the acknowledgement and the filler are over, or over the one line    *)
(* that counts as ended: a click-turn's whose promise its predecessor       *)
(* resolved.                                                                *)
THEOREM LinesWaitTheirTurn == SpeechSpec => AnswerNeverCuts
  <1> DEFINE A == \A t \in Turns :
                    line[t] = "queued" /\ line'[t] = "playing" => Silent \/ EndedTooSoon(t)
  <1>1. SpeechInit => QueueInv /\ CutInv
    <2> SUFFICES ASSUME SpeechInit PROVE QueueInv /\ CutInv
      OBVIOUS
    <2>1. QueueInv
      BY BoundsAssumption DEF SpeechInit, Init, QueueInv, None
    <2>2. Playing = {} /\ Acking = {}
      BY DEF SpeechInit, Init, Playing, Acking
    <2>3. NamesAreOld
      BY DEF SpeechInit, Init, NamesAreOld, Acks, None
    <2>4. OneSpeaks /\ StaleAreNoticed /\ NewestWaits /\ PromiseIsOwn
      BY <2>2 DEF SpeechInit, Init, OneSpeaks, StaleAreNoticed, NewestWaits, PromiseIsOwn
    <2> QED BY <2>1, <2>3, <2>4 DEF CutInv
  <1>2. ASSUME AInv, QueueInv, CutInv, [SpeechNext]_speechVars
        PROVE  QueueInv' /\ CutInv' /\ [A]_vars
    <2>0. CutAll
      BY <1>2 DEF CutAll, AInv
    <2>1. QueueInv'
      BY <1>2, QueueStep DEF AInv
    <2>2. ASSUME NEW t \in Turns, Ask(t) \/ FillerStarts(t) \/ Click(t) \/ AckArrives(t) \/ AckOver(t)
                                  \/ Answer(t) \/ LineStarts(t) \/ LineEnds(t)
          PROVE  CutInv'
      BY <2>0, <2>2, AskCuts, FillerCuts, ClickCuts, AckArrivesCuts, AckOverCuts, AnswerCuts,
         StartCuts, EndCuts
    <2>3. ASSUME FillerEnds PROVE CutInv'
      BY <2>0, <2>3, FillerCuts
    <2>4. ASSUME UNCHANGED vars \/ \E t \in Turns : Points(t) PROVE CutInv'
      <3>1. UNCHANGED <<turnVars, line, behind, stale, fillVars, doneVars, awaits, ack>>
        BY <2>4 DEF Points, vars
      <3> QED BY <1>2, <3>1 DEF CutInv, NamesAreOld, OneSpeaks, StaleAreNoticed, NewestWaits,
                 PromiseIsOwn, AskedAloud, Looking, QueuedAloud, Clicked, SpeechEnded, Silent,
                 Playing, Acking, turnVars, fillVars, doneVars
    <2>5. CutInv'
      BY <1>2, <2>2, <2>3, <2>4, SpeechRefinesNarration DEF NarrationMoves
    <2>6. ASSUME NEW t \in Turns, line[t] = "queued", line'[t] = "playing"
          PROVE  Silent \/ EndedTooSoon(t)
      <3>1. PICK q \in Turns : LineStarts(q) /\ q = t /\ t \notin stale
        <4>1. line \in [Turns -> Lines]
          BY <2>0, CutFacts
        <4>2. ASSUME NEW q \in Turns,
                     Ask(q) \/ FillerStarts(q) \/ Click(q) \/ Answer(q) \/ LineEnds(q)
              PROVE  line'[t] # "playing"
          BY <2>6, <4>1, <4>2 DEF Ask, FillerStarts, Click, Answer, LineEnds, Stopped, Playing
        <4>3. ASSUME UNCHANGED line PROVE FALSE
          BY <2>6, <4>3
        <4>4. ASSUME NEW q \in Turns, AckArrives(q) \/ AckOver(q) \/ Points(q) PROVE UNCHANGED line
          BY <4>4 DEF AckArrives, AckOver, Points
        <4>5. FillerEnds \/ UNCHANGED vars => UNCHANGED line
          BY DEF FillerEnds, vars
        <4>6. ASSUME NEW q \in Turns, LineStarts(q) PROVE q = t /\ t \notin stale
          BY <2>6, <4>1, <4>6 DEF LineStarts, Stopped, Playing
        <4> QED BY <1>2, <2>6, <4>2, <4>3, <4>4, <4>5, <4>6, SpeechRefinesNarration DEF NarrationMoves
      <3> QED BY <2>0, <3>1, StartIsSilent
    <2> QED BY <2>1, <2>5, <2>6
  <1> QED BY <1>1, <1>2, SpeechBegins, SpeechSteps, PTL DEF SpeechSpec, AnswerNeverCuts
================================================================================

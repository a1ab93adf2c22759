---------------------------- MODULE DesktopProofs ----------------------------
(***************************************************************************)
(* The desktop's interleavings, for every value of the constants: the      *)
(* watch on a pointer, the turns of the notch, push-to-talk with its       *)
(* microphone, and the first run.  Each part has its inductive invariant   *)
(* first, then one lemma per action, then its theorems; no part uses       *)
(* another's state.                                                        *)
(***************************************************************************)
EXTENDS PointerWatch, NotchTurns, PushToTalk, Onboarding,
        SequenceTheorems, FiniteSetTheorems, TLAPS

-----------------------------------------------------------------------------
(***************************************************************************)
(* PointerWatch, for every set of screens, every poll interval, every idle *)
(* timeout and every bound on the watches.                                 *)
(***************************************************************************)

(* A watch is started only while a token is left to supersede it, and the   *)
(* tokens to come have neither loop nor timer.                              *)
TokensToCome ==
    /\ pending => token < MaxToken
    /\ \A t \in Tokens : t > token => poll[t] = NoLoop /\ idle[t] = Off

(* A frame in the hands of the loop in force is of the pointer pending.     *)
FramesAreFresh == \A t \in Tokens : Current(t) /\ poll[t].at = "captured" => poll[t].of = drawn

(* What is left of the timer in force and what has passed make up idleFadeMs. *)
TimerIsHonest == pending => idle[token] + quiet >= Idle

IInv == /\ TypeOK /\ TokensToCome /\ PendingIsWatched /\ GuardIsWhatIsSeen /\ HandedOnce
        /\ FramesAreFresh /\ TimerIsHonest

-----------------------------------------------------------------------------
LEMMA LoopTypes == NoLoop \in Loops /\ Asleep \in Loops
  BY ScreensAssumption, TimersAssumption DEF NoLoop, Asleep, NoFrame, Loops

LEMMA InitHolds == Init => IInv
  <1> SUFFICES ASSUME Init PROVE IInv
    OBVIOUS
  <1> USE TimersAssumption, TokenAssumption, LoopTypes DEF Init
  <1>1. TypeOK
    <2>1. pending \in BOOLEAN /\ faded \in BOOLEAN /\ shown \in BOOLEAN
      OBVIOUS
    <2>2. poll \in [Tokens -> Loops] /\ idle \in [Tokens -> 0..Off]
      BY DEF Off
    <2>3. token \in 0..MaxToken /\ drawn \in Nat /\ quiet \in 0..Idle /\ handed \in Nat
      OBVIOUS
    <2> QED BY <2>1, <2>2, <2>3 DEF TypeOK
  <1>2. TokensToCome /\ PendingIsWatched /\ GuardIsWhatIsSeen /\ HandedOnce
    BY DEF TokensToCome, PendingIsWatched, GuardIsWhatIsSeen, HandedOnce, Tokens
  <1>3. FramesAreFresh /\ TimerIsHonest
    BY DEF FramesAreFresh, TimerIsHonest, Current
  <1> QED BY <1>1, <1>2, <1>3 DEF IInv

\* A fresh token comes with its loop and its timer, and no frame yet.
LEMMA ArmGives ==
  ASSUME IInv, Arm, MayArm
  PROVE  /\ token' = token + 1 /\ token' \in Tokens /\ token' < MaxToken
         /\ poll' \in [Tokens -> Loops] /\ idle' \in [Tokens -> 0..Off]
         /\ poll'[token'] = Asleep /\ idle'[token'] = Idle
         /\ \A t \in Tokens : t > token' => poll'[t] = NoLoop /\ idle'[t] = Off
  BY LoopTypes, TimersAssumption, TokenAssumption
  DEF IInv, TypeOK, TokensToCome, Arm, MayArm, Tokens, Off

LEMMA SetPendingKeeps == ASSUME IInv, SetPending PROVE IInv'
  <1> USE ArmGives, TimersAssumption, TokenAssumption DEF SetPending, Shows
  <1>1. TypeOK'
    <2>1. pending' \in BOOLEAN /\ faded' \in BOOLEAN /\ shown' \in BOOLEAN
      OBVIOUS
    <2>2. screen' \in Screens /\ reference' \in Screens
      BY DEF IInv, TypeOK
    <2>3. token' \in 0..MaxToken /\ drawn' \in Nat /\ quiet' \in 0..Idle /\ handed' \in Nat
      BY DEF IInv, TypeOK, Tokens
    <2> QED BY <2>1, <2>2, <2>3 DEF TypeOK, Off
  <1>2. TokensToCome' /\ PendingIsWatched'
    BY DEF TokensToCome, PendingIsWatched, Asleep, Off, Tokens
  <1>3. GuardIsWhatIsSeen' /\ HandedOnce'
    <2>1. pending' /\ shown' /\ ~faded' /\ handed' = 0
      OBVIOUS
    <2> QED BY <2>1 DEF GuardIsWhatIsSeen, HandedOnce
  <1>4. FramesAreFresh' /\ TimerIsHonest'
    BY DEF FramesAreFresh, TimerIsHonest, Current, Asleep
  <1> QED BY <1>1, <1>2, <1>3, <1>4 DEF IInv

LEMMA WrongButtonKeeps == ASSUME IInv, WrongButton PROVE IInv'
  <1> USE ArmGives, TimersAssumption, TokenAssumption DEF WrongButton
  <1>1. TypeOK'
    <2>1. pending' \in BOOLEAN /\ faded' \in BOOLEAN /\ shown' \in BOOLEAN
      BY DEF IInv, TypeOK
    <2>2. screen' \in Screens /\ reference' \in Screens
      BY DEF IInv, TypeOK
    <2>3. token' \in 0..MaxToken /\ drawn' \in Nat /\ quiet' \in 0..Idle /\ handed' \in Nat
      BY DEF IInv, TypeOK, Tokens
    <2> QED BY <2>1, <2>2, <2>3 DEF TypeOK, Off
  <1>2. TokensToCome' /\ PendingIsWatched'
    BY DEF TokensToCome, PendingIsWatched, Asleep, Off, Tokens
  <1>3. GuardIsWhatIsSeen' /\ HandedOnce'
    BY DEF IInv, GuardIsWhatIsSeen, HandedOnce
  <1>4. FramesAreFresh' /\ TimerIsHonest'
    BY DEF FramesAreFresh, TimerIsHonest, Current, Asleep
  <1> QED BY <1>1, <1>2, <1>3, <1>4 DEF IInv

\* Whatever supersedes the loops and leaves no pointer on the screen.
LEMMA StoppingKeeps ==
  ASSUME IInv, StopWatching, pending \/ MayArm, ~shown', faded' \in BOOLEAN,
         handed' \in {handed, handed + 1}, handed' > handed => pending,
         poll' = poll, \A t \in Tokens : idle'[t] \in {idle[t], Off},
         idle' \in [Tokens -> 0..Off], UNCHANGED <<screen, reference, drawn, quiet>>
  PROVE  IInv'
  <1> USE TimersAssumption, TokenAssumption DEF IInv, StopWatching
  <1>0. pending' = FALSE /\ shown' = FALSE
    BY DEF TypeOK
  <1>1. TypeOK'
    <2>1. pending' \in BOOLEAN /\ faded' \in BOOLEAN /\ shown' \in BOOLEAN
      BY <1>0
    <2>2. token' \in 0..MaxToken
      BY DEF TypeOK, TokensToCome, MayArm
    <2>3. screen' \in Screens /\ reference' \in Screens /\ poll' \in [Tokens -> Loops]
      BY DEF TypeOK
    <2>4. drawn' \in Nat /\ quiet' \in 0..Idle /\ handed' \in Nat
      BY DEF TypeOK
    <2> QED BY <2>1, <2>2, <2>3, <2>4 DEF TypeOK, Off
  <1>2. TokensToCome' /\ PendingIsWatched'
    BY DEF TypeOK, TokensToCome, PendingIsWatched, Tokens
  <1>3. GuardIsWhatIsSeen' /\ HandedOnce'
    <2>1. GuardIsWhatIsSeen'
      BY <1>0 DEF GuardIsWhatIsSeen
    <2>2. handed' <= 1
      BY DEF TypeOK, HandedOnce
    <2>3. handed' + (IF pending' THEN 1 ELSE 0) <= 1
      <3>1. (IF pending' THEN 1 ELSE 0) = 0 /\ handed' \in Nat
        BY <1>0, <1>1 DEF TypeOK
      <3>2. \A n \in Nat : n <= 1 => n + 0 <= 1
        OBVIOUS
      <3>3. handed' + 0 <= 1
        BY <2>2, <3>1, <3>2
      <3> QED BY <3>1, <3>3
    <2> QED BY <2>1, <2>3 DEF HandedOnce
  <1>4. FramesAreFresh' /\ TimerIsHonest'
    BY DEF FramesAreFresh, TimerIsHonest, Current
  <1> QED BY <1>1, <1>2, <1>3, <1>4

\* A loop that resumes: its own entry changes, and only its verdict, if it is in
\* force, changes what is seen.
LEMMA ResumeKeeps == ASSUME IInv, NEW t \in Tokens, Resume(t) PROVE IInv'
  <1> USE TimersAssumption, TokenAssumption, LoopTypes DEF IInv
  <1>1. /\ poll' \in [Tokens -> Loops]
        /\ \A u \in Tokens \ {t} : poll'[u] = poll[u]
    BY DEF Resume, PollWakes, Grab, CaptureFails, PollResumes, Leave, SleepAgain, TypeOK, Loops
  <1>a. ~(t > token)
    BY DEF Resume, PollWakes, Grab, CaptureFails, PollResumes, TokensToCome, NoLoop
  <1>b. \/ UNCHANGED <<faded, shown>>
        \/ pending /\ faded' = TRUE /\ shown' = FALSE
        \/ pending /\ faded' = FALSE /\ shown' = TRUE
    BY DEF Resume, PollWakes, Grab, CaptureFails, PollResumes, Current
  <1>2. /\ Current(t) => poll'[t].at # "none"
        /\ Current(t) /\ poll'[t].at = "captured" => poll'[t].of = drawn
    BY DEF Resume, PollWakes, Grab, CaptureFails, PollResumes, SleepAgain, Asleep, TypeOK, Loops
  <1>3. UNCHANGED <<screen, pending, reference, token, idle, drawn, quiet, handed>>
    BY DEF Resume, PollWakes, Grab, CaptureFails, PollResumes
  <1>4. TypeOK' /\ TokensToCome'
    <2>1. shown' \in BOOLEAN /\ faded' \in BOOLEAN
      BY <1>b DEF TypeOK
    <2>2. TypeOK'
      BY <1>1, <1>3, <2>1 DEF TypeOK
    <2>3. TokensToCome'
      BY <1>1, <1>a, <1>3 DEF TypeOK, TokensToCome, Tokens
    <2> QED BY <2>2, <2>3
  <1>5. PendingIsWatched'
    BY <1>1, <1>2, <1>3 DEF PendingIsWatched, Current, TypeOK, Tokens
  <1>6. GuardIsWhatIsSeen'
    <2>1. pending' = pending
      BY <1>3
    <2> QED BY <1>b, <2>1 DEF GuardIsWhatIsSeen
  <1>7. HandedOnce' /\ FramesAreFresh' /\ TimerIsHonest'
    BY <1>1, <1>2, <1>3 DEF HandedOnce, FramesAreFresh, TimerIsHonest, Current
  <1> QED BY <1>4, <1>5, <1>6, <1>7

LEMMA IdleFiresKeeps == ASSUME IInv, NEW t \in Tokens, IdleFires(t) PROVE IInv'
  <1>1. idle' \in [Tokens -> 0..Off] /\ idle' = [idle EXCEPT ![t] = Off]
    BY TimersAssumption DEF IInv, TypeOK, IdleFires, Off
  <1>2. CASE Current(t)
    BY <1>1, <1>2, StoppingKeeps DEF IdleFires, Current, IInv, TypeOK
  <1>3. CASE ~Current(t)
    <2>1. UNCHANGED <<screen, pending, reference, faded, token, poll, shown, drawn, quiet,
                      handed>>
      BY <1>3 DEF IdleFires
    <2>2. pending => token # t
      BY <1>3 DEF Current
    <2>3. TypeOK' /\ TokensToCome' /\ PendingIsWatched'
      BY <1>1, <2>1, <2>2, TimersAssumption
      DEF IInv, TypeOK, TokensToCome, PendingIsWatched, Tokens, Off
    <2>4. GuardIsWhatIsSeen' /\ HandedOnce' /\ FramesAreFresh'
      BY <2>1 DEF IInv, GuardIsWhatIsSeen, HandedOnce, FramesAreFresh, Current
    <2>5. TimerIsHonest'
      BY <1>1, <2>1, <2>2
       DEF IInv, TypeOK, TimerIsHonest, PendingIsWatched, TokensToCome, Tokens
    <2> QED BY <2>3, <2>4, <2>5 DEF IInv
  <1> QED BY <1>2, <1>3

LEMMA TickKeeps == ASSUME IInv, Tick PROVE IInv'
  <1> USE TimersAssumption, TokenAssumption DEF IInv
  <1>1. /\ poll' \in [Tokens -> Loops]
        /\ \A t \in Tokens : poll'[t] = [poll[t] EXCEPT !.left = Less(poll[t].left)]
    <2>1. poll \in [Tokens -> Loops]
      BY DEF TypeOK
    <2>2. \A l \in Loops : [l EXCEPT !.left = Less(l.left)] \in Loops
      BY DEF Less, Loops
    <2>3. poll' = [t \in Tokens |-> [poll[t] EXCEPT !.left = Less(poll[t].left)]]
      BY DEF Tick
    <2> QED BY <2>1, <2>2, <2>3
  <1>2. /\ idle' \in [Tokens -> 0..Off] /\ quiet' \in 0..Idle
        /\ quiet' = (IF quiet < Idle THEN quiet + 1 ELSE quiet)
        /\ \A t \in Tokens : idle'[t] = IF idle[t] = Off THEN Off ELSE Less(idle[t])
    <2>1. \A t \in Tokens : idle'[t] = IF idle[t] = Off THEN Off ELSE Less(idle[t])
      BY DEF Tick
    <2>2. \A n \in 0..Off : Less(n) \in 0..Off
      BY DEF Less, Off
    <2>3. idle' \in [Tokens -> 0..Off]
      BY <2>2 DEF Tick, TypeOK, Off
    <2>4. quiet' \in 0..Idle /\ quiet' = (IF quiet < Idle THEN quiet + 1 ELSE quiet)
      BY DEF Tick, TypeOK
    <2> QED BY <2>1, <2>3, <2>4
  <1>3. UNCHANGED <<screen, pending, reference, faded, token, shown, drawn, handed>>
    BY DEF Tick
  <1>4. TypeOK' /\ GuardIsWhatIsSeen' /\ HandedOnce'
    BY <1>1, <1>2, <1>3 DEF TypeOK, GuardIsWhatIsSeen, HandedOnce
  <1>5. TokensToCome'
    BY <1>1, <1>2, <1>3 DEF TypeOK, TokensToCome, NoLoop, Less
  <1>6. PendingIsWatched' /\ FramesAreFresh'
    <2>1. \A t \in Tokens : poll'[t].at = poll[t].at /\ poll'[t].of = poll[t].of
      BY <1>1 DEF TypeOK, Loops
    <2>2. \A t \in Tokens : idle[t] # Off => idle'[t] # Off
      BY <1>2 DEF TypeOK, Less, Off
    <2>3. pending => token \in Tokens
      BY DEF TypeOK, PendingIsWatched, Tokens
    <2> QED BY <1>3, <2>1, <2>2, <2>3 DEF PendingIsWatched, FramesAreFresh, Current
  <1>7. TimerIsHonest'
    <2>1. pending => token \in Tokens /\ idle[token] # Off
      BY DEF TypeOK, PendingIsWatched, Tokens
    <2>2. pending => idle'[token] = Less(idle[token]) /\ idle[token] \in 0..Off
      BY <1>2, <2>1 DEF TypeOK
    <2> QED BY <1>2, <1>3, <2>2 DEF TypeOK, TimerIsHonest, Less, Off
  <1> QED BY <1>4, <1>5, <1>6, <1>7

LEMMA NextKeeps == IInv /\ [Next]_vars => IInv'
  <1> SUFFICES ASSUME IInv, [Next]_vars PROVE IInv'
    OBVIOUS
  <1>1. CASE SetPending
    BY <1>1, SetPendingKeeps
  <1>2. CASE ValidClick
    <2>1. idle' = idle /\ idle \in [Tokens -> 0..Off] /\ faded' \in BOOLEAN /\ ~shown'
      BY <1>2 DEF ValidClick, IInv, TypeOK
    <2> QED BY <1>2, <2>1, StoppingKeeps DEF ValidClick
  <1>3. CASE WrongButton
    BY <1>3, WrongButtonKeeps
  <1>4. CASE Clear
    <2>1. idle' = idle /\ idle \in [Tokens -> 0..Off] /\ faded' \in BOOLEAN /\ ~shown'
      BY <1>4 DEF Clear, IInv, TypeOK
    <2>2. handed' = handed /\ handed \in Nat /\ ~(handed > handed)
      BY <1>4 DEF Clear, IInv, TypeOK
    <2> QED BY <1>4, <2>1, <2>2, StoppingKeeps DEF Clear
  <1>5. CASE \E t \in Tokens : Resume(t) \/ IdleFires(t)
    BY <1>5, ResumeKeeps, IdleFiresKeeps
  <1>6. CASE ScreenMoves
    BY <1>6 DEF ScreenMoves, IInv, TypeOK, TokensToCome, PendingIsWatched, GuardIsWhatIsSeen,
                HandedOnce, FramesAreFresh, TimerIsHonest, Current
  <1>7. CASE Tick
    BY <1>7, TickKeeps
  <1>8. CASE UNCHANGED vars
    BY <1>8 DEF vars, IInv, TypeOK, TokensToCome, PendingIsWatched, GuardIsWhatIsSeen,
                HandedOnce, FramesAreFresh, TimerIsHonest, Current
  <1> QED BY <1>1, <1>2, <1>3, <1>4, <1>5, <1>6, <1>7, <1>8 DEF Next

\* The inductive invariant: the tokens, the loops and the timer in force agree.
THEOREM Inductive == Spec => []IInv
  BY InitHolds, NextKeeps, PTL DEF Spec

-----------------------------------------------------------------------------
\* Type correctness: the watch state, and a token within the watches allowed.
THEOREM TypeCorrect == Spec => []TypeOK
  <1>1. IInv => TypeOK
    BY DEF IInv
  <1> QED BY <1>1, Inductive, PTL

\* The click guard is what the user sees (pointerWatch.ts:83-116).
THEOREM ClicksCountWhenShown == Spec => []GuardIsWhatIsSeen
  <1>1. IInv => GuardIsWhatIsSeen
    BY DEF IInv
  <1> QED BY <1>1, Inductive, PTL

\* A pending pointer never loses its poll or its timer (pointerWatch.ts:141-159).
THEOREM NothingIsUnwatched == Spec => []PendingIsWatched
  <1>1. IInv => PendingIsWatched
    BY DEF IInv
  <1> QED BY <1>1, Inductive, PTL

\* No pointer reaches the caller twice (pointerWatch.ts:122-136, 184-203).
THEOREM NoStepRunsTwice == Spec => []HandedOnce
  <1>1. IInv => HandedOnce
    BY DEF IInv
  <1> QED BY <1>1, Inductive, PTL

\* A superseded capture never fades or shows the next pointer (pointerWatch.ts:100).
THEOREM VerdictsFresh == Spec => VerdictsAreFresh
  <1> DEFINE Fresh == \A t \in Tokens : poll[t].at = "captured" /\ poll'[t].at # "captured"
                                        /\ shown' # shown => poll[t].of = drawn
  <1>1. ASSUME IInv, [Next]_vars, NEW t \in Tokens, poll[t].at = "captured",
               poll'[t].at # "captured", shown' # shown
        PROVE  poll[t].of = drawn
    <2>1. CASE \E u \in Tokens : Resume(u)
      <3>1. PICK u \in Tokens : Resume(u)
        BY <2>1
      <3>2. u = t
        BY <1>1, <3>1 DEF Resume, PollWakes, Grab, CaptureFails, PollResumes, Leave, SleepAgain,
                          IInv, TypeOK
      <3>3. PollResumes(t) /\ Current(t)
        BY <1>1, <3>1, <3>2 DEF Resume, PollWakes, Grab, CaptureFails, PollResumes
      <3> QED BY <1>1, <3>3 DEF IInv, FramesAreFresh
    <2>2. CASE Arm /\ MayArm
      BY <1>1, <2>2 DEF Arm, MayArm, IInv, TypeOK, TokensToCome, NoLoop, Asleep, Tokens
    <2>3. CASE Tick
      BY <1>1, <2>3 DEF Tick
    <2>4. CASE poll' = poll
      BY <1>1, <2>4
    <2> QED BY <1>1, <2>1, <2>2, <2>3, <2>4
            DEF Next, SetPending, ValidClick, WrongButton, Clear, IdleFires, ScreenMoves, vars
  <1>2. IInv /\ [Next]_vars => [Fresh]_vars
    BY <1>1
  <1> QED BY <1>2, Inductive, PTL DEF Spec, VerdictsAreFresh

\* The idle fade never comes early (pointerWatch.ts:122-145).
THEOREM IdleFadeWaits == Spec => IdleIsIdle
  <1>1. ASSUME IInv, [Next]_vars, handed' > handed, faded' PROVE quiet = Idle
    <2>0. handed \in Nat /\ ~(0 > handed) /\ ~(handed > handed)
      BY <1>1 DEF IInv, TypeOK
    <2>1. \E t \in Tokens : IdleFires(t) /\ Current(t)
      <3>1. ~SetPending /\ ~WrongButton /\ ~Clear /\ ~ScreenMoves /\ ~Tick /\ ~UNCHANGED vars
        BY <1>1, <2>0 DEF SetPending, WrongButton, Clear, ScreenMoves, Tick, vars
      <3>2. ~ValidClick
        BY <1>1 DEF ValidClick
      <3>3. \A t \in Tokens : ~Resume(t)
        BY <1>1, <2>0 DEF Resume, PollWakes, Grab, CaptureFails, PollResumes
      <3>4. PICK t \in Tokens : IdleFires(t)
        BY <1>1, <3>1, <3>2, <3>3 DEF Next
      <3> QED BY <1>1, <2>0, <3>4 DEF IdleFires
    <2>2. idle[token] = 0 /\ pending
      BY <2>1 DEF IdleFires, Current
    <2> QED BY <1>1, <2>2, TimersAssumption DEF IInv, TypeOK, TimerIsHonest
  <1>2. IInv /\ [Next]_vars => [handed' > handed /\ faded' => quiet = Idle]_vars
    BY <1>1
  <1> QED BY <1>2, Inductive, PTL DEF Spec, IdleIsIdle

-----------------------------------------------------------------------------
(***************************************************************************)
(* NotchTurns, for every number of turns and presses, and every order in which*)
(* they supersede each other.                                              *)
(***************************************************************************)

Spoken == {"speaking", "over"}

\* Whatever is superseded when: only the newest turn is not aborted, a pointer comes of
\* a step that has been spoken, the pointer watched is the newest turn's, and an answer
\* that settled is over.
LiveIsCurrent  == current \notin aborted /\ \A t \in Turns : t \notin aborted => t > turns \/ t = current
UnbornAreToCome == \A t \in Turns : t > turns => pc[t] = "unborn"
ArmingHasSpoken == \A t \in arming : pc[t] \in Spoken
WatchedIsCurrent == watched # None => watched = current /\ pc[watched] \in Spoken
SettledIsOver   == settled /\ current # None => pc[current] = "over"

NotchInv == NotchTypeOK /\ LiveIsCurrent /\ UnbornAreToCome /\ ArmingHasSpoken
            /\ WatchedIsCurrent /\ SettledIsOver

\* An answer about to be spoken is the newest turn's; a pointer being armed has its
\* guide, and one watched has its guide and its native watch, unless it was torn.
QueuedIsCurrent == \A t \in Turns : pc[t] \in {"queued", "direct"} => t = current
GuideIsArmed    == ~torn => /\ \A t \in arming \ aborted : guide = t
                            /\ watched # None => guide = watched /\ armed

GuideInv == NotchInv /\ QueuedIsCurrent /\ GuideIsArmed

-----------------------------------------------------------------------------
LEMMA StopFacts ==
  ASSUME NotchTypeOK
  PROVE  /\ StopPlayback \in [Turns -> Places]
         /\ \A t \in Turns : \/ StopPlayback[t] = pc[t] /\ pc[t] \notin {"queued", "direct", "speaking", "upgrade"}
                             \/ StopPlayback[t] = "over" /\ pc[t] \in {"queued", "direct", "speaking", "upgrade"}
  BY DEF NotchTypeOK, StopPlayback, Places


LEMMA HoldBeginsStep == ASSUME NotchInv, HoldBegins PROVE NotchInv'
  <1> USE BoundsAssumption
      DEF Turns, None, Marks, Spoken, NotchInv, HoldBegins, turnVars, voiceVars, pointerVars
  <1>1. NotchTypeOK'
    <2>1. pc' \in [Turns -> Places]
      BY DEF NotchTypeOK, Places
    <2>2. /\ turns' \in 0..MaxTurns /\ current' \in 0..turns' /\ aborted' \subseteq 1..turns'
          /\ reveal' \subseteq 1..turns' /\ arming' \subseteq 1..turns'
      BY DEF NotchTypeOK
    <2>0. holds' \in 0..MaxHolds
      BY DEF NotchTypeOK
    <2>3. /\ submitting' \in BOOLEAN /\ settled' \in BOOLEAN /\ errorTimer' \in BOOLEAN
          /\ recording' \in BOOLEAN /\ strokes' \in BOOLEAN /\ hideTimer' \in BOOLEAN
          /\ voice' \in {"idle", "transcribing", "error"}
          /\ hold' \in {"up", "begun", "listening", "released"}
          /\ notch' \in {"hidden", "listening", "typing", "thinking",
                         "orphaned", "upgrade", "answer", "error"}
      BY DEF NotchTypeOK
    <2>4. /\ overlay' \in Turns \cup {None, Marks} /\ watched' \in Turns \cup {None}
          /\ guide' \in Turns \cup {None} /\ armed' \in BOOLEAN /\ torn' \in BOOLEAN
      BY DEF NotchTypeOK
    <2> QED BY <2>0, <2>1, <2>2, <2>3, <2>4 DEF NotchTypeOK
  <1>2. LiveIsCurrent' /\ UnbornAreToCome'
    BY DEF NotchTypeOK, LiveIsCurrent, UnbornAreToCome
  <1>3. ArmingHasSpoken'
    BY DEF NotchTypeOK, ArmingHasSpoken, UnbornAreToCome
  <1>4. WatchedIsCurrent'
    BY DEF NotchTypeOK, ArmingHasSpoken, WatchedIsCurrent, LiveIsCurrent
  <1>5. SettledIsOver'
    BY DEF NotchTypeOK, SettledIsOver, WatchedIsCurrent, LiveIsCurrent
  <1> QED BY <1>1, <1>2, <1>3, <1>4, <1>5

LEMMA HoldEndsStep == ASSUME NotchInv, HoldEnds PROVE NotchInv'
  <1> USE BoundsAssumption
      DEF Turns, None, Spoken, NotchInv, HoldEnds, turnVars, voiceVars, pointerVars
  <1>1. NotchTypeOK'
    <2>1. pc' \in [Turns -> Places]
      BY DEF NotchTypeOK, Places
    <2>2. /\ turns' \in 0..MaxTurns /\ current' \in 0..turns' /\ aborted' \subseteq 1..turns'
          /\ reveal' \subseteq 1..turns' /\ arming' \subseteq 1..turns'
      BY DEF NotchTypeOK
    <2>3. /\ submitting' \in BOOLEAN /\ settled' \in BOOLEAN /\ errorTimer' \in BOOLEAN
          /\ recording' \in BOOLEAN /\ strokes' \in BOOLEAN /\ hideTimer' \in BOOLEAN
          /\ voice' \in {"idle", "transcribing", "error"}
          /\ hold' \in {"up", "begun", "listening", "released"} /\ holds' \in 0..MaxHolds
          /\ notch' \in {"hidden", "listening", "typing", "thinking",
                         "orphaned", "upgrade", "answer", "error"}
      BY DEF NotchTypeOK
    <2>4. /\ overlay' \in Turns \cup {None, Marks} /\ watched' \in Turns \cup {None}
          /\ guide' \in Turns \cup {None} /\ armed' \in BOOLEAN /\ torn' \in BOOLEAN
      BY DEF NotchTypeOK
    <2> QED BY <2>1, <2>2, <2>3, <2>4 DEF NotchTypeOK
  <1>2. LiveIsCurrent' /\ UnbornAreToCome'
    BY DEF NotchTypeOK, LiveIsCurrent, UnbornAreToCome
  <1>3. ArmingHasSpoken'
    BY DEF NotchTypeOK, ArmingHasSpoken, UnbornAreToCome
  <1>4. WatchedIsCurrent'
    BY DEF NotchTypeOK, ArmingHasSpoken, WatchedIsCurrent, LiveIsCurrent
  <1>5. SettledIsOver'
    BY DEF NotchTypeOK, SettledIsOver, WatchedIsCurrent, LiveIsCurrent
  <1> QED BY <1>1, <1>2, <1>3, <1>4, <1>5

LEMMA OpenTypingStep == ASSUME NotchInv, OpenTyping PROVE NotchInv'
  <1> USE StopFacts, BoundsAssumption
      DEF Turns, None, Spoken, NotchInv, OpenTyping, OpenController, ResetPreviousTurn,
          ClearPointer, holdVars
  <1>1. NotchTypeOK'
    <2>1. pc' \in [Turns -> Places]
      BY DEF NotchTypeOK, Places
    <2>2. /\ turns' \in 0..MaxTurns /\ current' \in 0..turns' /\ aborted' \subseteq 1..turns'
          /\ reveal' \subseteq 1..turns' /\ arming' \subseteq 1..turns'
      BY DEF NotchTypeOK
    <2>3. /\ submitting' \in BOOLEAN /\ settled' \in BOOLEAN /\ errorTimer' \in BOOLEAN
          /\ recording' \in BOOLEAN /\ strokes' \in BOOLEAN /\ hideTimer' \in BOOLEAN
          /\ voice' \in {"idle", "transcribing", "error"}
          /\ hold' \in {"up", "begun", "listening", "released"} /\ holds' \in 0..MaxHolds
          /\ notch' \in {"hidden", "listening", "typing", "thinking",
                         "orphaned", "upgrade", "answer", "error"}
      BY DEF NotchTypeOK
    <2>4. /\ overlay' \in Turns \cup {None, Marks} /\ watched' \in Turns \cup {None}
          /\ guide' \in Turns \cup {None} /\ armed' \in BOOLEAN /\ torn' \in BOOLEAN
      BY DEF NotchTypeOK
    <2> QED BY <2>1, <2>2, <2>3, <2>4 DEF NotchTypeOK
  <1>2. LiveIsCurrent' /\ UnbornAreToCome'
    BY DEF NotchTypeOK, LiveIsCurrent, UnbornAreToCome
  <1>3. ArmingHasSpoken'
    BY DEF NotchTypeOK, ArmingHasSpoken, UnbornAreToCome
  <1>4. WatchedIsCurrent'
    BY DEF NotchTypeOK, ArmingHasSpoken, WatchedIsCurrent, LiveIsCurrent
  <1>5. SettledIsOver'
    BY DEF NotchTypeOK, SettledIsOver, WatchedIsCurrent, LiveIsCurrent
  <1> QED BY <1>1, <1>2, <1>3, <1>4, <1>5

LEMMA SubmitTypedStep == ASSUME NotchInv, SubmitTyped PROVE NotchInv'
  <1> USE StopFacts, BoundsAssumption
      DEF Turns, None, Spoken, NotchInv, SubmitTyped, OpenController, ClearPointer, TakeNotch,
          holdVars
  <1>1. NotchTypeOK'
    <2>1. pc' \in [Turns -> Places]
      BY DEF NotchTypeOK, Places
    <2>2. /\ turns' \in 0..MaxTurns /\ current' \in 0..turns' /\ aborted' \subseteq 1..turns'
          /\ reveal' \subseteq 1..turns' /\ arming' \subseteq 1..turns'
      BY DEF NotchTypeOK
    <2>3. /\ submitting' \in BOOLEAN /\ settled' \in BOOLEAN /\ errorTimer' \in BOOLEAN
          /\ recording' \in BOOLEAN /\ strokes' \in BOOLEAN /\ hideTimer' \in BOOLEAN
          /\ voice' \in {"idle", "transcribing", "error"}
          /\ hold' \in {"up", "begun", "listening", "released"} /\ holds' \in 0..MaxHolds
          /\ notch' \in {"hidden", "listening", "typing", "thinking",
                         "orphaned", "upgrade", "answer", "error"}
      BY DEF NotchTypeOK
    <2>4. /\ overlay' \in Turns \cup {None, Marks} /\ watched' \in Turns \cup {None}
          /\ guide' \in Turns \cup {None} /\ armed' \in BOOLEAN /\ torn' \in BOOLEAN
      BY DEF NotchTypeOK
    <2> QED BY <2>1, <2>2, <2>3, <2>4 DEF NotchTypeOK
  <1>2. LiveIsCurrent' /\ UnbornAreToCome'
    BY DEF NotchTypeOK, LiveIsCurrent, UnbornAreToCome
  <1>3. ArmingHasSpoken'
    BY DEF NotchTypeOK, ArmingHasSpoken, UnbornAreToCome
  <1>4. WatchedIsCurrent'
    BY DEF NotchTypeOK, ArmingHasSpoken, WatchedIsCurrent, LiveIsCurrent
  <1>5. SettledIsOver'
    BY DEF NotchTypeOK, SettledIsOver, WatchedIsCurrent, LiveIsCurrent
  <1> QED BY <1>1, <1>2, <1>3, <1>4, <1>5

LEMMA ClickStep == ASSUME NotchInv, Click PROVE NotchInv'
  <1> USE StopFacts, BoundsAssumption
      DEF Turns, None, Spoken, NotchInv, Click, OpenController, ClearPointer, voiceVars,
          holdVars
  <1>1. NotchTypeOK'
    <2>1. pc' \in [Turns -> Places]
      BY DEF NotchTypeOK, Places
    <2>2. /\ turns' \in 0..MaxTurns /\ current' \in 0..turns' /\ aborted' \subseteq 1..turns'
          /\ reveal' \subseteq 1..turns' /\ arming' \subseteq 1..turns'
      BY DEF NotchTypeOK
    <2>3. /\ submitting' \in BOOLEAN /\ settled' \in BOOLEAN /\ errorTimer' \in BOOLEAN
          /\ recording' \in BOOLEAN /\ strokes' \in BOOLEAN /\ hideTimer' \in BOOLEAN
          /\ voice' \in {"idle", "transcribing", "error"}
          /\ hold' \in {"up", "begun", "listening", "released"} /\ holds' \in 0..MaxHolds
          /\ notch' \in {"hidden", "listening", "typing", "thinking",
                         "orphaned", "upgrade", "answer", "error"}
      BY DEF NotchTypeOK
    <2>4. /\ overlay' \in Turns \cup {None, Marks} /\ watched' \in Turns \cup {None}
          /\ guide' \in Turns \cup {None} /\ armed' \in BOOLEAN /\ torn' \in BOOLEAN
      BY DEF NotchTypeOK
    <2> QED BY <2>1, <2>2, <2>3, <2>4 DEF NotchTypeOK
  <1>2. LiveIsCurrent' /\ UnbornAreToCome'
    BY DEF NotchTypeOK, LiveIsCurrent, UnbornAreToCome
  <1>3. ArmingHasSpoken'
    BY DEF NotchTypeOK, ArmingHasSpoken, UnbornAreToCome
  <1>4. WatchedIsCurrent'
    BY DEF NotchTypeOK, ArmingHasSpoken, WatchedIsCurrent, LiveIsCurrent
  <1>5. SettledIsOver'
    BY DEF NotchTypeOK, SettledIsOver, WatchedIsCurrent, LiveIsCurrent
  <1> QED BY <1>1, <1>2, <1>3, <1>4, <1>5

LEMMA DismissStep == ASSUME NotchInv, Dismiss PROVE NotchInv'
  <1> USE StopFacts, BoundsAssumption
      DEF Turns, None, Spoken, NotchInv, Dismiss, ClearPointer, HideNotch, turnVars, holdVars
  <1>1. NotchTypeOK'
    BY DEF NotchTypeOK, Places
  <1>2. LiveIsCurrent' /\ UnbornAreToCome'
    BY DEF NotchTypeOK, LiveIsCurrent, UnbornAreToCome
  <1>3. ArmingHasSpoken'
    BY DEF NotchTypeOK, ArmingHasSpoken, UnbornAreToCome
  <1>4. WatchedIsCurrent'
    BY DEF NotchTypeOK, ArmingHasSpoken, WatchedIsCurrent, LiveIsCurrent
  <1>5. SettledIsOver'
    BY DEF NotchTypeOK, SettledIsOver, WatchedIsCurrent, LiveIsCurrent
  <1> QED BY <1>1, <1>2, <1>3, <1>4, <1>5

LEMMA ListeningStep == ASSUME NotchInv, Listening PROVE NotchInv'
  <1> USE StopFacts, BoundsAssumption
      DEF Turns, None, Spoken, NotchInv, Listening, OpenController, ResetPreviousTurn,
          ClearPointer
  <1>1. NotchTypeOK'
    <2>1. pc' \in [Turns -> Places]
      BY DEF NotchTypeOK, Places
    <2>2. /\ turns' \in 0..MaxTurns /\ current' \in 0..turns' /\ aborted' \subseteq 1..turns'
          /\ reveal' \subseteq 1..turns' /\ arming' \subseteq 1..turns'
      BY DEF NotchTypeOK
    <2>3. /\ submitting' \in BOOLEAN /\ settled' \in BOOLEAN /\ errorTimer' \in BOOLEAN
          /\ recording' \in BOOLEAN /\ strokes' \in BOOLEAN /\ hideTimer' \in BOOLEAN
          /\ voice' \in {"idle", "transcribing", "error"}
          /\ hold' \in {"up", "begun", "listening", "released"} /\ holds' \in 0..MaxHolds
          /\ notch' \in {"hidden", "listening", "typing", "thinking",
                         "orphaned", "upgrade", "answer", "error"}
      BY DEF NotchTypeOK
    <2>4. /\ overlay' \in Turns \cup {None, Marks} /\ watched' \in Turns \cup {None}
          /\ guide' \in Turns \cup {None} /\ armed' \in BOOLEAN /\ torn' \in BOOLEAN
      BY DEF NotchTypeOK
    <2> QED BY <2>1, <2>2, <2>3, <2>4 DEF NotchTypeOK
  <1>2. LiveIsCurrent' /\ UnbornAreToCome'
    BY DEF NotchTypeOK, LiveIsCurrent, UnbornAreToCome
  <1>3. ArmingHasSpoken'
    BY DEF NotchTypeOK, ArmingHasSpoken, UnbornAreToCome
  <1>4. WatchedIsCurrent'
    BY DEF NotchTypeOK, ArmingHasSpoken, WatchedIsCurrent, LiveIsCurrent
  <1>5. SettledIsOver'
    BY DEF NotchTypeOK, SettledIsOver, WatchedIsCurrent, LiveIsCurrent
  <1> QED BY <1>1, <1>2, <1>3, <1>4, <1>5

LEMMA AudioStep == ASSUME NotchInv, Audio PROVE NotchInv'
  <1> USE StopFacts, BoundsAssumption
      DEF Turns, None, Spoken, NotchInv, Audio, OpenController, ResetPreviousTurn, ClearPointer
  <1>1. NotchTypeOK'
    <2>1. pc' \in [Turns -> Places]
      BY DEF NotchTypeOK, Places
    <2>2. /\ turns' \in 0..MaxTurns /\ current' \in 0..turns' /\ aborted' \subseteq 1..turns'
          /\ reveal' \subseteq 1..turns' /\ arming' \subseteq 1..turns'
      BY DEF NotchTypeOK
    <2>3. /\ submitting' \in BOOLEAN /\ settled' \in BOOLEAN /\ errorTimer' \in BOOLEAN
          /\ recording' \in BOOLEAN /\ strokes' \in BOOLEAN /\ hideTimer' \in BOOLEAN
          /\ voice' \in {"idle", "transcribing", "error"}
          /\ hold' \in {"up", "begun", "listening", "released"} /\ holds' \in 0..MaxHolds
          /\ notch' \in {"hidden", "listening", "typing", "thinking",
                         "orphaned", "upgrade", "answer", "error"}
      BY DEF NotchTypeOK
    <2>4. /\ overlay' \in Turns \cup {None, Marks} /\ watched' \in Turns \cup {None}
          /\ guide' \in Turns \cup {None} /\ armed' \in BOOLEAN /\ torn' \in BOOLEAN
      BY DEF NotchTypeOK
    <2> QED BY <2>1, <2>2, <2>3, <2>4 DEF NotchTypeOK
  <1>2. LiveIsCurrent' /\ UnbornAreToCome'
    BY DEF NotchTypeOK, LiveIsCurrent, UnbornAreToCome
  <1>3. ArmingHasSpoken'
    BY DEF NotchTypeOK, ArmingHasSpoken, UnbornAreToCome
  <1>4. WatchedIsCurrent'
    BY DEF NotchTypeOK, ArmingHasSpoken, WatchedIsCurrent, LiveIsCurrent
  <1>5. SettledIsOver'
    BY DEF NotchTypeOK, SettledIsOver, WatchedIsCurrent, LiveIsCurrent
  <1> QED BY <1>1, <1>2, <1>3, <1>4, <1>5

LEMMA NothingRecordedStep == ASSUME NotchInv, NothingRecorded PROVE NotchInv'
  <1> USE BoundsAssumption
      DEF Turns, None, Spoken, NotchInv, NothingRecorded, turnVars, voiceVars, pointerVars
  <1>1. NotchTypeOK'
    BY DEF NotchTypeOK, Places
  <1>2. LiveIsCurrent' /\ UnbornAreToCome'
    BY DEF NotchTypeOK, LiveIsCurrent, UnbornAreToCome
  <1>3. ArmingHasSpoken'
    BY DEF NotchTypeOK, ArmingHasSpoken, UnbornAreToCome
  <1>4. WatchedIsCurrent'
    BY DEF NotchTypeOK, ArmingHasSpoken, WatchedIsCurrent, LiveIsCurrent
  <1>5. SettledIsOver'
    BY DEF NotchTypeOK, SettledIsOver, WatchedIsCurrent, LiveIsCurrent
  <1> QED BY <1>1, <1>2, <1>3, <1>4, <1>5

LEMMA GestureFadedStep == ASSUME NotchInv, GestureFaded PROVE NotchInv'
  <1> USE BoundsAssumption
      DEF Turns, None, Spoken, NotchInv, GestureFaded, turnVars, voiceVars, pointerVars
  <1>1. NotchTypeOK'
    <2>1. pc' \in [Turns -> Places]
      BY DEF NotchTypeOK, Places
    <2>2. /\ turns' \in 0..MaxTurns /\ current' \in 0..turns' /\ aborted' \subseteq 1..turns'
          /\ reveal' \subseteq 1..turns' /\ arming' \subseteq 1..turns'
      BY DEF NotchTypeOK
    <2>3. /\ submitting' \in BOOLEAN /\ settled' \in BOOLEAN /\ errorTimer' \in BOOLEAN
          /\ recording' \in BOOLEAN /\ strokes' \in BOOLEAN /\ hideTimer' \in BOOLEAN
          /\ voice' \in {"idle", "transcribing", "error"}
          /\ hold' \in {"up", "begun", "listening", "released"} /\ holds' \in 0..MaxHolds
          /\ notch' \in {"hidden", "listening", "typing", "thinking",
                         "orphaned", "upgrade", "answer", "error"}
      BY ZenonT(60) DEF NotchTypeOK
    <2>4. /\ overlay' \in Turns \cup {None, Marks} /\ watched' \in Turns \cup {None}
          /\ guide' \in Turns \cup {None} /\ armed' \in BOOLEAN /\ torn' \in BOOLEAN
      BY DEF NotchTypeOK
    <2> QED BY <2>1, <2>2, <2>3, <2>4 DEF NotchTypeOK
  <1>2. LiveIsCurrent' /\ UnbornAreToCome'
    BY DEF NotchTypeOK, LiveIsCurrent, UnbornAreToCome
  <1>3. ArmingHasSpoken'
    BY DEF NotchTypeOK, ArmingHasSpoken, UnbornAreToCome
  <1>4. WatchedIsCurrent'
    BY DEF NotchTypeOK, ArmingHasSpoken, WatchedIsCurrent, LiveIsCurrent
  <1>5. SettledIsOver'
    BY DEF NotchTypeOK, SettledIsOver, WatchedIsCurrent, LiveIsCurrent
  <1> QED BY <1>1, <1>2, <1>3, <1>4, <1>5

LEMMA ErrorExpiresStep == ASSUME NotchInv, ErrorExpires PROVE NotchInv'
  <1> USE StopFacts, BoundsAssumption
      DEF Turns, None, Spoken, NotchInv, ErrorExpires, ClearPointer, HideNotch, turnVars,
          holdVars, pointerVars
  <1>1. NotchTypeOK'
    <2>1. pc' \in [Turns -> Places]
      BY DEF NotchTypeOK, Places
    <2>2. /\ turns' \in 0..MaxTurns /\ current' \in 0..turns' /\ aborted' \subseteq 1..turns'
          /\ reveal' \subseteq 1..turns' /\ arming' \subseteq 1..turns'
      BY DEF NotchTypeOK
    <2>3. /\ submitting' \in BOOLEAN /\ settled' \in BOOLEAN /\ errorTimer' \in BOOLEAN
          /\ recording' \in BOOLEAN /\ strokes' \in BOOLEAN /\ hideTimer' \in BOOLEAN
          /\ voice' \in {"idle", "transcribing", "error"}
          /\ hold' \in {"up", "begun", "listening", "released"} /\ holds' \in 0..MaxHolds
          /\ notch' \in {"hidden", "listening", "typing", "thinking",
                         "orphaned", "upgrade", "answer", "error"}
      BY ZenonT(60) DEF NotchTypeOK
    <2>4. /\ overlay' \in Turns \cup {None, Marks} /\ watched' \in Turns \cup {None}
          /\ guide' \in Turns \cup {None} /\ armed' \in BOOLEAN /\ torn' \in BOOLEAN
      BY DEF NotchTypeOK
    <2> QED BY <2>1, <2>2, <2>3, <2>4 DEF NotchTypeOK
  <1>2. LiveIsCurrent' /\ UnbornAreToCome'
    BY DEF NotchTypeOK, LiveIsCurrent, UnbornAreToCome
  <1>3. ArmingHasSpoken'
    <2>1. arming' = arming /\ \A u \in Turns : pc[u] \in Spoken => pc'[u] \in Spoken
      BY DEF NotchTypeOK
    <2> QED BY <2>1 DEF NotchTypeOK, ArmingHasSpoken
  <1>4. WatchedIsCurrent'
    BY DEF NotchTypeOK, ArmingHasSpoken, WatchedIsCurrent, LiveIsCurrent
  <1>5. SettledIsOver'
    BY DEF NotchTypeOK, SettledIsOver, WatchedIsCurrent, LiveIsCurrent
  <1> QED BY <1>1, <1>2, <1>3, <1>4, <1>5

LEMMA IdleFadeStep == ASSUME NotchInv, IdleFade PROVE NotchInv'
  <1> USE BoundsAssumption
      DEF Turns, None, Spoken, NotchInv, IdleFade, ClearPointer, turnVars, voiceVars, holdVars
  <1>1. NotchTypeOK'
    BY ZenonT(60) DEF NotchTypeOK, Places
  <1>2. LiveIsCurrent' /\ UnbornAreToCome'
    BY DEF NotchTypeOK, LiveIsCurrent, UnbornAreToCome
  <1>3. ArmingHasSpoken'
    BY DEF NotchTypeOK, ArmingHasSpoken, UnbornAreToCome
  <1>4. WatchedIsCurrent'
    BY DEF NotchTypeOK, ArmingHasSpoken, WatchedIsCurrent, LiveIsCurrent
  <1>5. SettledIsOver'
    BY DEF NotchTypeOK, SettledIsOver, WatchedIsCurrent, LiveIsCurrent
  <1> QED BY <1>1, <1>2, <1>3, <1>4, <1>5

LEMMA IdleCloseStep == ASSUME NotchInv, IdleClose PROVE NotchInv'
  <1> USE StopFacts, BoundsAssumption
      DEF Turns, None, Spoken, NotchInv, IdleClose, ClearPointer, HideNotch, turnVars, holdVars
  <1>1. NotchTypeOK'
    BY DEF NotchTypeOK, Places
  <1>2. LiveIsCurrent' /\ UnbornAreToCome'
    BY DEF NotchTypeOK, LiveIsCurrent, UnbornAreToCome
  <1>3. ArmingHasSpoken'
    BY DEF NotchTypeOK, ArmingHasSpoken, UnbornAreToCome
  <1>4. WatchedIsCurrent'
    BY DEF NotchTypeOK, ArmingHasSpoken, WatchedIsCurrent, LiveIsCurrent
  <1>5. SettledIsOver'
    BY DEF NotchTypeOK, SettledIsOver, WatchedIsCurrent, LiveIsCurrent
  <1> QED BY <1>1, <1>2, <1>3, <1>4, <1>5

LEMMA PaywallAnswersStep == ASSUME NotchInv, NEW t \in Turns, PaywallAnswers(t) PROVE NotchInv'
  <1> USE StopFacts, BoundsAssumption
      DEF Turns, None, Spoken, NotchInv, PaywallAnswers, turnVars, holdVars, pointerVars,
          Superseded
  <1>1. NotchTypeOK'
    BY DEF NotchTypeOK, Places
  <1>2. LiveIsCurrent' /\ UnbornAreToCome'
    BY DEF NotchTypeOK, LiveIsCurrent, UnbornAreToCome
  <1>3. ArmingHasSpoken'
    BY DEF NotchTypeOK, ArmingHasSpoken, UnbornAreToCome
  <1>4. WatchedIsCurrent'
    BY DEF NotchTypeOK, ArmingHasSpoken, WatchedIsCurrent, LiveIsCurrent
  <1>5. SettledIsOver'
    BY DEF NotchTypeOK, SettledIsOver, WatchedIsCurrent, LiveIsCurrent
  <1> QED BY <1>1, <1>2, <1>3, <1>4, <1>5

LEMMA UpgradeEndsStep == ASSUME NotchInv, NEW t \in Turns, UpgradeEnds(t) PROVE NotchInv'
  <1> USE BoundsAssumption
      DEF Turns, None, Spoken, NotchInv, UpgradeEnds, turnVars, voiceVars, holdVars,
          pointerVars
  <1>1. NotchTypeOK'
    BY DEF NotchTypeOK, Places
  <1>2. LiveIsCurrent' /\ UnbornAreToCome'
    BY DEF NotchTypeOK, LiveIsCurrent, UnbornAreToCome
  <1>3. ArmingHasSpoken'
    BY DEF NotchTypeOK, ArmingHasSpoken, UnbornAreToCome
  <1>4. WatchedIsCurrent'
    BY DEF NotchTypeOK, ArmingHasSpoken, WatchedIsCurrent, LiveIsCurrent
  <1>5. SettledIsOver'
    BY DEF NotchTypeOK, SettledIsOver, WatchedIsCurrent, LiveIsCurrent
  <1> QED BY <1>1, <1>2, <1>3, <1>4, <1>5

LEMMA TranscribedStep == ASSUME NotchInv, NEW t \in Turns, Transcribed(t) PROVE NotchInv'
  <1> USE BoundsAssumption
      DEF Turns, None, Spoken, NotchInv, Transcribed, turnVars, voiceVars, holdVars,
          pointerVars, Superseded
  <1>1. NotchTypeOK'
    <2>1. pc' \in [Turns -> Places]
      BY DEF NotchTypeOK, Places
    <2>2. /\ turns' \in 0..MaxTurns /\ current' \in 0..turns' /\ aborted' \subseteq 1..turns'
          /\ reveal' \subseteq 1..turns' /\ arming' \subseteq 1..turns'
      BY DEF NotchTypeOK
    <2>3. /\ submitting' \in BOOLEAN /\ settled' \in BOOLEAN /\ errorTimer' \in BOOLEAN
          /\ recording' \in BOOLEAN /\ strokes' \in BOOLEAN /\ hideTimer' \in BOOLEAN
          /\ voice' \in {"idle", "transcribing", "error"}
          /\ hold' \in {"up", "begun", "listening", "released"} /\ holds' \in 0..MaxHolds
          /\ notch' \in {"hidden", "listening", "typing", "thinking",
                         "orphaned", "upgrade", "answer", "error"}
      <3>0. /\ submitting \in BOOLEAN /\ settled \in BOOLEAN /\ errorTimer \in BOOLEAN
            /\ recording \in BOOLEAN /\ strokes \in BOOLEAN /\ hideTimer \in BOOLEAN
            /\ voice \in {"idle", "transcribing", "error"}
            /\ hold \in {"up", "begun", "listening", "released"} /\ holds \in 0..MaxHolds
            /\ notch \in {"hidden", "listening", "typing", "thinking",
                          "orphaned", "upgrade", "answer", "error"}
        BY DEF NotchTypeOK
      <3>1. UNCHANGED <<submitting, settled, recording, strokes, hideTimer, hold, holds>>
        OBVIOUS
      <3>2. UNCHANGED <<voice, errorTimer, notch>> \/ (voice' = "error" /\ errorTimer' = TRUE /\ notch' = "error")
        OBVIOUS
      <3> QED BY ONLY ZenonT(60), <3>0, <3>1, <3>2
    <2>4. /\ overlay' \in Turns \cup {None, Marks} /\ watched' \in Turns \cup {None}
          /\ guide' \in Turns \cup {None} /\ armed' \in BOOLEAN /\ torn' \in BOOLEAN
      BY DEF NotchTypeOK
    <2> QED BY <2>1, <2>2, <2>3, <2>4 DEF NotchTypeOK
  <1>2. LiveIsCurrent' /\ UnbornAreToCome'
    BY DEF NotchTypeOK, LiveIsCurrent, UnbornAreToCome
  <1>3. ArmingHasSpoken'
    BY DEF NotchTypeOK, ArmingHasSpoken, UnbornAreToCome
  <1>4. WatchedIsCurrent'
    BY DEF NotchTypeOK, ArmingHasSpoken, WatchedIsCurrent, LiveIsCurrent
  <1>5. SettledIsOver'
    BY DEF NotchTypeOK, SettledIsOver, WatchedIsCurrent, LiveIsCurrent
  <1> QED BY <1>1, <1>2, <1>3, <1>4, <1>5

LEMMA SubmitVoiceStep == ASSUME NotchInv, NEW t \in Turns, SubmitVoice(t) PROVE NotchInv'
  <1> USE StopFacts, BoundsAssumption
      DEF Turns, None, Spoken, NotchInv, SubmitVoice, ClearPointer, TakeNotch, turnVars
  <1>1. NotchTypeOK'
    BY DEF NotchTypeOK, Places
  <1>2. LiveIsCurrent' /\ UnbornAreToCome'
    BY DEF NotchTypeOK, LiveIsCurrent, UnbornAreToCome
  <1>3. ArmingHasSpoken'
    BY DEF NotchTypeOK, ArmingHasSpoken, UnbornAreToCome
  <1>4. WatchedIsCurrent'
    BY DEF NotchTypeOK, ArmingHasSpoken, WatchedIsCurrent, LiveIsCurrent
  <1>5. SettledIsOver'
    BY DEF NotchTypeOK, SettledIsOver, WatchedIsCurrent, LiveIsCurrent
  <1> QED BY <1>1, <1>2, <1>3, <1>4, <1>5

LEMMA GateAnswersStep == ASSUME NotchInv, NEW t \in Turns, GateAnswers(t) PROVE NotchInv'
  <1> USE BoundsAssumption
      DEF Turns, None, Spoken, NotchInv, GateAnswers, turnVars, voiceVars, holdVars,
          pointerVars, Superseded
  <1>1. NotchTypeOK'
    <2>1. pc' \in [Turns -> Places]
      BY DEF NotchTypeOK, Places
    <2>2. /\ turns' \in 0..MaxTurns /\ current' \in 0..turns' /\ aborted' \subseteq 1..turns'
          /\ reveal' \subseteq 1..turns' /\ arming' \subseteq 1..turns'
      BY DEF NotchTypeOK
    <2>3. /\ submitting' \in BOOLEAN /\ settled' \in BOOLEAN /\ errorTimer' \in BOOLEAN
          /\ recording' \in BOOLEAN /\ strokes' \in BOOLEAN /\ hideTimer' \in BOOLEAN
          /\ voice' \in {"idle", "transcribing", "error"}
          /\ hold' \in {"up", "begun", "listening", "released"} /\ holds' \in 0..MaxHolds
          /\ notch' \in {"hidden", "listening", "typing", "thinking",
                         "orphaned", "upgrade", "answer", "error"}
      BY ZenonT(60) DEF NotchTypeOK
    <2>4. /\ overlay' \in Turns \cup {None, Marks} /\ watched' \in Turns \cup {None}
          /\ guide' \in Turns \cup {None} /\ armed' \in BOOLEAN /\ torn' \in BOOLEAN
      BY DEF NotchTypeOK
    <2> QED BY <2>1, <2>2, <2>3, <2>4 DEF NotchTypeOK
  <1>2. LiveIsCurrent' /\ UnbornAreToCome'
    BY DEF NotchTypeOK, LiveIsCurrent, UnbornAreToCome
  <1>3. ArmingHasSpoken'
    BY DEF NotchTypeOK, ArmingHasSpoken, UnbornAreToCome
  <1>4. WatchedIsCurrent'
    BY DEF NotchTypeOK, ArmingHasSpoken, WatchedIsCurrent, LiveIsCurrent
  <1>5. SettledIsOver'
    BY DEF NotchTypeOK, SettledIsOver, WatchedIsCurrent, LiveIsCurrent
  <1> QED BY <1>1, <1>2, <1>3, <1>4, <1>5

LEMMA TutorAnswersStep == ASSUME NotchInv, NEW t \in Turns, TutorAnswers(t) PROVE NotchInv'
  <1> USE BoundsAssumption
      DEF Turns, None, Spoken, NotchInv, TutorAnswers, turnVars, voiceVars, holdVars,
          pointerVars, Superseded
  <1>1. NotchTypeOK'
    <2>1. pc' \in [Turns -> Places]
      BY DEF NotchTypeOK, Places
    <2>2. /\ turns' \in 0..MaxTurns /\ current' \in 0..turns' /\ aborted' \subseteq 1..turns'
          /\ reveal' \subseteq 1..turns' /\ arming' \subseteq 1..turns'
      BY DEF NotchTypeOK
    <2>3. /\ submitting' \in BOOLEAN /\ settled' \in BOOLEAN /\ errorTimer' \in BOOLEAN
          /\ recording' \in BOOLEAN /\ strokes' \in BOOLEAN /\ hideTimer' \in BOOLEAN
          /\ voice' \in {"idle", "transcribing", "error"}
          /\ hold' \in {"up", "begun", "listening", "released"} /\ holds' \in 0..MaxHolds
          /\ notch' \in {"hidden", "listening", "typing", "thinking",
                         "orphaned", "upgrade", "answer", "error"}
      BY ZenonT(60) DEF NotchTypeOK
    <2>4. /\ overlay' \in Turns \cup {None, Marks} /\ watched' \in Turns \cup {None}
          /\ guide' \in Turns \cup {None} /\ armed' \in BOOLEAN /\ torn' \in BOOLEAN
      BY DEF NotchTypeOK
    <2> QED BY <2>1, <2>2, <2>3, <2>4 DEF NotchTypeOK
  <1>2. LiveIsCurrent' /\ UnbornAreToCome'
    BY DEF NotchTypeOK, LiveIsCurrent, UnbornAreToCome
  <1>3. ArmingHasSpoken'
    BY DEF NotchTypeOK, ArmingHasSpoken, UnbornAreToCome
  <1>4. WatchedIsCurrent'
    BY DEF NotchTypeOK, ArmingHasSpoken, WatchedIsCurrent, LiveIsCurrent
  <1>5. SettledIsOver'
    BY DEF NotchTypeOK, SettledIsOver, WatchedIsCurrent, LiveIsCurrent
  <1> QED BY <1>1, <1>2, <1>3, <1>4, <1>5

LEMMA SpeechStartsStep == ASSUME NotchInv, NEW t \in Turns, SpeechStarts(t) PROVE NotchInv'
  <1> USE StopFacts, BoundsAssumption
      DEF Turns, None, Spoken, NotchInv, SpeechStarts, turnVars, voiceVars, holdVars
  <1>1. NotchTypeOK'
    <2>1. pc' \in [Turns -> Places]
      BY DEF NotchTypeOK, Places
    <2>0. t \in 1..turns
      BY DEF NotchTypeOK, UnbornAreToCome
    <2>2. /\ turns' \in 0..MaxTurns /\ current' \in 0..turns' /\ aborted' \subseteq 1..turns'
          /\ reveal' \subseteq 1..turns' /\ arming' \subseteq 1..turns'
      BY <2>0 DEF NotchTypeOK
    <2>3. /\ submitting' \in BOOLEAN /\ settled' \in BOOLEAN /\ errorTimer' \in BOOLEAN
          /\ recording' \in BOOLEAN /\ strokes' \in BOOLEAN /\ hideTimer' \in BOOLEAN
          /\ voice' \in {"idle", "transcribing", "error"}
          /\ hold' \in {"up", "begun", "listening", "released"} /\ holds' \in 0..MaxHolds
          /\ notch' \in {"hidden", "listening", "typing", "thinking",
                         "orphaned", "upgrade", "answer", "error"}
      BY DEF NotchTypeOK
    <2>4. /\ overlay' \in Turns \cup {None, Marks} /\ watched' \in Turns \cup {None}
          /\ guide' \in Turns \cup {None} /\ armed' \in BOOLEAN /\ torn' \in BOOLEAN
      BY DEF NotchTypeOK
    <2> QED BY <2>1, <2>2, <2>3, <2>4 DEF NotchTypeOK
  <1>2. LiveIsCurrent' /\ UnbornAreToCome'
    BY DEF NotchTypeOK, LiveIsCurrent, UnbornAreToCome
  <1>3. ArmingHasSpoken'
    <2>1. arming' \subseteq arming \cup {t} /\ pc'[t] = "speaking"
      BY DEF NotchTypeOK
    <2>2. \A u \in Turns : pc[u] \in Spoken => pc'[u] \in Spoken
      BY DEF NotchTypeOK
    <2> QED BY <2>1, <2>2 DEF NotchTypeOK, ArmingHasSpoken
  <1>4. WatchedIsCurrent'
    BY DEF NotchTypeOK, ArmingHasSpoken, WatchedIsCurrent, LiveIsCurrent
  <1>5. SettledIsOver'
    BY DEF NotchTypeOK, SettledIsOver, WatchedIsCurrent, LiveIsCurrent
  <1> QED BY <1>1, <1>2, <1>3, <1>4, <1>5

LEMMA RevealPlacesStep == ASSUME NotchInv, NEW t \in Turns, RevealPlaces(t) PROVE NotchInv'
  <1> USE BoundsAssumption
      DEF Turns, None, Spoken, NotchInv, RevealPlaces, turnVars, voiceVars, holdVars,
          pointerVars
  <1>1. NotchTypeOK'
    BY DEF NotchTypeOK, Places
  <1>2. LiveIsCurrent' /\ UnbornAreToCome'
    BY DEF NotchTypeOK, LiveIsCurrent, UnbornAreToCome
  <1>3. ArmingHasSpoken'
    BY DEF NotchTypeOK, ArmingHasSpoken, UnbornAreToCome
  <1>4. WatchedIsCurrent'
    BY DEF NotchTypeOK, ArmingHasSpoken, WatchedIsCurrent, LiveIsCurrent
  <1>5. SettledIsOver'
    BY DEF NotchTypeOK, SettledIsOver, WatchedIsCurrent, LiveIsCurrent
  <1> QED BY <1>1, <1>2, <1>3, <1>4, <1>5

LEMMA PointerHashedStep == ASSUME NotchInv, NEW t \in Turns, PointerHashed(t) PROVE NotchInv'
  <1> USE BoundsAssumption
      DEF Turns, None, Spoken, NotchInv, PointerHashed, turnVars, voiceVars, holdVars,
          Superseded
  <1>1. NotchTypeOK'
    <2>1. pc' \in [Turns -> Places]
      BY DEF NotchTypeOK, Places
    <2>2. /\ turns' \in 0..MaxTurns /\ current' \in 0..turns' /\ aborted' \subseteq 1..turns'
          /\ reveal' \subseteq 1..turns' /\ arming' \subseteq 1..turns'
      BY DEF NotchTypeOK
    <2>3. /\ submitting' \in BOOLEAN /\ settled' \in BOOLEAN /\ errorTimer' \in BOOLEAN
          /\ recording' \in BOOLEAN /\ strokes' \in BOOLEAN /\ hideTimer' \in BOOLEAN
          /\ voice' \in {"idle", "transcribing", "error"}
          /\ hold' \in {"up", "begun", "listening", "released"} /\ holds' \in 0..MaxHolds
          /\ notch' \in {"hidden", "listening", "typing", "thinking",
                         "orphaned", "upgrade", "answer", "error"}
      BY DEF NotchTypeOK
    <2>4. /\ overlay' \in Turns \cup {None, Marks} /\ watched' \in Turns \cup {None}
          /\ guide' \in Turns \cup {None} /\ armed' \in BOOLEAN /\ torn' \in BOOLEAN
      BY DEF NotchTypeOK
    <2> QED BY <2>1, <2>2, <2>3, <2>4 DEF NotchTypeOK
  <1>2. LiveIsCurrent' /\ UnbornAreToCome'
    BY DEF NotchTypeOK, LiveIsCurrent, UnbornAreToCome
  <1>3. ArmingHasSpoken'
    BY DEF NotchTypeOK, ArmingHasSpoken, UnbornAreToCome
  <1>4. WatchedIsCurrent'
    BY DEF NotchTypeOK, ArmingHasSpoken, WatchedIsCurrent, LiveIsCurrent
  <1>5. SettledIsOver'
    BY DEF NotchTypeOK, SettledIsOver, WatchedIsCurrent, LiveIsCurrent
  <1> QED BY <1>1, <1>2, <1>3, <1>4, <1>5

LEMMA SpeechEndsStep == ASSUME NotchInv, NEW t \in Turns, SpeechEnds(t) PROVE NotchInv'
  <1> USE BoundsAssumption
      DEF Turns, None, Spoken, NotchInv, SpeechEnds, turnVars, voiceVars, holdVars,
          pointerVars, Superseded
  <1>1. NotchTypeOK'
    BY DEF NotchTypeOK, Places
  <1>2. LiveIsCurrent' /\ UnbornAreToCome'
    BY DEF NotchTypeOK, LiveIsCurrent, UnbornAreToCome
  <1>3. ArmingHasSpoken'
    BY DEF NotchTypeOK, ArmingHasSpoken, UnbornAreToCome
  <1>4. WatchedIsCurrent'
    BY DEF NotchTypeOK, ArmingHasSpoken, WatchedIsCurrent, LiveIsCurrent
  <1>5. SettledIsOver'
    <2>1. ASSUME t \notin aborted PROVE t = current
      BY <2>1 DEF NotchTypeOK, LiveIsCurrent, UnbornAreToCome
    <2>2. pc'[t] = "over" /\ \A u \in Turns : pc[u] = "over" => pc'[u] = "over"
      BY DEF NotchTypeOK
    <2>3. settled' => settled \/ t \notin aborted
      OBVIOUS
    <2> QED BY <2>1, <2>2, <2>3 DEF NotchTypeOK, SettledIsOver
  <1> QED BY <1>1, <1>2, <1>3, <1>4, <1>5

LEMMA ClickSettledStep == ASSUME NotchInv, NEW t \in Turns, ClickSettled(t) PROVE NotchInv'
  <1> USE BoundsAssumption
      DEF Turns, None, Spoken, NotchInv, ClickSettled, turnVars, voiceVars, holdVars,
          pointerVars, Superseded
  <1>1. NotchTypeOK'
    <2>1. pc' \in [Turns -> Places]
      BY DEF NotchTypeOK, Places
    <2>2. /\ turns' \in 0..MaxTurns /\ current' \in 0..turns' /\ aborted' \subseteq 1..turns'
          /\ reveal' \subseteq 1..turns' /\ arming' \subseteq 1..turns'
      BY DEF NotchTypeOK
    <2>3. /\ submitting' \in BOOLEAN /\ settled' \in BOOLEAN /\ errorTimer' \in BOOLEAN
          /\ recording' \in BOOLEAN /\ strokes' \in BOOLEAN /\ hideTimer' \in BOOLEAN
          /\ voice' \in {"idle", "transcribing", "error"}
          /\ hold' \in {"up", "begun", "listening", "released"} /\ holds' \in 0..MaxHolds
          /\ notch' \in {"hidden", "listening", "typing", "thinking",
                         "orphaned", "upgrade", "answer", "error"}
      <3>0. /\ submitting \in BOOLEAN /\ settled \in BOOLEAN /\ errorTimer \in BOOLEAN
            /\ recording \in BOOLEAN /\ strokes \in BOOLEAN /\ hideTimer \in BOOLEAN
            /\ voice \in {"idle", "transcribing", "error"}
            /\ hold \in {"up", "begun", "listening", "released"} /\ holds \in 0..MaxHolds
            /\ notch \in {"hidden", "listening", "typing", "thinking",
                          "orphaned", "upgrade", "answer", "error"}
        BY DEF NotchTypeOK
      <3>1. UNCHANGED <<voice, errorTimer, notch, recording, strokes, hideTimer, hold, holds>>
        OBVIOUS
      <3>2. UNCHANGED <<submitting, settled>> \/ (submitting' = FALSE /\ settled' = TRUE)
        OBVIOUS
      <3> QED BY ONLY ZenonT(60), <3>0, <3>1, <3>2
    <2>4. /\ overlay' \in Turns \cup {None, Marks} /\ watched' \in Turns \cup {None}
          /\ guide' \in Turns \cup {None} /\ armed' \in BOOLEAN /\ torn' \in BOOLEAN
      BY DEF NotchTypeOK
    <2> QED BY <2>1, <2>2, <2>3, <2>4 DEF NotchTypeOK
  <1>2. LiveIsCurrent' /\ UnbornAreToCome'
    BY DEF NotchTypeOK, LiveIsCurrent, UnbornAreToCome
  <1>3. ArmingHasSpoken'
    BY DEF NotchTypeOK, ArmingHasSpoken, UnbornAreToCome
  <1>4. WatchedIsCurrent'
    BY DEF NotchTypeOK, ArmingHasSpoken, WatchedIsCurrent, LiveIsCurrent
  <1>5. SettledIsOver'
    <2>1. ASSUME t \notin aborted PROVE t = current
      BY <2>1 DEF NotchTypeOK, LiveIsCurrent, UnbornAreToCome
    <2>2. \A u \in Turns : pc[u] = "over" => pc'[u] = "over"
      BY DEF NotchTypeOK
    <2>3. settled' # settled => t \notin aborted /\ pc'[t] = "over"
      <3>1. settled' # settled => pc' = [pc EXCEPT ![t] = "over"] /\ ~Superseded(t)
        OBVIOUS
      <3>2. pc' = [pc EXCEPT ![t] = "over"] => pc'[t] = "over"
        BY DEF NotchTypeOK
      <3> QED BY ONLY <3>1, <3>2 DEF Superseded
    <2>4. current' = current /\ (current # None => current \in Turns)
      BY DEF NotchTypeOK
    <2>5. CASE settled' # settled
      BY <2>1, <2>3, <2>4, <2>5 DEF SettledIsOver
    <2>6. CASE settled' = settled
      BY <2>2, <2>4, <2>6 DEF SettledIsOver
    <2> QED BY <2>5, <2>6
  <1> QED BY <1>1, <1>2, <1>3, <1>4, <1>5

LEMMA NotchBegins == NotchInit => GuideInv
  <1> SUFFICES ASSUME NotchInit PROVE GuideInv
    OBVIOUS
  <1> USE BoundsAssumption DEF NotchInit, Turns, None, Marks
  <1>1. NotchTypeOK
    <2>1. pc \in [Turns -> Places]
      BY DEF Places
    <2>2. turns \in 0..MaxTurns /\ holds \in 0..MaxHolds
      OBVIOUS
    <2>3. current \in 0..turns /\ aborted \subseteq 1..turns /\ reveal \subseteq 1..turns /\ arming \subseteq 1..turns
      OBVIOUS
    <2>4. /\ submitting \in BOOLEAN /\ settled \in BOOLEAN /\ errorTimer \in BOOLEAN
          /\ recording \in BOOLEAN /\ strokes \in BOOLEAN /\ hideTimer \in BOOLEAN /\ armed \in BOOLEAN
          /\ torn \in BOOLEAN
      OBVIOUS
    <2> QED BY <2>1, <2>2, <2>3, <2>4 DEF NotchTypeOK
  <1>2. LiveIsCurrent /\ UnbornAreToCome /\ ArmingHasSpoken /\ WatchedIsCurrent /\ SettledIsOver
    BY DEF LiveIsCurrent, UnbornAreToCome, ArmingHasSpoken, WatchedIsCurrent, SettledIsOver
  <1>3. QueuedIsCurrent /\ GuideIsArmed
    BY DEF QueuedIsCurrent, GuideIsArmed
  <1> QED BY <1>1, <1>2, <1>3 DEF GuideInv, NotchInv

LEMMA NotchSteps == NotchInv /\ [NotchNext]_notchVars => NotchInv'
  <1> SUFFICES ASSUME NotchInv, [NotchNext]_notchVars PROVE NotchInv'
    OBVIOUS
  <1>1. ASSUME NEW t \in Turns, Step(t) PROVE NotchInv'
    BY <1>1, PaywallAnswersStep, UpgradeEndsStep, TranscribedStep, SubmitVoiceStep,
       GateAnswersStep, TutorAnswersStep, SpeechStartsStep, RevealPlacesStep,
       PointerHashedStep, SpeechEndsStep, ClickSettledStep
     DEF Step
  <1>2. CASE UNCHANGED notchVars
    BY <1>2
     DEF notchVars, turnVars, voiceVars, holdVars, pointerVars, NotchInv, NotchTypeOK,
         LiveIsCurrent,
                UnbornAreToCome, ArmingHasSpoken, WatchedIsCurrent, SettledIsOver
  <1> QED BY <1>1, <1>2, HoldBeginsStep, HoldEndsStep, OpenTypingStep, SubmitTypedStep,
             ClickStep, DismissStep, ListeningStep, AudioStep, NothingRecordedStep,
             GestureFadedStep, ErrorExpiresStep, IdleFadeStep, IdleCloseStep
      DEF NotchNext, User, Events, Timers

-----------------------------------------------------------------------------
(* The guide of the pointer that is being armed or watched.                 *)

LEMMA GuideSteps == GuideInv /\ [NotchNext]_notchVars => GuideInv'
  <1> SUFFICES ASSUME GuideInv, [NotchNext]_notchVars PROVE GuideInv'
    OBVIOUS
  <1>0. NotchInv'
    BY NotchSteps DEF GuideInv
  <1>1. SUFFICES QueuedIsCurrent' /\ GuideIsArmed'
    BY <1>0 DEF GuideInv
  <1> USE StopFacts, BoundsAssumption DEF GuideInv, NotchInv, Turns, None
  \* A new controller whose handler stops the playback: nothing is queued, no turn that
  \* is being armed lives.
  <1>2. ASSUME ClearPointer, arming' = arming, QueuedIsCurrent'
        PROVE  QueuedIsCurrent' /\ GuideIsArmed'
    BY <1>2 DEF ClearPointer, GuideIsArmed
  <1>3. CASE Listening \/ OpenTyping \/ Audio \/ SubmitTyped
    <2>1. ClearPointer /\ arming' = arming
      BY <1>3 DEF Listening, OpenTyping, Audio, SubmitTyped, ResetPreviousTurn, TakeNotch
    <2>2. QueuedIsCurrent'
      BY <1>3 DEF Listening, OpenTyping, Audio, SubmitTyped, TakeNotch, QueuedIsCurrent,
                  NotchTypeOK
    <2> QED BY <1>2, <2>1, <2>2
  <1>4. CASE Dismiss \/ IdleClose \/ (ErrorExpires /\ voice = "error")
    <2>1. HideNotch
      BY <1>4 DEF Dismiss, IdleClose, ErrorExpires
    <2>2. QueuedIsCurrent'
      BY <2>1 DEF HideNotch, QueuedIsCurrent, NotchTypeOK
    <2> QED BY <1>2, <2>1, <2>2 DEF HideNotch
  <1>5. CASE Click
    <2>1. QueuedIsCurrent'
      BY <1>5 DEF Click, QueuedIsCurrent, WatchedIsCurrent, NotchTypeOK, Spoken
    <2> QED BY <1>2, <1>5, <2>1 DEF Click
  <1>6. CASE IdleFade
    <2>1. QueuedIsCurrent'
      BY <1>6 DEF IdleFade, QueuedIsCurrent, turnVars
    <2> QED BY <1>2, <1>6, <2>1 DEF IdleFade
  <1>7. CASE \/ HoldBegins \/ HoldEnds \/ NothingRecorded \/ GestureFaded
             \/ (ErrorExpires /\ voice # "error") \/ UNCHANGED notchVars
    <2>1. UNCHANGED <<turnVars, pc, arming, pointerVars>>
      BY <1>7 DEF HoldBegins, HoldEnds, NothingRecorded, GestureFaded, ErrorExpires, notchVars
    <2> QED BY <2>1 DEF turnVars, pointerVars, QueuedIsCurrent, GuideIsArmed
  <1>8. ASSUME NEW t \in Turns, SubmitVoice(t) PROVE QueuedIsCurrent' /\ GuideIsArmed'
    <2>1. ClearPointer /\ arming' = arming
      BY <1>8 DEF SubmitVoice, TakeNotch
    <2>2. QueuedIsCurrent'
      BY <1>8 DEF SubmitVoice, TakeNotch, QueuedIsCurrent, NotchTypeOK, turnVars
    <2> QED BY <1>2, <2>1, <2>2
  <1>9. ASSUME NEW t \in Turns, SpeechStarts(t) PROVE QueuedIsCurrent' /\ GuideIsArmed'
    <2>1. t = current /\ pc[t] \in {"queued", "direct"} /\ t # None
      BY <1>9 DEF SpeechStarts, QueuedIsCurrent
    <2>2. watched = None
      BY <2>1 DEF WatchedIsCurrent, Spoken
    <2>3. QueuedIsCurrent'
      BY <1>9 DEF SpeechStarts, QueuedIsCurrent, NotchTypeOK, turnVars
    <2>4. \A u \in arming : u \in aborted
      BY <2>1 DEF ArmingHasSpoken, LiveIsCurrent, NotchTypeOK, Spoken
    <2>5. UNCHANGED <<aborted, watched, torn>>
      BY <1>9 DEF SpeechStarts, turnVars
    <2>7. arming' = arming \/ (arming' = arming \cup {t} /\ guide' = t)
      BY <1>9 DEF SpeechStarts
    <2>6. GuideIsArmed'
      BY <2>2, <2>4, <2>5, <2>7 DEF GuideIsArmed
    <2> QED BY <2>3, <2>6
  <1>10. ASSUME NEW t \in Turns, PointerHashed(t) PROVE QueuedIsCurrent' /\ GuideIsArmed'
    <2>1. QueuedIsCurrent'
      BY <1>10 DEF PointerHashed, QueuedIsCurrent, turnVars
    <2>2. CASE t \in aborted
      BY <1>10, <2>2, <2>1 DEF PointerHashed, Superseded, GuideIsArmed, turnVars, NotchTypeOK
    <2>3. CASE t \notin aborted
      BY <1>10, <2>3, <2>1 DEF PointerHashed, Superseded, GuideIsArmed, turnVars, NotchTypeOK
    <2> QED BY <2>2, <2>3
  <1>11. ASSUME NEW t \in Turns,
                \/ PaywallAnswers(t) \/ UpgradeEnds(t) \/ Transcribed(t) \/ GateAnswers(t)
                \/ TutorAnswers(t) \/ RevealPlaces(t) \/ SpeechEnds(t) \/ ClickSettled(t)
         PROVE  QueuedIsCurrent' /\ GuideIsArmed'
    <2>1. UNCHANGED <<turnVars, arming, pointerVars>>
      BY <1>11 DEF PaywallAnswers, UpgradeEnds, Transcribed, GateAnswers, TutorAnswers,
                   RevealPlaces, SpeechEnds, ClickSettled
    <2> DEFINE Late(f, u) == f[u] \in {"queued", "direct"}
    <2>2. ASSUME NEW u \in Turns, Late(pc', u), ~Late(pc, u)
          PROVE  u \notin aborted /\ pc[u] # "unborn"
      <3>1. CASE GateAnswers(t)
        BY <2>2, <3>1 DEF GateAnswers, Superseded, NotchTypeOK
      <3>2. CASE TutorAnswers(t)
        BY <2>2, <3>2 DEF TutorAnswers, Superseded, NotchTypeOK
      <3>3. CASE PaywallAnswers(t)
        BY <2>2, <3>3 DEF PaywallAnswers, NotchTypeOK
      <3>4. CASE Transcribed(t) \/ ClickSettled(t)
        BY <2>2, <3>4 DEF Transcribed, ClickSettled, NotchTypeOK
      <3>5. CASE UpgradeEnds(t) \/ RevealPlaces(t) \/ SpeechEnds(t)
        BY <2>2, <3>5 DEF UpgradeEnds, RevealPlaces, SpeechEnds, NotchTypeOK
      <3> QED BY <1>11, <3>1, <3>2, <3>3, <3>4, <3>5
    <2>3. QueuedIsCurrent'
      BY <2>1, <2>2 DEF QueuedIsCurrent, LiveIsCurrent, UnbornAreToCome, turnVars
    <2>4. GuideIsArmed'
      BY <2>1 DEF GuideIsArmed, turnVars, pointerVars
    <2> QED BY <2>3, <2>4
  <1> QED BY <1>3, <1>4, <1>5, <1>6, <1>7, <1>8, <1>9, <1>10, <1>11
      DEF NotchNext, User, Events, Timers, Step

-----------------------------------------------------------------------------
\* The invariant of the turns, whatever supersedes what and whenever: only the newest
\* turn is not aborted, the pointer watched is its, and an answer that settled is over.
THEOREM TurnsInvariant == NotchSpec => []NotchInv
  <1>1. NotchInit => NotchInv
    BY NotchBegins DEF GuideInv
  <1> QED BY <1>1, NotchSteps, PTL DEF NotchSpec

\* The turns keep their types.
THEOREM TurnsAreTyped == NotchSpec => []NotchTypeOK
  <1>1. NotchInv => NotchTypeOK
    BY DEF NotchInv
  <1> QED BY <1>1, TurnsInvariant, PTL

\* The idle close never tears down a turn the user waits for (NotchApp.tsx:520), whatever
\* superseded it and when.
THEOREM IdleCloseIsLate == NotchSpec => []IdleCloseSparesTurns
  <1>1. NotchInv => IdleCloseSparesTurns
    BY BoundsAssumption
    DEF NotchInv, NotchTypeOK, LiveIsCurrent, UnbornAreToCome, SettledIsOver,
      IdleCloseSparesTurns,
        ShouldIdleClose, Turns, None
  <1> QED BY <1>1, TurnsInvariant, PTL

\* The pointer watched is the current turn's, whatever superseded what while it was
\* drawn and hashed; the native side hears its click and the watch can show it again
\* unless it was cleared while it was being armed, or torn down by a superseded turn
\* (NotchApp.tsx armPointerFromAwaitClick, resetPreviousTurn).
THEOREM ClickRunsCurrentTurn == NotchSpec => []PointerIsCurrent
  <1>1. GuideInv => PointerIsCurrent
    BY DEF GuideInv, NotchInv, WatchedIsCurrent, GuideIsArmed, PointerIsCurrent
  <1>2. GuideInv /\ [NotchNext]_notchVars => GuideInv'
    BY GuideSteps
  <1> QED BY <1>1, <1>2, NotchBegins, PTL DEF NotchSpec

-----------------------------------------------------------------------------
(***************************************************************************)
(* PushToTalk, for every number of presses and toggles, every debounce and every*)
(* lag of the controller behind the monitor.                               *)
(***************************************************************************)

\* Where a sequence has members of a kind, and how many they are.
At(s, T)    == {i \in DOMAIN s : s[i] \in T}
Count(s, T) == Cardinality(At(s, T))

Starts == {"start"}
Downs  == {e \in [down : BOOLEAN, age : 0..MaxLag] : e.down}

\* Presses in the channel are younger than the presses before, and none is older
\* than the press it ends; a press shown as listening was held for a hold.
EdgesInOrder ==
    /\ \A i, j \in DOMAIN edges : i < j => edges[i].age > edges[j].age
    /\ ptt # "idle" => \A i \in DOMAIN edges : edges[i].age <= age
    /\ ptt # "idle" /\ promoted =>
         age >= TapMax /\ \A i \in DOMAIN edges : edges[i].age + TapMax <= age
    /\ ptt = "releasing" /\ promoted => held >= TapMax

PressesAreChords == presses + Count(edges, Downs) <= chords

\* Starts and ends alternate in the channel to the microphone thread, and the last
\* command is the controller's state.
CommandsAlternate ==
    /\ \A i \in DOMAIN mic : i + 1 \in DOMAIN mic => (mic[i] = "start") # (mic[i + 1] = "start")
    /\ mic # <<>> => (mic[Len(mic)] = "start") = (ptt # "idle")
    /\ Count(mic, Starts) + (IF Started THEN 1 ELSE 0) <= presses

MicRests == ~Started => ~gate /\ unit # "running"


\* The press is not over for the microphone thread.
Undone(p) == IF Started THEN Take <= p ELSE Take < p

\* What a press is still owed is its owner's, unless the flag crossed it; a press has
\* an owner from its promotion or its end on.
OwnersAreCurrent ==
    /\ \A p \in (1..presses) \ crossed : Undone(p) /\ owner[p] # Nobody => owner[p] = Listener
    /\ \A p \in 1..MaxChords : presses < p => owner[p] = Nobody
    /\ ptt # "idle" /\ ~promoted => owner[presses] = Nobody
    /\ \A p \in 1..presses : p < presses \/ ptt = "idle" \/ promoted => owner[p] # Nobody

\* A webview that listens does so for the last press it owned.
TellingsAreTrue ==
    \A w \in Webviews : told[w] # 0 =>
        /\ told[w] \in 1..presses /\ owner[told[w]] = w
        /\ \A p \in 1..presses : told[w] < p => owner[p] # w
        /\ told[w] \notin crossed => ptt # "idle" /\ promoted /\ told[w] = presses

\* The last recording sent is of a press that is over; what is in the buffer of a take
\* is that take's.
WavIsOwned  == wav.of \in (1..MaxChords) \ crossed => wav.to = owner[wav.of]
TakesAreOwn ==
    /\ wav.of \in 0..Take /\ wav.takes \subseteq {wav.of}
    /\ Started => wav.of < Take /\ buffer \subseteq {Take}

PressInv == OwnersAreCurrent /\ TellingsAreTrue /\ WavIsOwned /\ TakesAreOwn

PttInv == /\ PttTypeOK /\ EdgesInOrder /\ PressesAreChords /\ CommandsAlternate /\ MicRests
          /\ PressInv

-----------------------------------------------------------------------------
LEMMA CountIsFinite ==
  ASSUME NEW S, NEW T, NEW s \in Seq(S)
  PROVE  /\ IsFiniteSet(At(s, T))
         /\ Count(s, T) \in Nat
         /\ Count(<<>>, T) = 0
  <1>1. DOMAIN s = 1..Len(s) /\ Len(s) \in Nat
    OBVIOUS
  <1>2. IsFiniteSet(1..Len(s))
    BY <1>1, FS_Interval
  <1>3. IsFiniteSet(At(s, T))
    BY <1>1, <1>2, FS_Subset DEF At
  <1>4. At(<<>>, T) = {}
    BY DEF At
  <1> QED BY <1>3, <1>4, FS_CardinalityType, FS_EmptySet DEF Count

LEMMA CountAppend ==
  ASSUME NEW S, NEW T, NEW s \in Seq(S), NEW e \in S
  PROVE  Count(Append(s, e), T) = Count(s, T) + (IF e \in T THEN 1 ELSE 0)
  <1> DEFINE A == At(s, T)
  <1>1. IsFiniteSet(A) /\ Cardinality(A) \in Nat
    BY CountIsFinite DEF Count
  <1>0. Len(s) + 1 \notin A
    BY DEF At
  <1>2. At(Append(s, e), T) = IF e \in T THEN A \cup {Len(s) + 1} ELSE A
    <2>1. DOMAIN Append(s, e) = 1..(Len(s) + 1) /\ DOMAIN s = 1..Len(s)
      BY AppendProperties
    <2>2. \A i \in 1..Len(s) : Append(s, e)[i] = s[i]
      BY AppendProperties
    <2>3. Append(s, e)[Len(s) + 1] = e
      BY AppendProperties
    <2> QED BY <2>1, <2>2, <2>3 DEF At
  <1>3. Cardinality(A \cup {Len(s) + 1}) = Cardinality(A) + 1
    BY <1>0, <1>1, FS_AddElement
  <1> QED BY <1>1, <1>2, <1>3 DEF Count

LEMMA CountTail ==
  ASSUME NEW S, NEW T, NEW s \in Seq(S), s # <<>>
  PROVE  Count(Tail(s), T) = Count(s, T) - (IF Head(s) \in T THEN 1 ELSE 0)
  <1> DEFINE A == At(s, T)
             B == At(Tail(s), T)
             f == [i \in B |-> i + 1]
  <1>1. /\ IsFiniteSet(A) /\ IsFiniteSet(B)
        /\ Cardinality(A) \in Nat /\ Cardinality(B) \in Nat
    <2>1. Tail(s) \in Seq(S)
      BY HeadTailProperties
    <2> QED BY <2>1, CountIsFinite DEF Count
  <1>2. /\ DOMAIN s = 1..Len(s) /\ DOMAIN Tail(s) = 1..(Len(s) - 1) /\ Len(s) \in Nat \ {0}
        /\ \A i \in 1..(Len(s) - 1) : Tail(s)[i] = s[i + 1]
        /\ Head(s) = s[1]
    BY HeadTailProperties
  <1>3. A \ {1} = {i + 1 : i \in B}
    <2>1. ASSUME NEW j \in A \ {1} PROVE \E i \in B : j = i + 1
      <3>1. j - 1 \in B /\ j = (j - 1) + 1
        BY <1>2 DEF At
      <3> QED BY <3>1
    <2>2. ASSUME NEW i \in B PROVE i + 1 \in A \ {1}
      BY <1>2 DEF At
    <2> QED BY <2>1, <2>2
  <1>4. ExistsBijection(B, A \ {1})
    <2>1. \A i \in B : i \in Int
      BY <1>2 DEF At
    <2>2. f \in [B -> A \ {1}]
      BY <1>3
    <2>3. \A i, j \in B : f[i] = f[j] => i = j
      BY <2>1
    <2>4. \A j \in A \ {1} : \E i \in B : f[i] = j
      BY <1>3
    <2>5. f \in Bijection(B, A \ {1})
      BY <2>2, <2>3, <2>4 DEF Bijection, Injection, Surjection, IsInjective
    <2> QED BY <2>5 DEF ExistsBijection
  <1>5. Cardinality(B) = Cardinality(A \ {1})
    BY <1>1, <1>4, FS_Bijection
  <1>6. Cardinality(A \ {1}) = IF 1 \in A THEN Cardinality(A) - 1 ELSE Cardinality(A)
    BY <1>1, FS_RemoveElement
  <1>7. 1 \in A <=> Head(s) \in T
    BY <1>2 DEF At
  <1> QED BY <1>1, <1>5, <1>6, <1>7 DEF Count

-----------------------------------------------------------------------------
Commands == {"start", "stop", "cancel"}
Edges    == [down : BOOLEAN, age : 0..MaxLag]

LEMMA TakeByCount == Take = presses - Count(mic, Starts)
  BY DEF Take, Count, At, Starts

LEMMA PttBegins == PttInit => PttInv
  <1> SUFFICES ASSUME PttInit PROVE PttInv
    OBVIOUS
  <1> USE TimesAssumption DEF PttInit
  <1>1. mic \in Seq(Commands) /\ edges \in Seq(Edges)
    BY DEF Commands, Edges
  <1>2. Count(mic, Starts) = 0 /\ Count(edges, Downs) = 0
    BY <1>1, CountIsFinite
  <1>3. PttTypeOK
    <2>1. mic \in Seq({"start", "stop", "cancel"}) /\ edges \in Seq([down : BOOLEAN, age : 0..MaxLag])
      BY <1>1 DEF Commands, Edges
    <2>2. age \in 0..Longest /\ chords \in 0..MaxChords
      BY DEF Longest
    <2>3. owner \in [1..MaxChords -> Webviews \cup {Nobody}] /\ told \in [Webviews -> 0..MaxChords]
      OBVIOUS
    <2>4. wav \in [takes : SUBSET (1..MaxChords), of : 0..MaxChords, to : Webviews \cup {Nobody}]
      OBVIOUS
    <2>5. /\ rest \in Nat /\ held \in Nat /\ presses \in 0..chords
          /\ buffer \subseteq 1..MaxChords /\ crossed \subseteq 1..presses
      OBVIOUS
    <2>6. /\ wasDown \in BOOLEAN /\ onboards \in BOOLEAN /\ promoted \in BOOLEAN
          /\ leaked \in BOOLEAN /\ gate \in BOOLEAN
      OBVIOUS
    <2> QED BY <2>1, <2>2, <2>3, <2>4, <2>5, <2>6 DEF PttTypeOK
  <1>4. EdgesInOrder /\ PressesAreChords /\ CommandsAlternate
    BY <1>2 DEF EdgesInOrder, PressesAreChords, CommandsAlternate, Started
  <1>5. MicRests /\ OwnersAreCurrent /\ TellingsAreTrue
    BY DEF MicRests, OwnersAreCurrent, TellingsAreTrue, Started
  <1>6. WavIsOwned /\ TakesAreOwn
    <2>1. ~Started
      BY DEF Started
    <2>2. Take = 0
      BY <1>2, TakeByCount
    <2> QED BY <2>1, <2>2 DEF WavIsOwned, TakesAreOwn
  <1> QED BY <1>3, <1>4, <1>5, <1>6 DEF PttInv, PressInv

-----------------------------------------------------------------------------
(* The channel to the microphone thread.                                    *)

\* What Started and Take say does not change when nothing is sent or taken.
LEMMA NothingSent ==
  ASSUME PttInv, UNCHANGED <<mic, presses>>, (ptt' = "idle") = (ptt = "idle")
  PROVE  CommandsAlternate' /\ Started' = Started /\ Take' = Take
  BY DEF PttInv, CommandsAlternate, Started, Take

\* A press sends its start, a commit its end.
LEMMA CommandSent ==
  ASSUME PttInv, NEW c \in Commands, mic' = Append(mic, c),
         (c = "start") = (ptt = "idle"), (ptt' = "idle") = (c # "start"),
         presses' = presses + (IF c = "start" THEN 1 ELSE 0)
  PROVE  /\ mic' \in Seq(Commands) /\ mic' # <<>>
         /\ CommandsAlternate' /\ Started' = Started /\ Take' = Take
  <1>1. mic \in Seq(Commands) /\ presses \in Nat
    BY DEF PttInv, PttTypeOK, Commands
  <1>2. /\ mic' \in Seq(Commands) /\ mic' # <<>> /\ Len(mic') = Len(mic) + 1
        /\ \A i \in 1..Len(mic) : mic'[i] = mic[i]
        /\ mic'[Len(mic) + 1] = c
    BY <1>1, AppendProperties
  <1>3. Head(mic') = IF mic = <<>> THEN c ELSE Head(mic)
    BY <1>1, HeadTailAppend
  <1>4. Count(mic', Starts) = Count(mic, Starts) + (IF c = "start" THEN 1 ELSE 0)
    BY <1>1, CountAppend DEF Starts
  <1>5. Count(mic, Starts) \in Nat
    BY <1>1, CountIsFinite
  <1>6. Started' = Started
    BY <1>2, <1>3 DEF Started
  <1>7. Take' = Take
    <2>1. Take' = presses' - Count(mic', Starts)
      BY DEF Take, Count, At, Starts
    <2> QED BY <1>1, <1>4, <1>5, <2>1, TakeByCount
  <1>8. CommandsAlternate'
    <2>1. ASSUME NEW i \in DOMAIN mic', i + 1 \in DOMAIN mic'
          PROVE  (mic'[i] = "start") # (mic'[i + 1] = "start")
      <3>1. i \in 1..Len(mic) /\ (i + 1 \in 1..Len(mic) \/ i = Len(mic))
        BY <1>1, <1>2, <2>1
      <3>2. CASE i + 1 \in 1..Len(mic)
        BY <1>1, <1>2, <3>1, <3>2 DEF PttInv, CommandsAlternate
      <3>3. CASE i = Len(mic)
        BY <1>1, <1>2, <3>1, <3>3 DEF PttInv, CommandsAlternate
      <3> QED BY <3>1, <3>2, <3>3
    <2>2. (mic'[Len(mic')] = "start") = (ptt' # "idle")
      BY <1>1, <1>2
    <2>3. Count(mic', Starts) + (IF Started' THEN 1 ELSE 0) <= presses'
      BY <1>1, <1>4, <1>5, <1>6 DEF PttInv, CommandsAlternate
    <2>4. Count(mic, Starts)' = Count(mic', Starts)
      BY DEF Count, At, Starts
    <2> QED BY <2>1, <2>2, <2>3, <2>4 DEF CommandsAlternate
  <1> QED BY <1>2, <1>6, <1>7, <1>8

\* The microphone thread takes a command: a start opens a take, an end closes it.
LEMMA CommandTaken ==
  ASSUME PttInv, mic # <<>>, mic' = Tail(mic), UNCHANGED <<ptt, presses>>
  PROVE  /\ mic' \in Seq(Commands) /\ CommandsAlternate'
         /\ Started = (Head(mic) # "start") /\ Started' = (Head(mic) = "start")
         /\ Take' = Take + (IF Head(mic) = "start" THEN 1 ELSE 0)
  <1>1. mic \in Seq(Commands) /\ presses \in Nat
    BY DEF PttInv, PttTypeOK, Commands
  <1>2. /\ mic' \in Seq(Commands) /\ Len(mic') = Len(mic) - 1 /\ Len(mic) \in Nat \ {0}
        /\ \A i \in 1..Len(mic') : mic'[i] = mic[i + 1]
        /\ Head(mic) = mic[1]
    BY <1>1, HeadTailProperties
  <1>3. Count(mic', Starts) = Count(mic, Starts) - (IF Head(mic) = "start" THEN 1 ELSE 0)
    BY <1>1, CountTail DEF Starts
  <1>4. Count(mic, Starts) \in Nat /\ Count(mic', Starts) \in Nat
    BY <1>1, <1>2, CountIsFinite
  <1>5. Started = (Head(mic) # "start")
    BY DEF Started
  <1>6. Started' = (Head(mic) = "start")
    <2>1. CASE mic' = <<>>
      <3>0. Len(mic') = 0
        BY <1>2, <2>1, EmptySeq
      <3>1. Len(mic) = 1
        BY <1>2, <3>0
      <3> QED BY <1>2, <2>1, <3>1 DEF Started, PttInv, CommandsAlternate
    <2>2. CASE mic' # <<>>
      <3>1. Len(mic) > 1 /\ Head(mic') = mic[2]
        BY <1>2, <2>2
      <3>2. 1 \in DOMAIN mic /\ 1 + 1 \in DOMAIN mic
        BY <1>1, <1>2, <3>1
      <3>3. (mic[1] = "start") # (mic[1 + 1] = "start")
        BY <3>2 DEF PttInv, CommandsAlternate
      <3> QED BY <1>2, <2>2, <3>1, <3>3 DEF Started
    <2> QED BY <2>1, <2>2
  <1>7. Take' = Take + (IF Head(mic) = "start" THEN 1 ELSE 0)
    <2>1. Take' = presses' - Count(mic', Starts)
      BY DEF Take, Count, At, Starts
    <2> QED BY <1>1, <1>3, <1>4, <2>1, TakeByCount
  <1>8. CommandsAlternate'
    <2>1. ASSUME NEW i \in DOMAIN mic', i + 1 \in DOMAIN mic'
          PROVE  (mic'[i] = "start") # (mic'[i + 1] = "start")
      <3>1. i + 1 \in DOMAIN mic /\ (i + 1) + 1 \in DOMAIN mic /\ i \in 1..Len(mic') /\ i + 1 \in 1..Len(mic')
        BY <1>1, <1>2, <2>1
      <3> QED BY <1>2, <3>1 DEF PttInv, CommandsAlternate
    <2>2. mic' # <<>> => (mic'[Len(mic')] = "start") = (ptt' # "idle")
      <3>1. mic' # <<>> => Len(mic') \in 1..Len(mic') /\ Len(mic') + 1 = Len(mic)
        BY <1>2
      <3> QED BY <1>2, <3>1 DEF PttInv, CommandsAlternate
    <2>3. Count(mic', Starts) + (IF Started' THEN 1 ELSE 0) <= presses'
      <3>1. Count(mic, Starts) + (IF Started THEN 1 ELSE 0) <= presses
        BY DEF PttInv, CommandsAlternate
      <3>2. CASE Head(mic) = "start"
        BY <1>1, <1>3, <1>4, <1>5, <1>6, <3>1, <3>2
      <3>3. CASE Head(mic) # "start"
        <4>1. Started /\ ~Started'
          BY <1>5, <1>6, <3>3
        <4>2. Count(mic', Starts) + 0 <= presses'
          BY <1>1, <1>3, <1>4, <3>1, <3>3, <4>1
        <4> QED BY <4>1, <4>2
      <3> QED BY <3>2, <3>3
    <2>4. Count(mic, Starts)' = Count(mic', Starts)
      BY DEF Count, At, Starts
    <2> QED BY <2>1, <2>2, <2>3, <2>4 DEF CommandsAlternate
  <1> QED BY <1>2, <1>5, <1>6, <1>7, <1>8

\* What is said of the presses, when they only go on.
LEMMA PressesGoOn ==
  ASSUME PttInv, (ptt' = "idle") = (ptt = "idle"), Started' = Started, Take' = Take,
         UNCHANGED <<presses, told, owner, crossed, wav, onboards, buffer, promoted>>
  PROVE  PressInv'
  <1>1. OwnersAreCurrent' /\ TellingsAreTrue'
    BY DEF PttInv, PressInv, OwnersAreCurrent, TellingsAreTrue, Undone, Listener
  <1>2. WavIsOwned' /\ TakesAreOwn'
    BY DEF PttInv, PressInv, WavIsOwned, TakesAreOwn
  <1> QED BY <1>1, <1>2 DEF PressInv

-----------------------------------------------------------------------------
(* The channel to the controller.                                           *)

LEMMA PttTypes ==
  ASSUME PttInv
  PROVE  /\ edges \in Seq(Edges) /\ mic \in Seq(Commands)
         /\ ptt \in {"idle", "recording", "releasing"} /\ chords \in 0..MaxChords
         /\ age \in 0..Longest /\ rest \in Nat /\ held \in Nat /\ presses \in 0..chords
         /\ wasDown \in BOOLEAN /\ onboards \in BOOLEAN /\ promoted \in BOOLEAN
         /\ TapMax \in Nat /\ MaxRecord \in Nat /\ MaxLag \in Nat /\ MaxChords \in Nat
         /\ Longest \in Nat /\ age \in Nat /\ presses \in Nat /\ chords \in Nat /\ presses <= chords
         /\ TapMax < MaxRecord /\ Longest = MaxRecord + MaxLag
         /\ owner \in [1..MaxChords -> Webviews \cup {Nobody}] /\ told \in [Webviews -> 0..MaxChords]
         /\ Listener \in Webviews /\ Nobody \notin Webviews /\ crossed \subseteq 1..presses
  BY TimesAssumption
  DEF PttInv, PttTypeOK, Edges, Commands, Longest, Listener, Webviews, Nobody

LEMMA PttNumbers ==
  ASSUME PttInv
  PROVE  /\ TapMax \in Nat /\ MaxRecord \in Nat /\ MaxLag \in Nat /\ MaxChords \in Nat
         /\ TapMax < MaxRecord /\ Longest = MaxRecord + MaxLag /\ Longest \in Nat
         /\ age \in Nat /\ age <= Longest
         /\ presses \in Nat /\ chords \in Nat /\ presses <= chords /\ chords <= MaxChords
  BY TimesAssumption DEF PttInv, PttTypeOK, Longest

\* The oldest edge leaves the channel.
LEMMA EdgeTaken ==
  ASSUME PttInv, edges # <<>>, edges' = Tail(edges)
  PROVE  /\ edges' \in Seq(Edges) /\ Head(edges) \in Edges /\ Head(edges) = edges[1]
         /\ 1 \in DOMAIN edges
         /\ \A i \in DOMAIN edges' : /\ i \in Nat /\ i + 1 \in DOMAIN edges /\ edges'[i] = edges[i + 1]
                                     /\ edges'[i] \in Edges /\ edges'[i].age < Head(edges).age
         /\ \A i, j \in DOMAIN edges' : i < j => edges'[i].age > edges'[j].age
         /\ Count(edges, Downs)' = Count(edges, Downs) - (IF Head(edges).down THEN 1 ELSE 0)
         /\ Count(edges, Downs) \in Nat
  <1>1. edges \in Seq(Edges)
    BY PttTypes
  <1>2. /\ edges' \in Seq(Edges) /\ Len(edges') = Len(edges) - 1 /\ Len(edges) \in Nat \ {0}
        /\ \A i \in 1..Len(edges') : edges'[i] = edges[i + 1]
        /\ Head(edges) = edges[1] /\ Head(edges) \in Edges
    BY <1>1, HeadTailProperties
  <1>3. \A i, j \in DOMAIN edges : i < j => edges[i].age > edges[j].age
    BY DEF PttInv, EdgesInOrder
  <1>4. 1 \in DOMAIN edges /\ DOMAIN edges' = 1..Len(edges') /\ DOMAIN edges = 1..Len(edges)
    BY <1>1, <1>2
  <1>5. \A i \in DOMAIN edges' : /\ i \in Nat /\ i + 1 \in DOMAIN edges /\ edges'[i] = edges[i + 1]
                                 /\ 1 < i + 1
    BY <1>2, <1>4
  <1>6. \A i \in DOMAIN edges' : edges'[i] \in Edges
    BY <1>2
  <1>7. \A i \in DOMAIN edges' : edges'[i].age < Head(edges).age
    BY <1>2, <1>3, <1>4, <1>5, <1>6 DEF Edges
  <1>8. \A i, j \in DOMAIN edges' : i < j => edges'[i].age > edges'[j].age
    <2> SUFFICES ASSUME NEW i \in DOMAIN edges', NEW j \in DOMAIN edges', i < j
                 PROVE  edges'[i].age > edges'[j].age
      OBVIOUS
    <2>1. i + 1 < j + 1
      BY <1>5
    <2> QED BY <1>3, <1>5, <2>1
  <1>9. Head(edges) \in Downs <=> Head(edges).down
    BY <1>2 DEF Downs, Edges
  <1>10. Count(edges', Downs) = Count(edges, Downs) - (IF Head(edges) \in Downs THEN 1 ELSE 0)
    BY <1>1, CountTail
  <1>11. Count(edges, Downs)' = Count(edges', Downs)
    BY DEF Count, At, Downs
  <1> QED BY <1>1, <1>2, <1>4, <1>5, <1>6, <1>7, <1>8, <1>9, <1>10, <1>11, CountIsFinite

\* Every edge in the channel grows older; none is older than the controller's lag.
LEMMA EdgesAge ==
  ASSUME PttInv, ~Overdue
  PROVE  LET older == [i \in DOMAIN edges |-> [edges[i] EXCEPT !.age = @ + 1]] IN
         /\ older \in Seq(Edges) /\ DOMAIN older = DOMAIN edges /\ Len(older) = Len(edges)
         /\ \A i \in DOMAIN edges : older[i].age = edges[i].age + 1 /\ edges[i].age \in 0..(MaxLag - 1)
         /\ Count(older, Downs) = Count(edges, Downs) /\ Count(edges, Downs) \in Nat
  <1> DEFINE older == [i \in DOMAIN edges |-> [edges[i] EXCEPT !.age = @ + 1]]
  <1>1. edges \in Seq(Edges) /\ MaxLag \in Nat /\ DOMAIN edges = 1..Len(edges) /\ Len(edges) \in Nat
    BY PttTypes
  <1>2. \A i \in DOMAIN edges : edges[i] \in Edges
    BY <1>1
  <1>3. \A i \in DOMAIN edges : edges[i].age \in 0..(MaxLag - 1)
    <2> SUFFICES ASSUME NEW i \in DOMAIN edges PROVE edges[i].age \in 0..(MaxLag - 1)
      OBVIOUS
    <2>1. edges # <<>> /\ 1 \in DOMAIN edges /\ Head(edges) = edges[1]
      BY <1>1
    <2>2. edges[1].age < MaxLag
      BY <1>1, <1>2, <2>1 DEF Overdue, Edges
    <2>3. i = 1 \/ edges[1].age > edges[i].age
      BY <1>1, <2>1 DEF PttInv, EdgesInOrder
    <2> QED BY <1>1, <1>2, <2>1, <2>2, <2>3 DEF Edges
  <1>4. \A i \in DOMAIN edges : /\ older[i] = [edges[i] EXCEPT !.age = @ + 1] /\ older[i] \in Edges
                                /\ older[i].age = edges[i].age + 1 /\ older[i].down = edges[i].down
    BY <1>1, <1>2, <1>3 DEF Edges
  <1>5. older \in Seq(Edges) /\ DOMAIN older = DOMAIN edges /\ Len(older) = Len(edges)
    <2>1. older \in [1..Len(edges) -> Edges]
      BY <1>1, <1>4
    <2> QED BY <1>1, <2>1, SeqDef, LenProperties
  <1>6. At(older, Downs) = At(edges, Downs)
    BY <1>2, <1>4, <1>5 DEF At, Downs, Edges
  <1> QED BY <1>1, <1>3, <1>4, <1>5, <1>6, CountIsFinite DEF Count

LEMMA TakeIsPress ==
  ASSUME PttInv
  PROVE  /\ Take \in 0..presses
         /\ Started => Take \in 1..presses
         /\ mic # <<>> /\ ptt # "idle" => Take < presses
  <1>1. mic \in Seq(Commands) /\ presses \in Nat
    BY PttTypes
  <1>2. Take = presses - Count(mic, Starts) /\ Count(mic, Starts) \in Nat
    BY <1>1, TakeByCount, CountIsFinite
  <1>3. ASSUME Started PROVE Take \in 1..presses
    <2>1. Count(mic, Starts) + 1 <= presses
      BY <1>3 DEF PttInv, CommandsAlternate
    <2> QED BY <1>1, <1>2, <2>1
  <1>4. ASSUME mic # <<>>, ptt # "idle" PROVE Take < presses
    <2>1. mic[Len(mic)] = "start" /\ Len(mic) \in DOMAIN mic
      BY <1>1, <1>4, EmptySeq, LenProperties DEF PttInv, CommandsAlternate
    <2>2. Len(mic) \in At(mic, Starts)
      BY <2>1 DEF At, Starts
    <2>3. Count(mic, Starts) # 0
      BY <1>1, <2>2, CountIsFinite, FS_EmptySet DEF Count
    <2> QED BY <1>1, <1>2, <2>3
  <1>5. Count(mic, Starts) <= presses
    <2>1. CASE Started
      BY <1>1, <1>2, <1>3, <2>1
    <2>2. CASE ~Started
      BY <1>1, <1>2, <2>2 DEF PttInv, CommandsAlternate
    <2> QED BY <2>1, <2>2
  <1> QED BY <1>1, <1>2, <1>3, <1>4, <1>5

\* The press being held is not over for the microphone thread, and younger than the
\* last recording sent.
LEMMA LivePress ==
  ASSUME PttInv, ptt # "idle"
  PROVE  presses \in 1..MaxChords /\ Undone(presses) /\ wav.of < presses
  <1>1. presses \in Nat /\ presses <= MaxChords /\ MaxChords \in Nat
    BY PttNumbers
  <1>2. CASE Started
    <2>1. Take \in 1..presses /\ wav.of < Take
      BY <1>2, TakeIsPress DEF PttInv, PressInv, TakesAreOwn
    <2>2. wav.of \in Int
      BY DEF PttInv, PttTypeOK
    <2> QED BY <1>1, <1>2, <2>1, <2>2 DEF Undone
  <1>3. CASE ~Started
    <2>1. mic # <<>>
      BY <1>3 DEF Started
    <2>2. Take < presses /\ Take \in 0..presses /\ wav.of \in 0..Take
      BY <2>1, TakeIsPress DEF PttInv, PressInv, TakesAreOwn
    <2> QED BY <1>1, <1>3, <2>2 DEF Undone
  <1> QED BY <1>2, <1>3

-----------------------------------------------------------------------------
(* The poll.                                                                *)

LEMMA ReadModifiersKeeps == ASSUME PttInv, ReadModifiers PROVE PttInv'
  <1> DEFINE older == [i \in DOMAIN edges |-> [edges[i] EXCEPT !.age = @ + 1]]
             Aged(a, b) == b = a + 1 \/ (b = a /\ a = Longest)
  <1>1. /\ older \in Seq(Edges) /\ DOMAIN older = DOMAIN edges /\ Len(older) = Len(edges)
        /\ \A i \in DOMAIN edges : older[i].age = edges[i].age + 1 /\ edges[i].age \in 0..(MaxLag - 1)
        /\ Count(older, Downs) = Count(edges, Downs) /\ Count(edges, Downs) \in Nat
    BY EdgesAge DEF ReadModifiers
  <1> HIDE DEF older
  <1>0. /\ TapMax \in Nat /\ MaxRecord \in Nat /\ MaxLag \in Nat /\ age \in 0..Longest
        /\ TapMax < MaxRecord /\ Longest = MaxRecord + MaxLag
    BY PttTypes
  <1>2. PICK down \in BOOLEAN :
          /\ down /\ ~wasDown => chords < MaxChords
          /\ wasDown' = down
          /\ chords' = IF down /\ ~wasDown THEN chords + 1 ELSE chords
          /\ edges' = IF down = wasDown THEN older
                      ELSE Append(older, [down |-> down, age |-> 0])
    BY DEF ReadModifiers, older
  <1>3. UNCHANGED <<ptt, held, promoted, mic, unit, leaked, gate, buffer, wav, onboards, told,
                    presses, owner, crossed>>
    BY DEF ReadModifiers, capture
  <1>4. /\ ptt # "idle" => Aged(age, age')
        /\ ptt = "idle" => age' = 0
        /\ age' \in 0..Longest /\ rest' \in Nat
    BY <1>0, PttTypes, SMTT(30) DEF ReadModifiers, Older
  <1>5. chords' \in 0..MaxChords /\ chords' >= chords
    BY <1>2, PttNumbers
  <1>6. [down |-> down, age |-> 0] \in Edges
    BY PttTypes DEF Edges
  <1>7. /\ edges' \in Seq(Edges)
        /\ \A i \in DOMAIN edges' :
             \/ i \in DOMAIN edges /\ edges'[i].age = edges[i].age + 1 /\ edges[i].age \in 0..(MaxLag - 1)
             \/ i = Len(edges) + 1 /\ edges'[i].age = 0
    <2>1. CASE down = wasDown
      BY <1>1, <1>2, <2>1
    <2>2. CASE down # wasDown
      <3>1. /\ edges' = Append(older, [down |-> down, age |-> 0])
            /\ Len(edges') = Len(older) + 1 /\ edges' \in Seq(Edges)
            /\ \A i \in 1..Len(older) : edges'[i] = older[i]
            /\ edges'[Len(older) + 1] = [down |-> down, age |-> 0]
        BY <1>1, <1>2, <1>6, <2>2, AppendProperties
      <3>2. DOMAIN older = 1..Len(older) /\ DOMAIN edges' = 1..(Len(older) + 1) /\ Len(older) \in Nat
        BY <1>1, <3>1
      <3> QED BY <1>1, <3>1, <3>2
    <2> QED BY <2>1, <2>2
  <1>8. PttTypeOK'
    <2>1. wasDown' \in BOOLEAN /\ presses' \in 0..chords'
      BY <1>2, <1>3, <1>5, PttTypes
    <2> QED BY <1>3, <1>4, <1>5, <1>7, <2>1 DEF PttInv, PttTypeOK, Edges
  <1>9. EdgesInOrder'
    <2>0. DOMAIN edges = 1..Len(edges) /\ Len(edges) \in Nat
      BY PttTypes
    <2>1. ASSUME NEW i \in DOMAIN edges', NEW j \in DOMAIN edges', i < j
          PROVE  edges'[i].age > edges'[j].age
      BY <1>7, <2>0, <2>1 DEF PttInv, EdgesInOrder
    <2>2. ASSUME ptt' # "idle" PROVE \A i \in DOMAIN edges' : edges'[i].age <= age'
      <3> SUFFICES ASSUME NEW i \in DOMAIN edges' PROVE edges'[i].age <= age'
        OBVIOUS
      <3>1. ptt # "idle" /\ age' \in Nat
        BY <1>3, <1>4, <2>2
      <3>2. CASE i \in DOMAIN edges /\ edges'[i].age = edges[i].age + 1 /\ edges[i].age \in 0..(MaxLag - 1)
        <4>1. edges[i].age <= age
          BY <3>1, <3>2 DEF PttInv, EdgesInOrder
        <4> QED BY <1>0, <1>4, <3>1, <3>2, <4>1
      <3> QED BY <1>7, <3>1, <3>2
    <2>3. ASSUME ptt' # "idle", promoted'
          PROVE  age' >= TapMax /\ \A i \in DOMAIN edges' : edges'[i].age + TapMax <= age'
      <3>1. ptt # "idle" /\ promoted /\ age >= TapMax
        BY <1>3, <2>3 DEF PttInv, EdgesInOrder
      <3>2. age' >= TapMax
        BY <1>0, <1>4, <3>1, SMTT(30)
      <3>3. ASSUME NEW i \in DOMAIN edges' PROVE edges'[i].age + TapMax <= age'
        <4>1. CASE i = Len(edges) + 1 /\ edges'[i].age = 0
          BY <3>2, <4>1, PttTypes
        <4>2. CASE i \in DOMAIN edges /\ edges'[i].age = edges[i].age + 1 /\ edges[i].age \in 0..(MaxLag - 1)
          <5>1. edges[i].age + TapMax <= age
            BY <3>1, <4>2 DEF PttInv, EdgesInOrder
          <5> QED BY <1>0, <1>4, <3>1, <4>2, <5>1
        <4> QED BY <1>7, <4>1, <4>2
      <3> QED BY <3>2, <3>3
    <2>4. ptt' = "releasing" /\ promoted' => held' >= TapMax
      BY <1>3 DEF PttInv, EdgesInOrder
    <2> QED BY <2>1, <2>2, <2>3, <2>4 DEF EdgesInOrder
  <1>10. PressesAreChords'
    <2>1. Count(edges', Downs) = Count(edges, Downs) + (IF down /\ ~wasDown THEN 1 ELSE 0)
      <3>1. CASE down = wasDown
        BY <1>1, <1>2, <3>1
      <3>2. CASE down # wasDown
        <4>1. Count(edges', Downs) = Count(older, Downs) + (IF [down |-> down, age |-> 0] \in Downs THEN 1 ELSE 0)
          BY <1>1, <1>2, <1>6, <3>2, CountAppend
        <4>2. [down |-> down, age |-> 0] \in Downs <=> down
          BY <1>6 DEF Downs, Edges
        <4>3. wasDown \in BOOLEAN
          BY PttTypes
        <4> QED BY <1>1, <3>2, <4>1, <4>2, <4>3
      <3> QED BY <3>1, <3>2
    <2>2. Count(edges, Downs)' = Count(edges', Downs)
      BY DEF Count, At, Downs
    <2>3. presses + Count(edges, Downs) <= chords /\ presses \in Nat /\ chords \in Nat
      BY PttTypes DEF PttInv, PressesAreChords
    <2>4. presses + Count(edges', Downs) <= chords'
      BY <1>1, <1>2, <2>1, <2>3
    <2> QED BY <1>3, <2>2, <2>4 DEF PressesAreChords
  <1>11. CommandsAlternate' /\ Started' = Started /\ Take' = Take
    BY <1>3, NothingSent
  <1>12. MicRests'
    BY <1>3, <1>11 DEF PttInv, MicRests
  <1>13. PressInv'
    BY <1>3, <1>11, PressesGoOn
  <1> QED BY <1>8, <1>9, <1>10, <1>11, <1>12, <1>13 DEF PttInv

-----------------------------------------------------------------------------
(* The controller.                                                          *)

LEMMA StartCaptureKeeps == ASSUME PttInv, StartCapture PROVE PttInv'
  <1>1. /\ edges # <<>> /\ edges' = Tail(edges) /\ Head(edges).down
        /\ ptt = "idle" /\ ptt' = "recording" /\ age' = Head(edges).age /\ promoted' = FALSE
        /\ mic' = Append(mic, "start") /\ presses' = presses + 1
        /\ UNCHANGED <<wasDown, chords, rest, held, unit, leaked, gate, buffer, wav, onboards,
                       told, owner, crossed>>
    BY DEF StartCapture, Received, capture
  <1>2. /\ edges' \in Seq(Edges) /\ Head(edges) \in Edges
        /\ \A i \in DOMAIN edges' : edges'[i] \in Edges /\ edges'[i].age < Head(edges).age
        /\ \A i, j \in DOMAIN edges' : i < j => edges'[i].age > edges'[j].age
        /\ Count(edges, Downs)' = Count(edges, Downs) - 1 /\ Count(edges, Downs) \in Nat
    BY <1>1, EdgeTaken
  <1>3. Count(edges, Downs)' \in Nat
    <2>1. Count(edges', Downs) \in Nat
      BY <1>2, CountIsFinite
    <2> QED BY <2>1 DEF Count, At, Downs
  <1>4. presses' \in 0..chords /\ PressesAreChords'
    <2>1. presses + Count(edges, Downs) <= chords
      BY DEF PttInv, PressesAreChords
    <2>2. presses' + Count(edges, Downs)' <= chords'
      BY <1>1, <1>2, <1>3, <2>1, PttNumbers
    <2> QED BY <1>1, <1>3, <2>2, PttNumbers, SMTT(30) DEF PressesAreChords
  <1>5. mic' \in Seq(Commands) /\ mic' # <<>> /\ CommandsAlternate' /\ Started' = Started /\ Take' = Take
    BY <1>1, CommandSent DEF Commands
  <1>6. PttTypeOK'
    <2>1. age' \in 0..Longest /\ presses' \in 0..chords'
      <3>1. Head(edges).age \in 0..MaxLag
        BY <1>2 DEF Edges
      <3>2. age' \in 0..Longest
        BY <1>1, <3>1, PttNumbers
      <3> QED BY <1>1, <1>4, <3>2
    <2>2. crossed' \subseteq 1..presses'
      BY <1>1, PttNumbers DEF PttInv, PttTypeOK
    <2> QED BY <1>1, <1>2, <1>5, <2>1, <2>2 DEF PttInv, PttTypeOK, Edges, Commands
  <1>7. EdgesInOrder'
    BY <1>1, <1>2, SMTT(30) DEF EdgesInOrder, Edges
  <1>8. MicRests'
    BY <1>1, <1>5 DEF PttInv, MicRests
  <1>9. presses' \in 1..MaxChords /\ presses < presses' /\ owner[presses'] = Nobody
    <2>1. presses' = presses + 1 /\ presses' \in 0..chords
      BY <1>1, <1>4
    <2>2. presses' \in 1..MaxChords /\ presses < presses'
      BY <2>1, PttNumbers
    <2> QED BY <2>2 DEF PttInv, PressInv, OwnersAreCurrent
  <1>10. OwnersAreCurrent'
    <2>1. ASSUME NEW p \in (1..presses') \ crossed', Undone(p)', owner'[p] # Nobody
          PROVE  owner'[p] = Listener'
      <3>1. p \in (1..presses) \ crossed /\ Undone(p)
        BY <1>1, <1>5, <1>9, <2>1, PttNumbers DEF Undone
      <3> QED BY <1>1, <2>1, <3>1 DEF PttInv, PressInv, OwnersAreCurrent, Listener
    <2>2. \A p \in 1..MaxChords : presses' < p => owner'[p] = Nobody
      BY <1>1, <1>9, PttNumbers DEF PttInv, PressInv, OwnersAreCurrent
    <2>3. \A p \in 1..presses' : p < presses' => owner'[p] # Nobody
      <3>1. \A p \in 1..presses : owner[p] # Nobody
        BY <1>1 DEF PttInv, PressInv, OwnersAreCurrent
      <3> QED BY <1>1, <3>1, PttNumbers
    <2> QED BY <1>1, <1>9, <2>1, <2>2, <2>3 DEF OwnersAreCurrent
  <1>11. TellingsAreTrue'
    <2> SUFFICES ASSUME NEW w \in Webviews, told[w] # 0
                 PROVE  /\ told[w] \in 1..presses' /\ owner[told[w]] = w
                        /\ \A p \in 1..presses' : told[w] < p => owner[p] # w
                        /\ told[w] \in crossed
      BY <1>1 DEF TellingsAreTrue
    <2>1. /\ told[w] \in 1..presses /\ owner[told[w]] = w /\ told[w] \in crossed
          /\ \A p \in 1..presses : told[w] < p => owner[p] # w
      BY <1>1 DEF PttInv, PressInv, TellingsAreTrue
    <2>2. owner[presses'] # w
      BY <1>9, PttTypes
    <2>3. presses' = presses + 1 /\ presses \in Nat
      BY <1>1, PttNumbers
    <2> QED BY <2>1, <2>2, <2>3
  <1>12. WavIsOwned' /\ TakesAreOwn'
    BY <1>1, <1>5 DEF PttInv, PressInv, WavIsOwned, TakesAreOwn
  <1> QED BY <1>4, <1>5, <1>6, <1>7, <1>8, <1>10, <1>11, <1>12 DEF PttInv, PressInv

LEMMA ReleaseKeeps == ASSUME PttInv, Release PROVE PttInv'
  <1>1. /\ edges # <<>> /\ edges' = Tail(edges) /\ ~Head(edges).down
        /\ ptt = "recording" /\ ptt' = "releasing" /\ rest' = Head(edges).age
        /\ held' = age - Head(edges).age
        /\ UNCHANGED <<wasDown, chords, age, promoted, mic, unit, leaked, gate, buffer, wav,
                       onboards, told, presses, owner, crossed>>
    BY PttTypes, EdgeTaken DEF Release, Received, HeldFor, capture, Edges
  <1>2. /\ edges' \in Seq(Edges) /\ Head(edges) \in Edges /\ Head(edges) = edges[1] /\ 1 \in DOMAIN edges
        /\ \A i \in DOMAIN edges' : i + 1 \in DOMAIN edges /\ edges'[i] = edges[i + 1]
        /\ \A i, j \in DOMAIN edges' : i < j => edges'[i].age > edges'[j].age
        /\ Count(edges, Downs)' = Count(edges, Downs) /\ Count(edges, Downs) \in Nat
    BY <1>1, EdgeTaken
  <1>3. rest' \in Nat /\ held' \in Nat
    <2>1. edges[1].age <= age /\ edges[1] \in Edges
      BY <1>1, <1>2 DEF PttInv, EdgesInOrder
    <2> QED BY <1>1, <1>2, <2>1, PttNumbers, SMTT(30) DEF Edges
  <1>4. PttTypeOK'
    BY <1>1, <1>2, <1>3, PttTypes DEF PttInv, PttTypeOK, Edges, Commands
  <1>5. EdgesInOrder'
    <2>1. promoted => held' >= TapMax
      <3>1. promoted => edges[1].age + TapMax <= age
        BY <1>1, <1>2 DEF PttInv, EdgesInOrder
      <3>2. edges[1].age \in Nat /\ held' = age - edges[1].age
        BY <1>1, <1>2 DEF Edges
      <3> QED BY <3>1, <3>2, PttNumbers
    <2> QED BY <1>1, <1>2, <2>1 DEF PttInv, EdgesInOrder
  <1>6. PressesAreChords'
    BY <1>1, <1>2 DEF PttInv, PressesAreChords
  <1>7. CommandsAlternate' /\ Started' = Started /\ Take' = Take
    BY <1>1, NothingSent
  <1>8. MicRests' /\ PressInv'
    BY <1>1, <1>7, PressesGoOn DEF PttInv, MicRests
  <1> QED BY <1>4, <1>5, <1>6, <1>7, <1>8 DEF PttInv

LEMMA BounceKeeps == ASSUME PttInv, Bounce PROVE PttInv'
  <1>1. /\ edges # <<>> /\ edges' = Tail(edges) /\ Head(edges).down
        /\ ptt = "releasing" /\ ptt' = "recording"
        /\ UNCHANGED <<wasDown, chords, age, rest, held, promoted, mic, unit, leaked, gate,
                       buffer, wav, onboards, told, presses, owner, crossed>>
    BY DEF Bounce, ResumePress, Received, capture
  <1>2. /\ edges' \in Seq(Edges)
        /\ \A i \in DOMAIN edges' : i + 1 \in DOMAIN edges /\ edges'[i] = edges[i + 1]
        /\ \A i, j \in DOMAIN edges' : i < j => edges'[i].age > edges'[j].age
        /\ Count(edges, Downs)' = Count(edges, Downs) - 1 /\ Count(edges, Downs) \in Nat
    BY <1>1, EdgeTaken
  <1>3. PttTypeOK'
    BY <1>1, <1>2, PttTypes DEF PttInv, PttTypeOK, Edges, Commands
  <1>4. EdgesInOrder'
    BY <1>1, <1>2 DEF PttInv, EdgesInOrder
  <1>5. PressesAreChords'
    BY <1>1, <1>2, PttNumbers DEF PttInv, PressesAreChords
  <1>6. CommandsAlternate' /\ Started' = Started /\ Take' = Take
    BY <1>1, NothingSent
  <1>7. MicRests' /\ PressInv'
    BY <1>1, <1>6, PressesGoOn DEF PttInv, MicRests
  <1> QED BY <1>3, <1>4, <1>5, <1>6, <1>7 DEF PttInv

LEMMA IgnoreKeeps == ASSUME PttInv, Ignore PROVE PttInv'
  <1>1. /\ edges # <<>> /\ edges' = Tail(edges) /\ ~Head(edges).down /\ ptt = "idle"
        /\ UNCHANGED <<wasDown, chords, ptt, age, rest, held, promoted, mic, unit, leaked,
                       gate, buffer, wav, onboards, told, presses, owner, crossed>>
    BY DEF Ignore, Received, capture, controller
  <1>2. /\ edges' \in Seq(Edges)
        /\ \A i, j \in DOMAIN edges' : i < j => edges'[i].age > edges'[j].age
        /\ Count(edges, Downs)' = Count(edges, Downs)
    BY <1>1, EdgeTaken, PttTypes
  <1>3. PttTypeOK'
    BY <1>1, <1>2, PttTypes DEF PttInv, PttTypeOK, Edges, Commands
  <1>4. EdgesInOrder' /\ PressesAreChords'
    BY <1>1, <1>2 DEF PttInv, EdgesInOrder, PressesAreChords
  <1>5. CommandsAlternate' /\ Started' = Started /\ Take' = Take
    BY <1>1, NothingSent
  <1>6. MicRests' /\ PressInv'
    BY <1>1, <1>5, PressesGoOn DEF PttInv, MicRests
  <1> QED BY <1>3, <1>4, <1>5, <1>6 DEF PttInv

LEMMA PromoteKeeps == ASSUME PttInv, Promote PROVE PttInv'
  <1>1. /\ edges = <<>> /\ ptt = "recording" /\ ~promoted /\ age >= TapMax /\ promoted' = TRUE
        /\ told' = [told EXCEPT ![Listener] = presses]
        /\ owner' = [owner EXCEPT ![presses] = Listener]
        /\ UNCHANGED <<wasDown, chords, edges, ptt, age, rest, held, mic, unit, leaked, gate,
                       buffer, wav, onboards, presses, crossed>>
    BY DEF Promote, Elapsed, Due, capture
  <1>2. PttTypeOK'
    <2>0. presses \in 0..MaxChords /\ 0 \in 0..MaxChords
      BY PttNumbers
    <2>1. told' \in [Webviews -> 0..MaxChords] /\ owner' \in [1..MaxChords -> Webviews \cup {Nobody}]
      <3>1. /\ told \in [Webviews -> 0..MaxChords] /\ Listener \in Webviews
            /\ owner \in [1..MaxChords -> Webviews \cup {Nobody}]
        BY PttTypes
      <3>2. told' \in [Webviews -> 0..MaxChords]
        BY <1>1, <2>0, <3>1
      <3>3. owner' \in [1..MaxChords -> Webviews \cup {Nobody}]
        BY <1>1, <3>1
      <3> QED BY <3>2, <3>3
    <2> QED BY <1>1, <2>1 DEF PttInv, PttTypeOK
  <1>3. EdgesInOrder'
    BY <1>1 DEF EdgesInOrder
  <1>4. PressesAreChords'
    BY <1>1 DEF PttInv, PressesAreChords, Count, At, Downs
  <1>5. CommandsAlternate' /\ Started' = Started /\ Take' = Take
    BY <1>1, NothingSent
  <1>6. MicRests'
    BY <1>1, <1>5 DEF PttInv, MicRests
  <1>7. presses \in 1..MaxChords /\ wav.of < presses /\ owner[presses] = Nobody
    <2>1. presses \in 1..MaxChords
      BY <1>1, LivePress
    <2>2. wav.of < presses
      BY <1>1, LivePress
    <2> QED BY <1>1, <2>1, <2>2 DEF PttInv, PressInv, OwnersAreCurrent
  <1> DEFINE L == Listener
  <1>8. /\ owner'[presses] = L /\ Listener' = L /\ L \in Webviews /\ L # Nobody
        /\ \A p \in 1..MaxChords : p # presses => owner'[p] = owner[p]
        /\ told'[L] = presses /\ \A w \in Webviews : w # L => told'[w] = told[w]
    BY <1>1, <1>7, PttTypes DEF Listener
  <1> HIDE DEF L
  <1>9. OwnersAreCurrent'
    BY <1>1, <1>5, <1>7, <1>8, PttNumbers DEF PttInv, PressInv, OwnersAreCurrent, Undone
  <1>10. TellingsAreTrue'
    <2> SUFFICES ASSUME NEW w \in Webviews, told'[w] # 0
                 PROVE  /\ told'[w] \in 1..presses /\ owner'[told'[w]] = w
                        /\ \A p \in 1..presses : told'[w] < p => owner'[p] # w
                        /\ told'[w] \notin crossed => told'[w] = presses
      BY <1>1 DEF TellingsAreTrue
    <2>1. CASE w = L
      BY <1>7, <1>8, <2>1, PttNumbers
    <2>2. CASE w # L
      <3>1. /\ told[w] \in 1..presses /\ owner[told[w]] = w /\ told[w] \in crossed
            /\ \A p \in 1..presses : told[w] < p => owner[p] # w
        BY <1>1, <1>8, <2>2 DEF PttInv, PressInv, TellingsAreTrue
      <3>2. told[w] # presses
        BY <1>7, <3>1, PttTypes
      <3> QED BY <1>7, <1>8, <2>2, <3>1, <3>2, PttNumbers
    <2> QED BY <2>1, <2>2
  <1>11. WavIsOwned' /\ TakesAreOwn'
    BY <1>1, <1>5, <1>7, <1>8 DEF PttInv, PressInv, WavIsOwned, TakesAreOwn
  <1> QED BY <1>2, <1>3, <1>4, <1>5, <1>6, <1>9, <1>10, <1>11 DEF PttInv, PressInv

LEMMA CommitKeeps ==
  ASSUME PttInv, NEW how, Commits(how), NEW c \in {"stop", "cancel"}, mic' = Append(mic, c)
  PROVE  PttInv'
  <1>1. /\ edges = <<>> /\ ptt \in {"recording", "releasing"} /\ ptt' = "idle"
        /\ told' = [told EXCEPT ![Listener] = 0]
        /\ owner' = [owner EXCEPT ![presses] = IF @ = Nobody THEN Listener ELSE @]
        /\ UNCHANGED <<wasDown, chords, edges, age, rest, held, promoted, unit, leaked, gate,
                       buffer, wav, onboards, presses, crossed>>
    BY DEF Commits, Elapsed, TellEnd, capture
  <1>2. mic' \in Seq(Commands) /\ mic' # <<>> /\ CommandsAlternate' /\ Started' = Started /\ Take' = Take
    BY <1>1, CommandSent, PttNumbers DEF Commands
  <1>3. PttTypeOK'
    <2>0. presses \in 0..MaxChords /\ 0 \in 0..MaxChords
      BY PttNumbers
    <2>1. told' \in [Webviews -> 0..MaxChords] /\ owner' \in [1..MaxChords -> Webviews \cup {Nobody}]
      <3>1. /\ told \in [Webviews -> 0..MaxChords] /\ Listener \in Webviews
            /\ owner \in [1..MaxChords -> Webviews \cup {Nobody}]
        BY PttTypes
      <3>2. told' \in [Webviews -> 0..MaxChords]
        BY <1>1, <2>0, <3>1
      <3>3. owner' \in [1..MaxChords -> Webviews \cup {Nobody}]
        BY <1>1, <3>1
      <3> QED BY <3>2, <3>3
    <2> QED BY <1>1, <1>2, <2>1 DEF PttInv, PttTypeOK, Commands
  <1>4. EdgesInOrder'
    BY <1>1 DEF EdgesInOrder
  <1>5. PressesAreChords'
    BY <1>1 DEF PttInv, PressesAreChords, Count, At, Downs
  <1>6. MicRests'
    BY <1>1, <1>2 DEF PttInv, MicRests
  <1>7. presses \in 1..MaxChords /\ wav.of < presses
    BY <1>1, LivePress
  <1> DEFINE L == Listener
             o == owner[presses]
  <1>8. /\ owner'[presses] = (IF o = Nobody THEN L ELSE o)
        /\ Listener' = L /\ L \in Webviews /\ L # Nobody
        /\ \A p \in 1..MaxChords : p # presses => owner'[p] = owner[p]
        /\ told'[L] = 0 /\ \A w \in Webviews : w # L => told'[w] = told[w]
    BY <1>1, <1>7, PttTypes DEF Listener
  <1>0. presses \notin crossed /\ o # Nobody => o = L
    <2>1. Undone(presses)
      BY <1>1, LivePress
    <2> QED BY <1>7, <2>1, PttNumbers DEF PttInv, PressInv, OwnersAreCurrent
  <1> HIDE DEF L
  <1>9. OwnersAreCurrent'
    <2>1. ASSUME NEW p \in (1..presses) \ crossed, Undone(p), owner'[p] # Nobody
          PROVE  owner'[p] = L
      <3>1. CASE p = presses
        BY <1>0, <1>8, <2>1, <3>1
      <3>2. CASE p # presses
        <4>1. p \in 1..MaxChords
          BY PttNumbers
        <4> QED BY <1>8, <2>1, <3>2, <4>1 DEF PttInv, PressInv, OwnersAreCurrent, L
      <3> QED BY <3>1, <3>2
    <2>2. \A p \in 1..MaxChords : presses < p => owner'[p] = Nobody
      BY <1>7, <1>8, PttNumbers DEF PttInv, PressInv, OwnersAreCurrent
    <2>3. \A p \in 1..presses : owner'[p] # Nobody
      BY <1>7, <1>8, PttNumbers DEF PttInv, PressInv, OwnersAreCurrent
    <2> QED BY <1>1, <1>2, <1>8, <2>1, <2>2, <2>3 DEF OwnersAreCurrent, Undone
  <1>10. TellingsAreTrue'
    <2> SUFFICES ASSUME NEW w \in Webviews, told'[w] # 0
                 PROVE  /\ told'[w] \in 1..presses /\ owner'[told'[w]] = w
                        /\ \A p \in 1..presses : told'[w] < p => owner'[p] # w
                        /\ told'[w] \in crossed
      BY <1>1 DEF TellingsAreTrue
    <2>1. w # L /\ told'[w] = told[w]
      BY <1>8
    <2>2. /\ told[w] \in 1..presses /\ owner[told[w]] = w
          /\ \A p \in 1..presses : told[w] < p => owner[p] # w
          /\ told[w] \notin crossed => told[w] = presses
      BY <2>1 DEF PttInv, PressInv, TellingsAreTrue
    <2>3. told[w] \in crossed
      BY <1>0, <2>1, <2>2, PttTypes
    <2>4. owner'[presses] = w => o = w
      BY <1>8, <2>1
    <2>5. owner'[told[w]] = w
      <3>1. w # Nobody
        BY PttTypes
      <3>2. told[w] \in 1..MaxChords /\ owner \in [1..MaxChords -> Webviews \cup {Nobody}]
        BY <2>2, PttNumbers, PttTypes
      <3>3. CASE told[w] = presses
        BY <1>8, <2>2, <3>1, <3>3
      <3>4. CASE told[w] # presses
        BY <1>8, <2>2, <3>2, <3>4
      <3> QED BY <3>3, <3>4
    <2>6. \A p \in 1..presses : told[w] < p => owner'[p] # w
      <3> SUFFICES ASSUME NEW p \in 1..presses, told[w] < p PROVE owner'[p] # w
        OBVIOUS
      <3>1. owner[p] # w /\ p \in 1..MaxChords
        BY <2>2, PttNumbers
      <3> QED BY <1>8, <2>4, <3>1
    <2> QED BY <2>1, <2>2, <2>3, <2>5, <2>6
  <1>11. WavIsOwned' /\ TakesAreOwn'
    BY <1>1, <1>2, <1>7, <1>8 DEF PttInv, PressInv, WavIsOwned, TakesAreOwn
  <1> QED BY <1>2, <1>3, <1>4, <1>5, <1>6, <1>9, <1>10, <1>11 DEF PttInv, PressInv

-----------------------------------------------------------------------------
(* The microphone thread.                                                   *)

LEMMA CaptureAlone ==
  ASSUME PttInv, OnlyCapture
  PROVE  /\ UNCHANGED <<wasDown, chords, edges, ptt, age, rest, held, promoted, onboards, told, presses, owner, crossed>>
         /\ EdgesInOrder' /\ PressesAreChords' /\ Listener' = Listener
  BY
   DEF OnlyCapture, controller, PttInv, EdgesInOrder, PressesAreChords, Count, At, Downs,
       Listener

LEMMA MicStartKeeps == ASSUME PttInv, MicStart PROVE PttInv'
  <1>1. /\ mic # <<>> /\ Head(mic) = "start" /\ mic' = Tail(mic) /\ buffer' = {} /\ OnlyCapture
        /\ UNCHANGED <<leaked, wav>> /\ unit' \in {"none", "running"} /\ gate' \in BOOLEAN
    BY DEF MicStart, Ordered, FreshBuffer
  <1>2. /\ UNCHANGED <<wasDown, chords, edges, ptt, age, rest, held, promoted, onboards, told,
                       presses, owner, crossed>>
        /\ EdgesInOrder' /\ PressesAreChords' /\ Listener' = Listener
    BY <1>1, CaptureAlone
  <1>3. mic' \in Seq(Commands) /\ CommandsAlternate' /\ ~Started /\ Started' /\ Take' = Take + 1
    BY <1>1, <1>2, CommandTaken
  <1>4. PttTypeOK'
    BY <1>1, <1>2, <1>3 DEF PttInv, PttTypeOK, Commands
  <1>5. MicRests'
    BY <1>1, <1>3 DEF PttInv, MicRests
  <1>6. OwnersAreCurrent' /\ TellingsAreTrue'
    <2>1. ASSUME NEW p \in 1..presses, Undone(p)' PROVE Undone(p)
      BY <1>3, <2>1, TakeIsPress DEF Undone
    <2>2. OwnersAreCurrent'
      BY <1>2, <2>1 DEF PttInv, PressInv, OwnersAreCurrent
    <2> QED BY <1>2, <2>2 DEF PttInv, PressInv, TellingsAreTrue
  <1>7. WavIsOwned' /\ TakesAreOwn'
    BY <1>1, <1>2, <1>3, TakeIsPress DEF PttInv, PressInv, WavIsOwned, TakesAreOwn
  <1> QED BY <1>2, <1>3, <1>4, <1>5, <1>6, <1>7 DEF PttInv, PressInv

\* A take that ends: what is heard from it goes to the webview that owned it.
LEMMA EndKeeps ==
  ASSUME PttInv, mic # <<>>, Head(mic) # "start", mic' = Tail(mic), gate' = FALSE, Pauses,
         OnlyCapture, buffer' \in {buffer, {}},
         wav' \in {wav, [takes |-> buffer, of |-> Take, to |-> SoundListener]}
  PROVE  PttInv'
  <1>2. /\ UNCHANGED <<wasDown, chords, edges, ptt, age, rest, held, promoted, onboards, told,
                       presses, owner, crossed>>
        /\ EdgesInOrder' /\ PressesAreChords' /\ Listener' = Listener
    BY CaptureAlone
  <1>3. mic' \in Seq(Commands) /\ CommandsAlternate' /\ Started /\ ~Started' /\ Take' = Take
    <2>1. /\ mic' \in Seq(Commands) /\ CommandsAlternate'
          /\ Started = (Head(mic) # "start") /\ Started' = (Head(mic) = "start")
          /\ Take' = Take + (IF Head(mic) = "start" THEN 1 ELSE 0)
      BY <1>2, CommandTaken
    <2>2. Started
      BY <2>1
    <2>3. ~Started'
      BY <2>1
    <2>4. Take' = Take
      BY <2>1, TakeIsPress
    <2> QED BY <2>1, <2>2, <2>3, <2>4
  <1>4. unit' \in {"none", "paused", "faulted"} /\ leaked' \in BOOLEAN
    BY DEF PttInv, PttTypeOK, Pauses
  <1>5. Take \in 1..presses /\ Take \in 1..MaxChords
    BY <1>3, TakeIsPress, PttNumbers
  <1>6. PttTypeOK'
    <2>1. owner[Take] \in Webviews \cup {Nobody} /\ SoundListener \in Webviews /\ buffer \subseteq 1..MaxChords
      BY <1>5, PttTypes DEF SoundListener, PttInv, PttTypeOK
    <2>2. wav' \in [takes : SUBSET (1..MaxChords), of : 0..MaxChords, to : Webviews \cup {Nobody}]
      <3>1. wav \in [takes : SUBSET (1..MaxChords), of : 0..MaxChords, to : Webviews \cup {Nobody}]
        BY DEF PttInv, PttTypeOK
      <3>2. CASE wav' = wav
        BY <3>1, <3>2
      <3>3. CASE wav' = [takes |-> buffer, of |-> Take, to |-> SoundListener]
        BY <1>5, <2>1, <3>3, PttNumbers
      <3> QED BY <3>2, <3>3
    <2>3. gate' \in BOOLEAN /\ buffer' \subseteq 1..MaxChords
      BY <2>1
    <2> QED BY <1>2, <1>3, <1>4, <2>2, <2>3 DEF PttInv, PttTypeOK, Commands
  <1>7. MicRests'
    BY <1>4 DEF PttInv, MicRests, Pauses
  <1>8. OwnersAreCurrent' /\ TellingsAreTrue'
    <2>1. ASSUME NEW p \in 1..presses, Undone(p)' PROVE Undone(p)
      BY <1>3, <1>5, <2>1 DEF Undone
    <2>2. OwnersAreCurrent'
      BY <1>2, <2>1 DEF PttInv, PressInv, OwnersAreCurrent
    <2> QED BY <1>2, <2>2 DEF PttInv, PressInv, TellingsAreTrue
  <1>9. WavIsOwned' /\ TakesAreOwn'
    <2>1. CASE wav' = wav
      BY <1>2, <1>3, <2>1 DEF PttInv, PressInv, WavIsOwned, TakesAreOwn
    <2>2. CASE wav' = [takes |-> buffer, of |-> Take, to |-> SoundListener]
      <3>1. Undone(Take)
        BY <1>3, <1>5 DEF Undone
      <3>2. owner[Take] # Nobody
        <4>1. Take < presses \/ ptt = "idle"
          BY <1>3, TakeIsPress
        <4> QED BY <1>5, <4>1 DEF PttInv, PressInv, OwnersAreCurrent
      <3>3. Take \notin crossed => owner[Take] = Listener
        BY <1>5, <3>1, <3>2 DEF PttInv, PressInv, OwnersAreCurrent
      <3>4. buffer \subseteq {Take}
        BY <1>3 DEF PttInv, PressInv, TakesAreOwn
      <3> QED BY <1>2, <1>3, <1>5, <2>2, <3>3, <3>4 DEF WavIsOwned, TakesAreOwn, SoundListener
    <2> QED BY <2>1, <2>2
  <1> QED BY <1>2, <1>3, <1>6, <1>7, <1>8, <1>9 DEF PttInv, PressInv

LEMMA SoundKeeps == ASSUME PttInv, Sound PROVE PttInv'
  <1>1. /\ gate /\ buffer' = buffer \cup {Take} /\ OnlyCapture
        /\ UNCHANGED <<mic, unit, leaked, gate, wav>>
    BY DEF Sound
  <1>2. /\ UNCHANGED <<wasDown, chords, edges, ptt, age, rest, held, promoted, onboards, told,
                       presses, owner, crossed>>
        /\ EdgesInOrder' /\ PressesAreChords' /\ Listener' = Listener
    BY <1>1, CaptureAlone
  <1>3. CommandsAlternate' /\ Started' = Started /\ Take' = Take
    BY <1>1, <1>2, NothingSent
  <1>4. Take \in 1..MaxChords
    BY <1>1, TakeIsPress, PttNumbers DEF PttInv, MicRests
  <1>5. PttTypeOK'
    BY <1>1, <1>2, <1>4 DEF PttInv, PttTypeOK
  <1>6. MicRests' /\ OwnersAreCurrent' /\ TellingsAreTrue'
    BY <1>1, <1>2, <1>3
    DEF PttInv, PressInv, MicRests, OwnersAreCurrent, TellingsAreTrue, Undone
  <1>7. WavIsOwned' /\ TakesAreOwn'
    BY <1>1, <1>2, <1>3 DEF PttInv, PressInv, WavIsOwned, TakesAreOwn
  <1> QED BY <1>2, <1>3, <1>5, <1>6, <1>7 DEF PttInv, PressInv

LEMMA DeviceFaultsKeeps == ASSUME PttInv, DeviceFaults PROVE PttInv'
  <1>1. unit' = "faulted" /\ OnlyCapture /\ UNCHANGED <<mic, leaked, gate, buffer, wav>>
    BY DEF DeviceFaults
  <1>2. /\ UNCHANGED <<wasDown, chords, edges, ptt, age, rest, held, promoted, onboards, told,
                       presses, owner, crossed>>
        /\ EdgesInOrder' /\ PressesAreChords' /\ Listener' = Listener
    BY <1>1, CaptureAlone
  <1>3. CommandsAlternate' /\ Started' = Started /\ Take' = Take
    BY <1>1, <1>2, NothingSent
  <1>5. PttTypeOK'
    BY <1>1, <1>2 DEF PttInv, PttTypeOK
  <1>6. MicRests' /\ PressInv'
    BY <1>1, <1>2, <1>3, PressesGoOn DEF PttInv, MicRests
  <1> QED BY <1>2, <1>3, <1>5, <1>6 DEF PttInv

LEMMA SetOnboardingKeeps == ASSUME PttInv, SetOnboarding PROVE PttInv'
  <1>1. /\ onboards' = ~onboards
        /\ crossed' = crossed \cup {p \in 1..presses : Owed(p)}
        /\ UNCHANGED <<wasDown, chords, edges, ptt, age, rest, held, promoted, mic, unit,
                       leaked, gate, buffer, wav, told, presses, owner>>
    BY DEF SetOnboarding, controller, capture
  <1>2. CommandsAlternate' /\ Started' = Started /\ Take' = Take
    BY <1>1, NothingSent
  <1>3. PttTypeOK' /\ EdgesInOrder'
    BY <1>1 DEF PttInv, PttTypeOK, EdgesInOrder
  <1>4. PressesAreChords'
    BY <1>1 DEF PttInv, PressesAreChords, Count, At, Downs
  <1>5. MicRests'
    BY <1>1, <1>2 DEF PttInv, MicRests
  <1>6. \A p \in 1..presses : Owed(p) <=> owner[p] # Nobody /\ Undone(p)
    <2>1. Take \in Int
      BY TakeIsPress
    <2> QED BY <2>1 DEF Owed, Undone
  <1>7. OwnersAreCurrent'
    BY <1>1, <1>2, <1>6 DEF PttInv, PressInv, OwnersAreCurrent, Undone
  <1>8. TellingsAreTrue'
    BY <1>1 DEF PttInv, PressInv, TellingsAreTrue
  <1>9. WavIsOwned' /\ TakesAreOwn'
    BY <1>1, <1>2 DEF PttInv, PressInv, WavIsOwned, TakesAreOwn
  <1> QED BY <1>2, <1>3, <1>4, <1>5, <1>7, <1>8, <1>9 DEF PttInv, PressInv

-----------------------------------------------------------------------------
LEMMA PttSteps == PttInv /\ [PttNext]_pttVars => PttInv'
  <1> SUFFICES ASSUME PttInv, [PttNext]_pttVars PROVE PttInv'
    OBVIOUS
  <1>1. CASE Controller
    <2>1. ASSUME CommitTap PROVE PttInv'
      BY <2>1, CommitKeeps DEF CommitTap, Discard
    <2>2. ASSUME CommitHold PROVE PttInv'
      BY <2>2, CommitKeeps DEF CommitHold
    <2> QED BY <1>1, <2>1, <2>2, StartCaptureKeeps, ReleaseKeeps, BounceKeeps, IgnoreKeeps,
               PromoteKeeps
        DEF Controller
  <1>2. CASE MicThread
    <2>1. ASSUME MicStop PROVE PttInv'
      <3>1. /\ mic # <<>> /\ Head(mic) # "start" /\ mic' = Tail(mic) /\ gate' = FALSE /\ Pauses
            /\ OnlyCapture /\ buffer' = buffer
            /\ wav' \in {wav, [takes |-> buffer, of |-> Take, to |-> SoundListener]}
        BY <2>1 DEF MicStop, Ordered
      <3> QED BY <3>1, EndKeeps
    <2>2. ASSUME MicCancel PROVE PttInv'
      <3>1. /\ mic # <<>> /\ Head(mic) # "start" /\ mic' = Tail(mic) /\ gate' = FALSE /\ Pauses
            /\ OnlyCapture /\ buffer' = {} /\ wav' = wav
        BY <2>2 DEF MicCancel, Ordered, FreshBuffer
      <3> QED BY <3>1, EndKeeps
    <2> QED BY <1>2, <2>1, <2>2, MicStartKeeps DEF MicThread
  <1>3. CASE UNCHANGED pttVars
    <2>1. UNCHANGED <<wasDown, chords, edges, ptt, age, rest, held, promoted, mic, unit,
                      leaked, gate, buffer, wav, onboards, told, presses, owner, crossed>>
      BY <1>3 DEF pttVars, controller, capture
    <2>2. CommandsAlternate' /\ Started' = Started /\ Take' = Take
      BY <2>1, NothingSent
    <2>3. PttTypeOK' /\ EdgesInOrder' /\ MicRests'
      BY <2>1, <2>2 DEF PttInv, PttTypeOK, EdgesInOrder, MicRests
    <2>4. PressesAreChords' /\ PressInv'
      BY <2>1, <2>2, PressesGoOn DEF PttInv, PressesAreChords, Count, At, Downs
    <2> QED BY <2>2, <2>3, <2>4 DEF PttInv
  <1> QED BY <1>1, <1>2, <1>3, ReadModifiersKeeps, SoundKeeps, DeviceFaultsKeeps,
             SetOnboardingKeeps
      DEF PttNext

\* The invariant of push-to-talk holds whatever bounces, fails, lags or is lost: edges
\* are in order and no older than their press, starts and ends alternate on their way
\* to the microphone, which rests between them, and a press is its owner's.
THEOREM PttInvariant == PttSpec => []PttInv
  <1>1. PttInit => PttInv
    BY PttBegins
  <1>2. PttInv /\ [PttNext]_pttVars => PttInv'
    BY PttSteps
  <1> QED BY <1>1, <1>2, PTL DEF PttSpec

\* Push-to-talk keeps its types: the channels hold edges and commands, the press ages
\* within its bounds.
THEOREM PttIsTyped == PttSpec => []PttTypeOK
  <1>1. PttInv => PttTypeOK
    BY DEF PttInv
  <1> QED BY <1>1, PttInvariant, PTL

\* Between presses the gate is shut and the unit in use does not run, also when it could
\* not be paused, and what a press sends is its own sound (audio.rs:256-289).
THEOREM MicrophoneIsDark == PttSpec => []MicIsDark
  <1>1. PttInv => MicIsDark
    BY DEF PttInv, MicRests, PressInv, TakesAreOwn, Started, MicIsDark
  <1> QED BY <1>1, PttInvariant, PTL

\* Edges and sound of a press go to one webview unless the onboarding flag moves while
\* they are owed, and a webview is left listening by no other press, until the next
\* press of its own (input.rs:32-34).
THEOREM PressHasOneOwner == PttSpec => []PressStaysWithOwner
  <1>1. PttInv => PressStaysWithOwner
    BY DEF PttInv, PressInv, WavIsOwned, TellingsAreTrue, PressStaysWithOwner
  <1> QED BY <1>1, PttInvariant, PTL

\* A press that was shown as listening is sent, whatever bounces and however late the
\* controller runs (input.rs:277, 329-334, 403-427).
THEOREM WhatIsListenedIsSent == PttSpec => ListenedIsSent
  <1>1. PttInv /\ [PttNext]_pttVars =>
          [ptt # "idle" /\ ptt' = "idle" /\ mic' = Append(mic, "cancel") => ~promoted]_pttVars
    <2> SUFFICES ASSUME PttInv, PttNext, ptt # "idle", ptt' = "idle", mic' = Append(mic, "cancel")
                 PROVE  ~promoted
      OBVIOUS
    <2>1. mic \in Seq(Commands) /\ "stop" \in Commands /\ "cancel" \in Commands
      BY PttTypes DEF Commands
    <2>2. Append(mic, "stop") # Append(mic, "cancel")
      BY <2>1, AppendInjective
    <2>3. CommitTap \/ CommitHold
      BY
       DEF PttNext, Controller, MicThread, ReadModifiers, StartCapture, Release, Bounce,
           ResumePress, Ignore,
             Promote, MicStart, MicStop, MicCancel, Sound, DeviceFaults,
               SetOnboarding, OnlyCapture, controller
    <2>4. CommitTap
      BY <2>2, <2>3 DEF CommitHold
    <2>5. ptt = "releasing" /\ held < TapMax
      BY <2>4 DEF CommitTap, Commits
    <2>6. promoted => held >= TapMax
      BY <2>5 DEF PttInv, EdgesInOrder
    <2>7. held \in Nat /\ TapMax \in Nat
      BY PttTypes
    <2> QED BY <2>5, <2>6, <2>7
  <1> QED BY <1>1, PttInvariant, PTL DEF PttSpec, ListenedIsSent

-----------------------------------------------------------------------------
(***************************************************************************)
(* Onboarding, for every number of recordings, permission polls and incidents.*)
(***************************************************************************)

\* A page that is closed or not yet resolved shows nothing, and a page that shows nothing
\* has neither a recording nor a timer at work.
PageBegins ==
    /\ ~page.open => ~page.resolved /\ disk.onboarded
    /\ page.act = Welcome => page.shown \in {Nothing, Welcome}
    /\ ~page.resolved => page.shown = Nothing
    /\ page.shown = Nothing => ~beats.timer /\ ~beats.restoring /\ \A t \in Takes : ~InTurn(t)

\* The marker on disk names the act that was on the screen last, and so does the page
\* that is about to show it.
MarkerIsAct ==
    /\ page.shown # Nothing => page.open /\ hist.at = page.shown
    /\ page.open /\ ~hist.replayed =>
         /\ ResumeIndex(disk.marker) = hist.at
         /\ page.resolved /\ page.shown = Nothing => page.act = hist.at

\* The stages before an act.
Before(a) == /\ Welcome < a     => "welcome" \in hist.passed
             /\ Hearing < a     => "hearing" \in hist.passed
             /\ Permissions < a => "permissions" \in hist.passed
             /\ Practice < a    => {"learn_point", "circle"} \subseteq hist.passed
             /\ Source < a      => "source" \in hist.passed

\* Where the page is and where it would come back to, the stages before are passed.
StagesPassed ==
    /\ Before(ResumeIndex(disk.marker)) /\ Before(page.act) /\ page.shown <= page.act
    /\ disk.marker = "circle" \/ beats.restoring => "learn_point" \in hist.passed
    /\ Showing(Practice) /\ beats.at = LastBeat => "learn_point" \in hist.passed
    /\ beats.restoring => beats.at = 0
    /\ beats.timer => /\ Showing(Practice) /\ beats.done
                      /\ (IF beats.at = 0 THEN "learn_point" ELSE "circle") \in hist.passed

\* An act is left only once: until its own end has come, the page has not moved on.
EachEndsOnce ==
    /\ Showing(Hearing) /\ ~drill.done => page.act = Hearing
    /\ Showing(Permissions) /\ ~perm.advanced => page.act = Permissions
    /\ Showing(Practice) /\ (beats.at < LastBeat \/ ~beats.done \/ beats.timer) => page.act = Practice

\* One recording at a time is answered, in the act and the beat it was made in.
OneTakeAtWork ==
    /\ \A t, u \in Takes : InTurn(t) /\ InTurn(u) => t = u
    /\ \A t \in Takes : InTurn(t) =>
         \/ /\ take[t].act = Hearing /\ Showing(Hearing) /\ page.act = Hearing
            /\ take[t].pc = "landed" => drill.done /\ "hearing" \in hist.passed
         \/ /\ take[t].act = Practice /\ Showing(Practice) /\ page.act = Practice
            /\ take[t].pc = "turn" /\ take[t].beat = beats.at /\ ~beats.done /\ ~beats.timer

FlowInv == /\ FlowTypeOK /\ PageBegins /\ MarkerIsAct
           /\ ~hist.crowded => StagesPassed /\ EachEndsOnce /\ OneTakeAtWork

LEMMA ActOrder ==
    /\ Acts \subseteq Int
    /\ Nothing \in Int /\ \A a \in Acts : Nothing < a
    /\ Welcome < Hearing /\ Hearing < Permissions /\ Permissions < Practice
    /\ Practice < Source /\ Source < Ending
    /\ Welcome + 1 = Hearing /\ Hearing + 1 = Permissions /\ Permissions + 1 = Practice
    /\ Practice + 1 = Source /\ Source + 1 = Ending
    /\ \A a \in Acts : Welcome <= a /\ a <= Ending
BY DEF Acts, Nothing, Welcome, Hearing, Permissions, Practice, Source, Ending

LEMMA NextAct == \A a \in Acts : (IF a = Ending THEN Ending ELSE a + 1) \in Acts
BY DEF Acts, Welcome, Ending

LEMMA BeatFacts == /\ 0 \in 0 .. LastBeat /\ LastBeat \in 0 .. LastBeat
                   /\ \A b \in 0 .. LastBeat : b < LastBeat => b + 1 \in 0 .. LastBeat
BY DEF LastBeat

LEMMA KindFacts ==
    /\ "" \in Names /\ "own" \in Names /\ "there" \in Names
    /\ "" \in Markers /\ "circle" \in Markers
    /\ {Welcome, Hearing, Permissions, Practice, Source, Ending} \subseteq Acts
BY DEF Names, Markers, Acts, Welcome, Hearing, Permissions, Practice, Source, Ending

LEMMA ResumeFacts ==
    /\ ResumeIndex("") = Welcome /\ ResumeIndex("hearing") = Hearing
    /\ ResumeIndex("permissions") = Permissions /\ ResumeIndex("practice") = Practice
    /\ ResumeIndex("circle") = Practice /\ ResumeIndex("source") = Source
    /\ ResumeIndex("ending") = Ending
    /\ \A m \in Markers : ResumeIndex(m) \in Acts
BY DEF ResumeIndex, PracticeOnlyByAct, Acts, Welcome, Hearing, Permissions, Practice,
       Source, Ending, Markers

LEMMA MarkerFacts ==
    /\ MarkerOf(Welcome) = disk.marker /\ MarkerOf(Hearing) = "hearing"
    /\ MarkerOf(Permissions) = "permissions" /\ MarkerOf(Practice) = "practice"
    /\ MarkerOf(Source) = "source" /\ MarkerOf(Ending) = "ending"
BY DEF MarkerOf, Welcome, Hearing, Permissions, Practice, Source, Ending

LEMMA MarkerTyped == ASSUME disk.marker \in Markers, NEW a \in Acts
                     PROVE  MarkerOf(a) \in Markers
<1>1. a \in {Welcome, Hearing, Permissions, Practice, Source, Ending}
  BY DEF Acts, Welcome, Hearing, Permissions, Practice, Source, Ending
<1>2. {"hearing", "permissions", "practice", "source", "ending"} \subseteq Markers
  BY DEF Markers
<1> QED BY <1>1, <1>2, MarkerFacts


DiskKind    == [marker : Markers, onboarded : BOOLEAN, name : Names]
ProfileKind == [name : Names, completed : BOOLEAN]
PageKind    == [open : BOOLEAN, resolved : BOOLEAN, act : Acts,
                shown : Acts \cup {Nothing}, name : Names]
FrontKind   == [panel : {"hero", "color", "signin", "signed", "collapsed"}, name : Names]
DrillKind   == [phase : {"primer", "drill"}, done : BOOLEAN]
BeatsKind   == [at : 0 .. LastBeat, done : BOOLEAN, timer : BOOLEAN, restoring : BOOLEAN]
TakeKind    == [Takes -> [pc : {"none", "turn", "landed", "over"},
                          act : Acts \cup {Nothing}, beat : 0 .. LastBeat]]
PermKind    == [granted : SUBSET {"mic", "screen", "access"}, seen : BOOLEAN,
                polls : [Polls -> {"none", "missing", "done"}], advanced : BOOLEAN]
ChordKind   == [running : BOOLEAN, owned : BOOLEAN]
SaveKind    == {"none", "posting", "caching", "done"}
HistKind    == [passed : SUBSET {"welcome", "hearing", "permissions", "learn_point",
                                 "circle", "source"},
                at : Acts, crowded : BOOLEAN, replayed : BOOLEAN, named : BOOLEAN]

FlowKinds ==
    /\ disk \in DiskKind /\ profile \in ProfileKind /\ page \in PageKind
    /\ front \in FrontKind /\ drill \in DrillKind /\ beats \in BeatsKind
    /\ take \in TakeKind /\ perm \in PermKind /\ chord \in ChordKind
    /\ save \in SaveKind /\ hist \in HistKind /\ incidents \in 0 .. MaxIncidents

LEMMA KindsAreTypes == FlowKinds <=> FlowTypeOK
BY DEF FlowKinds, FlowTypeOK, DiskKind, ProfileKind, PageKind, FrontKind, DrillKind, BeatsKind,
       TakeKind, PermKind, ChordKind, SaveKind, HistKind

LEMMA AdvanceKind == ASSUME page \in PageKind, Advance PROVE page' \in PageKind
BY NextAct DEF PageKind, Advance

LEMMA IncidentKind == ASSUME incidents \in 0 .. MaxIncidents, Incident PROVE incidents' \in 0 .. MaxIncidents
BY OnboardingAssumption DEF Incident

LEMMA SavedKind == ASSUME page \in PageKind PROVE SavedProfile \in ProfileKind
<1>1. page.name \in Names
  BY DEF PageKind
<1> QED BY <1>1, KindFacts DEF SavedProfile, ProfileKind

LEMMA NoPollsKind == ASSUME perm \in PermKind, NEW seen \in BOOLEAN
    PROVE [perm EXCEPT !.seen = seen, !.polls = NoPolls, !.advanced = FALSE] \in PermKind
BY DEF PermKind, NoPolls

LEMMA FreshKinds ==
    ASSUME take \in TakeKind, NEW open \in BOOLEAN, FreshPage(open)
    PROVE  /\ page' \in PageKind /\ front' \in FrontKind /\ drill' \in DrillKind
           /\ beats' \in BeatsKind /\ take' \in TakeKind /\ save' \in SaveKind
<1>1. page' \in PageKind
  BY KindFacts DEF FreshPage, NewPage, PageKind
<1>2. front' \in FrontKind /\ drill' \in DrillKind /\ save' \in SaveKind
  BY KindFacts DEF FreshPage, NewFront, NewDrill, FrontKind, DrillKind, SaveKind
<1>3. beats' \in BeatsKind
  BY BeatFacts DEF FreshPage, NewBeats, BeatsKind
<1>4. take' \in TakeKind
  BY DEF FreshPage, TakeKind
<1> QED BY <1>1, <1>2, <1>3, <1>4

LEMMA OpenBeatKinds ==
    ASSUME disk \in DiskKind, chord \in ChordKind, hist \in HistKind,
           NEW b \in 0 .. LastBeat, OpenBeat(b)
    PROVE  /\ beats' \in BeatsKind /\ disk' \in DiskKind
           /\ chord' \in ChordKind /\ hist' \in HistKind
<1>1. beats' \in BeatsKind
  BY DEF OpenBeat, NewBeats, BeatsKind
<1>2. disk' \in DiskKind
  BY KindFacts DEF OpenBeat, DiskKind
<1>3. chord' \in ChordKind
  BY DEF OpenBeat, ChordKind
<1>4. hist' \in HistKind
  BY DEF OpenBeat, HistKind
<1> QED BY <1>1, <1>2, <1>3, <1>4

LEMMA FlowTyped == ASSUME FlowTypeOK, FlowNext PROVE FlowTypeOK'
<1> SUFFICES FlowKinds'
  BY KindsAreTypes, PTL
<1>0. FlowKinds
  BY KindsAreTypes
<1>a. perm \in PermKind /\ front \in FrontKind
  BY <1>0 DEF FlowKinds
<1>1. CASE ResumePage
  <2>1. page' \in PageKind
    BY <1>0, <1>1, ResumeFacts DEF FlowKinds, ResumePage, PageKind, DiskKind
  <2>2. UNCHANGED <<disk, profile, front, drill, beats, take, perm, chord, save, hist,
                    incidents>>
    BY <1>1 DEF ResumePage
  <2> QED BY <1>0, <2>1, <2>2 DEF FlowKinds
<1>2. CASE Commit
  <2>1. page' \in PageKind
    BY <1>0, <1>2 DEF FlowKinds, Commit, PageKind
  <2>2. disk' \in DiskKind
    BY <1>0, <1>2, MarkerTyped DEF FlowKinds, Commit, DiskKind, PageKind
  <2>3. chord' \in ChordKind
    BY <1>0, <1>2 DEF FlowKinds, Commit, ChordKind, TapStarted
  <2>4. drill' \in DrillKind
    BY <1>0, <1>2 DEF FlowKinds, Commit, DrillKind, NewDrill
  <2>5. beats' \in BeatsKind
    BY <1>0, <1>2, BeatFacts DEF FlowKinds, Commit, BeatsKind, NewBeats
  <2>6. perm' \in PermKind
    BY <1>a, <1>2 DEF Commit, PermKind, NoPolls
  <2>7. save' \in SaveKind
    BY <1>0, <1>2 DEF FlowKinds, Commit, SaveKind
  <2>8. hist' \in HistKind
    BY <1>0, <1>2 DEF FlowKinds, Commit, HistKind, PageKind
  <2>9. UNCHANGED <<profile, front, take, incidents>>
    BY <1>2 DEF Commit
  <2> QED BY <1>0, <2>1, <2>2, <2>3, <2>4, <2>5, <2>6, <2>7, <2>8, <2>9 DEF FlowKinds
<1>3. CASE Relaunch
  <2>1. /\ page' \in PageKind /\ front' \in FrontKind /\ drill' \in DrillKind
        /\ beats' \in BeatsKind /\ take' \in TakeKind /\ save' \in SaveKind
    BY <1>0, <1>3, FreshKinds DEF FlowKinds, Relaunch, DiskKind
  <2>2. perm' \in PermKind
    <3>1. ("screen" \in perm.granted) \in BOOLEAN
      OBVIOUS
    <3>2. PICK seen \in BOOLEAN : seen = ("screen" \in perm.granted)
      BY <3>1
    <3>3. perm' = [perm EXCEPT !.seen = seen, !.polls = NoPolls, !.advanced = FALSE]
      BY <1>3, <3>2 DEF Relaunch
    <3> QED BY <1>a, <3>3, NoPollsKind
  <2>3. chord' \in ChordKind
    BY <1>0, <1>3 DEF FlowKinds, Relaunch, ChordKind, DiskKind
  <2>4. incidents' \in 0 .. MaxIncidents
    BY <1>0, <1>3, IncidentKind DEF FlowKinds, Relaunch
  <2>5. UNCHANGED <<disk, profile, hist>>
    BY <1>3 DEF Relaunch
  <2> QED BY <1>0, <2>1, <2>2, <2>3, <2>4, <2>5 DEF FlowKinds
<1>4. CASE Replay
  <2>1. /\ page' \in PageKind /\ front' \in FrontKind /\ drill' \in DrillKind
        /\ beats' \in BeatsKind /\ take' \in TakeKind /\ save' \in SaveKind
    BY <1>0, <1>4, FreshKinds DEF FlowKinds, Replay
  <2>2. disk' \in DiskKind
    BY <1>0, <1>4, KindFacts DEF FlowKinds, Replay, DiskKind
  <2>3. perm' \in PermKind
    <3>1. perm' = perm \/ perm' = [perm EXCEPT !.polls = NoPolls, !.advanced = FALSE]
      BY <1>4 DEF Replay
    <3>2. CASE perm' = [perm EXCEPT !.polls = NoPolls, !.advanced = FALSE]
      BY <1>a, <3>2 DEF PermKind, NoPolls
    <3> QED BY <1>a, <3>1, <3>2
  <2>4. chord' \in ChordKind
    BY <1>0, <1>4 DEF FlowKinds, Replay, ChordKind
  <2>5. hist' \in HistKind
    BY <1>0, <1>4, KindFacts DEF FlowKinds, Replay, HistKind
  <2>6. incidents' \in 0 .. MaxIncidents
    BY <1>0, <1>4, IncidentKind DEF FlowKinds, Replay
  <2>7. UNCHANGED <<profile>>
    BY <1>4 DEF Replay
  <2> QED BY <1>0, <2>1, <2>2, <2>3, <2>4, <2>5, <2>6, <2>7 DEF FlowKinds
<1>5. CASE NextPanel
  <2>1. front' \in FrontKind
    BY <1>a, <1>5 DEF NextPanel, FrontKind
  <2>2. UNCHANGED <<disk, profile, page, drill, beats, take, perm, chord, save, hist,
                    incidents>>
    BY <1>5 DEF NextPanel
  <2> QED BY <1>0, <2>1, <2>2 DEF FlowKinds
<1>6. CASE SignedIn
  <2>1. front' \in FrontKind
    <3>1. profile.name \in Names /\ "own" \in Names /\ "" \in Names
      BY <1>0, KindFacts DEF FlowKinds, ProfileKind
    <3>2. \E found \in Names : front' = [panel |-> "signed", name |-> found]
      BY <1>6, <3>1 DEF SignedIn
    <3> QED BY <3>2 DEF FrontKind
  <2>2. disk' \in DiskKind
    BY <1>0, <1>6, KindFacts DEF FlowKinds, SignedIn, DiskKind, ProfileKind
  <2>3. hist' \in HistKind
    BY <1>0, <1>6 DEF FlowKinds, SignedIn, HistKind
  <2>4. incidents' \in 0 .. MaxIncidents
    BY <1>0, <1>6, IncidentKind DEF FlowKinds, SignedIn
  <2>5. UNCHANGED <<profile, page, drill, beats, take, perm, chord, save>>
    BY <1>6 DEF SignedIn
  <2> QED BY <1>0, <2>1, <2>2, <2>3, <2>4, <2>5 DEF FlowKinds
<1>7. CASE Collapsed
  <2>1. front' \in FrontKind
    BY <1>a, <1>7 DEF Collapsed, FrontKind
  <2>2. page' \in PageKind
    BY <1>0, <1>7, KindFacts DEF FlowKinds, Collapsed, PageKind, FrontKind
  <2>3. hist' \in HistKind
    BY <1>0, <1>7 DEF FlowKinds, Collapsed, HistKind, Passed
  <2>4. UNCHANGED <<disk, profile, drill, beats, take, perm, chord, save, incidents>>
    BY <1>7 DEF Collapsed
  <2> QED BY <1>0, <2>1, <2>2, <2>3, <2>4 DEF FlowKinds
<1>8. CASE UserGrants
  <2>1. perm' \in PermKind
    <3>1. PICK g \in {"mic", "screen", "access"} : Grant(g)
      BY <1>8 DEF UserGrants
    <3>2. \E seen \in {perm.seen, perm.seen \/ g = "screen"} :
              perm' = [perm EXCEPT !.granted = @ \cup {g}, !.seen = seen]
      BY <3>1 DEF Grant
    <3>3. perm.seen \in BOOLEAN /\ (perm.seen \/ g = "screen") \in BOOLEAN
      BY <1>a DEF PermKind
    <3>4. PICK seen \in BOOLEAN : perm' = [perm EXCEPT !.granted = @ \cup {g}, !.seen = seen]
      BY <3>2, <3>3
    <3> QED BY <1>a, <3>4 DEF PermKind
  <2>2. UNCHANGED <<disk, profile, page, front, drill, beats, take, chord, save, hist,
                    incidents>>
    BY <1>8 DEF UserGrants, Grant
  <2> QED BY <1>0, <2>1, <2>2 DEF FlowKinds
<1>9. CASE PrimerDone
  <2>1. drill' \in DrillKind
    BY <1>0, <1>9 DEF FlowKinds, PrimerDone, DrillKind
  <2>2. chord' \in ChordKind
    BY <1>0, <1>9 DEF FlowKinds, PrimerDone, ChordKind
  <2>3. UNCHANGED <<disk, profile, page, front, beats, take, perm, save, hist, incidents>>
    BY <1>9 DEF PrimerDone
  <2> QED BY <1>0, <2>1, <2>2, <2>3 DEF FlowKinds
<1>10. ASSUME NEW t \in Takes, Record(t) PROVE FlowKinds'
  <2>1. take' \in TakeKind
    BY <1>0, <1>10 DEF FlowKinds, Record, TakeKind, PageKind, BeatsKind
  <2>2. hist' \in HistKind
    BY <1>0, <1>10 DEF FlowKinds, Record, HistKind
  <2>3. UNCHANGED <<disk, profile, page, front, drill, beats, perm, chord, save, incidents>>
    BY <1>10 DEF Record
  <2> QED BY <1>0, <2>1, <2>2, <2>3 DEF FlowKinds
<1>11. ASSUME NEW t \in Takes, TurnMisses(t) PROVE FlowKinds'
  <2>1. take' \in TakeKind
    BY <1>0, <1>11 DEF FlowKinds, TurnMisses, TakeKind
  <2>2. UNCHANGED <<disk, profile, page, front, drill, beats, perm, chord, save, hist,
                    incidents>>
    BY <1>11 DEF TurnMisses
  <2> QED BY <1>0, <2>1, <2>2 DEF FlowKinds
<1>12. ASSUME NEW t \in Takes, TurnLands(t) PROVE FlowKinds'
  <2>1. take' \in TakeKind
    BY <1>0, <1>12 DEF FlowKinds, TurnLands, TakeKind
  <2>2. drill' \in DrillKind
    BY <1>0, <1>12 DEF FlowKinds, TurnLands, DrillKind
  <2>3. beats' \in BeatsKind
    BY <1>0, <1>12 DEF FlowKinds, TurnLands, BeatsKind
  <2>4. hist' \in HistKind
    BY <1>0, <1>12 DEF FlowKinds, TurnLands, HistKind, Passed
  <2>5. UNCHANGED <<disk, profile, page, front, perm, chord, save, incidents>>
    BY <1>12 DEF TurnLands
  <2> QED BY <1>0, <2>1, <2>2, <2>3, <2>4, <2>5 DEF FlowKinds
<1>13. ASSUME NEW t \in Takes, HearingAdvances(t) PROVE FlowKinds'
  <2>1. take' \in TakeKind
    BY <1>0, <1>13 DEF FlowKinds, HearingAdvances, TakeKind
  <2>2. page' \in PageKind
    BY <1>0, <1>13, AdvanceKind DEF FlowKinds, HearingAdvances
  <2>3. UNCHANGED <<disk, profile, front, drill, beats, perm, chord, save, hist, incidents>>
    BY <1>13 DEF HearingAdvances
  <2> QED BY <1>0, <2>1, <2>2, <2>3 DEF FlowKinds
<1>14. CASE BeatRestored
  <2>1. disk' \in DiskKind /\ chord' \in ChordKind /\ hist' \in HistKind /\ beats' \in BeatsKind
    BY <1>0, <1>14, OpenBeatKinds, BeatFacts DEF FlowKinds, BeatRestored
  <2>2. UNCHANGED <<profile, page, front, drill, take, perm, save, incidents>>
    BY <1>14 DEF BeatRestored
  <2> QED BY <1>0, <2>1, <2>2 DEF FlowKinds
<1>15. CASE AdvanceTimer
  <2>1. page' \in PageKind
    BY <1>0, <1>15, AdvanceKind DEF FlowKinds, AdvanceTimer
  <2>2. disk' \in DiskKind /\ chord' \in ChordKind /\ hist' \in HistKind /\ beats' \in BeatsKind
    BY <1>0, <1>15, OpenBeatKinds, BeatFacts DEF FlowKinds, AdvanceTimer, BeatsKind
  <2>3. UNCHANGED <<profile, front, drill, take, perm, save, incidents>>
    BY <1>15 DEF AdvanceTimer
  <2> QED BY <1>0, <2>1, <2>2, <2>3 DEF FlowKinds
<1>16. ASSUME NEW p \in Polls, PollAsks(p) PROVE FlowKinds'
  <2>1. perm' \in PermKind
    BY <1>a, <1>16 DEF PollAsks, PermKind
  <2>2. UNCHANGED <<disk, profile, page, front, drill, beats, take, chord, save, hist,
                    incidents>>
    BY <1>16 DEF PollAsks
  <2> QED BY <1>0, <2>1, <2>2 DEF FlowKinds
<1>17. ASSUME NEW p \in Polls, PollAnswers(p) PROVE FlowKinds'
  <2>1. perm' \in PermKind
    <3>1. \/ perm' = [perm EXCEPT !.polls[p] = "none", !.advanced = TRUE]
          \/ perm' = [perm EXCEPT !.polls[p] = "none"]
      BY <1>17 DEF PollAnswers
    <3>2. CASE perm' = [perm EXCEPT !.polls[p] = "none", !.advanced = TRUE]
      BY <1>a, <3>2 DEF PermKind
    <3>3. CASE perm' = [perm EXCEPT !.polls[p] = "none"]
      BY <1>a, <3>3 DEF PermKind
    <3> QED BY <3>1, <3>2, <3>3
  <2>2. page' \in PageKind
    BY <1>0, <1>17, AdvanceKind DEF FlowKinds, PollAnswers
  <2>3. hist' \in HistKind
    BY <1>0, <1>17 DEF FlowKinds, PollAnswers, HistKind, Passed
  <2>4. UNCHANGED <<disk, profile, front, drill, beats, take, chord, save, incidents>>
    BY <1>17 DEF PollAnswers
  <2> QED BY <1>0, <2>1, <2>2, <2>3, <2>4 DEF FlowKinds
<1>18. CASE PickSource
  <2>1. page' \in PageKind
    BY <1>0, <1>18, AdvanceKind DEF FlowKinds, PickSource
  <2>2. hist' \in HistKind
    BY <1>0, <1>18 DEF FlowKinds, PickSource, HistKind, Passed
  <2>3. UNCHANGED <<disk, profile, front, drill, beats, take, perm, chord, save, incidents>>
    BY <1>18 DEF PickSource
  <2> QED BY <1>0, <2>1, <2>2, <2>3 DEF FlowKinds
<1>19. CASE SaveProfile
  <2>1. profile' \in ProfileKind
    BY <1>0, <1>19, SavedKind DEF FlowKinds, SaveProfile
  <2>2. save' \in SaveKind
    BY <1>0, <1>19 DEF FlowKinds, SaveProfile, SaveKind
  <2>3. incidents' \in 0 .. MaxIncidents
    BY <1>0, <1>19, IncidentKind DEF FlowKinds, SaveProfile
  <2>4. UNCHANGED <<disk, page, front, drill, beats, take, perm, chord, hist>>
    BY <1>19 DEF SaveProfile
  <2> QED BY <1>0, <2>1, <2>2, <2>3, <2>4 DEF FlowKinds
<1>20. CASE CacheName
  <2>1. disk' \in DiskKind
    BY <1>0, <1>20 DEF FlowKinds, CacheName, DiskKind, PageKind
  <2>2. save' \in SaveKind
    BY <1>0, <1>20 DEF FlowKinds, CacheName, SaveKind
  <2>3. UNCHANGED <<profile, page, front, drill, beats, take, perm, chord, hist, incidents>>
    BY <1>20 DEF CacheName
  <2> QED BY <1>0, <2>1, <2>2, <2>3 DEF FlowKinds
<1>21. CASE Finish
  <2>1. /\ page' \in PageKind /\ front' \in FrontKind /\ drill' \in DrillKind
        /\ beats' \in BeatsKind /\ take' \in TakeKind /\ save' \in SaveKind
    BY <1>0, <1>21, FreshKinds DEF FlowKinds, Finish
  <2>2. disk' \in DiskKind
    BY <1>0, <1>21, KindFacts DEF FlowKinds, Finish, DiskKind
  <2>3. profile' \in ProfileKind
    BY <1>0, <1>21, SavedKind DEF FlowKinds, Finish
  <2>4. chord' \in ChordKind
    BY <1>0, <1>21 DEF FlowKinds, Finish, ChordKind
  <2>5. UNCHANGED <<perm, hist, incidents>>
    BY <1>21 DEF Finish
  <2> QED BY <1>0, <2>1, <2>2, <2>3, <2>4, <2>5 DEF FlowKinds
<1> QED BY <1>1, <1>2, <1>3, <1>4, <1>5, <1>6, <1>7, <1>8, <1>9, <1>10, <1>11, <1>12, <1>13,
           <1>14, <1>15, <1>16, <1>17, <1>18, <1>19, <1>20, <1>21
  DEF FlowNext

LEMMA BeforeDown == ASSUME NEW a \in Int, NEW b \in Int, b <= a, Before(a) PROVE Before(b)
BY ActOrder DEF Before, Welcome, Hearing, Permissions, Practice, Source
\* What the invariant reads of the state is left alone: so is the invariant.
LEMMA QuietKeeps ==
    ASSUME FlowInv, FlowTypeOK', UNCHANGED <<page, beats, take>>,
           hist'.passed = hist.passed, hist'.at = hist.at, hist'.crowded = hist.crowded,
           hist'.replayed = hist.replayed, disk'.marker = disk.marker,
           disk'.onboarded = disk.onboarded, drill'.done = drill.done,
           perm'.advanced = perm.advanced
    PROVE  FlowInv'
<1>1. PageBegins' /\ MarkerIsAct'
  BY DEF FlowInv, PageBegins, MarkerIsAct, InTurn
<1>2. ASSUME ~hist.crowded' PROVE StagesPassed' /\ EachEndsOnce' /\ OneTakeAtWork'
  <2>1. StagesPassed /\ EachEndsOnce /\ OneTakeAtWork
    BY <1>2 DEF FlowInv
  <2>2. StagesPassed'
    BY <2>1 DEF StagesPassed, Before, Showing
  <2>3. EachEndsOnce'
    BY <2>1 DEF EachEndsOnce, Showing
  <2>4. OneTakeAtWork'
    BY <2>1 DEF OneTakeAtWork, Showing, InTurn
  <2> QED BY <2>2, <2>3, <2>4
<1> QED BY <1>1, <1>2 DEF FlowInv

\* A page that starts anew.
LEMMA FreshEffect ==
    ASSUME FlowTypeOK, NEW open \in BOOLEAN, FreshPage(open)
    PROVE  /\ page'.open = open /\ page'.resolved = FALSE
           /\ page'.act = Welcome /\ page'.shown = Nothing
           /\ beats'.at = 0 /\ beats'.done = FALSE
           /\ beats'.timer = FALSE /\ beats'.restoring = FALSE
           /\ \A t \in Takes : ~InTurn(t)'
<1>1. page'.open = open /\ page'.resolved = FALSE
      /\ page'.act = Welcome /\ page'.shown = Nothing
  BY DEF FreshPage, NewPage
<1>2. beats'.at = 0 /\ beats'.done = FALSE /\ beats'.timer = FALSE /\ beats'.restoring = FALSE
  BY DEF FreshPage, NewBeats
<1>3. ASSUME NEW t \in Takes PROVE ~InTurn(t)'
  <2>1. take'[t] = IF InTurn(t) THEN [take[t] EXCEPT !.pc = "over"] ELSE take[t]
    BY DEF FreshPage
  <2>2. CASE InTurn(t)
    <3>1. take'[t].pc = "over"
      BY <2>1, <2>2 DEF FlowTypeOK
    <3> QED BY <3>1 DEF InTurn
  <2>3. CASE ~InTurn(t)
    BY <2>1, <2>3 DEF InTurn
  <2> QED BY <2>2, <2>3
<1> QED BY <1>1, <1>2, <1>3

LEMMA FreshKeeps ==
    ASSUME FlowInv, FlowTypeOK', NEW open \in BOOLEAN, FreshPage(open),
           open \/ disk'.onboarded,
           open /\ ~hist'.replayed => ResumeIndex(disk'.marker) = hist'.at,
           ~hist'.crowded => Before(ResumeIndex(disk.marker))',
           ~hist'.crowded /\ disk'.marker = "circle" => "learn_point" \in hist'.passed
    PROVE  FlowInv'
<1>1. FlowTypeOK
  BY DEF FlowInv
<1>2. /\ page'.open = open /\ page'.resolved = FALSE
      /\ page'.act = Welcome /\ page'.shown = Nothing
      /\ beats'.at = 0 /\ beats'.done = FALSE
      /\ beats'.timer = FALSE /\ beats'.restoring = FALSE
      /\ \A t \in Takes : ~InTurn(t)'
  BY <1>1, FreshEffect
<1>3. PageBegins' /\ MarkerIsAct'
  BY <1>2 DEF PageBegins, MarkerIsAct
<1>4. ~Showing(Practice)' /\ ~Showing(Hearing)' /\ ~Showing(Permissions)'
  BY <1>2 DEF Showing, Nothing, Practice, Hearing, Permissions
<1>5. Before(page.act)'
  BY <1>2 DEF Before, Welcome, Hearing, Permissions, Practice, Source
<1>6. page'.shown <= page'.act
  BY <1>2 DEF Nothing, Welcome
<1>7. ASSUME ~hist.crowded' PROVE StagesPassed' /\ EachEndsOnce' /\ OneTakeAtWork'
  <2>1. StagesPassed'
    BY <1>2, <1>4, <1>5, <1>6, <1>7 DEF StagesPassed
  <2>2. EachEndsOnce'
    BY <1>4 DEF EachEndsOnce
  <2>3. OneTakeAtWork'
    BY <1>2 DEF OneTakeAtWork
  <2> QED BY <2>1, <2>2, <2>3
<1> QED BY <1>3, <1>7 DEF FlowInv

LEMMA RelaunchKeeps == ASSUME FlowInv, FlowTypeOK', Relaunch PROVE FlowInv'
<1>1. FlowTypeOK /\ MarkerIsAct /\ PageBegins
  BY DEF FlowInv
<1>2. FreshPage(~disk.onboarded) /\ disk' = disk /\ hist' = hist
  BY DEF Relaunch
<1>3. (~disk.onboarded) \in BOOLEAN
  OBVIOUS
<1>4. ~disk.onboarded /\ ~hist.replayed => ResumeIndex(disk.marker) = hist.at
  BY <1>1 DEF MarkerIsAct, PageBegins
<1>5. ~hist.crowded => /\ Before(ResumeIndex(disk.marker))
                       /\ disk.marker = "circle" => "learn_point" \in hist.passed
  BY DEF FlowInv, StagesPassed
<1>6. ~hist'.crowded => Before(ResumeIndex(disk.marker))'
  BY <1>2, <1>5 DEF Before
<1> QED BY <1>2, <1>3, <1>4, <1>5, <1>6, FreshKeeps

LEMMA ReplayKeeps == ASSUME FlowInv, FlowTypeOK', Replay PROVE FlowInv'
<1>1. FlowTypeOK /\ MarkerIsAct /\ PageBegins
  BY DEF FlowInv
<1>2. disk'.marker = "" /\ disk'.onboarded = FALSE
  BY <1>1 DEF Replay, FlowTypeOK
<1>3. ResumeIndex(disk'.marker) = Welcome
  BY <1>2, ResumeFacts
<1>4. Before(ResumeIndex(disk.marker))'
  BY <1>3 DEF Before, Welcome, Hearing, Permissions, Practice, Source
<1>5. CASE page.open
  <2>1. UNCHANGED <<page, drill, beats, take, perm>>
    BY <1>5 DEF Replay
  <2>2. hist'.passed = hist.passed /\ hist'.at = hist.at /\ hist'.crowded = hist.crowded
        /\ hist'.replayed = TRUE
    BY <1>1, <1>5 DEF Replay, FlowTypeOK
  <2>3. PageBegins' /\ MarkerIsAct'
    BY <1>1, <1>5, <2>1, <2>2 DEF PageBegins, MarkerIsAct, InTurn
  <2>4. ASSUME ~hist.crowded' PROVE StagesPassed' /\ EachEndsOnce' /\ OneTakeAtWork'
    <3>1. StagesPassed /\ EachEndsOnce /\ OneTakeAtWork
      BY <2>2, <2>4 DEF FlowInv
    <3>2. Before(page.act)'
      BY <3>1, <2>1, <2>2 DEF StagesPassed, Before
    <3>3. StagesPassed'
      BY <3>1, <3>2, <1>2, <1>4, <2>1, <2>2 DEF StagesPassed, Showing
    <3>4. EachEndsOnce'
      BY <3>1, <2>1 DEF EachEndsOnce, Showing
    <3>5. OneTakeAtWork'
      BY <3>1, <2>1, <2>2 DEF OneTakeAtWork, Showing, InTurn
    <3> QED BY <3>3, <3>4, <3>5
  <2> QED BY <2>3, <2>4 DEF FlowInv
<1>6. CASE ~page.open
  <2>1. FreshPage(TRUE) /\ hist' = [hist EXCEPT !.passed = {}, !.at = Welcome]
    BY <1>6 DEF Replay
  <2>2. hist'.at = Welcome
    BY <1>1, <2>1 DEF FlowTypeOK
  <2> QED BY <1>2, <1>3, <1>4, <2>1, <2>2, FreshKeeps
<1> QED BY <1>5, <1>6

LEMMA FinishKeeps == ASSUME FlowInv, FlowTypeOK', Finish PROVE FlowInv'
<1>1. disk'.marker = "" /\ disk'.onboarded = TRUE
  BY DEF Finish, FlowInv, FlowTypeOK
<1>2. ResumeIndex(disk'.marker) = Welcome
  BY <1>1, ResumeFacts
<1>3. Before(ResumeIndex(disk.marker))'
  BY <1>2 DEF Before, Welcome, Hearing, Permissions, Practice, Source
<1>4. FreshPage(FALSE) /\ FALSE \in BOOLEAN
  BY DEF Finish
<1> QED BY <1>1, <1>3, <1>4, FreshKeeps

\* Two steps of the window itself: it resumes, and it renders.
LEMMA ResumePageKeeps == ASSUME FlowInv, FlowTypeOK', ResumePage PROVE FlowInv'
<1>1. FlowTypeOK /\ MarkerIsAct /\ PageBegins
  BY DEF FlowInv
<1>2. page.open /\ ~page.resolved /\ UNCHANGED <<disk, drill, beats, take, perm, hist>>
  BY DEF ResumePage
<1>3. /\ page'.open = page.open /\ page'.resolved = TRUE
      /\ page'.act = ResumeIndex(disk.marker) /\ page'.shown = page.shown
  BY <1>1 DEF ResumePage, FlowTypeOK
<1>4. page.shown = Nothing
  BY <1>1, <1>2 DEF PageBegins
<1>5. PageBegins' /\ MarkerIsAct'
  BY <1>1, <1>2, <1>3, <1>4 DEF PageBegins, MarkerIsAct, InTurn
<1>6. ASSUME ~hist.crowded' PROVE StagesPassed' /\ EachEndsOnce' /\ OneTakeAtWork'
  <2>1. StagesPassed /\ EachEndsOnce /\ OneTakeAtWork
    BY <1>2, <1>6 DEF FlowInv
  <2>2. Before(ResumeIndex(disk.marker))' /\ Before(page.act)'
    BY <2>1, <1>2, <1>3 DEF StagesPassed, Before
  <2>3. page'.shown <= page'.act
    <3>1. disk.marker \in Markers
      BY <1>1 DEF FlowTypeOK
    <3>2. ResumeIndex(disk.marker) \in Acts
      BY <3>1, ResumeFacts
    <3>3. \A a \in Acts : Nothing <= a
      BY DEF Acts, Welcome, Ending, Nothing
    <3> QED BY <1>3, <1>4, <3>2, <3>3
  <2>4. ~Showing(Practice)' /\ ~Showing(Hearing)' /\ ~Showing(Permissions)'
    BY <1>3, <1>4 DEF Showing, Nothing, Practice, Hearing, Permissions
  <2>5. ~beats'.timer /\ ~beats'.restoring /\ \A t \in Takes : ~InTurn(t)'
    BY <1>1, <1>2, <1>4 DEF PageBegins, InTurn
  <2>6. StagesPassed'
    BY <2>1, <2>2, <2>3, <2>4, <2>5, <1>2 DEF StagesPassed
  <2>7. EachEndsOnce'
    BY <2>4 DEF EachEndsOnce
  <2>8. OneTakeAtWork'
    BY <2>5 DEF OneTakeAtWork
  <2> QED BY <2>6, <2>7, <2>8
<1> QED BY <1>5, <1>6 DEF FlowInv

LEMMA MarkerBack == ASSUME NEW a \in Acts, a # Welcome
                    PROVE  ResumeIndex(MarkerOf(a)) = a /\ MarkerOf(a) # "circle"
<1>1. a \in {Hearing, Permissions, Practice, Source, Ending}
  BY DEF Acts, Welcome, Hearing, Permissions, Practice, Source, Ending
<1> QED BY <1>1, MarkerFacts, ResumeFacts

LEMMA RenderKeeps == ASSUME FlowInv, FlowTypeOK', Commit PROVE FlowInv'
<1>1. FlowTypeOK /\ MarkerIsAct /\ PageBegins
  BY DEF FlowInv
<1>2. page.open /\ page.resolved /\ page.shown # page.act /\ page.act \in Acts /\ take' = take
  BY <1>1 DEF Commit, FlowTypeOK
<1>3. /\ page'.open = TRUE /\ page'.resolved = TRUE
      /\ page'.act = page.act /\ page'.shown = page.act
  BY <1>1, <1>2 DEF Commit, FlowTypeOK
<1>4. disk'.marker = MarkerOf(page.act) /\ disk'.onboarded = disk.onboarded
  BY <1>1 DEF Commit, FlowTypeOK
<1>5. /\ hist'.at = page.act /\ hist'.passed = hist.passed
      /\ hist'.crowded = hist.crowded /\ hist'.replayed = hist.replayed
  BY <1>1 DEF Commit, FlowTypeOK
<1>6. /\ beats'.timer = FALSE
      /\ page.act = Practice => beats'.at = 0
      /\ \/ beats'.restoring = beats.restoring /\ beats'.at = beats.at
         \/ (beats'.restoring => disk.marker = "circle") /\ beats'.at = 0
  <2>1. CASE page.act = Practice
    BY <2>1 DEF Commit, NewBeats
  <2>2. CASE page.act # Practice
    BY <1>1, <2>2 DEF Commit, FlowTypeOK
  <2> QED BY <2>1, <2>2
<1>7. page.act # Nothing
  BY <1>2 DEF Acts, Nothing, Welcome
<1>8. page.act = Welcome => page.shown = Nothing
  BY <1>1, <1>2 DEF PageBegins
<1>9. PageBegins'
  BY <1>3, <1>7 DEF PageBegins
<1>10. ~hist.replayed => ResumeIndex(disk'.marker) = page.act
  <2>1. CASE page.act = Welcome
    BY <2>1, <1>1, <1>2, <1>4, <1>8, MarkerFacts DEF MarkerIsAct
  <2>2. CASE page.act # Welcome
    BY <2>2, <1>2, <1>4, MarkerBack
  <2> QED BY <2>1, <2>2
<1>11. MarkerIsAct'
  BY <1>3, <1>5, <1>7, <1>10 DEF MarkerIsAct
<1>12. ASSUME ~hist.crowded' PROVE StagesPassed' /\ EachEndsOnce' /\ OneTakeAtWork'
  <2>1. StagesPassed /\ EachEndsOnce /\ OneTakeAtWork
    BY <1>5, <1>12 DEF FlowInv
  <2>2. Before(ResumeIndex(disk.marker)) /\ Before(page.act)
        /\ (disk.marker = "circle" \/ beats.restoring => "learn_point" \in hist.passed)
        /\ (beats.restoring => beats.at = 0)
    BY <2>1 DEF StagesPassed
  <2>3. Before(page.act)'
    BY <2>2, <1>3, <1>5 DEF Before
  <2>4. Before(ResumeIndex(disk.marker))' /\ (disk'.marker = "circle" => disk.marker = "circle")
    <3>1. CASE page.act = Welcome
      <4>1. disk'.marker = disk.marker
        BY <3>1, <1>4, MarkerFacts
      <4> QED BY <4>1, <2>2, <1>5 DEF Before
    <3>2. CASE page.act # Welcome
      <4>1. ResumeIndex(disk'.marker) = page.act /\ disk'.marker # "circle"
        BY <3>2, <1>2, <1>4, MarkerBack
      <4> QED BY <4>1, <2>2, <1>5 DEF Before
    <3> QED BY <3>1, <3>2
  <2>5. page'.shown <= page'.act
    BY <1>2, <1>3 DEF Acts
  <2>6. Showing(Practice)' => beats'.at = 0
    BY <1>3, <1>6 DEF Showing
  <2>7. StagesPassed'
    BY <2>2, <2>3, <2>4, <2>5, <2>6, <1>5, <1>6 DEF StagesPassed, LastBeat
  <2>8. EachEndsOnce'
    BY <1>3 DEF EachEndsOnce, Showing
  <2>9. \A t \in Takes : ~InTurn(t)
    BY <2>1, <1>2 DEF OneTakeAtWork, Showing
  <2>10. OneTakeAtWork'
    BY <2>9, <1>2 DEF OneTakeAtWork, InTurn
  <2> QED BY <2>7, <2>8, <2>10
<1> QED BY <1>9, <1>11, <1>12 DEF FlowInv

\* Steps that only end something, and the quiet ones.
LEMMA NextPanelKeeps == ASSUME FlowInv, FlowTypeOK', NextPanel PROVE FlowInv'
BY QuietKeeps DEF NextPanel

LEMMA SignedInKeeps == ASSUME FlowInv, FlowTypeOK', SignedIn PROVE FlowInv'
<1>1. FlowTypeOK
  BY DEF FlowInv
<1>2. UNCHANGED <<page, drill, beats, take, perm>>
  BY DEF SignedIn
<1>3. /\ hist'.passed = hist.passed /\ hist'.at = hist.at
      /\ hist'.crowded = hist.crowded /\ hist'.replayed = hist.replayed
  <2>1. \E b : hist' = [hist EXCEPT !.named = b]
    BY DEF SignedIn
  <2> QED BY <1>1, <2>1 DEF FlowTypeOK
<1>4. disk'.marker = disk.marker /\ disk'.onboarded = disk.onboarded
  <2>1. disk' = disk \/ \E n : disk' = [disk EXCEPT !.name = n]
    BY DEF SignedIn
  <2> QED BY <1>1, <2>1 DEF FlowTypeOK
<1> QED BY <1>2, <1>3, <1>4, QuietKeeps

LEMMA GrantKeeps == ASSUME FlowInv, FlowTypeOK', UserGrants PROVE FlowInv'
<1>1. FlowTypeOK
  BY DEF FlowInv
<1>2. PICK g : Grant(g)
  BY DEF UserGrants
<1>3. UNCHANGED <<disk, page, drill, beats, take, hist>>
  BY <1>2 DEF Grant
<1>4. perm'.advanced = perm.advanced
  BY <1>1, <1>2 DEF Grant, FlowTypeOK
<1> QED BY <1>3, <1>4, QuietKeeps

LEMMA PrimerDoneKeeps == ASSUME FlowInv, FlowTypeOK', PrimerDone PROVE FlowInv'
<1>1. UNCHANGED <<disk, page, beats, take, perm, hist>>
  BY DEF PrimerDone
<1>2. drill'.done = drill.done
  BY DEF PrimerDone, FlowInv, FlowTypeOK
<1> QED BY <1>1, <1>2, QuietKeeps

LEMMA PollAsksKeeps ==
    ASSUME FlowInv, FlowTypeOK', NEW p \in Polls, PollAsks(p) PROVE FlowInv'
<1>1. UNCHANGED <<disk, page, drill, beats, take, hist>>
  BY DEF PollAsks
<1>2. perm'.advanced = perm.advanced
  BY DEF PollAsks, FlowInv, FlowTypeOK
<1> QED BY <1>1, <1>2, QuietKeeps

LEMMA SaveProfileKeeps == ASSUME FlowInv, FlowTypeOK', SaveProfile PROVE FlowInv'
BY QuietKeeps DEF SaveProfile

LEMMA CacheNameKeeps == ASSUME FlowInv, FlowTypeOK', CacheName PROVE FlowInv'
<1>1. UNCHANGED <<page, drill, beats, take, perm, hist>>
  BY DEF CacheName
<1>2. disk'.marker = disk.marker /\ disk'.onboarded = disk.onboarded
  BY DEF CacheName, FlowInv, FlowTypeOK
<1> QED BY <1>1, <1>2, QuietKeeps

\* Steps that move the page on.
LEMMA AdvanceEffect ==
    ASSUME FlowTypeOK, Advance
    PROVE  /\ page'.open = page.open /\ page'.resolved = page.resolved
           /\ page'.shown = page.shown
           /\ page'.act = IF page.act = Ending THEN Ending ELSE page.act + 1
           /\ page'.act # Welcome /\ page.act <= page'.act
<1>1. /\ page'.open = page.open /\ page'.resolved = page.resolved
      /\ page'.shown = page.shown
      /\ page'.act = IF page.act = Ending THEN Ending ELSE page.act + 1
  BY DEF Advance, FlowTypeOK
<1>2. page.act \in Acts
  BY DEF FlowTypeOK
<1> QED BY <1>1, <1>2 DEF Acts, Welcome, Ending

LEMMA PassedEffect ==
    ASSUME FlowTypeOK, NEW stage, Passed(stage)
    PROVE  /\ hist'.passed = hist.passed \cup {stage} /\ hist'.at = hist.at
           /\ hist'.crowded = hist.crowded /\ hist'.replayed = hist.replayed
BY DEF Passed, FlowTypeOK

\* Something is shown: it is the act of the marker, and stays so when the page moves on.
LEMMA ShownKeeps ==
    ASSUME FlowInv, page.shown # Nothing, page'.open = page.open,
           page'.resolved = page.resolved, page'.shown = page.shown,
           page'.act = page.act \/ (page'.act = Hearing /\ page.shown = Welcome)
             \/ page'.act # Welcome,
           hist'.at = hist.at, hist'.replayed = hist.replayed,
           disk'.marker = disk.marker \/ (disk'.marker = "circle" /\ page.shown = Practice),
           disk'.onboarded = disk.onboarded
    PROVE  PageBegins' /\ MarkerIsAct'
<1>1. PageBegins /\ MarkerIsAct
  BY DEF FlowInv
<1>2. PageBegins'
  BY <1>1 DEF PageBegins, Welcome, Hearing
<1>3. disk'.marker = "circle" => ResumeIndex(disk'.marker) = Practice
  BY ResumeFacts
<1>4. MarkerIsAct'
  BY <1>1, <1>3 DEF MarkerIsAct
<1> QED BY <1>2, <1>4

LEMMA CollapsedKeeps == ASSUME FlowInv, FlowTypeOK', Collapsed PROVE FlowInv'
<1>1. FlowTypeOK
  BY DEF FlowInv
<1>2. page.shown = Welcome /\ UNCHANGED <<disk, drill, beats, take, perm>>
  BY DEF Collapsed, Showing
<1>3. /\ page'.open = page.open /\ page'.resolved = page.resolved
      /\ page'.act = Hearing /\ page'.shown = Welcome
  BY <1>1, <1>2 DEF Collapsed, FlowTypeOK
<1>4. /\ hist'.passed = hist.passed \cup {"welcome"} /\ hist'.at = hist.at
      /\ hist'.crowded = hist.crowded /\ hist'.replayed = hist.replayed
  BY <1>1, PassedEffect DEF Collapsed
<1>5. page.shown # Nothing
  BY <1>2 DEF Welcome, Nothing
<1>6. PageBegins' /\ MarkerIsAct'
  BY <1>2, <1>3, <1>4, <1>5, ShownKeeps
<1>7. ASSUME ~hist.crowded' PROVE StagesPassed' /\ EachEndsOnce' /\ OneTakeAtWork'
  <2>1. StagesPassed /\ EachEndsOnce /\ OneTakeAtWork
    BY <1>4, <1>7 DEF FlowInv
  <2>2. /\ ~Showing(Practice)' /\ ~Showing(Hearing)' /\ ~Showing(Permissions)'
        /\ ~Showing(Practice) /\ ~Showing(Hearing)
    BY <1>2, <1>3 DEF Showing, Welcome, Practice, Hearing, Permissions
  <2>3. Before(page.act)' /\ page'.shown <= page'.act
    BY <1>3, <1>4 DEF Before, Welcome, Hearing, Permissions, Practice, Source
  <2>4. Before(ResumeIndex(disk.marker))'
    BY <2>1, <1>2, <1>4 DEF StagesPassed, Before
  <2>5. StagesPassed'
    BY <2>1, <2>2, <2>3, <2>4, <1>2, <1>4 DEF StagesPassed
  <2>6. EachEndsOnce'
    BY <2>2 DEF EachEndsOnce
  <2>7. OneTakeAtWork'
    BY <2>1, <2>2, <1>2 DEF OneTakeAtWork, InTurn
  <2> QED BY <2>5, <2>6, <2>7
<1> QED BY <1>6, <1>7 DEF FlowInv

LEMMA PickSourceKeeps == ASSUME FlowInv, FlowTypeOK', PickSource PROVE FlowInv'
<1>1. FlowTypeOK
  BY DEF FlowInv
<1>2. page.shown = Source /\ UNCHANGED <<disk, drill, beats, take, perm>>
  BY DEF PickSource, Showing
<1>3. /\ page'.open = page.open /\ page'.resolved = page.resolved
      /\ page'.shown = page.shown
      /\ page'.act = IF page.act = Ending THEN Ending ELSE page.act + 1
      /\ page'.act # Welcome /\ page.act <= page'.act
  BY <1>1, AdvanceEffect DEF PickSource
<1>4. /\ hist'.passed = hist.passed \cup {"source"} /\ hist'.at = hist.at
      /\ hist'.crowded = hist.crowded /\ hist'.replayed = hist.replayed
  BY <1>1, PassedEffect DEF PickSource
<1>5. page.shown # Nothing
  BY <1>2 DEF Source, Nothing
<1>6. PageBegins' /\ MarkerIsAct'
  BY <1>2, <1>3, <1>4, <1>5, ShownKeeps
<1>7. ASSUME ~hist.crowded' PROVE StagesPassed' /\ EachEndsOnce' /\ OneTakeAtWork'
  <2>1. StagesPassed /\ EachEndsOnce /\ OneTakeAtWork
    BY <1>4, <1>7 DEF FlowInv
  <2>2. /\ ~Showing(Practice)' /\ ~Showing(Hearing)' /\ ~Showing(Permissions)'
        /\ ~Showing(Practice) /\ ~Showing(Hearing)
    BY <1>2, <1>3 DEF Showing, Source, Practice, Hearing, Permissions
  <2>3. page.act \in {Source, Ending} /\ Before(page.act)
    BY <2>1, <1>1, <1>2 DEF StagesPassed, FlowTypeOK, Acts, Welcome, Source, Ending
  <2>4. Before(page.act)' /\ page'.shown <= page'.act
    BY <2>3, <1>2, <1>3, <1>4
     DEF Before, Welcome, Hearing, Permissions, Practice, Source, Ending
  <2>5. Before(ResumeIndex(disk.marker))'
    BY <2>1, <1>2, <1>4 DEF StagesPassed, Before
  <2>6. StagesPassed'
    BY <2>1, <2>2, <2>4, <2>5, <1>2, <1>4 DEF StagesPassed
  <2>7. EachEndsOnce'
    BY <2>2 DEF EachEndsOnce
  <2>8. OneTakeAtWork'
    BY <2>1, <2>2, <1>2 DEF OneTakeAtWork, InTurn
  <2> QED BY <2>6, <2>7, <2>8
<1> QED BY <1>6, <1>7 DEF FlowInv

LEMMA PollAnswersKeeps ==
    ASSUME FlowInv, FlowTypeOK', NEW p \in Polls, PollAnswers(p) PROVE FlowInv'
<1>1. FlowTypeOK
  BY DEF FlowInv
<1>2. /\ page.open /\ page.shown = Permissions /\ UNCHANGED <<disk, drill, beats, take>>
  BY DEF PollAnswers, Showing
<1>3. CASE perm' = [perm EXCEPT !.polls[p] = "none"] /\ UNCHANGED <<page, hist>>
  <2>1. perm'.advanced = perm.advanced
    BY <1>1, <1>3 DEF FlowTypeOK
  <2> QED BY <2>1, <1>2, <1>3, QuietKeeps
<1>4. CASE /\ AdvancesOnce /\ Advance /\ Passed("permissions")
           /\ perm' = [perm EXCEPT !.polls[p] = "none", !.advanced = TRUE]
  <2>1. /\ page'.open = page.open /\ page'.resolved = page.resolved
        /\ page'.shown = page.shown
        /\ page'.act = IF page.act = Ending THEN Ending ELSE page.act + 1
        /\ page'.act # Welcome /\ page.act <= page'.act
    BY <1>1, <1>4, AdvanceEffect
  <2>2. /\ hist'.passed = hist.passed \cup {"permissions"} /\ hist'.at = hist.at
        /\ hist'.crowded = hist.crowded /\ hist'.replayed = hist.replayed
    BY <1>1, <1>4, PassedEffect
  <2>3. ~perm.advanced /\ perm'.advanced = TRUE
    BY <1>1, <1>4 DEF AdvancesOnce, FlowTypeOK
  <2>4. page.shown # Nothing
    BY <1>2 DEF Permissions, Nothing
  <2>5. PageBegins' /\ MarkerIsAct'
    BY <1>2, <2>1, <2>2, <2>4, ShownKeeps
  <2>6. ASSUME ~hist.crowded' PROVE StagesPassed' /\ EachEndsOnce' /\ OneTakeAtWork'
    <3>1. StagesPassed /\ EachEndsOnce /\ OneTakeAtWork
      BY <2>2, <2>6 DEF FlowInv
    <3>2. /\ ~Showing(Practice)' /\ ~Showing(Hearing)'
          /\ ~Showing(Practice) /\ ~Showing(Hearing)
      BY <1>2, <2>1 DEF Showing, Practice, Hearing, Permissions
    <3>3. page.act = Permissions /\ Before(page.act)
      BY <3>1, <1>2, <2>3 DEF StagesPassed, EachEndsOnce, Showing
    <3>4. Before(page.act)' /\ page'.shown <= page'.act
      BY <3>3, <1>2, <2>1, <2>2
      DEF Before, Welcome, Hearing, Permissions, Practice, Source, Ending
    <3>5. Before(ResumeIndex(disk.marker))'
      BY <3>1, <1>2, <2>2 DEF StagesPassed, Before
    <3>6. StagesPassed'
      BY <3>1, <3>2, <3>4, <3>5, <1>2, <2>2 DEF StagesPassed
    <3>7. EachEndsOnce'
      BY <3>2, <2>3 DEF EachEndsOnce
    <3>8. OneTakeAtWork'
      BY <3>1, <3>2, <1>2 DEF OneTakeAtWork, InTurn
    <3> QED BY <3>6, <3>7, <3>8
  <2> QED BY <2>5, <2>6 DEF FlowInv
<1> QED BY <1>3, <1>4 DEF PollAnswers

\* Recordings and what is made of them.
LEMMA RecordKeeps ==
    ASSUME FlowInv, FlowTypeOK', NEW t \in Takes, Record(t) PROVE FlowInv'
<1>1. FlowTypeOK /\ MarkerIsAct /\ PageBegins
  BY DEF FlowInv
<1>2. Drilling /\ UNCHANGED <<disk, page, drill, beats, perm>>
  BY DEF Record
<1>3. /\ take'[t].pc = "turn" /\ take'[t].act = page.shown /\ take'[t].beat = beats.at
      /\ \A u \in Takes : u # t => take'[u] = take[u]
  BY <1>1 DEF Record, FlowTypeOK
<1>4. /\ hist'.passed = hist.passed /\ hist'.at = hist.at /\ hist'.replayed = hist.replayed
      /\ ~hist'.crowded => ~hist.crowded /\ \A u \in Takes : ~InTurn(u)
  BY <1>1 DEF Record, FlowTypeOK
<1>5. page.shown # Nothing
  BY <1>2 DEF Drilling, Showing, Nothing, Practice, Hearing
<1>6. PageBegins' /\ MarkerIsAct'
  BY <1>1, <1>2, <1>4, <1>5 DEF PageBegins, MarkerIsAct
<1>7. ASSUME ~hist.crowded' PROVE StagesPassed' /\ EachEndsOnce' /\ OneTakeAtWork'
  <2>1. StagesPassed /\ EachEndsOnce /\ OneTakeAtWork
    BY <1>4, <1>7 DEF FlowInv
  <2>2. StagesPassed'
    BY <2>1, <1>2, <1>4 DEF StagesPassed, Before, Showing
  <2>3. EachEndsOnce'
    BY <2>1, <1>2 DEF EachEndsOnce, Showing
  <2>4. \A u \in Takes : InTurn(u)' => u = t
    BY <1>3, <1>4, <1>7 DEF InTurn
  <2>5. CASE Showing(Hearing)
    <3>1. page.act = Hearing
      BY <2>1, <2>5 DEF Record, EachEndsOnce, Showing
    <3>2. /\ take'[t].act = Hearing /\ Showing(Hearing)' /\ page'.act = Hearing
          /\ take'[t].pc = "turn"
      BY <2>5, <3>1, <1>2, <1>3 DEF Showing
    <3> QED BY <2>2, <2>3, <2>4, <3>2 DEF OneTakeAtWork
  <2>6. CASE Showing(Practice)
    <3>1. ~beats.done
      BY <2>6 DEF Record, Showing, Practice, Hearing
    <3>2. page.act = Practice /\ ~beats.timer
      BY <2>1, <2>6, <3>1 DEF StagesPassed, EachEndsOnce
    <3>3. /\ take'[t].act = Practice /\ Showing(Practice)' /\ page'.act = Practice
          /\ take'[t].pc = "turn" /\ take'[t].beat = beats'.at
          /\ ~beats'.done /\ ~beats'.timer
      BY <2>6, <3>1, <3>2, <1>2, <1>3 DEF Showing
    <3> QED BY <2>2, <2>3, <2>4, <3>3 DEF OneTakeAtWork
  <2> QED BY <2>2, <2>3, <2>5, <2>6, <1>2 DEF Drilling
<1> QED BY <1>6, <1>7 DEF FlowInv

LEMMA TurnMissesKeeps ==
    ASSUME FlowInv, FlowTypeOK', NEW t \in Takes, TurnMisses(t) PROVE FlowInv'
<1>1. FlowTypeOK /\ MarkerIsAct /\ PageBegins
  BY DEF FlowInv
<1>2. UNCHANGED <<disk, page, drill, beats, perm, hist>>
  BY DEF TurnMisses
<1>3. take'[t].pc = "over" /\ \A u \in Takes : u # t => take'[u] = take[u]
  BY <1>1 DEF TurnMisses, FlowTypeOK
<1>4. \A u \in Takes : InTurn(u)' => InTurn(u) /\ take'[u] = take[u]
  BY <1>3 DEF InTurn
<1>5. PageBegins' /\ MarkerIsAct'
  BY <1>1, <1>2, <1>4 DEF PageBegins, MarkerIsAct
<1>6. ASSUME ~hist.crowded' PROVE StagesPassed' /\ EachEndsOnce' /\ OneTakeAtWork'
  <2>1. StagesPassed /\ EachEndsOnce /\ OneTakeAtWork
    BY <1>2, <1>6 DEF FlowInv
  <2>2. StagesPassed' /\ EachEndsOnce'
    BY <2>1, <1>2 DEF StagesPassed, EachEndsOnce, Before, Showing
  <2>3. OneTakeAtWork'
    BY <2>1, <1>2, <1>4 DEF OneTakeAtWork, Showing
  <2> QED BY <2>2, <2>3
<1> QED BY <1>5, <1>6 DEF FlowInv

LEMMA HearingLandsKeeps ==
    ASSUME FlowInv, FlowTypeOK', NEW t \in Takes, TurnLands(t), take[t].act = Hearing
    PROVE  FlowInv'
<1>1. FlowTypeOK /\ MarkerIsAct /\ PageBegins
  BY DEF FlowInv
<1>2. UNCHANGED <<disk, page, perm>> /\ take[t].pc = "turn" /\ beats' = beats
  BY DEF TurnLands, Hearing, Practice
<1>3. /\ take'[t].pc = "landed" /\ take'[t].act = Hearing
      /\ \A u \in Takes : u # t => take'[u] = take[u]
  BY <1>1 DEF TurnLands, FlowTypeOK, Hearing, Practice
<1>4. /\ hist'.passed = hist.passed \cup {"hearing"} /\ hist'.at = hist.at
      /\ hist'.crowded = hist.crowded /\ hist'.replayed = hist.replayed
  BY <1>1, PassedEffect DEF TurnLands, Hearing, Practice
<1>5. (page.shown = Hearing => drill'.done) /\ (drill.done => drill'.done)
  BY <1>1 DEF TurnLands, FlowTypeOK, Hearing, Practice
<1>6. \A u \in Takes : InTurn(u)' => InTurn(u) /\ (u # t => take'[u] = take[u])
  BY <1>2, <1>3 DEF InTurn
<1>7. PageBegins' /\ MarkerIsAct'
  BY <1>1, <1>2, <1>4, <1>6 DEF PageBegins, MarkerIsAct
<1>8. ASSUME ~hist.crowded' PROVE StagesPassed' /\ EachEndsOnce' /\ OneTakeAtWork'
  <2>1. StagesPassed /\ EachEndsOnce /\ OneTakeAtWork
    BY <1>4, <1>8 DEF FlowInv
  <2>2. InTurn(t)
    BY <1>2 DEF InTurn
  <2>3. \A u \in Takes : InTurn(u)' => u = t
    BY <2>1, <2>2, <1>6 DEF OneTakeAtWork
  <2>4. Showing(Hearing) /\ page.act = Hearing
    BY <2>1, <2>2 DEF OneTakeAtWork, Hearing, Practice
  <2>5. StagesPassed'
    BY <2>1, <1>2, <1>4 DEF StagesPassed, Before, Showing
  <2>6. EachEndsOnce'
    BY <2>1, <1>2, <1>5 DEF EachEndsOnce, Showing
  <2>7. OneTakeAtWork'
    BY <2>3, <2>4, <1>2, <1>3, <1>4, <1>5 DEF OneTakeAtWork, Showing
  <2> QED BY <2>5, <2>6, <2>7
<1> QED BY <1>7, <1>8 DEF FlowInv

LEMMA PracticeLandsKeeps ==
    ASSUME FlowInv, FlowTypeOK', NEW t \in Takes, TurnLands(t), take[t].act = Practice
    PROVE  FlowInv'
<1>1. FlowTypeOK /\ MarkerIsAct /\ PageBegins
  BY DEF FlowInv
<1>2. UNCHANGED <<disk, page, perm, drill>> /\ take[t].pc = "turn"
  BY DEF TurnLands, Hearing, Practice
<1>3. take'[t].pc = "over" /\ \A u \in Takes : u # t => take'[u] = take[u]
  BY <1>1 DEF TurnLands, FlowTypeOK, Hearing, Practice
<1>4. /\ hist'.passed = hist.passed \cup {IF take[t].beat = 0 THEN "learn_point" ELSE "circle"}
      /\ hist'.at = hist.at
      /\ hist'.crowded = hist.crowded /\ hist'.replayed = hist.replayed
  BY <1>1, PassedEffect DEF TurnLands, Hearing, Practice
<1>5. beats'.at = beats.at /\ beats'.restoring = beats.restoring
      /\ beats'.done = TRUE /\ beats'.timer = TRUE
  <2>1. beats' = [beats EXCEPT !.done = TRUE, !.timer = TRUE]
    BY DEF TurnLands, Hearing, Practice
  <2>2. beats \in [at : 0 .. LastBeat, done : BOOLEAN, timer : BOOLEAN, restoring : BOOLEAN]
    BY <1>1 DEF FlowTypeOK
  <2> QED BY <2>1, <2>2
<1>6. \A u \in Takes : InTurn(u)' => InTurn(u) /\ u # t
  BY <1>2, <1>3 DEF InTurn
<1>7. InTurn(t)
  BY <1>2 DEF InTurn
<1>8. page.shown # Nothing
  BY <1>1, <1>7 DEF PageBegins
<1>9. PageBegins' /\ MarkerIsAct'
  BY <1>1, <1>2, <1>4, <1>8 DEF PageBegins, MarkerIsAct
<1>10. ASSUME ~hist.crowded' PROVE StagesPassed' /\ EachEndsOnce' /\ OneTakeAtWork'
  <2>1. StagesPassed /\ EachEndsOnce /\ OneTakeAtWork
    BY <1>4, <1>10 DEF FlowInv
  <2>2. Showing(Practice) /\ page.act = Practice /\ take[t].beat = beats.at
    BY <2>1, <1>7 DEF OneTakeAtWork, Hearing, Practice
  <2>3. Before(ResumeIndex(disk.marker))' /\ Before(page.act)'
    BY <2>1, <1>2, <1>4 DEF StagesPassed, Before
  <2>4. StagesPassed'
    BY <2>1, <2>2, <2>3, <1>2, <1>4, <1>5 DEF StagesPassed, Showing
  <2>5. EachEndsOnce'
    BY <2>1, <2>2, <1>2 DEF EachEndsOnce, Showing
  <2>6. OneTakeAtWork'
    BY <2>1, <1>6, <1>7 DEF OneTakeAtWork
  <2> QED BY <2>4, <2>5, <2>6
<1> QED BY <1>9, <1>10 DEF FlowInv

LEMMA HearingAdvancesKeeps ==
    ASSUME FlowInv, FlowTypeOK', NEW t \in Takes, HearingAdvances(t) PROVE FlowInv'
<1>1. FlowTypeOK /\ MarkerIsAct /\ PageBegins
  BY DEF FlowInv
<1>2. UNCHANGED <<disk, perm, drill, beats, hist>> /\ take[t].pc = "landed"
  BY DEF HearingAdvances
<1>3. take'[t].pc = "over" /\ \A u \in Takes : u # t => take'[u] = take[u]
  BY <1>1 DEF HearingAdvances, FlowTypeOK
<1>4. /\ page'.open = page.open /\ page'.resolved = page.resolved
      /\ page'.shown = page.shown
      /\ page'.act = IF page.act = Ending THEN Ending ELSE page.act + 1
      /\ page'.act # Welcome /\ page.act <= page'.act
  BY <1>1, AdvanceEffect DEF HearingAdvances
<1>5. \A u \in Takes : InTurn(u)' => InTurn(u) /\ u # t
  BY <1>2, <1>3 DEF InTurn
<1>6. InTurn(t)
  BY <1>2 DEF InTurn
<1>7. page.shown # Nothing
  BY <1>1, <1>6 DEF PageBegins
<1>8. PageBegins' /\ MarkerIsAct'
  BY <1>2, <1>4, <1>7, ShownKeeps
<1>9. ASSUME ~hist.crowded' PROVE StagesPassed' /\ EachEndsOnce' /\ OneTakeAtWork'
  <2>1. StagesPassed /\ EachEndsOnce /\ OneTakeAtWork
    BY <1>2, <1>9 DEF FlowInv
  <2>2. Showing(Hearing) /\ page.act = Hearing /\ drill.done /\ "hearing" \in hist.passed
    BY <2>1, <1>2, <1>6 DEF OneTakeAtWork, Hearing, Practice
  <2>3. ~Showing(Practice)' /\ ~Showing(Permissions)' /\ ~Showing(Practice)
    BY <2>2, <1>4 DEF Showing, Hearing, Practice, Permissions
  <2>4. Before(page.act) /\ Before(ResumeIndex(disk.marker))'
    BY <2>1, <1>2 DEF StagesPassed, Before
  <2>5. Before(page.act)' /\ page'.shown <= page'.act
    BY <2>2, <2>4, <1>2, <1>4
    DEF Before, Showing, Welcome, Hearing, Permissions, Practice, Source, Ending
  <2>6. StagesPassed'
    BY <2>1, <2>3, <2>4, <2>5, <1>2 DEF StagesPassed
  <2>7. EachEndsOnce'
    BY <2>2, <2>3, <1>2 DEF EachEndsOnce
  <2>8. OneTakeAtWork'
    BY <2>1, <1>5, <1>6 DEF OneTakeAtWork
  <2> QED BY <2>6, <2>7, <2>8
<1> QED BY <1>8, <1>9 DEF FlowInv

\* A beat opens in the practice act.
LEMMA OpenBeatKeeps ==
    ASSUME FlowInv, FlowTypeOK', OpenBeat(LastBeat), Showing(Practice),
           UNCHANGED <<page, drill, perm, take>>,
           ~hist.crowded => "learn_point" \in hist.passed /\ page.act = Practice
    PROVE  FlowInv'
<1>1. FlowTypeOK
  BY DEF FlowInv
<1>2. /\ beats'.at = LastBeat /\ beats'.done = FALSE
      /\ beats'.timer = FALSE /\ beats'.restoring = FALSE
  BY DEF OpenBeat, NewBeats
<1>3. disk'.marker = "circle" /\ disk'.onboarded = disk.onboarded
  BY <1>1 DEF OpenBeat, FlowTypeOK
<1>4. /\ hist'.passed = hist.passed /\ hist'.at = hist.at /\ hist'.replayed = hist.replayed
      /\ ~hist'.crowded => ~hist.crowded /\ \A u \in Takes : ~InTurn(u)
  BY <1>1 DEF OpenBeat, FlowTypeOK
<1>5. page.shown # Nothing /\ page.shown = Practice
  BY DEF Showing, Practice, Nothing
<1>6. PageBegins' /\ MarkerIsAct'
  BY <1>3, <1>4, <1>5, ShownKeeps
<1>7. ASSUME ~hist.crowded' PROVE StagesPassed' /\ EachEndsOnce' /\ OneTakeAtWork'
  <2>1. StagesPassed /\ EachEndsOnce /\ OneTakeAtWork
    BY <1>4, <1>7 DEF FlowInv
  <2>2. page.act = Practice /\ "learn_point" \in hist.passed /\ \A u \in Takes : ~InTurn(u)
    BY <1>4, <1>7
  <2>3. ResumeIndex(disk'.marker) = Practice
    BY <1>3, ResumeFacts
  <2>4. Before(page.act)' /\ Before(ResumeIndex(disk.marker))'
    BY <2>1, <2>2, <2>3, <1>4 DEF StagesPassed, Before
  <2>5. StagesPassed'
    BY <2>1, <2>2, <2>4, <1>2, <1>4 DEF StagesPassed
  <2>6. ~Showing(Hearing)' /\ ~Showing(Permissions)'
    BY <1>5 DEF Showing, Hearing, Permissions, Practice
  <2>7. EachEndsOnce'
    BY <2>2, <2>6 DEF EachEndsOnce
  <2>8. OneTakeAtWork'
    BY <2>2 DEF OneTakeAtWork, InTurn
  <2> QED BY <2>5, <2>7, <2>8
<1> QED BY <1>6, <1>7 DEF FlowInv

LEMMA BeatRestoredKeeps == ASSUME FlowInv, FlowTypeOK', BeatRestored PROVE FlowInv'
<1>1. Showing(Practice) /\ beats.restoring /\ OpenBeat(LastBeat)
      /\ UNCHANGED <<page, drill, perm, take>>
  BY DEF BeatRestored
<1>2. ~hist.crowded => "learn_point" \in hist.passed /\ page.act = Practice
  BY <1>1 DEF FlowInv, StagesPassed, EachEndsOnce, LastBeat
<1> QED BY <1>1, <1>2, OpenBeatKeeps

LEMMA AdvanceTimerKeeps == ASSUME FlowInv, FlowTypeOK', AdvanceTimer PROVE FlowInv'
<1>1. FlowTypeOK /\ MarkerIsAct /\ PageBegins
  BY DEF FlowInv
<1>2. beats.timer /\ beats.at \in {0, 1} /\ UNCHANGED <<drill, take, perm>>
  BY <1>1 DEF AdvanceTimer, FlowTypeOK, LastBeat
<1>3. page.shown # Nothing
  BY <1>1, <1>2 DEF PageBegins
<1>4. ~hist.crowded =>
        /\ Showing(Practice) /\ beats.done /\ page.act = Practice
        /\ (IF beats.at = 0 THEN "learn_point" ELSE "circle") \in hist.passed
        /\ \A t \in Takes : ~InTurn(t)
  <2>1. ASSUME ~hist.crowded PROVE StagesPassed /\ EachEndsOnce /\ OneTakeAtWork
    BY <2>1 DEF FlowInv
  <2>2. ASSUME ~hist.crowded PROVE Showing(Practice) /\ ~Showing(Hearing) /\ page.act = Practice
    BY <2>1, <2>2, <1>2 DEF StagesPassed, EachEndsOnce, Showing, Practice, Hearing
  <2> QED BY <2>1, <2>2, <1>2 DEF StagesPassed, OneTakeAtWork
<1>5. CASE beats.at < LastBeat /\ Showing(Practice) /\ OpenBeat(beats.at + 1) /\ UNCHANGED page
  <2>1. beats.at = 0 /\ beats.at + 1 = LastBeat
    BY <1>2, <1>5 DEF LastBeat
  <2> QED BY <2>1, <1>2, <1>4, <1>5, OpenBeatKeeps
<1>6. CASE ~Showing(Practice) /\ beats' = [beats EXCEPT !.timer = FALSE]
           /\ UNCHANGED <<page, disk, hist>>
  <2>1. beats'.timer = FALSE /\ beats'.restoring = beats.restoring
    BY <1>1, <1>6 DEF FlowTypeOK
  <2>2. PageBegins' /\ MarkerIsAct'
    BY <1>1, <1>2, <1>6, <2>1 DEF PageBegins, MarkerIsAct, InTurn
  <2> QED BY <2>2, <1>4, <1>6 DEF FlowInv
<1>7. CASE beats.at = LastBeat /\ beats' = [beats EXCEPT !.timer = FALSE] /\ Advance
           /\ UNCHANGED <<disk, hist>>
  <2>1. /\ beats'.at = beats.at /\ beats'.done = beats.done
        /\ beats'.timer = FALSE /\ beats'.restoring = beats.restoring
    BY <1>1, <1>7 DEF FlowTypeOK
  <2>2. /\ page'.open = page.open /\ page'.resolved = page.resolved
        /\ page'.shown = page.shown
        /\ page'.act = IF page.act = Ending THEN Ending ELSE page.act + 1
        /\ page'.act # Welcome /\ page.act <= page'.act
    BY <1>1, <1>7, AdvanceEffect
  <2>3. PageBegins' /\ MarkerIsAct'
    BY <1>3, <1>7, <2>2, ShownKeeps
  <2>4. ASSUME ~hist.crowded' PROVE StagesPassed' /\ EachEndsOnce' /\ OneTakeAtWork'
    <3>1. StagesPassed /\ EachEndsOnce /\ OneTakeAtWork
      BY <1>7, <2>4 DEF FlowInv
    <3>2. /\ Showing(Practice) /\ beats.done /\ page.act = Practice
          /\ "circle" \in hist.passed /\ \A t \in Takes : ~InTurn(t)
      BY <1>4, <1>7, <2>4 DEF LastBeat
    <3>3. "learn_point" \in hist.passed /\ Before(page.act) /\ Before(ResumeIndex(disk.marker))'
      BY <3>1, <3>2, <1>7 DEF StagesPassed, Before
    <3>4. Before(page.act)' /\ page'.shown <= page'.act
      BY <3>2, <3>3, <1>7, <2>2
      DEF Before, Showing, Welcome, Hearing, Permissions, Practice, Source, Ending
    <3>5. StagesPassed'
      BY <3>1, <3>3, <3>4, <1>7, <2>1 DEF StagesPassed
    <3>6. ~Showing(Hearing)' /\ ~Showing(Permissions)'
      BY <3>2, <2>2 DEF Showing, Hearing, Permissions, Practice
    <3>7. EachEndsOnce'
      BY <3>2, <3>6, <1>7, <2>1 DEF EachEndsOnce, LastBeat
    <3>8. OneTakeAtWork'
      BY <3>2, <1>2 DEF OneTakeAtWork, InTurn
    <3> QED BY <3>5, <3>7, <3>8
  <2> QED BY <2>3, <2>4 DEF FlowInv
<1> QED BY <1>5, <1>6, <1>7 DEF AdvanceTimer

LEMMA FlowBegins == FlowInit => FlowInv
<1> SUFFICES ASSUME FlowInit PROVE FlowInv
  OBVIOUS
<1>1. FlowKinds
  <2>1. disk \in DiskKind /\ profile \in ProfileKind
    BY KindFacts DEF FlowInit, DiskKind, ProfileKind
  <2>2. page \in PageKind /\ front \in FrontKind
    BY KindFacts DEF FlowInit, NewPage, NewFront, PageKind, FrontKind
  <2>3. drill \in DrillKind /\ beats \in BeatsKind
    BY BeatFacts DEF FlowInit, NewDrill, NewBeats, DrillKind, BeatsKind
  <2>4. take \in TakeKind
    BY BeatFacts DEF FlowInit, NoTake, TakeKind
  <2>5. perm \in PermKind
    BY DEF FlowInit, NoPolls, PermKind
  <2>6. chord \in ChordKind /\ save \in SaveKind
    BY DEF FlowInit, ChordKind, SaveKind
  <2>7. hist \in HistKind
    BY KindFacts DEF FlowInit, HistKind
  <2>8. incidents \in 0 .. MaxIncidents
    <3>1. incidents = 0
      BY DEF FlowInit
    <3> QED BY <3>1, OnboardingAssumption
  <2> QED BY <2>1, <2>2, <2>3, <2>4, <2>5, <2>6, <2>7, <2>8 DEF FlowKinds
<1>2. page.open /\ page.shown = Nothing /\ ~page.resolved /\ page.act = Welcome
  BY DEF FlowInit, NewPage
<1>3. ~beats.timer /\ ~beats.restoring /\ \A t \in Takes : ~InTurn(t)
  BY DEF FlowInit, NewBeats, NoTake, InTurn
<1>4. disk.marker = "" /\ ResumeIndex(disk.marker) = Welcome /\ hist.at = Welcome
  BY ResumeFacts DEF FlowInit
<1>5. PageBegins /\ MarkerIsAct
  BY <1>2, <1>3, <1>4 DEF PageBegins, MarkerIsAct
<1>6. Before(Welcome)
  BY DEF Before, Welcome, Hearing, Permissions, Practice, Source
<1>7. ~Showing(Hearing) /\ ~Showing(Permissions) /\ ~Showing(Practice)
  BY <1>2 DEF Showing, Nothing, Hearing, Permissions, Practice
<1>8. page.shown <= page.act
  BY <1>2 DEF Nothing, Welcome
<1>9. StagesPassed /\ EachEndsOnce /\ OneTakeAtWork
  BY <1>2, <1>3, <1>4, <1>6, <1>7, <1>8 DEF StagesPassed, EachEndsOnce, OneTakeAtWork
<1> QED BY <1>1, <1>5, <1>9, KindsAreTypes DEF FlowInv

LEMMA FlowSteps == ASSUME FlowInv, [FlowNext]_flowVars PROVE FlowInv'
<1>1. CASE FlowNext
  <2>1. FlowTypeOK'
    BY <1>1, FlowTyped DEF FlowInv
  <2>2. ASSUME NEW t \in Takes, TurnLands(t) PROVE FlowInv'
    <3>1. take[t].act = Hearing \/ take[t].act = Practice
      BY <2>2 DEF TurnLands
    <3> QED BY <2>1, <2>2, <3>1, HearingLandsKeeps, PracticeLandsKeeps
  <2> QED
    BY <1>1, <2>1, <2>2, ResumePageKeeps, RenderKeeps, RelaunchKeeps, ReplayKeeps,
       NextPanelKeeps,
       SignedInKeeps, CollapsedKeeps, GrantKeeps, PrimerDoneKeeps, RecordKeeps,
       TurnMissesKeeps, HearingAdvancesKeeps, BeatRestoredKeeps, AdvanceTimerKeeps,
       PollAsksKeeps, PollAnswersKeeps, PickSourceKeeps, SaveProfileKeeps, CacheNameKeeps,
       FinishKeeps DEF FlowNext
<1>2. CASE UNCHANGED flowVars
  <2>1. FlowTypeOK'
    BY <1>2 DEF FlowInv, FlowTypeOK, flowVars
  <2> QED BY <2>1, <1>2, QuietKeeps DEF flowVars
<1> QED BY <1>1, <1>2

\* The first run's invariant: the marker, the page, the history and the one recording that
\* is being answered belong together, over relaunches too.
THEOREM FlowInvariant == FlowSpec => []FlowInv
BY FlowBegins, FlowSteps, PTL DEF FlowSpec

\* Every variable of the first run keeps its type.
THEOREM FlowIsTyped == FlowSpec => []FlowTypeOK
<1>1. FlowInv => FlowTypeOK
  BY DEF FlowInv
<1> QED BY <1>1, FlowInvariant, PTL

\* No act is left out (OnboardingApp.tsx, the marker on disk): whatever is on the
\* screen, every stage before it was gone through, unless two recordings were being
\* answered at once.
THEOREM NoActIsLeftOut == FlowSpec => []ActsInOrder
<1>1. FlowInv => ActsInOrder
  <2> SUFFICES ASSUME FlowInv, ~hist.crowded PROVE ActsInOrder
    BY DEF ActsInOrder
  <2>1. FlowTypeOK /\ StagesPassed
    BY DEF FlowInv
  <2>2. Before(page.act) /\ page.shown <= page.act
    BY <2>1 DEF StagesPassed
  <2>3. page.act \in Int /\ page.shown \in Int
    BY <2>1 DEF FlowTypeOK, Acts, Nothing
  <2>4. Before(page.shown)
    BY <2>2, <2>3, BeforeDown
  <2>5. DOMAIN StageAct = {"welcome", "hearing", "permissions", "learn_point", "circle", "source"}
    BY DEF StageAct
  <2>6. ASSUME NEW s \in DOMAIN StageAct, StageAct[s] < page.shown PROVE s \in hist.passed
    <3>1. CASE s = "welcome"
      BY <2>4, <2>6, <3>1 DEF StageAct, Before
    <3>2. CASE s = "hearing"
      BY <2>4, <2>6, <3>2 DEF StageAct, Before
    <3>3. CASE s = "permissions"
      BY <2>4, <2>6, <3>3 DEF StageAct, Before
    <3>4. CASE s \in {"learn_point", "circle"}
      BY <2>4, <2>6, <3>4 DEF StageAct, Before
    <3>5. CASE s = "source"
      BY <2>4, <2>6, <3>5 DEF StageAct, Before
    <3> QED BY <2>5, <3>1, <3>2, <3>3, <3>4, <3>5
  <2> QED BY <2>1, <2>6 DEF ActsInOrder, StagesPassed
<1> QED BY <1>1, FlowInvariant, PTL

\* A relaunch comes back to the act that was on the screen last (resumeIndex), the practice
\* act with its wizard's own marker included.
THEOREM ProgressSurvivesRelaunch == FlowSpec => ResumesWhereItStopped
<1>1. ASSUME FlowInv, FlowInv', [FlowNext]_flowVars
      PROVE  [~page.resolved /\ page'.resolved /\ ~hist.replayed => page'.act = hist.at]_flowVars
  <2> SUFFICES ASSUME FlowNext, ~page.resolved, page'.resolved, ~hist.replayed
               PROVE  page'.act = hist.at
    BY <1>1
  <2>1. FlowTypeOK /\ MarkerIsAct /\ PageBegins
    BY <1>1 DEF FlowInv
  <2>2. CASE ResumePage
    <3>1. page.open /\ page'.act = ResumeIndex(disk.marker)
      BY <2>1, <2>2 DEF ResumePage, FlowTypeOK
    <3> QED BY <2>1, <3>1 DEF MarkerIsAct
  <2>3. page.shown = Nothing /\ ~beats.timer /\ \A t \in Takes : ~InTurn(t)
    BY <2>1 DEF PageBegins
  <2>4. \A a \in Acts : ~Showing(a)
    BY <2>3 DEF Showing, Nothing, Acts, Welcome
  <2>5. {Welcome, Hearing, Permissions, Practice, Source, Ending} \subseteq Acts
    BY KindFacts
  <2>6. CASE Relaunch \/ Replay
    <3>1. page' = page \/ page'.resolved = FALSE
      BY <2>6 DEF Relaunch, Replay, FreshPage, NewPage
    <3> QED BY <3>1
  <2>7. CASE NextPanel \/ SignedIn \/ Collapsed \/ UserGrants \/ PrimerDone
    BY <2>4, <2>5, <2>7 DEF NextPanel, SignedIn, Collapsed, UserGrants, PrimerDone
  <2>8. CASE BeatRestored \/ PickSource \/ Finish
    BY <2>4, <2>5, <2>8 DEF BeatRestored, PickSource, Finish
  <2>9. CASE AdvanceTimer \/ Commit \/ SaveProfile \/ CacheName
    BY <2>3, <2>9 DEF AdvanceTimer, Commit, SaveProfile, CacheName
  <2>10. ASSUME NEW t \in Takes, Record(t) \/ TurnMisses(t) \/ TurnLands(t) \/ HearingAdvances(t)
         PROVE  page'.act = hist.at
    BY <2>3, <2>10 DEF Record, TurnMisses, TurnLands, HearingAdvances, InTurn
  <2>11. ASSUME NEW p \in Polls, PollAsks(p) \/ PollAnswers(p) PROVE page'.act = hist.at
    BY <2>4, <2>5, <2>11 DEF PollAsks, PollAnswers
  <2> QED BY <2>2, <2>6, <2>7, <2>8, <2>9, <2>10, <2>11 DEF FlowNext
<1> QED BY <1>1, FlowInvariant, PTL DEF FlowSpec, ResumesWhereItStopped
=============================================================================

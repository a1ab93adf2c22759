---------------------------- MODULE PointerWatch ----------------------------
(***************************************************************************)
(* The watch over one pending click-target: a poll loop that fades the     *)
(* pointer when the screen drifts away and shows it again, an idle timer,  *)
(* and the clicks (src/notch/pointerWatch.ts, with the callbacks that      *)
(* NotchApp.tsx:245-286 gives it).                                         *)
(*                                                                         *)
(* Loops and timers cannot be cancelled: they compare the token they were  *)
(* started under with watchToken each time they resume.  A superseded one  *)
(* therefore still sleeps, still awaits its capture, and only then leaves. *)
(* Time is a countdown per sleep; a sleep may return later than it is due. *)
(* Clicks outside the box, and clicks while the pointer is faded, change   *)
(* nothing and are stuttering steps.                                       *)
(***************************************************************************)
EXTENDS Naturals

CONSTANTS Screens,      \* what the frame hash tells apart
          Poll, Idle,   \* armedPollMs and idleFadeMs, in ticks
          MaxToken      \* bound on the watches started

ASSUME ScreensAssumption == Screens # {}
ASSUME TimersAssumption  == Poll \in Nat \ {0} /\ Idle \in Nat \ {0}
ASSUME TokenAssumption   == MaxToken \in Nat \ {0}

Tokens == 1..MaxToken

VARIABLES
    screen,     \* the live screen
    pending,    \* a pointer is being watched
    reference,  \* referenceHash
    faded,      \* pointerFaded, the click guard
    token,      \* watchToken
    poll,       \* the poll loop of each token
    idle,       \* the idle timer of each token: ticks left, or Off
    shown,      \* whether the pointer is on the overlay
    drawn,      \* history: how many pointers were set pending
    quiet,      \* history: ticks since the pointer was set or last tried
    handed      \* history: how often the last pointer was handed to the caller

vars == <<screen, pending, reference, faded, token, poll, idle, shown, drawn, quiet, handed>>

Off == Idle + 1
NoFrame == CHOOSE s \in Screens : TRUE
NoLoop  == [at |-> "none", left |-> 0, frame |-> NoFrame, of |-> 0]
Asleep  == [at |-> "sleeping", left |-> Poll, frame |-> NoFrame, of |-> 0]

Init ==
    /\ screen \in Screens /\ reference \in Screens
    /\ pending = FALSE /\ faded = FALSE /\ shown = FALSE
    /\ token = 0
    /\ poll = [t \in Tokens |-> NoLoop]
    /\ idle = [t \in Tokens |-> Off]
    /\ drawn = 0 /\ quiet = 0 /\ handed = 0

-----------------------------------------------------------------------------
(* Slips this code could have had, for the mutation runs.                   *)

CurrentByPending(t) == pending
StopWatchingOnly == token' = token + 1 /\ UNCHANGED pending
ArmPollOnly == /\ token' = token + 1
               /\ poll' = [poll EXCEPT ![token + 1] = Asleep]
               /\ UNCHANGED idle

-----------------------------------------------------------------------------
\* The check of every resume: watchToken === myToken && pending.
Current(t) == token = t /\ pending

\* startArmedWatch and scheduleIdleFade under a fresh token (rearmTimers).
Arm == /\ token' = token + 1
       /\ poll' = [poll EXCEPT ![token + 1] = Asleep]
       /\ idle' = [idle EXCEPT ![token + 1] = Idle]

\* A valid click, an idle fade and clear all supersede the loops.
StopWatching == token' = token + 1 /\ pending' = FALSE

\* The pointer is on the overlay and its clicks count.
Shows == shown' = TRUE /\ faded' = FALSE

MayArm == token + 1 < MaxToken

-----------------------------------------------------------------------------
(* The interface.                                                           *)

SetPending ==
    /\ MayArm
    /\ Arm /\ Shows
    /\ pending' = TRUE
    /\ reference' \in Screens    \* hashed before the call: it may be behind
    /\ drawn' = drawn + 1 /\ quiet' = 0 /\ handed' = 0
    /\ UNCHANGED screen

\* A click in the box with the expected button; the caller hides the overlay.
ValidClick ==
    /\ pending /\ ~faded
    /\ StopWatching
    /\ shown' = FALSE
    /\ handed' = handed + 1
    /\ UNCHANGED <<screen, reference, faded, poll, idle, drawn, quiet>>

WrongButton ==
    /\ pending /\ ~faded
    /\ MayArm
    /\ Arm
    /\ quiet' = 0
    /\ UNCHANGED <<screen, pending, reference, faded, shown, drawn, handed>>

\* clear; its callers hide the overlay too.
Clear ==
    /\ pending \/ MayArm
    /\ StopWatching
    /\ faded' = FALSE /\ shown' = FALSE
    /\ UNCHANGED <<screen, reference, poll, idle, drawn, quiet, handed>>

-----------------------------------------------------------------------------
(* The poll loop.                                                           *)

SleepAgain(t) == poll' = [poll EXCEPT ![t] = Asleep]
Leave(t)      == poll' = [poll EXCEPT ![t] = NoLoop]

PollWakes(t) ==
    /\ poll[t].at = "sleeping" /\ poll[t].left = 0
    /\ IF Current(t) THEN poll' = [poll EXCEPT ![t].at = "capturing"] ELSE Leave(t)
    /\ UNCHANGED <<screen, pending, reference, faded, token, idle, shown, drawn, quiet, handed>>

\* The native side takes the frame, some time after it was asked and before the
\* loop hears of it.
Grab(t) ==
    /\ poll[t].at = "capturing"
    /\ poll' = [poll EXCEPT ![t].at = "captured", ![t].frame = screen, ![t].of = drawn]
    /\ UNCHANGED <<screen, pending, reference, faded, token, idle, shown, drawn, quiet, handed>>

\* The failure goes straight back to sleep.
CaptureFails(t) ==
    /\ poll[t].at = "capturing"
    /\ SleepAgain(t)
    /\ UNCHANGED <<screen, pending, reference, faded, token, idle, shown, drawn, quiet, handed>>

PollResumes(t) ==
    /\ poll[t].at = "captured"
    /\ IF ~Current(t) THEN Leave(t) /\ UNCHANGED <<faded, shown>>
       ELSE /\ SleepAgain(t)
            /\ IF poll[t].frame = reference
               THEN faded' = FALSE /\ shown' = TRUE
               ELSE faded' = TRUE /\ shown' = FALSE
    /\ UNCHANGED <<screen, pending, reference, token, idle, drawn, quiet, handed>>

\* The idle timer: pending is cleared before the caller is told.
IdleFires(t) ==
    /\ idle[t] = 0
    /\ idle' = [idle EXCEPT ![t] = Off]
    /\ IF ~Current(t) THEN UNCHANGED <<token, pending, faded, shown, handed>>
       ELSE /\ StopWatching
            /\ faded' = TRUE /\ shown' = FALSE
            /\ handed' = handed + 1
    /\ UNCHANGED <<screen, reference, poll, drawn, quiet>>

-----------------------------------------------------------------------------
ScreenMoves ==
    /\ screen' \in Screens \ {screen}
    /\ UNCHANGED <<pending, reference, faded, token, poll, idle, shown, drawn, quiet, handed>>

Less(n) == IF n = 0 THEN 0 ELSE n - 1

Tick ==
    /\ poll' = [t \in Tokens |-> [poll[t] EXCEPT !.left = Less(@)]]
    /\ idle' = [t \in Tokens |-> IF idle[t] = Off THEN Off ELSE Less(idle[t])]
    /\ quiet' = IF quiet < Idle THEN quiet + 1 ELSE quiet
    /\ UNCHANGED <<screen, pending, reference, faded, token, shown, drawn, handed>>

Resume(t) == PollWakes(t) \/ Grab(t) \/ CaptureFails(t) \/ PollResumes(t)

Next ==
    \/ SetPending \/ ValidClick \/ WrongButton \/ Clear
    \/ \E t \in Tokens : Resume(t) \/ IdleFires(t)
    \/ ScreenMoves \/ Tick

Spec == Init /\ [][Next]_vars

\* Time passes and timers that are due fire.
FairSpec == Spec /\ WF_vars(Tick) /\ \A t \in Tokens : WF_vars(IdleFires(t))

-----------------------------------------------------------------------------
(* Properties.                                                              *)

Loops == [at : {"none", "sleeping", "capturing", "captured"}, left : 0..Poll,
          frame : Screens, of : Nat]

TypeOK ==
    /\ screen \in Screens /\ reference \in Screens
    /\ pending \in BOOLEAN /\ faded \in BOOLEAN /\ shown \in BOOLEAN
    /\ token \in 0..MaxToken
    /\ poll \in [Tokens -> Loops]
    /\ idle \in [Tokens -> 0..Off]
    /\ drawn \in Nat /\ quiet \in 0..Idle /\ handed \in Nat

\* "That flag IS the click guard ... and also drives fade-when-you-scroll-away"
\* (pointerWatch.ts:85): a click counts exactly while the user sees the pointer,
\* and a pointer nobody watches is not on the screen.
GuardIsWhatIsSeen == (pending => (shown <=> ~faded)) /\ (~pending => ~shown)

\* While a pointer is pending its poll loop runs and its idle timer is set, under
\* the token in force, however the loops before it were superseded: rearmTimers
\* and setPending lose neither (pointerWatch.ts:141-159).
PendingIsWatched == pending => token > 0 /\ poll[token].at # "none" /\ idle[token] # Off

\* A poll's verdict is about this pointer: the frame that fades or shows it was
\* taken since the pointer was set (the recheck after the capture, line 100).
VerdictsAreFresh ==
    [][\A t \in Tokens : poll[t].at = "captured" /\ poll'[t].at # "captured" /\ shown' # shown
           => poll[t].of = drawn]_vars

\* "the user is actively trying -> keep the pointer alive" (line 180): the
\* pointer fades for idleness only when idleFadeMs passed since the last try.
IdleIsIdle == [][handed' > handed /\ faded' => quiet = Idle]_vars

\* A pointer is handed to the caller once, by its click or by its idle fade, and
\* a cleared one never (lines 125, 186, 205): no step of a guide runs twice.
HandedOnce == handed + (IF pending THEN 1 ELSE 0) <= 1

\* Every watch ends: the pointer is clicked, retried, replaced, cleared, or fades.
WatchEnds == \A t \in Tokens : (pending /\ token = t) ~> token # t
=============================================================================

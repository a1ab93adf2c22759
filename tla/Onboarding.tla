----------------------------- MODULE Onboarding -----------------------------
(***************************************************************************)
(* The first run: six acts in one transparent window (src/onboarding) and  *)
(* the native side that keeps its progress across relaunches               *)
(* (src-tauri/src/onboarding.rs, permissions.rs).                          *)
(*                                                                         *)
(* actIndex is React state and shown is the act that is mounted: whoever   *)
(* advances sets the first, and Commit is the render whose effects follow. *)
(* A take is one recording and the practice turn that runs on it; like a   *)
(* timer or a status poll it goes on after the act it was started in is    *)
(* gone.  Sign-in itself is Session's; here it succeeds at some time.      *)
(***************************************************************************)
EXTENDS Integers

CONSTANTS MaxTakes,        \* recordings in one behaviour
          MaxPolls,        \* permission polls in flight at once
          MaxIncidents     \* relaunches, replays and failures in one behaviour

ASSUME OnboardingAssumption ==
    MaxTakes \in Nat /\ MaxPolls \in Nat \ {0} /\ MaxIncidents \in Nat

Takes == 1 .. MaxTakes
Polls == 1 .. MaxPolls

Nothing     == -1          \* no act is mounted
Welcome     == 0
Hearing     == 1
Permissions == 2
Practice    == 3
Source      == 4
Ending      == 5
Acts        == Welcome .. Ending

LastBeat == 1              \* the beats are learn_point and circle
Markers  == {"", "hearing", "permissions", "practice", "circle", "source", "ending"}
Names    == {"", "own", "there"}   \* nobody's, the account's, and saveOnboarding's stand-in

VARIABLES disk,            \* onboarding_step, onboarded and user_name
          profile,         \* the account's row on the backend
          page,            \* OnboardingApp
          front,           \* FrontDoor
          drill,           \* Act3Hearing
          beats,           \* OnboardingFlow
          take,            \* the recordings
          perm,            \* the grants, and Act4Permissions
          chord,           \* push-to-talk: running, and claimed by onboarding
          save,            \* Act7Ending's background save
          hist,            \* history
          incidents

flowVars == <<disk, profile, page, front, drill, beats, take, perm, chord, save, hist, incidents>>

NewPage  == [open |-> TRUE, resolved |-> FALSE, act |-> Welcome, shown |-> Nothing, name |-> ""]
NewFront == [panel |-> "hero", name |-> ""]
NewDrill == [phase |-> "primer", done |-> FALSE]
NewBeats == [at |-> 0, done |-> FALSE, timer |-> FALSE, restoring |-> FALSE]
NoTake   == [pc |-> "none", act |-> Nothing, beat |-> 0]
NoPolls  == [p \in Polls |-> "none"]

FlowTypeOK ==
    /\ disk \in [marker : Markers, onboarded : BOOLEAN, name : Names]
    /\ profile \in [name : Names, completed : BOOLEAN]
    /\ page \in [open : BOOLEAN, resolved : BOOLEAN, act : Acts,
                 shown : Acts \cup {Nothing}, name : Names]
    /\ front \in [panel : {"hero", "color", "signin", "signed", "collapsed"}, name : Names]
    /\ drill \in [phase : {"primer", "drill"}, done : BOOLEAN]
    /\ beats \in [at : 0 .. LastBeat, done : BOOLEAN, timer : BOOLEAN, restoring : BOOLEAN]
    /\ take \in [Takes -> [pc : {"none", "turn", "landed", "over"},
                           act : Acts \cup {Nothing}, beat : 0 .. LastBeat]]
    /\ perm \in [granted : SUBSET {"mic", "screen", "access"}, seen : BOOLEAN,
                 polls : [Polls -> {"none", "missing", "done"}], advanced : BOOLEAN]
    /\ chord \in [running : BOOLEAN, owned : BOOLEAN]
    /\ save \in {"none", "posting", "caching", "done"}
    /\ hist \in [passed : SUBSET {"welcome", "hearing", "permissions", "learn_point",
                                  "circle", "source"},
                 at : Acts, crowded : BOOLEAN, replayed : BOOLEAN, named : BOOLEAN]
    /\ incidents \in 0 .. MaxIncidents

FlowInit ==
    /\ disk = [marker |-> "", onboarded |-> FALSE, name |-> ""]
    /\ profile = [name |-> "", completed |-> FALSE]
    /\ page = NewPage
    /\ front = NewFront
    /\ drill = NewDrill
    /\ beats = NewBeats
    /\ take = [t \in Takes |-> NoTake]
    /\ perm = [granted |-> {}, seen |-> FALSE, polls |-> NoPolls, advanced |-> FALSE]
    /\ chord = [running |-> FALSE, owned |-> FALSE]
    /\ save = "none"
    /\ hist = [passed |-> {}, at |-> Welcome, crowded |-> FALSE, replayed |-> FALSE,
               named |-> FALSE]
    /\ incidents = 0

Incident == incidents < MaxIncidents /\ incidents' = incidents + 1

Showing(a) == page.open /\ page.shown = a
Drilling   == Showing(Practice) \/ (Showing(Hearing) /\ drill.phase = "drill")
InTurn(t)  == take[t].pc \in {"turn", "landed"}

Advance == page' = [page EXCEPT !.act = IF page.act = Ending THEN Ending ELSE page.act + 1]
Passed(stage) == hist' = [hist EXCEPT !.passed = @ \cup {stage}]

-----------------------------------------------------------------------------
(* The window: resume, render, relaunch.                                   *)

MarkerOf(a) == CASE a = Welcome     -> disk.marker
                 [] a = Hearing     -> "hearing"
                 [] a = Permissions -> "permissions"
                 [] a = Practice    -> "practice"
                 [] a = Source      -> "source"
                 [] a = Ending      -> "ending"

PracticeOnlyByAct(saved) ==
    CASE saved = "hearing"     -> Hearing
      [] saved = "permissions" -> Permissions
      [] saved = "practice"    -> Practice
      [] saved = "source"      -> Source
      [] saved = "ending"      -> Ending
      [] OTHER                 -> Welcome

\* resumeIndex also takes the practice wizard's own marker.
ResumeIndex(saved) ==
    IF saved = "circle" THEN Practice ELSE PracticeOnlyByAct(saved)

ResumePage ==
    /\ page.open /\ ~page.resolved
    /\ page' = [page EXCEPT !.resolved = TRUE, !.act = ResumeIndex(disk.marker)]
    /\ UNCHANGED <<disk, profile, front, drill, beats, take, perm, chord, save, hist, incidents>>

TapStarted(running, a)    == running \/ a = Practice

\* The act that is shown unmounts, the next one mounts: its marker is written, the
\* chord is given up by the one and claimed by the other.  Practice asks for the
\* marker before it writes its own.
Commit ==
    /\ page.open /\ page.resolved /\ page.shown # page.act
    /\ LET a == page.act IN
        /\ page'  = [page EXCEPT !.shown = a]
        /\ disk'  = [disk EXCEPT !.marker = MarkerOf(a)]
        /\ chord' = [running |-> TapStarted(chord.running, a),
                     owned   |-> IF Drilling THEN a = Practice ELSE chord.owned \/ a = Practice]
        /\ drill' = IF a = Hearing THEN NewDrill ELSE drill
        /\ beats' = IF a = Practice
                    THEN [NewBeats EXCEPT !.restoring = disk.marker = "circle"]
                    ELSE [beats EXCEPT !.timer = FALSE]
        /\ perm'  = [perm EXCEPT !.polls = NoPolls, !.advanced = FALSE]
        /\ save'  = IF a = Ending THEN "posting" ELSE save
        /\ hist'  = [hist EXCEPT !.at = a]
    /\ UNCHANGED <<profile, front, take, incidents>>

\* What a relaunch and a closed window leave behind.
FreshPage(open) ==
    /\ page'  = [NewPage EXCEPT !.open = open]
    /\ front' = NewFront
    /\ drill' = NewDrill
    /\ beats' = NewBeats
    /\ take'  = [t \in Takes |-> IF InTurn(t) THEN [take[t] EXCEPT !.pc = "over"] ELSE take[t]]
    /\ save'  = "none"

\* The app quits and reopens: macOS insists once Screen Recording is granted.
Relaunch ==
    /\ Incident
    /\ FreshPage(~disk.onboarded)
    /\ perm' = [perm EXCEPT !.seen = "screen" \in perm.granted, !.polls = NoPolls,
                            !.advanced = FALSE]
    /\ chord' = [running |-> disk.onboarded, owned |-> FALSE]
    /\ UNCHANGED <<disk, profile, hist>>

\* "Replay intro".  A window that is still open is only brought to the front.
Replay ==
    /\ Incident
    /\ disk' = [disk EXCEPT !.marker = "", !.onboarded = FALSE]
    /\ chord' = [chord EXCEPT !.owned = FALSE]
    /\ IF page.open
       THEN /\ hist' = [hist EXCEPT !.replayed = TRUE]
            /\ UNCHANGED <<page, front, drill, beats, take, perm, save>>
       ELSE /\ FreshPage(TRUE)
            /\ hist' = [hist EXCEPT !.passed = {}, !.at = Welcome]
            /\ perm' = [perm EXCEPT !.polls = NoPolls, !.advanced = FALSE]
    /\ UNCHANGED profile

-----------------------------------------------------------------------------
(* Front door and hearing.                                                 *)

\* Hero, colour, sign-in are three panels of one card.
NextPanel ==
    /\ Showing(Welcome)
    /\ \/ front.panel = "hero"  /\ front' = [front EXCEPT !.panel = "color"]
       \/ front.panel = "color" /\ front' = [front EXCEPT !.panel = "signin"]
    /\ UNCHANGED <<disk, profile, page, drill, beats, take, perm, chord, save, hist, incidents>>

\* Signed in: syncUserName fetches the profile and caches the name it finds.  No answer
\* is an empty name, which also empties the cache; without a JWT the cache is left alone.
SignedIn ==
    /\ Showing(Welcome) /\ front.panel = "signin"
    /\ LET found == IF profile.name = "" THEN "own" ELSE profile.name IN
       \/ /\ front' = [panel |-> "signed", name |-> found]
          /\ disk' = [disk EXCEPT !.name = found]
          /\ hist' = [hist EXCEPT !.named = found = "own"]
          /\ UNCHANGED incidents
       \/ /\ Incident
          /\ front' = [panel |-> "signed", name |-> ""]
          /\ disk' \in {disk, [disk EXCEPT !.name = ""]}
          /\ hist' = [hist EXCEPT !.named = FALSE]
    /\ UNCHANGED <<profile, page, drill, beats, take, perm, chord, save>>

\* The card collapses, the wake line is spoken, and the name goes to the page.
Collapsed ==
    /\ Showing(Welcome) /\ front.panel = "signed"
    /\ front' = [front EXCEPT !.panel = "collapsed"]
    /\ page' = [page EXCEPT !.act = Hearing, !.name = front.name]
    /\ Passed("welcome")
    /\ UNCHANGED <<disk, profile, drill, beats, take, perm, chord, save, incidents>>

Grant(g) ==
    /\ g \notin perm.granted
    /\ \E seen \in {perm.seen, perm.seen \/ g = "screen"} :
        perm' = [perm EXCEPT !.granted = @ \cup {g}, !.seen = seen]
    /\ UNCHANGED <<disk, profile, page, front, drill, beats, take, chord, save, hist, incidents>>

UserGrants ==
    \/ Showing(Hearing) /\ drill.phase = "primer" /\ Grant("mic")
    \/ Showing(Permissions) /\ Grant("screen")
    \/ Showing(Permissions) /\ perm.seen /\ Grant("access")

\* The primer goes on once the microphone is really granted.
PrimerDone ==
    /\ Showing(Hearing) /\ drill.phase = "primer" /\ "mic" \in perm.granted
    /\ drill' = [drill EXCEPT !.phase = "drill"]
    /\ chord' = [running |-> TRUE, owned |-> TRUE]
    /\ UNCHANGED <<disk, profile, page, front, beats, take, perm, save, hist, incidents>>

-----------------------------------------------------------------------------
(* Takes: the hearing drill and the two practice beats.                    *)

\* A recording arrives while the drill or the beat is not yet satisfied.  Whether an
\* earlier one is still being answered is not asked.
Record(t) ==
    /\ take[t].pc = "none" /\ \A u \in Takes : u < t => take[u].pc # "none"
    /\ Drilling /\ chord.running /\ chord.owned
    /\ IF page.shown = Hearing THEN ~drill.done ELSE ~beats.done
    /\ take' = [take EXCEPT ![t] = [pc |-> "turn", act |-> page.shown, beat |-> beats.at]]
    /\ hist' = [hist EXCEPT !.crowded = @ \/ \E u \in Takes : InTurn(u)]
    /\ UNCHANGED <<disk, profile, page, front, drill, beats, perm, chord, save, incidents>>

\* Nothing was heard, or nothing found: the act stays open for another hold.
TurnMisses(t) ==
    /\ take[t].pc = "turn"
    /\ take' = [take EXCEPT ![t].pc = "over"]
    /\ UNCHANGED <<disk, profile, page, front, drill, beats, perm, chord, save, hist, incidents>>

TurnLands(t) ==
    /\ take[t].pc = "turn"
    /\ \/ /\ take[t].act = Hearing
          /\ take' = [take EXCEPT ![t].pc = "landed"]
          /\ drill' = IF page.shown = Hearing THEN [drill EXCEPT !.done = TRUE] ELSE drill
          /\ Passed("hearing")
          /\ UNCHANGED beats
       \/ /\ take[t].act = Practice
          /\ take' = [take EXCEPT ![t].pc = "over"]
          /\ beats' = [beats EXCEPT !.done = TRUE, !.timer = TRUE]
          /\ Passed(IF take[t].beat = 0 THEN "learn_point" ELSE "circle")
          /\ UNCHANGED drill
    /\ UNCHANGED <<disk, profile, page, front, perm, chord, save, incidents>>

\* The hearing act's own pause before it advances; nothing cancels it.
HearingAdvances(t) ==
    /\ take[t].pc = "landed"
    /\ take' = [take EXCEPT ![t].pc = "over"]
    /\ Advance
    /\ UNCHANGED <<disk, profile, front, drill, beats, perm, chord, save, hist, incidents>>

\* A beat opens: its marker is written, the old one gives the chord up and this one
\* claims it, and the beat is unsatisfied again.  A recording of the old one goes on.
OpenBeat(b) ==
    /\ beats' = [NewBeats EXCEPT !.at = b]
    /\ disk' = [disk EXCEPT !.marker = "circle"]
    /\ chord' = [chord EXCEPT !.owned = TRUE]
    /\ hist' = [hist EXCEPT !.crowded = @ \/ \E u \in Takes : InTurn(u)]

BeatRestored ==
    /\ Showing(Practice) /\ beats.restoring
    /\ OpenBeat(LastBeat)
    /\ UNCHANGED <<profile, page, front, drill, take, perm, save, incidents>>

\* The timer of a satisfied beat: the next beat, or the orchestrator's next act, also
\* when a turn that came back late armed it after the act was gone.
AdvanceTimer ==
    /\ page.open /\ beats.timer
    /\ \/ /\ beats.at < LastBeat /\ Showing(Practice)
          /\ OpenBeat(beats.at + 1)
          /\ UNCHANGED page
       \/ /\ beats.at < LastBeat /\ ~Showing(Practice)
          /\ beats' = [beats EXCEPT !.timer = FALSE]
          /\ UNCHANGED <<page, disk, chord, hist>>
       \/ /\ beats.at = LastBeat
          /\ beats' = [beats EXCEPT !.timer = FALSE]
          /\ Advance
          /\ UNCHANGED <<disk, chord, hist>>
    /\ UNCHANGED <<profile, front, drill, take, perm, save, incidents>>

-----------------------------------------------------------------------------
(* Permissions, source and ending.                                         *)

\* Screen Recording is what this process was told at its start, or later if macOS is
\* kind; accessibility is live.
StatusDone == perm.seen /\ "access" \in perm.granted

PollAsks(p) ==
    /\ Showing(Permissions) /\ perm.polls[p] = "none"
    /\ perm' = [perm EXCEPT !.polls[p] = IF StatusDone THEN "done" ELSE "missing"]
    /\ UNCHANGED <<disk, profile, page, front, drill, beats, take, chord, save, hist, incidents>>

AdvancesEachTime == TRUE
AdvancesOnce     == ~perm.advanced

PollAnswers(p) ==
    /\ Showing(Permissions) /\ perm.polls[p] # "none"
    /\ \/ /\ perm.polls[p] = "done" /\ AdvancesOnce
          /\ perm' = [perm EXCEPT !.polls[p] = "none", !.advanced = TRUE]
          /\ Advance
          /\ Passed("permissions")
       \/ /\ ~(perm.polls[p] = "done" /\ AdvancesOnce)
          /\ perm' = [perm EXCEPT !.polls[p] = "none"]
          /\ UNCHANGED <<page, hist>>
    /\ UNCHANGED <<disk, profile, front, drill, beats, take, chord, save, incidents>>

PickSource ==
    /\ Showing(Source)
    /\ Advance
    /\ Passed("source")
    /\ UNCHANGED <<disk, profile, front, drill, beats, take, perm, chord, save, incidents>>

\* The save runs beside the sign-off.  The page's name is empty if the page is younger
\* than the front door, and the account is then given a stand-in.
SavedProfile == [name |-> IF page.name = "" THEN "there" ELSE page.name, completed |-> TRUE]

SaveProfile ==
    /\ save = "posting"
    /\ \/ profile' = SavedProfile /\ UNCHANGED incidents
       \/ UNCHANGED profile /\ Incident
    /\ save' = "caching"
    /\ UNCHANGED <<disk, page, front, drill, beats, take, perm, chord, hist>>

CacheName ==
    /\ save = "caching"
    /\ disk' = [disk EXCEPT !.name = page.name]
    /\ save' = "done"
    /\ UNCHANGED <<profile, page, front, drill, beats, take, perm, chord, hist, incidents>>

\* The sign-off has been spoken: finish_onboarding.  A save that is still on its way
\* dies with the window, with or without having reached the backend.
Finish ==
    /\ Showing(Ending)
    /\ disk' = [disk EXCEPT !.marker = "", !.onboarded = TRUE]
    /\ chord' = [running |-> TRUE, owned |-> FALSE]
    /\ \/ UNCHANGED profile
       \/ save = "posting" /\ profile' = SavedProfile
    /\ FreshPage(FALSE)
    /\ UNCHANGED <<perm, hist, incidents>>

FlowNext ==
    \/ ResumePage \/ Commit \/ Relaunch \/ Replay
    \/ NextPanel \/ SignedIn \/ Collapsed \/ UserGrants \/ PrimerDone
    \/ \E t \in Takes : Record(t) \/ TurnMisses(t) \/ TurnLands(t) \/ HearingAdvances(t)
    \/ BeatRestored \/ AdvanceTimer
    \/ \E p \in Polls : PollAsks(p) \/ PollAnswers(p)
    \/ PickSource \/ SaveProfile \/ CacheName \/ Finish

FlowSpec == FlowInit /\ [][FlowNext]_flowVars

-----------------------------------------------------------------------------
(* What the first run guarantees.                                          *)

StageAct == [welcome |-> Welcome, hearing |-> Hearing, permissions |-> Permissions,
             learn_point |-> Practice, circle |-> Practice, source |-> Source]

\* No act is left out: whatever is on the screen, every stage before it was gone
\* through, over relaunches too.  Except if a recording was still being answered when the
\* next was made or the next beat opened (OnboardingApp advance, Act4Permissions advanced).
ActsInOrder ==
    ~hist.crowded =>
        /\ \A s \in DOMAIN StageAct : StageAct[s] < page.shown => s \in hist.passed
        /\ Showing(Practice) /\ beats.at = LastBeat => "learn_point" \in hist.passed

\* What Act3Hearing.tsx:47-49 and OnboardingFlow.tsx:111-119 mean to be, without the
\* exception: two answers to two holds advance twice.
NoActSkipped ==
    \A s \in DOMAIN StageAct : StageAct[s] < page.shown => s \in hist.passed

\* "Safe to call while already onboarding" (onboarding.rs:322) would have it so.
ReplayKeepsChord == Drilling => chord.owned

\* A relaunch comes back to the act that was on the screen, in the practice act too,
\* whose wizard writes a marker of its own (set_onboarding_step, resumeIndex).
ResumesWhereItStopped ==
    [][~page.resolved /\ page'.resolved /\ ~hist.replayed => page'.act = hist.at]_flowVars

\* Once the account's name was learned at the front door, the first run ends with that
\* name in the account and in the cache (Act7Ending.tsx:10-13).  It does not: the page
\* forgets the name when the app relaunches.
NameIsKept ==
    disk.onboarded /\ hist.named /\ profile.completed => profile.name = "own"
=============================================================================

----------------------------- MODULE PushToTalk -----------------------------
(***************************************************************************)
(* Push-to-talk in the native shell: the modifier poll, the controller     *)
(* thread that turns chord edges into presses, the microphone thread that  *)
(* records them, and the flag by which the onboarding demo owns a press    *)
(* (src-tauri/src/input.rs, audio.rs, onboarding.rs).                      *)
(*                                                                         *)
(* One tick is one poll of the modifiers.  Instants are kept as ages, the  *)
(* ticks since they were taken.  The controller and the microphone thread  *)
(* run at any later moment, the controller at most MaxLag ticks late.      *)
(* What the notch makes of a press (its capsules, the typing field of a    *)
(* tap) is in NotchTurns.                                                  *)
(***************************************************************************)
EXTENDS Naturals, Sequences, FiniteSets

CONSTANTS TapMax,    \* PTT_TAP_MAX_MS, in ticks
          Settle,    \* PTT_RELEASE_SETTLE_MS
          MaxRecord, \* PTT_MAX_RECORD_MS
          MaxLag,    \* bound on how late the controller wakes
          MaxChords  \* bound on the chords pressed

ASSUME TimesAssumption ==
    /\ {TapMax, Settle, MaxRecord, MaxLag, MaxChords} \subseteq Nat \ {0}
    /\ TapMax < MaxRecord

Webviews == {"notch", "onboarding"}
Longest  == MaxRecord + MaxLag
Nobody   == "nobody"

VARIABLES
    wasDown,    \* was_down: the modifiers at the last poll
    edges,      \* the channel to the controller
    ptt,        \* PttState
    age,        \* ticks since the press started
    rest,       \* ticks since it was last released
    held,       \* how long it was held at the last release
    promoted,   \* whether "listening" was shown for it
    mic,        \* the channel to the microphone thread
    unit,       \* the input unit, and the stream fault it may have
    leaked,     \* a running unit was dropped
    gate,       \* capturing: the callbacks append
    buffer,     \* the takes with sound in samples
    onboards,   \* ONBOARDING_PTT
    told,       \* the press each webview was last told is recorded, or 0
    chords,     \* history: chords pressed, a bounce counting as one
    presses,    \* history: captures started
    owner,      \* history: the webview that saw each press begin, or Nobody
    crossed,    \* history: the presses whose owner the flag left halfway
    wav         \* history: the last recording sent: its takes, of which press, to whom

controller == <<ptt, age, rest, held, promoted>>
capture    == <<unit, leaked, gate, buffer, wav>>
pttVars == <<wasDown, chords, edges, controller, mic, capture, onboards, told, presses, owner, crossed>>

PttInit ==
    /\ wasDown = FALSE /\ chords = 0 /\ edges = <<>>
    /\ ptt = "idle" /\ age = 0 /\ rest = 0 /\ held = 0 /\ promoted = FALSE
    /\ mic = <<>>
    /\ unit = "none" /\ leaked = FALSE /\ gate = FALSE /\ buffer = {}
    /\ wav = [takes |-> {}, of |-> 0, to |-> Nobody]
    /\ onboards \in BOOLEAN
    /\ told = [w \in Webviews |-> 0] /\ crossed = {}
    /\ presses = 0 /\ owner = [p \in 1..MaxChords |-> Nobody]

-----------------------------------------------------------------------------
(* Slips this code could have had, for the mutation runs.                   *)

ResumeAfresh == ptt' = "recording" /\ age' = Head(edges).age
DiscardShowingIdle == UNCHANGED mic
BufferKept == UNCHANGED buffer
SoundListenerNotch == "notch"

-----------------------------------------------------------------------------
\* Whom this press is for, as the flag stands now.
Listener == IF onboards THEN "onboarding" ELSE "notch"

\* released.duration_since(started), from the two ages.
HeldFor(pressed, released) == pressed - released

\* A deadline that recv_until waits for has passed.
Due == \/ ptt = "recording" /\ ~promoted /\ age >= TapMax
       \/ ptt = "recording" /\ promoted  /\ age >= MaxRecord
       \/ ptt = "releasing" /\ rest >= Settle

\* How late the controller is for the next thing it has to do.
Overdue == \/ edges # <<>> /\ Head(edges).age >= MaxLag
           \/ ptt = "recording" /\ ~promoted /\ age >= TapMax + MaxLag
           \/ ptt = "recording" /\ promoted  /\ age >= MaxRecord + MaxLag
           \/ ptt = "releasing" /\ rest >= Settle + MaxLag

\* Ages saturate where no deadline can tell them apart any more.
Older(a) == IF a < Longest THEN a + 1 ELSE a

\* Time passes and the poll reads the modifiers, sending an edge if they changed.
ReadModifiers ==
    /\ ~Overdue
    /\ LET older == [i \in DOMAIN edges |-> [edges[i] EXCEPT !.age = @ + 1]]
       IN  \E down \in BOOLEAN :
             /\ down /\ ~wasDown => chords < MaxChords
             /\ wasDown' = down
             /\ chords' = IF down /\ ~wasDown THEN chords + 1 ELSE chords
             /\ edges' = IF down = wasDown THEN older
                         ELSE Append(older, [down |-> down, age |-> 0])
    /\ age'  = IF ptt = "idle" THEN 0 ELSE Older(age)
    /\ rest' = IF ptt = "releasing" THEN rest + 1 ELSE 0
    /\ UNCHANGED <<ptt, held, promoted, mic, capture, onboards, told, presses, owner, crossed>>

-----------------------------------------------------------------------------
(* The controller.  An edge in the channel goes before a deadline.          *)

Received(down) == edges # <<>> /\ Head(edges).down = down /\ edges' = Tail(edges)

\* Idle and Down: a new press.
StartCapture ==
    /\ ptt = "idle" /\ Received(TRUE)
    /\ ptt' = "recording" /\ age' = Head(edges).age /\ promoted' = FALSE
    /\ mic' = Append(mic, "start")
    /\ presses' = presses + 1
    /\ UNCHANGED <<wasDown, chords, rest, held, capture, onboards, told, owner, crossed>>

Release ==
    /\ ptt = "recording" /\ Received(FALSE)
    /\ ptt' = "releasing" /\ rest' = Head(edges).age
    /\ held' = HeldFor(age, Head(edges).age)
    /\ UNCHANGED <<wasDown, chords, age, promoted, mic, capture, onboards, told, presses, owner, crossed>>

\* A bounce continues the recording it interrupted, from its first instant.
ResumePress == ptt' = "recording" /\ age' = age

Bounce ==
    /\ ptt = "releasing" /\ Received(TRUE)
    /\ ResumePress
    /\ UNCHANGED <<wasDown, chords, rest, held, promoted, mic, capture, onboards, told, presses, owner, crossed>>

\* An edge that changes nothing: Up while idle, after a recording that was cut.
Ignore ==
    /\ ptt = "idle" /\ Received(FALSE)
    /\ UNCHANGED <<wasDown, chords, controller, mic, capture, onboards, told, presses, owner, crossed>>

Elapsed == edges = <<>> /\ Due

Promote ==
    /\ Elapsed /\ ptt = "recording" /\ ~promoted
    /\ promoted' = TRUE
    /\ told' = [told EXCEPT ![Listener] = presses]
    /\ owner' = [owner EXCEPT ![presses] = Listener]
    /\ UNCHANGED <<wasDown, chords, edges, ptt, age, rest, held, mic, capture, onboards, presses, crossed>>

TellEnd == told' = [told EXCEPT ![Listener] = 0]

Commits(how) ==
    /\ Elapsed /\ ptt' = "idle"
    /\ TellEnd
    /\ owner' = [owner EXCEPT ![presses] = IF @ = Nobody THEN Listener ELSE @]
    /\ \/ how = "tap"  /\ ptt = "releasing" /\ held < TapMax
       \/ how = "hold" /\ ptt = "releasing" /\ held >= TapMax
       \/ how = "hold" /\ ptt = "recording" /\ promoted
    /\ UNCHANGED <<wasDown, chords, edges, age, rest, held, promoted, capture, onboards, presses, crossed>>

\* A tap is discarded; outside onboarding it opens the typing capsule.
Discard == mic' = Append(mic, "cancel")
CommitTap  == Commits("tap") /\ Discard
CommitHold == Commits("hold") /\ mic' = Append(mic, "stop")

-----------------------------------------------------------------------------
(* The microphone thread.                                                   *)

Ordered(command) == mic # <<>> /\ Head(mic) = command /\ mic' = Tail(mic)
OnlyCapture == UNCHANGED <<wasDown, chords, edges, controller, onboards, told, presses, owner, crossed>>

\* The capture this thread started last, by number.
Take == presses - Cardinality({i \in DOMAIN mic : mic[i] = "start"})

\* This thread has taken a start and not yet the command that ends it.
Started == IF mic = <<>> THEN ptt # "idle" ELSE Head(mic) # "start"

FreshBuffer == buffer' = {}

\* Building or resuming the unit may fail; a faulted unit is rebuilt.
MicStart ==
    /\ Ordered("start")
    /\ FreshBuffer
    /\ \/ unit' = "running" /\ gate' = TRUE
       \/ unit' = "none"    /\ gate' = FALSE
    /\ OnlyCapture /\ UNCHANGED <<leaked, wav>>

\* pause(), and dropping the unit when it fails: a running one leaks.
Pauses ==
    \/ /\ unit' = IF unit = "running" THEN "paused" ELSE unit
       /\ UNCHANGED leaked
    \/ /\ unit \in {"running", "faulted"}
       /\ unit' = "none"
       /\ leaked' = (leaked \/ unit = "running")

\* Sound has an event name of its own for the demo: the flag is read once more.
SoundListener == Listener

MicStop ==
    /\ Ordered("stop")
    /\ gate' = FALSE /\ Pauses
    /\ IF buffer = {} THEN UNCHANGED wav
       ELSE wav' = [takes |-> buffer, of |-> Take, to |-> SoundListener]
    /\ OnlyCapture /\ UNCHANGED buffer

MicCancel ==
    /\ Ordered("cancel")
    /\ gate' = FALSE /\ Pauses
    /\ FreshBuffer
    /\ OnlyCapture /\ UNCHANGED wav

\* A callback appends what it hears while the gate is open.
Sound ==
    /\ gate /\ (unit = "running" \/ leaked)
    /\ buffer' = buffer \cup {Take}
    /\ OnlyCapture /\ UNCHANGED <<mic, unit, leaked, gate, wav>>

\* The device goes away: the unit stops rendering and is marked faulted.
DeviceFaults ==
    /\ unit \in {"running", "paused"} /\ unit' = "faulted"
    /\ OnlyCapture /\ UNCHANGED <<mic, leaked, gate, buffer, wav>>

\* A webview has been told of this press and may still be owed its end or its sound.
Owed(p) == owner[p] # Nobody /\ (Take < p \/ (Started /\ p = Take))

\* set_onboarding_ptt, finish_onboarding and replay_onboarding.
SetOnboarding ==
    /\ onboards' = ~onboards
    /\ crossed' = crossed \cup {p \in 1..presses : Owed(p)}
    /\ UNCHANGED <<wasDown, chords, edges, controller, mic, capture, told, presses, owner>>

Controller == \/ StartCapture \/ Release \/ Bounce \/ Ignore
              \/ Promote \/ CommitTap \/ CommitHold
MicThread == MicStart \/ MicStop \/ MicCancel

PttNext == \/ ReadModifiers \/ Controller \/ MicThread
        \/ Sound \/ DeviceFaults \/ SetOnboarding

PttSpec == PttInit /\ [][PttNext]_pttVars

-----------------------------------------------------------------------------
PttTypeOK ==
    /\ wasDown \in BOOLEAN /\ onboards \in BOOLEAN /\ promoted \in BOOLEAN
    /\ edges \in Seq([down : BOOLEAN, age : 0..MaxLag])
    /\ ptt \in {"idle", "recording", "releasing"}
    /\ chords \in 0..MaxChords /\ age \in 0..Longest /\ rest \in Nat /\ held \in Nat
    /\ mic \in Seq({"start", "stop", "cancel"})
    /\ unit \in {"none", "paused", "running", "faulted"}
    /\ leaked \in BOOLEAN /\ gate \in BOOLEAN
    /\ buffer \subseteq 1..MaxChords
    /\ told \in [Webviews -> 0..MaxChords] /\ crossed \subseteq 1..presses
    /\ presses \in 0..chords
    /\ owner \in [1..MaxChords -> Webviews \cup {Nobody}]
    /\ wav \in [takes : SUBSET (1..MaxChords), of : 0..MaxChords, to : Webviews \cup {Nobody}]

\* Between presses nothing records: the gate is shut and the unit in use does not
\* render, also when it could not be paused; and what a press sends is its own sound,
\* whatever earlier presses, cancelled takes or leaked units left ("nothing from a
\* prior press can bleed in", audio.rs:256-289).
MicIsDark ==
    /\ ptt = "idle" /\ mic = <<>> => ~gate /\ unit # "running"
    /\ wav.takes \subseteq {wav.of}

\* A press that was shown as listening is sent: it is never taken for a tap and
\* thrown away, whatever bounces and however late the controller runs
\* (input.rs:277, 329-334, 403-427).
ListenedIsSent ==
    [][ptt # "idle" /\ ptt' = "idle" /\ mic' = Append(mic, "cancel") => ~promoted]_pttVars

\* The edges and the sound of a press all go to one webview, the one that was told
\* it began (input.rs:32-34).  A flag that changes spoils only the presses a webview is
\* still owed the end or the sound of, however late the controller and the microphone
\* thread run: a webview is left listening by no other press, and the next press that
\* is its own releases it.
PressStaysWithOwner ==
    /\ wav.of \in (1..MaxChords) \ crossed => wav.to = owner[wav.of]
    /\ \A w \in Webviews : told[w] # 0 =>
          /\ owner[told[w]] = w
          /\ \A p \in 1..presses : told[w] < p => owner[p] # w
          /\ told[w] \notin crossed => ptt # "idle" /\ promoted /\ told[w] = presses

=============================================================================

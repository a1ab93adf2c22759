# Kairo in TLA+

Kairo is a desktop tutor for macOS: a Tauri application (Rust, with React
webviews) that listens while the user holds a key chord, looks at the screen,
speaks an answer and points at things, and a Fastify + PostgreSQL backend that
meters, bills and proxies the providers. These modules model the parts of it in
which several actors share state: requests and webhooks on the backend's rows and
its pool, turns, clips and pointers on the notch's refs, the pet and the overlay
behind it, threads on the microphone, browser tabs and native tasks on a sign-in,
relaunches and late answers on the first run, saves and polls on the settings.

Everything is translated from the code under `src/`. Paths below drop that first
directory: `server/src/…` is the backend, `src-tauri/src/…` the native shell,
`src/…` the webviews. `PROJECT.json` maps each definition to its lines.

## 1. The system

| Component | State it keeps | Operations | Talks to |
|---|---|---|---|
| Metering (`server/src/usage`, `plugins/require-credits`, `proxy/llm`, `proxy/stream`) | `usage_counter`, `usage_event` | pre-handler, reserve, refund, two vision routes | desktop (HTTP), providers, billing (re-check), PostgreSQL |
| Request gate (`plugins/auth-verify`, `auth/jwks`, `plugins/account-limits`, `lib/budget`) | the cached key set and its reload, `rate_counter`, time of the last sweep | verify, burst, daily window, sweep | every paid route, the pool |
| Database pool (`server/src/db`) | clients out, queue | check out, wait, hand over | every statement |
| Billing (`server/src/billing`) | `subscription`, `webhook_event`, `checkout_session_map`, the cached `plan` | webhook, reconcile, checkout, sync, portal | Dodo (webhooks in, calls out), metering (reads the row) |
| Backend sign-in (`auth`, `access`) | `oauth_code`, sessions, invites | start, callback, exchange | Google, desktop |
| Voice preferences (`proxy/speech`, `speech`) | `user_preference`, the catalogue's cache | read, patch, list, preview, synthesize | providers, settings |
| Desktop sign-in (`src-tauri/src/auth.rs`) | pending state file, session file, cached JWT | start, callback, exchange, sign out, fetch JWT | browser, backend |
| Push-to-talk (`input.rs`, `audio.rs`) | `PttState`, the input unit, gate and buffer, `ONBOARDING_PTT` | poll, controller, microphone thread | notch and onboarding webviews (events) |
| Tutor turn (`tutor.rs`, `grounding`) | none between turns | streamed request, buffered fallback | backend, notch (channel) |
| Notch (`src/notch/NotchApp.tsx`) | the turn's controller, submit/settled/recording refs, capsule, overlay | hold, typed submit, click turn, dismiss, idle close | every other desktop part |
| Pointer watch (`src/notch/pointerWatch.ts`) | pending pointer, token, poll and idle timers | setPending, click, clear | notch, screen capture |
| Playback (`useTTSPlayback`, `streamingTts`, `clipPrewarm`) | clips, the warm clip and its turn token, filler and narration promises, epoch | stop, play steps, prefetch, filler, acknowledgement | notch, native speech (stream) |
| Pet (`src/cursor/useCursorEngine.ts`) | mode, effect, armed arrival, visibility, beats, frame loop | fifteen event listeners, frames, timers | notch, onboarding (events) |
| Overlay (`src-tauri/src/lib.rs`, `src/overlay`) | the stored payload, the panel, the webview's payload, the trail's layer | show, hide, delayed order-out, deliver, draw | notch (commands), native side (events) |
| First run (`src/onboarding`, `src-tauri/src/onboarding.rs`, `permissions.rs`) | act and beat, drill flags, advance timer; on disk the marker, `onboarded`, the name | resume, six acts, practice turns, polls, finish, replay | push-to-talk, sign-in, backend |
| Settings (`src/settings`, `updater.rs`) | chosen and shown voice, account and plan, the update row | save, preview, refresh, billing poll, check, install | backend, updater, sign-in events |

What is hard in it:

* **Statements interleave.** A metered turn is up to a dozen SQL statements with
  provider calls between them. Other turns, webhooks and the clock step in
  between; the process may die anywhere. Only single statements are atomic.
* **The pool is small.** `reserve` needs two clients at once, and the statements of
  the gate queue for the same clients.
* **Windows have edges.** A call is counted at one moment, issued at another and
  swept by a third clock; keys rotate while a reload is shared.
* **Webhooks** arrive late, twice, in any order, or not at all, and race the
  backend's own reconciliation.
* **Turns supersede one another.** Every `await` of a turn may resume after the
  user has started the next. An `AbortSignal` helps only where it is read.
* **Timers and polls outlive what they were set for** (pointer watch, idle close,
  gesture fade, order-out, billing poll).
* **Speech queues behind speech** through promises that are stored in refs and
  overwritten; each clip is a stream that may end early, fail or fall back, and one
  clip may have been warmed by another turn.
* **The surfaces are driven blind.** The notch emits events and calls commands;
  the pet, the panel and the overlay's webview follow at their own pace.
* **Sign-in crosses three programs.** A browser with its cookies, a backend with
  one-time codes and an app with files and tasks; links are opened late and twice,
  and a token that was asked for before a sign-out arrives after it.
* **The first run is interrupted by design.** macOS quits the app once Screen
  Recording is granted; what React knew is gone and one marker on disk is left.
* **Settings answer out of order.** Nothing orders two refreshes, two saves or a
  save and a catalogue.
* **Four threads** share a press: the poller, the controller, the microphone
  thread and the audio callback; three of them read a flag that says whose press
  it is.

The correctness properties per component are those of section 4; `PROJECT.json`
lists the hazards line by line, with the property that covers each.

## 2. Modules

| Module | Models | Composes |
|---|---|---|
| `Metering` | the metered turn, from the pre-handler to the refund, and the desktop's fallback | instance of `CreditAccount` as its abstraction |
| `CreditAccount` | what the routes promise of one account's free credits | |
| `ReservePool` | pooled clients under `reserve` and plain reads | |
| `RequestGate` | keys, burst and daily window, sweep: what a request passes before its reserve | extends `ReservePool`, whose readers are its statements |
| `Billing` | Dodo's subscriptions, webhooks, reconciliation, checkout | |
| `NotchTurns` | the turn machine of the notch | sees clips and pointer watch from outside |
| `PointerWatch` | `createPointerWatch` | what `NotchTurns` calls `watched` |
| `Narration` | lines, fillers, acknowledgements and the promises they queue behind | what `NotchTurns` calls speaking |
| `Speech` | the clips of a line: streams, fallback, prefetch, the warm clip | extends `Narration` |
| `PushToTalk` | poller, controller, microphone thread, owner flag | produces the holds of `NotchTurns` |
| `Session` | sign-in across browser, backend and desktop, and the JWT of a call | |
| `Onboarding` | the acts of the first run, relaunch and replay | takes sign-in and a hold as single steps |
| `Pet` | the cursor's engine as operators from event to state | |
| `OverlayPanel` | the native panel, the overlay's webview and the trail, likewise | |
| `Surfaces` | a hold and a turn's reveals over both | extends `Pet` and `OverlayPanel` |
| `VoiceSettings` | the voice picker against the preference routes | |
| `AccountPage` | the account section against sign-in and billing | |
| `UpdateRow` | the update row against the updater | |
| `MeteringProofs`, `BillingProofs`, `SessionProofs`, `SpeechProofs`, `SurfacesProofs` | theorems about the module they are named after | extend it |
| `RequestGateProofs` | theorems about `ReservePool` and `RequestGate` | extends both |
| `DesktopProofs` | theorems about `PointerWatch`, `NotchTurns`, `PushToTalk` and `Onboarding`, a section each | extends the four, which share no state |
| `SettingsProofs` | theorems about the three settings modules | extends them |
| `MC…` | the model values and worlds of the configurations; `MCSettings` puts the three settings sections side by side | |

### Metering

One account; rows of others are never touched. A request is a pair of a question
and a route. `pc` names the statement it is about to run; one action is one
statement (a transaction takes effect at its commit) or the end of a provider
call. `snapshot` is the subscription `requireCredits` read and shares between
its two checks. `charge`, `returned`, `proAtReserve` and `proAtRefund` are
history: what a request's reserve and refund did. `reply` is what the desktop
knows; `MayAsk` is the fallback rule of `tutor.rs`: the buffered route is asked
after a stream that yielded nothing usable, not after a refusal. `GiveUp` is the
client's timeout, `StatementFails` a failing statement, `Crash` the end of the
process. The subscription row is abstracted to what the code asks of it (`pro`,
`lapsed`, `free`) and moves by a webhook, a reconcile or time. `slotTaken` is the
re-check cooldown. `Drifted` says that some refund heard another answer to "is
this account Pro?" than its reserve had: the code asks twice, and what it
guarantees about the credits it guarantees up to that.

### ReservePool

`phase` is where each request is; a client is held from the moment it is granted
until it is handed over; `queue` is the pool's first-in first-out list. A
`reserve` holds one client through its transaction and asks for a second one for
the nested read; a plain reader needs one.

### RequestGate

`at` is where a request is: the keys, the burst statement, the daily statement, and
then `ReservePool`'s reserve. Each statement is a reader of the pool, so it waits for
a client like any other. `known` is the key set in memory, `inflight` the reload its
callers share and what it read, `Rotate` a new signing key. `hits` are the rows of
the windows; `through` counts what the window of a kind that is now open has let through,
`unseen` those of its calls whose statement failed: `consumeDetailed` fails open, so
they pass, and the row may or may not have been written. `stamp` is the moment a call read
the clock, which names its window, so a call can be counted after its window closed.
`Sweep` deletes rows by the database's clock. A tick is the longest a
statement takes (`Prompt`): without such a bound none on the allowance could be stated
at all. The run shortens the windows to one tick and two, so that both end within it.

### Billing

`provider` is Dodo's truth, `outbox` the events it still delivers (each any
number of times), `row` the local record, `plan` the cached column. A webhook
transaction is two steps, the read of `last_event_at` (`BeginWebhook`) and the
upsert (`CommitWebhook`), as READ COMMITTED allows. A reconciling request asks,
receives, stamps the time of receipt and writes. `world` fixes, in the initial
state, what the surroundings of this behaviour may do.

### NotchTurns

JavaScript runs one handler at a time: an action is the code between two awaits.
Turns are numbered in the order they start; `current` is the turn whose
controller `turnAbortRef` holds, `aborted` those whose signal is aborted. The
guards are where the code reads the signal, and nowhere else. `hold` is the
sequence of native events of a push-to-talk hold. `overlay` and `notch` say whose
visuals are shown. The user may re-engage at every await, also where the code does not
read the signal afterwards: a turn superseded while it takes its screenshot still puts
up its thinking capsule (`orphaned`), and one superseded while it draws its pointer
still places it, or tears down what is there by then (`torn`, which is history).

### PointerWatch

`token` is the watch in force. Superseded watches keep their loop (`poll[t]`) and
their timer (`idle[t]`) until these notice; `Current(t)` is the check the code
makes after each await. `drawn` numbers the pointers, `of` the pointer a captured
frame was taken for.

### Narration

A promise is named after the turn that made it; `opened` and `resolved` are the
promises that are resolved; `opener` and `ender` are the resolver refs, which a
later promise overwrites. `line` and `ack` say where each answer and each
acknowledgement is. `EndedTooSoon(t)` is the one way in which a line may cut another
off: the line it waits for is a click turn's, whose promise was resolved by the end of an
earlier one while it speaks itself.

### Speech

`clips[t][i]` is the clip of step `i` of turn `t`: `net` is what its stream did,
`play` what the listener hears, `from` the turn that synthesized it. `warm` is the
one slot of `clipPrewarm`, `token` its `activeTurn`. A step says one of two
sentences, so that steps of different turns can say the same; the first step may be
announced before the answer arrives or after its turn timed out. A stream ends with
an end or an error (`src-tauri/src/speech.rs`), and may end before it played.
`LongTurns` names the turns that may have more than one step, which bounds the
states and nothing else.

### PushToTalk

A tick is one poll of the modifiers; instants are kept as ages. The controller
may wake up to `MaxLag` ticks late, so an edge and its deadline can be found in
either order. `mic` is the command channel. `buffer` holds the takes that left
sound in it, `wav` the last recording sent: the takes in it, the press it is the
recording of, and the webview it went to. `told` is the press each webview was last told
is being recorded, `owner` the webview that saw a press begin. The onboarding flag
changes at any moment, and each of its readers reads it for itself; `crossed` remembers
the presses of which a webview was still owed the end or the sound when it changed. A
unit that cannot be paused is dropped while it runs (`leaked`), and its callbacks go on.

### Session

An attempt is a browser tab with the state written for it; `pending` is the one
in the pending file, `age` how old its stamp is. `jar` is the browser's cookie
jar: one desktop state, one OAuth state, one signed-in user, whichever tab asks.
`links` are the deep links a success page can open, each any number of times.
`exchange[e]` is one call of `exchange_code` with the three statements of its
route; the session it buys is named after it. `stored` is the session file,
`cache` the cached JWT named after the session it was minted from, `call` a
caller of `fetch_jwt` between its request and its answer. `store_session` and
`clear_session` are two steps each, in the order of the code. `late`, `crossed`
and `struck` are history. `heard` says whether the process that asked still runs.

### Onboarding

`page.act` is the React state, `page.shown` the act that is mounted: an answer
may advance the one before the other follows. `Commit` is the render with the
effects of the act that unmounts and of the one that mounts. A `take` is one
recording and the turn that answers it; nothing asks whether an earlier one is
still being answered. `perm.seen` is what the status reports of Screen Recording,
which macOS may hold back until the relaunch. `disk` survives `Relaunch`; `page`,
`front`, `drill`, `beats` and the takes do not. `hist` is history: the stages gone
through, the act last shown, and whether recordings crossed or the intro was
replayed over an open window.

### Pet, OverlayPanel and Surfaces

In `Pet` and `OverlayPanel` a listener or command is an operator from the state before
it to the state after it, so that one step of the notch can send several events.
`Surfaces` adds the notch's side: `ptt:recording` and what it sets going, turns of a
few steps, and `reveals`, the steps whose visuals await the active app or the pet's
approach. A reveal reads no abort signal, so it may go on under the next turn. In
`pet`, `armed` is the arrival a reveal waits for, `raf` a requested frame; in
`overlay`, `events` are emitted and not yet delivered, `orderOuts` the sleeping
threads of `hide_overlay`, `layer` the trail's component. No call waits for the webview:
`MaxQueue` and `MaxAsleep` bound how many events may be queued, and how many threads
asleep, when the notch goes on. `missed` says that the last payload event came in between
the webview's read and its subscription. `SlowBounds` opens a window the code leaves open
(section 5).

### VoiceSettings, AccountPage and UpdateRow

`row` is the stored preference, `prefs` what the picker shows, a save a request with the
four steps of its handler; the desktop gives up on it after `VOICE_TIMEOUT` while the
handler goes on. `cache` is the catalogue's cache, `live` what the provider has. In
`AccountPage` a refresh asks who is signed in and then for `/v1/me`; `behind` are the
parts of the page the latest refresh has not set, or not last. A poll reconciles at most
`Attempts` times. To the backend the user is whoever the JWT of the call names:
`jwtCache` is the cached one, `jwt` the one each call holds or mints, and `late` says
that one of an earlier session was cached since the session changed (`Session` has the
files and steps of this). In `UpdateRow`, `state` is the row that is `shown`, `checks`
and `installs` its calls under way. A sign-out takes the row away; its downloads go on
as `strays` and answer nobody, which the next row hears only as progress, and `unheard`
says that one of them failed under it. Each has a world of its own; `MCSettings` picks
one per behaviour.

## 3. Runs

| Run | Instance | States | Asks |
|---|---|---|---|
| `metering` | one credit, one tutorial turn; a streamed question with its fallback and two disturbances, or with a second question | 100 k | budgets and ledgers under every interleaving; a failed turn is returned; implements `CreditAccount` |
| `request_gate` | two requests, three clients, two keys, one failed statement, two windows of each kind | 609 k | allowances hold but for failed statements, a rotation heals, every request is answered |
| `billing` | one subscription or two, one reconciling caller, up to seven instants, four worlds | 3.9 M | the record follows the provider |
| `notch_turns` | three turns, three holds | 238 k | pointer and idle close stay with the current turn |
| `pointer_watch` | two screens, four watches, idle window three polls | 315 k | clicks, fades and verdicts belong to the pending pointer |
| `speech` | three turns, up to two of them clicks, up to three steps each | 187 k | no old clip, no cut but of one line that counts as ended, no stale line; every line ends |
| `push_to_talk` | three chords, lag one; a flag that changes and pauses that fail at any moment | 3.2 M | a press is one take, for one owner |
| `session` | two users, two tabs, two codes, two exchanges, one incident; both policies | 1.3 M | only the latest attempt signs in; codes and the JWT keep their meaning |
| `onboarding` | four recordings, two polls in flight, three relaunches, replays or failures | 286 k | every stage, in order, over relaunches |
| `surfaces` | two holds, a turn of two steps, two beats, one other stir; queues of two events, two sleeping order-outs | 800 k | what is stored is shown; arrivals, boxes and the trail come to their end |
| `settings` | two saves of two engines; a refresh beside a poll, two accounts; two checks and downloads | 819 k | the page comes to rest on what is stored, signed in and paid for |
| `reserve_gridlock` | two reserves, two clients | | violated: a cycle of reserves |

**Why the bounds are enough.** The interesting case of metering is a race for the last
unit of a budget; limits of one make every unit the last one, a retry of the same
question and a second question are the two ways to race, and two disturbances let the
subscription change and a refund fail between any two statements. The configuration's
constraint `RacesByTwo` keeps the two ways apart: asking and disturbing carry no
fairness, so it only leaves behaviours out, and `MeteringProofs` covers all of them for
safety. With one client to spare, three clients show both an exhausted pool and the
spare one; two requests are the fewest that share a reload or a window. Seven instants
with a period of two and a grace of one let a subscription start, renew, be cancelled
and lapse, and let an event arrive after two later ones; two of the worlds let a second
subscription be created beside the first, so that events of both cross and the record
changes the one it names. Three turns allow a turn that supersedes another that
supersedes a third; three holds are one for each, or one that leads to none. Four
watches leave three superseded ones in flight. Three turns of speech are one whose clip
is late, one that says the same, and one that supersedes it; three steps let the
prefetch window slide, and two clicks overwrite the promise of a line that is waited
for. Three chords are a press, its bounce and the next press. Two tabs are an attempt
and the one that replaces it; two exchanges are one link accepted twice, or two links.
The pending state lasts longer than a code, as in the code (ten minutes and one); one
incident is a restart, a clock set back, a changed invite, a lost reply or a failed
unlink at any point. Users are interchangeable in `Session`, so the run uses their
symmetry. Four recordings are one for the drill, one for each beat and one too many;
three incidents are two relaunches and a failure between them. Two holds around one turn
are an earlier trail, an earlier order-out and the reveal they meet; two queued events
are a show and the hide after it, and a hold's release adds a third. The constraint
`StirsApart` leaves out the behaviours in which the pet is stirred amid both holds and a
turn, and those in which more than one hold or turn begins before the webview has
subscribed: neither carries fairness, and `SurfacesProofs` covers all of them for
safety. In the settings, two of everything are the pair that can overtake each other,
and one attempt fewer may fail than a poll has.

**Fairness.** `Metering`: an event loop runs every continuation whose statement
returned, provider calls are bounded by timeouts, and so is the desktop's patience.
`RequestGate`: the event loop resumes whoever has been given a client, and
statements return. `NotchTurns`: awaited promises settle, clips end or their fallback
timers fire, native events are delivered, a key that is held is let go.
`PointerWatch`: time passes and the idle timer that is due fires; nothing is assumed
of the captures, which may fail for ever. `Speech`: a stream ends with an end or an
error, which the native side guarantees, an element that plays comes to its end, and
promises resume their waiters. `Surfaces`: emitted events are delivered, the order-out
and the hide timer fire, the display's bounds are answered, ink fades; nothing is
assumed of the pet, of the reveals or of a listener's registration, which may never
come. `AccountPage`: requests are answered or fail, and a poll goes on after its pause.
No fairness is assumed of any other act of the user. `PushToTalk`, `Billing`,
`Session`, `Onboarding`, `VoiceSettings` and `UpdateRow` are checked for safety alone:
a sign-in whose exchange fails is only logged (`auth.rs:248-260`), so nothing makes
it end.

**Deadlock** is checked in `pointer_watch` and `push_to_talk`, which never stop.
Elsewhere requests end or turns are used up, and the configuration says so.

## 4. What the properties say

* *Metering.* `WithinBudgets`: neither ceiling is passed. `TutorialLedger`,
  `CreditLedger`: the counters are exactly the charges not returned (for credits:
  unless a refund and its reserve disagreed). `FailedTurnIsReturned`: under fairness a
  failed turn gives its unit back. `ImplementsCreditAccount`: refinement.
* *RequestGate.* `AllowanceIsKept`: no open window lets more through than its maximum,
  whatever is late or swept, and one call for each of its own statements that failed: a
  failure costs one call and never the row. `RotationHeals`: a new key is refused no
  longer than a cooldown. `RequestsAreAnswered`: every request ends, reserves included,
  while they leave one client to spare.
* *ReservePool.* `ReserveReturns`: every reserve ends; it does not when there are as
  many as clients.
* *Billing.* `SerialEventsMonotone`: transactions that do not overlap never let
  the record go back. `QuietRecordIsTrue`: once all webhooks have arrived the
  record says of one of the account's subscriptions what Dodo says, if webhooks alone
  wrote it. `AccessIsPaidFor`: nobody is Pro beyond the grace of a period paid for.
  `NoSecondCheckout`: a checkout that found the account's only subscription live creates
  no session while it lives.
* *NotchTurns.* `PointerIsCurrent`: the pointer that is watched is the current turn's,
  and it can be clicked unless it was cleared or torn down under way (`torn`).
  `IdleCloseSparesTurns`: the idle close never meets a turn the user waits for.
  `ThinkingEnds`: the thinking capsule ends, whatever superseded what; the one that a
  superseded turn puts up ends if a turn is under way that has yet to answer.
* *PointerWatch.* `HandedOnce`: a step runs once, by click or by fade.
  `VerdictsAreFresh`: a verdict judged a frame of the pointer it moves. `WatchEnds`:
  no watch waits for ever.
* *Speech.* `NoOldAudio`: no line holds a clip of an earlier turn, although sentences
  repeat and streams are late. `AnswerNeverCuts`, `StaleNeverSpeaks` (of `Narration`,
  over clips): an answer waits its turn, but for `EndedTooSoon`, and a
  superseded one stays silent. `LinesEnd`:
  every queued line ends, however its streams fail.
* *PushToTalk.* `MicIsDark`: between presses the gate is shut and the unit in use does not
  run, and what a press sends is its own sound, leaked units or not.
  `PressStaysWithOwner`: a press the flag did not cross is shown and delivered in one
  window, and no window is left listening but by a crossed one, until its next press.
  `ListenedIsSent`: what was shown as listening is sent, or the device failed.
* *Session.* `AcceptsOnlyTheLatest`: whichever tab comes back, and however late,
  a code is taken only for the latest attempt while its state is good.
  `CodeBuysOneSession`: one code, one session, though its link can be accepted
  twice. `CachedJwtIsCurrent`: the cached JWT is of the session on disk, except one
  that was on its way while the session changed.
* *Onboarding.* `ActsInOrder`: no stage is left out over relaunches and repeated
  answers, unless recordings crossed. `ResumesWhereItStopped`: a relaunch comes back
  to the act it left, also from the second beat, which writes a marker of its own.
* *Surfaces.* `PayloadIsOnScreen`: what is stored is on a panel that is ordered in.
  `OverlayCatchesUp`: a subscribed webview with no event under way shows what is stored,
  unless it missed the last event while it subscribed. `ArmedArrivalHasTarget`: an armed
  arrival has a target and a frame that will tell it. `KeptBoxesStay`: reveals that
  cross lose no box. `TrailEnds`: the trail's loop ends after the hold, by its own or by
  the hide timer.
* *Settings.* `SpeaksItsEngine`: no voice reaches the engine that does not have it.
  `ShownIsStored`: an idle picker shows the stored voice. `QuietPageIsTrue`: the page
  rests on the account that is signed in, but for overtaken replies and late JWTs.
  `PaidIsShown`: a settled payment reaches the page. `RowHasItsCall`: the row waits only
  for a call that is under way, or for a download of an earlier row that failed unheard.

Each module keeps one type invariant, which the proofs use; TLC has checked them in
every run's instance, and the runs spend their time on the others. A few more
invariants are proved and have no run of their own (section 6).

Each module defines, before its actions, a few slips the code could have had
(`…OffByOne`, `…Forgotten`); `PROJECT.json` pairs each property with the slip
that breaks it.

## 5. Where the code and its comments differ

One has a run (section 3): `ReserveReturns` with as many reserves as clients. The
next group can be reproduced with a configuration of the module that names the
property and the constants given here:

* `LastEventMonotone` (`MCBilling`, `Worlds <- RacingAlone`): `applyDodoStateWith`
  reads `last_event_at` and upserts unconditionally afterwards
  (`billing/service.ts:75`), so of two overlapping webhooks the stale one can win,
  which `server/tests/billing.test.ts:79` rules out.
* `FallbackNotRefused` (`MCMetering`, one streamed question, one credit): the
  buffered fallback reaches the paywall before the dead stream has returned the
  credit and is refused, against `proxy/llm.ts:105-107`.
* `StaleTurnPaintsNothing` (`MCNotchTurns`, two turns): a
  turn superseded while it awaits its screenshot still submits
  (`NotchApp.tsx:1343`), against `NotchApp.tsx:306-308`.
* `JwtMatchesSession` (`MCSession`): `fetch_jwt` stores its answer without looking
  at the session again (`auth.rs:344`), so a token asked for before a sign-out or a
  new sign-in serves the calls after it; `auth.rs:52-59` calls that
  unrepresentable. Also, `auth.rs:159-161` says single use is still enforced when
  the pending file cannot be removed: the next callback of the same attempt is
  accepted again (the code is what stays single-use).
* `NoActSkipped` (`MCOnboarding`): a second hold while the first is being answered
  advances a second time, past Permissions or Source (`Act3Hearing.tsx:154`,
  `OnboardingFlow.tsx:111`).
* `ReplayKeepsChord` (`MCOnboarding`): `replay_onboarding` is "safe to call while
  already onboarding" (`onboarding.rs:325`) but takes the chord from the open
  drill.
* `RefundsExactlyTheCharge` (`Metering`, one disturbance): `refund` decides by the
  entitlement of that moment (`usage/service.ts:165`), so a subscription that
  moves in between makes it refund another amount than "exactly what `reserve`
  charged" (160).
* `OneCreditPerQuestion` (`Metering`): each route mints its own ask id
  (`proxy/llm.ts:71,115`), while `tutor.rs:372` says one id per ask makes one
  metered unit.
* `QuietRecordIsTrue` without its `~world.calls`: a reconciliation is stamped
  with the time of its receipt (`billing/routes.ts:65`) and can outrank a newer
  event.
* `AccessIsPaidFor` without its `~world.payments`: `payment.succeeded` writes
  `active` with no period end (`billing/webhook.ts:112`), which entitles until
  another event names one, against `billing/service.ts:36`.
* `NoSecondCheckout` without its exception for a second subscription: the record may
  name the other one, which is over, and the checkout sells a third.
* `UpgradeCloses` (`NotchTurns`): the upgrade line only notes activity when it
  ends (`NotchApp.tsx:1270`), and the idle close waits for `answerSettledRef`.
* `StaleTurnSparesMarks`, `DismissedHasNoPointer` (`NotchTurns`):
  visuals of a superseded turn are placed after the marks or the dismissal.
* `NameIsKept` (`MCOnboarding`): the name is kept in React state until the last act
  saves it (`Act7Ending.tsx:34`), so a relaunch in between ends with the account named
  "there".
* `TrailEnds` with `SlowBounds`: bounds that come in after the hide timer show the
  trail's layer after the hold (`NotchApp.tsx:1028-1034`), and nothing hides it until
  the next payload.

The next group are what the properties of the runs except, each by history the module
keeps. Taking the exception out of the property shows the behaviour:

* `ThinkingEnds`, `orphaned`: nothing reads the signal between the screenshot and
  `submitQuery` (`NotchApp.tsx:1343`). A superseded turn sets thinking and
  `isSubmittingRef` (656-663), returns at 700, and its `finally` (777) leaves both to
  the turn that superseded it. If that one is over, or was a hold that recorded nothing,
  the capsule thinks on, and the idle close stays blocked, until the user does
  something.
* `PointerIsCurrent`, `torn`: a turn superseded while it hashes its frame hides the
  overlay and disarms the click watch (`NotchApp.tsx:425-433`), also when both are the
  next turn's by then; and a dismissal clears a pointer that is armed a moment later.
* `AnswerNeverCuts`, `EndedTooSoon`: `narrationDoneRef` and its resolver are two refs
  (`useTTSPlayback.ts:127-137`). A click turn's line opens a new promise while the line
  before it still speaks; the end of that one resolves it, and the next answer begins
  over the click turn's line.
* `PressStaysWithOwner`, `crossed`: promotion, commit and the microphone thread read the
  flag each for itself (`input.rs:363`, 391, `audio.rs:393`), so a press during which the
  onboarding begins or ends is shown in one window and delivered to the other, and the
  first is left listening. `input.rs:32-34` has one owner in mind.
* `MicIsDark`: that a unit which cannot be paused goes dark. It is dropped while it runs,
  which `audio.rs:256-263` says leaks a live callback and a lit indicator; the property
  says what holds of it nonetheless.
* `OverlayCatchesUp`, `missed`: the overlay reads the payload and then starts listening
  (`overlayEvents.ts:22-29`); what a hold or a step stores in between is on screen and
  never drawn, and what a hide takes away in between stays drawn.
* `QuietPageIsTrue` and `PaidIsShown`, `late`: a JWT asked for before a sign-out or a new
  sign-in is cached after it (`auth.rs:344`), and `/v1/me` is then asked as the previous
  user: a page at rest shows another user's plan, until the JWT expires.
* `RowHasItsCall`, `unheard`: signing out unmounts the update row
  (`SettingsView.tsx:267-287`) but not its download. After the next sign-in the progress
  puts the new row in "Downloading" (`UpdateSettings.tsx:56-59`); when the download fails,
  the catch (68-72) sets the state of the old one, and the new one has no button left.
* `AllowanceIsKept`, `unseen`: a failed statement lets its call through
  (`budget.ts:88-91`), which the comment there intends: while the database fails, there is
  no allowance.

And these were met while reading, without a property of their own:

* *Pet.* "A thinking swirl while transcription + the answer are computed"
  (`useCursorEngine.ts:589`): the submit releases the pet (`NotchApp.tsx:651`), which
  sets the effect to none. A pen drag under reduced motion puts the box in
  place at once (`useCursorEngine.ts:493`); with the loop parked, its arrival is told
  only after something else wakes it (`stranded`). `showAnnotationOverlay` has no
  caller, so the overlay's annotation mode cannot be reached.
* *Speech.* "Keep at most 2 synths in flight" (`useTTSPlayback.ts:263`): a step that
  starts to play asks for the two after it while its own stream still arrives. After the
  35 s timeout of a turn its late stream still warms a clip nobody claims. A superseded
  turn that fails drops the newer turn's warm clip, which is then synthesized again.
* *Voices.* "Lands on that engine's default" (`proxy/speech.ts:125-126`) is
  `voices[0]`, and with an empty catalogue the previous engine's voice is stored under
  the new one (`proxy/speech.ts:138`); reading replaces it. While a save is under way a
  preview asks for the optimistic pair and may be refused. Retry's reply may overwrite
  the list of the engine chosen meanwhile (`VoiceSettings.tsx:166`). A save given up by
  the desktop may still be stored (`unsure`).
* *Account.* "Must never show a stale cache" (`SettingsView.tsx:147-148`): an overtaken
  reply can leave an older or another user's account on the page, which is what `behind`
  excepts in `QuietPageIsTrue`. A failed `/v1/me` shows a Pro user the free plan. The
  banner of a browser return survives a change of account.
* *Update row.* An announcement of the background watch, or a Retry, during a download
  offers the button again, and a second download starts.
* *Other settings.* Three overlapping launch-at-login toggles with a failure
  (`SettingsView.tsx:217`), or a toggle crossed by the initial load, leave the switch
  wrong; two name saves may land in the other order.
* *Gate.* `withinDailyBudget` "bounds EVERYONE, together" (`budget.ts:12`) and no route
  calls it. "Can't turn into a DB read per request" (`jwks.ts:16-18`) does not hold
  while reloads fail, since a failed one does not set `loadedAt`. A call that read the
  clock before a window closed and is counted after the sweep starts the closed window
  again from one.

## 6. Proofs

TLAPS proves these for every value of the constants. The assumptions are the named
`ASSUME`s of the modules (finite sets, natural bounds, the windows' lengths) and, for
`FewReservesNeverGridlock` and `GateNeverGridlocks`, fewer reserves than clients. No
theorem assumes that a window the code leaves open stays closed: where the code does not
keep a property throughout, the property itself excepts the behaviours in question, by
history or by what is in sight (section 5), and the theorem says what is kept in all
others.

Hardly a property below is inductive; each bullet says with what it becomes so.

* **`MeteringProofs`.** `IInv` joins `TypeOK`, the ledgers and `StepFacts`: what a
  request's program counter says about its own history. The ledgers alone are not
  inductive: that a refund finds a charge not yet returned, and that an answered
  request never refunds, is in `StepFacts`; that a re-check in flight means a
  taken slot is in `SlotFacts`. Each action preserves `IInv`; the cardinality
  steps rest on `AsksFinite` and the library's facts about finite sets. Theorems:
  `TypeCorrect`, `BudgetsHold`, `TutorialLedgerHolds`, `CreditLedgerHolds`,
  `FreeAnswersAreBounded`, `OneRecheck`, and `AccountImplemented`: every step is,
  through the mapping, a step of `CreditAccount`, a stutter, or one after a
  disagreement.
* **`BillingProofs`.** `IInv` carries what has been said: whatever event, answer or record
  speaks of a subscription, it says something Dodo once said (`AllSaid`), so a
  cancellation seen anywhere is for good and no period end exceeds the paid one
  (`AccessExpires`). For `RecordCatchesUp`, `LastWord` says that the newest thing Dodo
  said, of whichever subscription, is on record or on its way, and that nothing else on
  its way bears a later time; it is kept through the change of the subscription the
  record names. `Serial` says that whoever is about to write has read the last record
  (`NoEventGoesBack`), `CheckoutSees` that a checkout that saw a live subscription finds
  one on record when it decides (`CheckoutSellsOnce`). The lemmas go by who moves: Dodo,
  a delivery, a caller, time.
* **`RequestGateProofs`.** *The pool.* `IInv` adds that the queue lists each waiting
  request once and that readers never enter a transaction. `PoolIsNeverOversubscribed`
  and `FewReservesNeverGridlock` follow: if everybody who holds a client waits, the
  holders are reserves, as many as clients. *The windows.* `AllowanceIsKept` needs to know
  why a row that is gone cannot be counted into again: `WInv` says that the row of an
  open window holds at least the calls it has let through, but for those whose statement
  failed, that a statement under way is at most a tick old, and that only closed
  windows are swept (`WindowsStep`, `AllowancesHold`). `GateUsesThePool`: every step of
  the gate is a step of `ReservePool` or a stutter, so what is proved of the pool holds
  under the gate, and so does `GateNeverGridlocks`. *The keys.* `RotationAlwaysHeals`
  rests on two bounds of staleness: a reload in flight belongs to one caller's statement,
  at most a tick old, and can have missed only keys added after it was issued
  (`LoadIsFresh`); therefore a key the cached set lacks was added at most a tick before
  the set was loaded (`SetIsFresh`).
* **`SessionProofs`.** `CodesOut` and
  `OneBuyer` say that an exchange past the `UPDATE` used its code up alone, so no
  second one gets past it (`OneSessionPerCode`). `StruckFacts` keeps the owner of
  a struck code off the list until the second look, and a used code is never
  struck again (`RevokedInviteBuysNothing`). `JwtFacts` says that a call no change
  has crossed asks for the stored session, and that only a late JWT can be cached
  while signing out (`CacheHoldsCurrentJwt`). `AttemptFacts` makes the pending
  state the last attempt's, so `consume_pending_auth_state_at` accepts no other
  (`OnlyLatestAccepted`). Records are named (`Posts`, `CodeRows`, `Jwts`) and
  `AdvanceTyped`, `CrossedTyped` say once what a step does to one of them.
* **`SpeechProofs`.** *Clips.* `NoOldAudio` rests on a chain: only the newest turn is
  current and unaborted, the token is that of the last turn that asked, a warm clip bears
  a turn not older than the token, and whoever takes it is the turn of the token
  (`SpeechSteps`, `NoOldClipIsHeld`). *Lines.* `SpeechRefinesNarration` says that what
  `Speech` adds leaves the queue to `Narration`'s own actions, so the queue is reasoned
  about there. A queued line of an old turn knows that it is stale (`QueueInv`,
  `StaleLinesStaySilent`). That no answer cuts another needs what every promise means to
  whoever waits behind it: lines speak one at a time, a superseded line waits only while
  all is silent, the newest turn's line waits for an opener that has not ended exactly
  while something speaks, and the promise in force is its own, unless it is a click
  turn's that counts as ended (`CutInv`, `LinesWaitTheirTurn`, for any number of clicks).
* **`SurfacesProofs`.** `SInv` says, for every event a step of the notch may send, what
  the pet's listeners keep (an arrival is armed only on the way to a target, with a
  frame asked for) and that the panel is out only if nothing is stored.
  `PayloadStaysOnScreen` and `ArrivalsHaveTargets` follow for any number of holds, turns
  and sleeping order-outs. `PetAlone` says the same of `Pet` under any order of events,
  also those no composition here sends, and that it is in drag mode exactly while a loop
  draws a drag (`DragHasItsPath`). `WebviewCatchesUp`: a live webview shows what is
  stored, or the last event in its queue that will change what it shows brings it
  (`WillShow`), unless it missed one since it read; each command appends what it stores.
  `BoxesAreKept`: among the reveals of one turn that wait for an approach, a later one
  holds the boxes of an earlier one, and all hold the stored ones (`PayloadsGrow`), so
  whichever lands next loses none.
* **`SettingsProofs`.** `RowIsNeverStuck` follows by cases on who writes the row: a
  download is its own, an earlier row's, or one that failed unheard. The page: unless an
  announcement is on its way, the latest refresh was told of the session there is
  (`LatestIsTold`), the cached JWT and those being minted are of that session or of one
  that would make them late (`CacheIsCurrent`, `JwtBelongs`), so it fetched its account
  or nothing, and what it has set is true (`PartsAreTrue`); `RestingPageIsTrue` follows
  for any number of refreshes and polls. The picker: unless a save was given up, only
  the one it waits for is under way (`OneSaveAtATime`), and until that one is written,
  what it would revert to is what is stored (`PreviousIsStored`); `PickerShowsTheRow`
  follows. `EnginesSpeakTheirVoices` follows from the types of catalogue and cache:
  every path ends in a voice of the list of an enabled engine.
* **`DesktopProofs`.** *Pointer watch.* `IInv` adds `TokensToCome` (what has not been
  armed has no loop), `FramesAreFresh` (a frame the current loop holds is of the pending
  pointer) and `TimerIsHonest` (what is left of the timer and what has passed make up the
  window). `ClicksCountWhenShown`, `NothingIsUnwatched`, `NoStepRunsTwice`,
  `VerdictsFresh` and `IdleFadeWaits` follow.
  *Notch turns.* `NotchInv` holds in every behaviour: only the newest turn is not
  aborted, the pointer watched is its and comes of a spoken step, an answer that settled
  is over; `IdleCloseIsLate` follows. A turn superseded while it draws may resume at any
  later moment, so `GuideInv` follows the pointer instead: a queued answer is the newest
  turn's (`QueuedIsCurrent`), and while one is armed and nothing was torn, the pointer
  that is drawn, the one watched and the one the native side listens for are the same
  (`GuideIsArmed`); `ClickRunsCurrentTurn` follows.
  *Push-to-talk.* A press goes through two channels and four threads, and `PttInv` says
  what each holds of it: edges come in order and none is older than the press it ends
  (`EdgesInOrder`, so a press shown as listening was held long enough to be sent:
  `WhatIsListenedIsSent`); presses and edges in the channel are no more than the chords
  (`PressesAreChords`); starts and ends alternate on their way to the microphone, which
  makes a take a count of starts (`CommandsAlternate`, `TakeByCount`); a thread that has
  taken no start keeps the unit dark (`MicRests`), and whatever callbacks append is of the
  take begun last (`TakesAreOwn`; `MicrophoneIsDark`). `PressInv` lets the flag change:
  a press it has not crossed is its owner's wherever it is still owed
  (`OwnersAreCurrent`), its recording went to its owner (`WavIsOwned`), and what a webview
  was told last is its newest press, live or crossed (`TellingsAreTrue`;
  `PressHasOneOwner`).
  *Onboarding.* The marker on disk names the act last shown, and so does a page about to
  show it (`MarkerIsAct`), which is `ProgressSurvivesRelaunch`. For `NoActIsLeftOut`, the
  stages before both the page's act and the one a relaunch would come back to are passed
  (`StagesPassed`), an act is left only when its own end has come (`EachEndsOnce`), and
  one recording at a time is answered, in the act and the beat it was made in
  (`OneTakeAtWork`): without that one, an answer that was passed on advances a second
  time, which is the divergence `NoActSkipped` of section 5.

Proved and without a run: `FreeAnswersBounded` and `OneRecheckPerCooldown`
(`Metering`), `WaitsOnlyWhenExhausted` and `NoGridlock` (`ReservePool`),
`GuardIsWhatIsSeen`, `PendingIsWatched` and `IdleIsIdle` (`PointerWatch`),
`InviteStillNeeded` (`Session`), `DragHasItsPath` (`Pet`), the refinement
`GateUsesThePool`, and the type invariants of `Metering`, `ReservePool`, `Billing`,
`Session`, `PointerWatch`, `NotchTurns`, `PushToTalk`, `Onboarding` and the settings; the
proofs about the other modules carry the types they need in parts of their own.

Only model-checked: the liveness properties `FailedTurnIsReturned`,
`RequestsAreAnswered`, `ThinkingEnds`, `WatchEnds`, `LinesEnd`, `TrailEnds` and
`PaidIsShown`, and the violations of section 5. The prover handles neither liveness
under fairness nor `ENABLED`, nor induction over data (the library's induction theorems
take an operator as a parameter), nor `RECURSIVE` operators; the modules declare none.
Every safety invariant and action property of the passing runs is proved.

## 7. Not modelled

Rendering, animation (cursor springs, capsule morphs), pixels (capture, frame
hashes as numbers), prompt and answer texts, geometry of targets, the segmentation of
strokes, logging, configuration and pure forwarding have no state that other parts
race for, or are out of a model checker's reach. Left out of modelled parts: the wait
of a step that says nothing (900 ms), the scheduling of single audio samples, the
preview route's audio cache, the tray, the forms of the settings that write one value
each, and the coach's voice of the first run (`useCoach`, `useVoice`).
`PROJECT.json` lists every part with its reason.

## 8. Plan

Written, in this order: `Metering`, `ReservePool`, `Billing`, `PointerWatch`,
`NotchTurns`, `Narration`, `PushToTalk`, `Session`, `Onboarding`, `RequestGate`,
`Speech`, `Pet` with `OverlayPanel` and `Surfaces`, the three settings modules; and
proofs about all of them.

Next:

1. Properties: what is left of the hazards that have only a note, above all the beat a
   relaunch resumes at, a payment that settles during the attempts, and a paying account
   healed before it is refused.
2. Refinement: `PointerWatch` and `Narration` as what `NotchTurns` sees of them, and
   `Surfaces` as what it sees of the notch.
3. Checked algorithms: step stream, SSE parser, gesture segmentation, frame-hash
   distance.
4. The context watch of `input.rs`.

----------------------------- MODULE VoiceSettings -----------------------------
(***************************************************************************)
(* How Kairo sounds: the engine and voice an account has chosen, the       *)
(* catalogue they are checked against, and the picker that changes them.   *)
(*                                                                         *)
(*   server/src/proxy/speech.ts        GET and PATCH /v1/preferences       *)
(*   server/src/speech/preferences.ts  readPreferences, writePreferences   *)
(*   server/src/speech/catalog.ts      listVoices and its 6 h cache        *)
(*   src/settings/VoiceSettings.tsx    load, save, preview                 *)
(*                                                                         *)
(* A save is one PATCH.  Its handler reads the stored row, checks the      *)
(* choice against the catalogue, writes, and reads back, with everybody    *)
(* else between two of its steps.  The native side gives up on it after    *)
(* VOICE_TIMEOUT; the handler goes on.  One account, one picker.           *)
(***************************************************************************)
EXTENDS Naturals, FiniteSets

CONSTANTS
    SarvamVoices, SarvamDefault,   \* the curated list
    LabVoices, LabDefault,         \* what ElevenLabs may have in its own
    NoVoice,
    MaxSaves,      \* bound on the saves
    MaxChanges,    \* bound on what changes around them: catalogue, deployment
    MaxFaults      \* bound on failed statements and on saves given up

ASSUME VoicesAssumption ==
    /\ SarvamDefault \in SarvamVoices /\ LabDefault \in LabVoices
    /\ SarvamVoices \cap LabVoices = {} /\ NoVoice \notin SarvamVoices \cup LabVoices
ASSUME BoundsAssumption == {MaxSaves, MaxChanges, MaxFaults} \subseteq Nat

Engines == {"sarvam", "elevenlabs"}
Voices  == SarvamVoices \cup LabVoices
Saves   == 1..MaxSaves
NoSave  == 0

NoChoice == [engine |-> "none", voice |-> NoVoice]   \* no row; an empty patch
NoPatch  == [at |-> "unborn", asked |-> NoChoice, pair |-> NoChoice]
NoList   == {NoVoice}

VARIABLES
    enabled,     \* enabledTtsProviders
    live,        \* the voices ElevenLabs would list now
    cache,       \* elevenLabsCache's voices
    fresh,       \* it is not 6 hours old
    row,         \* user_preference
    patches,     \* the PATCH of each save
    prefs,       \* what the settings show
    previous,    \* what they showed before the save
    saving,      \* the save they wait for
    previewing,  \* the voice being auditioned
    unsure,      \* a save may have been stored unseen, or a deployment changed
    changes, faults

catalogVars == <<live, cache, fresh>>
shownVars   == <<prefs, previous, saving, unsure>>
vars == <<enabled, catalogVars, row, patches, shownVars, previewing, changes, faults>>

Init ==
    /\ enabled = Engines
    /\ live = LabVoices /\ cache = NoList /\ fresh = FALSE
    /\ row = NoChoice
    /\ patches = [s \in Saves |-> NoPatch]
    /\ prefs = NoChoice /\ previous = NoChoice /\ saving = NoSave
    /\ previewing = NoVoice /\ unsure = FALSE
    /\ changes = 0 /\ faults = 0

-----------------------------------------------------------------------------
(* The catalogue.                                                           *)

Listed(ok, voices, c, f) == [ok |-> ok, voices |-> voices, cache |-> c, fresh |-> f]

\* What listVoices may return and leave in the cache c: fetched, or on a failure
\* the stale list, or nothing.
Lists(p, c, f) ==
    IF p = "sarvam" THEN {Listed(TRUE, SarvamVoices, c, f)}
    ELSE IF f THEN {Listed(TRUE, c, c, f)}
    ELSE {Listed(TRUE, live, live, TRUE),
          IF c = NoList THEN Listed(FALSE, {}, c, f) ELSE Listed(TRUE, c, c, f)}

DefaultVoice(p) == IF p = "sarvam" THEN SarvamDefault ELSE LabDefault

\* voices[0]; the live list comes in any order.
Firsts(p, voices) == IF p = "sarvam" THEN {SarvamDefault} ELSE voices

-----------------------------------------------------------------------------
(* Slips this code could have had, for the mutation runs.                   *)

KnownToAnyone(l, v) == TRUE
ShownAsAsked(stored, asked) ==
    [engine |-> IF asked.engine = "none" THEN stored.engine ELSE asked.engine,
     voice  |-> IF asked.voice = NoVoice THEN stored.voice ELSE asked.voice]

-----------------------------------------------------------------------------
(* The preferences.                                                         *)

DefaultEngine == IF "sarvam" \in enabled THEN "sarvam" ELSE "elevenlabs"
ProviderOf(r) == IF r.engine \in enabled THEN r.engine ELSE DefaultEngine

\* isKnownVoice, a failure to list counting as no.
IsKnownVoice(l, v) == l.ok /\ v \in l.voices

\* readPreferences, with the row r and the list l of its provider.
ReadPreferences(r, l) ==
    LET p == ProviderOf(r) IN
    [engine |-> p,
     voice  |-> IF r.engine = p /\ IsKnownVoice(l, r.voice) THEN r.voice ELSE DefaultVoice(p)]

-----------------------------------------------------------------------------
(* Speaking.                                                                *)

\* The voices a vendor knows: sarvamTtsBody's speaker, or the voice of a path.
Knows(p) == IF p = "sarvam" THEN SarvamVoices ELSE LabVoices

\* The vendor that is asked for the choice c, and the voice it is asked for.
StreamTarget(c) == [engine |-> IF c.engine = "elevenlabs" THEN "elevenlabs" ELSE "sarvam",
                    voice  |-> c.voice]
\* The buffered fallback branches the same way.
Buffered(c) == StreamTarget(c)

\* What /v1/tts/stream and /v1/tts may ask of the vendors now.
Stored == {ReadPreferences(row, l) : l \in Lists(ProviderOf(row), cache, fresh)}
Spoken == {StreamTarget(c) : c \in Stored} \cup {Buffered(c) : c \in Stored}

\* What the audition of v may ask of them; unknown to the engine, nothing.
Auditioned(p, v) ==
    IF p \in enabled /\ \E l \in Lists(p, cache, fresh) : IsKnownVoice(l, v)
    THEN {Buffered([engine |-> p, voice |-> v])} ELSE {}

-----------------------------------------------------------------------------
(* The picker.                                                              *)

Keeps(l) == cache' = l.cache /\ fresh' = l.fresh /\ UNCHANGED live

Idle == prefs # NoChoice /\ saving = NoSave

\* The settings load, or fail to and stay without a picker.
Load ==
    /\ prefs = NoChoice
    /\ \E l \in Lists(ProviderOf(row), cache, fresh) :
          prefs' = ReadPreferences(row, l) /\ Keeps(l)
    /\ UNCHANGED <<enabled, row, patches, previous, saving, unsure, previewing, changes, faults>>

\* save: painted at once; the picker is disabled until the reply.
Save(s, asked) ==
    /\ Idle
    /\ \A q \in Saves : (patches[q].at = "unborn") <=> q >= s
    /\ previous' = prefs /\ saving' = s
    /\ prefs' = ShownAsAsked(prefs, asked)
    /\ patches' = [patches EXCEPT ![s] = [NoPatch EXCEPT !.at = "asked", !.asked = asked]]
    /\ UNCHANGED <<enabled, catalogVars, row, unsure, previewing, changes, faults>>

Choices ==
    {[NoChoice EXCEPT !.engine = e] : e \in enabled \ {prefs.engine}}
        \cup {[NoChoice EXCEPT !.voice = v] : v \in Voices \ {prefs.voice}}

\* The server may land on another voice than the one that was asked for.
ShownAfter(stored, asked) == stored

Waits(s) == saving = s

\* The reply to save s, stored or (NoChoice) failed; nobody may be waiting for it.
\* A save that failed once written leaves the picker unsure; a later one settles it.
Reply(s, stored) ==
    /\ patches' = [patches EXCEPT ![s].at = "over"]
    /\ IF ~Waits(s) THEN UNCHANGED shownVars
       ELSE /\ saving' = NoSave
            /\ UNCHANGED previous
            /\ IF stored = NoChoice
               THEN prefs' = previous /\ unsure' = (unsure \/ patches[s].at = "written")
               ELSE /\ prefs' = ShownAfter(stored, patches[s].asked)
                    /\ unsure' = \E q \in Saves \ {s} : patches[q].at \notin {"unborn", "over"}

\* VOICE_TIMEOUT
GiveUp ==
    /\ saving # NoSave /\ faults < MaxFaults
    /\ faults' = faults + 1
    /\ saving' = NoSave /\ prefs' = previous /\ unsure' = TRUE
    /\ UNCHANGED <<enabled, catalogVars, row, patches, previous, previewing, changes>>

-----------------------------------------------------------------------------
(* PATCH /v1/preferences.                                                   *)

Step(s, from, to) == patches[s].at = from /\ patches' = [patches EXCEPT ![s].at = to]

ReadRow(s) ==
    /\ patches[s].at = "asked"
    /\ patches' = [patches EXCEPT ![s].at = "read", ![s].pair = row]
    /\ UNCHANGED <<enabled, catalogVars, row, shownVars, previewing, changes, faults>>

\* What the handler makes of the patch: the pairs it may write, none if it refuses.
Chosen(asked, current, p, l) ==
    IF ~l.ok \/ p \notin enabled THEN {}
    ELSE IF asked.voice # NoVoice
         THEN {[engine |-> p, voice |-> v] : v \in {asked.voice} \cap l.voices}
    ELSE IF p = current.engine \/ l.voices = {} THEN {[current EXCEPT !.engine = p]}
    ELSE {[engine |-> p, voice |-> v] : v \in Firsts(p, l.voices)}

Check(s) ==
    /\ patches[s].at = "read"
    /\ \E l \in Lists(ProviderOf(patches[s].pair), cache, fresh) :
         LET current == ReadPreferences(patches[s].pair, l)
             asked   == patches[s].asked
             p       == IF asked.engine = "none" THEN current.engine ELSE asked.engine
         IN \E k \in Lists(p, l.cache, l.fresh) :
              /\ Keeps(k)
              /\ \/ Chosen(asked, current, p, k) = {} /\ Reply(s, NoChoice)
                 \/ /\ \E c \in Chosen(asked, current, p, k) :
                         patches' = [patches EXCEPT ![s].at = "checked", ![s].pair = c]
                    /\ UNCHANGED shownVars
    /\ UNCHANGED <<enabled, row, previewing, changes, faults>>

\* writePreferences
Write(s) ==
    /\ Step(s, "checked", "written")
    /\ row' = patches[s].pair
    /\ UNCHANGED <<enabled, catalogVars, shownVars, previewing, changes, faults>>

ReadBack(s) ==
    /\ patches[s].at = "written"
    /\ \E l \in Lists(ProviderOf(row), cache, fresh) :
          Keeps(l) /\ Reply(s, ReadPreferences(row, l))
    /\ UNCHANGED <<enabled, row, previewing, changes, faults>>

\* A statement fails: the reply is an error, whatever has been written.
StatementFails(s) ==
    /\ patches[s].at \in {"asked", "checked", "written"} /\ faults < MaxFaults
    /\ faults' = faults + 1
    /\ Reply(s, NoChoice)
    /\ UNCHANGED <<enabled, catalogVars, row, previewing, changes>>

Handle(s) == ReadRow(s) \/ Check(s) \/ Write(s) \/ ReadBack(s) \/ StatementFails(s)

-----------------------------------------------------------------------------
(* Auditions: they write nothing.                                           *)

Preview(v) ==
    /\ prefs # NoChoice /\ previewing = NoVoice
    /\ previewing' = v
    /\ UNCHANGED <<enabled, catalogVars, row, patches, shownVars, changes, faults>>

\* Played to its end, or refused: unknown to the shown engine, over the rate, timed out.
\* An audition looks the voice up, unless the native side has it baked.
PreviewOver ==
    /\ previewing # NoVoice
    /\ previewing' = NoVoice
    /\ \/ prefs.engine = "sarvam" /\ UNCHANGED catalogVars
       \/ \E l \in Lists(prefs.engine, cache, fresh) : Keeps(l)
    /\ UNCHANGED <<enabled, row, patches, shownVars, changes, faults>>

-----------------------------------------------------------------------------
(* What changes around them.                                                *)

Changes == changes < MaxChanges /\ changes' = changes + 1

\* Voices come and go at the vendor's, and the cached list expires.
CatalogueChanges ==
    /\ Changes
    /\ live' \in {{}, LabVoices, {LabDefault}}
    /\ fresh' = FALSE
    /\ UNCHANGED <<enabled, cache, row, patches, shownVars, previewing, faults>>

\* A deployment with other engines: its process has no cache, and the old one's
\* requests are gone.
Redeploy ==
    /\ Changes
    /\ enabled' \in (SUBSET Engines) \ {{}}
    /\ cache' = NoList /\ fresh' = FALSE
    /\ patches' = [s \in Saves |-> IF patches[s].at = "unborn" THEN NoPatch
                                   ELSE [patches[s] EXCEPT !.at = "over"]]
    /\ unsure' = TRUE /\ saving' = NoSave
    /\ prefs' = IF saving = NoSave THEN prefs ELSE previous
    /\ UNCHANGED <<live, row, previous, previewing, faults>>

-----------------------------------------------------------------------------
Next ==
    \/ Load \/ GiveUp \/ PreviewOver \/ CatalogueChanges \/ Redeploy
    \/ \E v \in Voices : Preview(v)
    \/ \E s \in Saves : Handle(s) \/ \E asked \in Choices : Save(s, asked)

\* A handler goes on, and an audition is over after its clip or its timeout.
Fairness == WF_vars(PreviewOver) /\ \A s \in Saves : WF_vars(Handle(s))

Spec == Init /\ [][Next]_vars /\ Fairness

-----------------------------------------------------------------------------
(* Properties.                                                              *)

TypeOK ==
    /\ enabled \in (SUBSET Engines) \ {{}}
    /\ live \subseteq LabVoices /\ (cache \subseteq LabVoices \/ cache = NoList)
    /\ fresh \in BOOLEAN /\ unsure \in BOOLEAN
    /\ {row, prefs, previous} \subseteq
          [engine : Engines \cup {"none"}, voice : Voices \cup {NoVoice}]
    /\ saving \in Saves \cup {NoSave} /\ previewing \in Voices \cup {NoVoice}
    /\ changes \in 0..MaxChanges /\ faults \in 0..MaxFaults

\* A voice is never handed to the other engine, nor a disabled engine called, by an
\* answer or an audition, whatever is stored, listed and deployed (preferences.ts:7-13): an empty list stores the old
\* engine's voice under the new one, a deployment drops the stored engine.
SpeaksItsEngine ==
    \A c \in Spoken \cup (IF previewing = NoVoice THEN {} ELSE Auditioned(prefs.engine, previewing)) :
        c.engine \in enabled /\ c.voice \in Knows(c.engine)

\* "a failed save must surface in Settings, or the user believes they changed voice
\* when they did not" (nativeBridge.ts:794-795): the idle picker shows the stored
\* choice, or the default that replaces its voice, unless a save was lost from sight
\* or a deployment changed the engines, and no save has settled it since.
ShownIsStored ==
    Idle /\ ~unsure /\ row # NoChoice =>
        /\ prefs.engine = row.engine \/ row.engine \notin enabled
        /\ prefs.voice \in {row.voice, DefaultVoice(prefs.engine)}

===============================================================================

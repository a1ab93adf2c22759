----------------------------- MODULE RequestGate -----------------------------
(***************************************************************************)
(* What a metered request of one account passes before its reserve.        *)
(*                                                                         *)
(*   server/src/plugins/auth-verify.ts    requireAuth                      *)
(*   server/src/auth/jwks.ts              the cached verification keys     *)
(*   server/src/plugins/account-limits.ts chargeAccount: burst, then day   *)
(*   server/src/lib/budget.ts             the durable windows and the sweep*)
(*   server/src/db/client.ts              the pool all of them query       *)
(*                                                                         *)
(* Every statement checks a client out of the pool of ReservePool, whose   *)
(* Readers are here the statements of the requests; the request itself     *)
(* becomes a reserve of ReservePool once it is let through.  Of            *)
(* requireCredits, which runs between the keys and the windows (module     *)
(* Metering), only the refusal matters here.                               *)
(*                                                                         *)
(* Times are in ticks of the longest that a statement may take, the wait   *)
(* for its client included.                                                *)
(***************************************************************************)
EXTENDS ReservePool, Integers

CONSTANTS Cooldown,        \* REFRESH_COOLDOWN_MS
          BurstWindow, DailyWindow, BurstMax, DailyMax,   \* account-limits.ts
          SweepInterval,   \* SWEEP_INTERVAL_MS
          MaxNow, MaxKeys, MaxFaults  \* bounds: ticks, signing keys, failed statements

ASSUME TimesAssumption ==
    /\ {BurstWindow, DailyWindow, SweepInterval, Cooldown} \subseteq Nat \ {0}
    /\ {BurstMax, DailyMax} \subseteq Nat \ {0}
    /\ {MaxNow, MaxFaults} \subseteq Nat /\ MaxKeys \in Nat \ {0}

Statements == {"keys", "burst", "daily", "sweep"}
ASSUME ReadersAssumption == Readers = Reserves \X Statements

VARIABLES at,         \* where each request is, and how it ended
          kid,        \* the key its token names, until it is verified
          stamp,      \* Date.now() when the statement it waits for was issued
          issuedAt,   \* the jwks table: when each signing key was added
          known,      \* `resolve`: the keys of the cached set, or NoSet
          loadedAt,   \* when the cached set was loaded
          inflight,   \* the shared reload: who issued it, what it has read
          hits,       \* rate_counter: hits of each window, 0 when there is no row
          through,    \* calls let through so far by the window of each kind now open
          unseen,     \* of these, the ones whose statement failed
          lastSweep,  \* its time, and the request that noticed it was due
          now, faults

keyVars    == <<issuedAt, known, loadedAt, inflight>>
windowVars == <<hits, through, unseen, lastSweep>>
poolVars   == vars
gateVars   == <<poolVars, at, kid, stamp, keyVars, windowVars, now, faults>>

NoSet   == {0}          \* resolve === null; keys are numbered from 1
Foreign == MaxKeys + 1  \* a kid that is in no set
NoLoad  == [by |-> "none", read |-> NoSet]

Issued    == DOMAIN issuedAt
Kinds     == {"burst", "daily"}
Length(k) == IF k = "burst" THEN BurstWindow ELSE DailyWindow
Limit(k)  == IF k = "burst" THEN BurstMax ELSE DailyMax
Windows   == 0..MaxNow
\* windowStart, as the number of the window.
WindowOf(k, t) == t \div Length(k)

\* A request waits for the shared reload, runs a statement, or has ended.
Refused == {"unknownKey", "loadFailed", "noCredit", "overBurst", "overDaily"}
Ended   == Refused \cup {"failed", "done"}

GateInit ==
    /\ Init
    /\ at = [q \in Reserves |-> "idle"]
    /\ kid = [q \in Reserves |-> Foreign]
    /\ stamp = [q \in Reserves |-> 0]
    /\ issuedAt = <<0>>
    /\ known = NoSet /\ loadedAt = 0 /\ inflight = NoLoad
    /\ hits    = [k \in Kinds |-> [w \in Windows |-> 0]]
    /\ through = [k \in Kinds |-> 0] /\ unseen = [k \in Kinds |-> 0]
    /\ lastSweep = [due |-> -SweepInterval, by |-> "none"]
    /\ now = 0
    /\ faults = 0

-----------------------------------------------------------------------------
(* Slips this code could have had, for the mutation runs.                   *)

ReloadDueLate       == now - loadedAt > Cooldown
SharingAlone        == {q \in Reserves : q = inflight.by}
ClosedByItsStart(k, w) == w * Length(k) <= now

-----------------------------------------------------------------------------
(* The keys.                                                                *)

ReloadDue == now - loadedAt >= Cooldown

\* Somebody's reload is in flight, and this caller shares it.
Joins == inflight # NoLoad

\* refresh(): its statement is issued by the first caller.
Refresh(q) ==
    IF Joins THEN UNCHANGED <<poolVars, inflight, stamp>>
    ELSE /\ ReadSubscription(<<q, "keys">>)
         /\ inflight' = [by |-> q, read |-> NoSet]
         /\ stamp' = [stamp EXCEPT ![q] = now]

\* requireAuth: the resolver runs without a pause up to its first await.
Arrive(q) ==
    /\ at[q] = "idle"
    /\ \E k \in Issued \cup {Foreign} :
        /\ kid' = [kid EXCEPT ![q] = IF k \in known THEN Foreign ELSE k]
        /\ \/ /\ k \in known
              /\ at' = [at EXCEPT ![q] = "credits"]
              /\ UNCHANGED <<poolVars, inflight, stamp>>
           \/ /\ known # NoSet /\ k \notin known /\ ~ReloadDue
              /\ at' = [at EXCEPT ![q] = "unknownKey"]
              /\ UNCHANGED <<poolVars, inflight, stamp>>
           \/ /\ known = NoSet \/ (k \notin known /\ ReloadDue)
              /\ at' = [at EXCEPT ![q] = "keys"]
              /\ Refresh(q)
    /\ UNCHANGED <<issuedAt, known, loadedAt, windowVars, now, faults>>

\* The database runs the statement; its answer travels back.
KeysAreRead ==
    /\ inflight # NoLoad /\ inflight.read = NoSet
    /\ phase[<<inflight.by, "keys">>] = "reading"
    /\ inflight' = [inflight EXCEPT !.read = Issued]
    /\ UNCHANGED <<poolVars, at, kid, stamp, issuedAt, known, loadedAt, windowVars,
                   now, faults>>

Sharing == {q \in Reserves : at[q] = "keys"}

\* The set is swapped in and everyone who shared the load tries again, once: after
\* a cold start the cooldown has just begun, after a reload there is no third try.
KeysArrive ==
    /\ inflight.read # NoSet
    /\ FinishRead(<<inflight.by, "keys">>)
    /\ known' = inflight.read /\ loadedAt' = now /\ inflight' = NoLoad
    /\ at' = [q \in Reserves |->
                IF q \notin Sharing THEN at[q]
                ELSE IF kid[q] \in known' THEN "credits" ELSE "unknownKey"]
    /\ kid' = [q \in Reserves |-> IF at'[q] = "credits" THEN Foreign ELSE kid[q]]
    /\ stamp' = [stamp EXCEPT ![inflight.by] = 0]
    /\ UNCHANGED <<issuedAt, windowVars, now, faults>>

\* The load threw: 401 for everyone who shared it, and the old set stands.
KeysFail ==
    /\ inflight # NoLoad /\ faults < MaxFaults
    /\ FinishRead(<<inflight.by, "keys">>)
    /\ inflight' = NoLoad
    /\ at' = [q \in Reserves |-> IF q \in Sharing THEN "loadFailed" ELSE at[q]]
    /\ faults' = faults + 1
    /\ stamp' = [stamp EXCEPT ![inflight.by] = 0]
    /\ UNCHANGED <<kid, issuedAt, known, loadedAt, windowVars, now>>

\* The sign-in library adds a signing key; older ones stay in its table.
Rotate ==
    /\ Len(issuedAt) < MaxKeys
    /\ issuedAt' = Append(issuedAt, now)
    /\ UNCHANGED <<poolVars, at, kid, stamp, known, loadedAt, inflight, windowVars,
                   now, faults>>

-----------------------------------------------------------------------------
(* The windows.                                                             *)

Order   == <<"burst", "daily">>
Then(k) == IF k = Order[1] THEN Order[2] ELSE "route"

OverLimit(k) == IF k = "burst" THEN "overBurst" ELSE "overDaily"
Within(k, n) == n <= Limit(k)

\* A call counted into window w is one of the open window, if w is still open.
WithCall(c, k, w) == IF w = WindowOf(k, now) THEN [c EXCEPT ![k] = @ + 1] ELSE c
\* The calls of the windows that are still open a tick later.
StillOpen(c) == [k \in Kinds |-> IF WindowOf(k, now + 1) = WindowOf(k, now) THEN c[k] ELSE 0]

\* The next statement of the handler: consumeDetailed has taken the time by now.
Issue(q) ==
    /\ at[q] \in Kinds
    /\ ReadSubscription(<<q, at[q]>>)
    /\ stamp' = [stamp EXCEPT ![q] = now]
    /\ UNCHANGED <<at, kid, keyVars, windowVars, now, faults>>

RequireCredits(q) ==
    /\ at[q] = "credits"
    /\ \E to \in {Order[1], "noCredit"} : at' = [at EXCEPT ![q] = to]
    /\ UNCHANGED <<poolVars, kid, stamp, keyVars, windowVars, now, faults>>

SweepDue(t) == t - lastSweep.due >= SweepInterval

\* increment came back: this caller's place in its window, and perhaps a sweep,
\* which nobody waits for.
Counted(q) ==
    LET k == at[q]
        w == WindowOf(k, stamp[q])
        n == hits[k][w] + 1
    IN  /\ k \in Kinds /\ FinishRead(<<q, k>>)
        /\ hits' = [hits EXCEPT ![k][w] = n]
        /\ at' = [at EXCEPT ![q] = IF Within(k, n) THEN Then(k) ELSE OverLimit(k)]
        /\ through' = IF Within(k, n) THEN WithCall(through, k, w) ELSE through
        /\ lastSweep' = IF SweepDue(stamp[q]) THEN [due |-> stamp[q], by |-> q] ELSE lastSweep
        /\ stamp' = [stamp EXCEPT ![q] = 0]
        /\ UNCHANGED <<unseen, kid, keyVars, now, faults>>

\* consumeDetailed fails open: whether the row was written before the failure or not,
\* the call goes on.
CountFails(q) ==
    LET k == at[q]
        w == WindowOf(k, stamp[q])
    IN  /\ k \in Kinds /\ faults < MaxFaults
        /\ FinishRead(<<q, k>>)
        /\ faults' = faults + 1
        /\ hits' \in {hits, [hits EXCEPT ![k][w] = @ + 1]}
        /\ through' = WithCall(through, k, w) /\ unseen' = WithCall(unseen, k, w)
        /\ at' = [at EXCEPT ![q] = Then(k)]
        /\ stamp' = [stamp EXCEPT ![q] = 0]
        /\ UNCHANGED <<kid, keyVars, lastSweep, now>>

\* expires_at < now(), the DELETE running somewhere inside the tick.
Closed(k, w) == (w + 1) * Length(k) <= now

\* q's increment noticed that a sweep is due: a statement of its own, issued before
\* anything else runs.
SweepOwed(q) == lastSweep.by = q /\ phase[<<q, "sweep">>] = "start"
NothingOwed  == \A q \in Reserves : ~SweepOwed(q)

SweepBegins(q) ==
    /\ SweepOwed(q)
    /\ ReadSubscription(<<q, "sweep">>)
    /\ UNCHANGED <<at, kid, stamp, keyVars, windowVars, now, faults>>

SweepRuns(q) ==
    /\ FinishRead(<<q, "sweep">>)
    /\ hits' = [k \in Kinds |-> [w \in Windows |-> IF Closed(k, w) THEN 0 ELSE hits[k][w]]]
    /\ UNCHANGED <<at, kid, stamp, keyVars, through, unseen, lastSweep, now, faults>>

-----------------------------------------------------------------------------
(* The route: the reserve and its two clients (ReservePool).                *)

Route(q) ==
    /\ at[q] = "route"
    /\ Step(q)
    /\ at' = [at EXCEPT ![q] = IF phase'[q] = "done" THEN "done" ELSE "route"]
    /\ UNCHANGED <<kid, stamp, keyVars, windowVars, now, faults>>

\* No statement a request waits for is out for longer than a tick.
Prompt == \A q \in Reserves, s \in Statements \ {"sweep"} :
              phase[<<q, s>>] \in {"wantRead", "reading"} => stamp[q] = now

Tick ==
    /\ now < MaxNow /\ Prompt
    /\ now' = now + 1
    /\ through' = StillOpen(through) /\ unseen' = StillOpen(unseen)
    /\ UNCHANGED <<poolVars, at, kid, stamp, keyVars, hits, lastSweep, faults>>

Serve(q) ==
    NothingOwed /\ (Issue(q) \/ RequireCredits(q) \/ Counted(q) \/ CountFails(q) \/ Route(q))
Keys     == NothingOwed /\ (KeysAreRead \/ KeysArrive \/ KeysFail)
Sweep(q) == SweepBegins(q) \/ (NothingOwed /\ SweepRuns(q))
Surroundings == NothingOwed /\ ((\E q \in Reserves : Arrive(q)) \/ Rotate \/ Tick)

GateNext == Surroundings \/ Keys \/ \E q \in Reserves : Serve(q) \/ Sweep(q)

GateSpec == GateInit /\ [][GateNext]_gateVars

\* The event loop resumes whoever has an answer, and the database answers.
GateFairSpec ==
    /\ GateSpec
    /\ WF_gateVars(Keys)
    /\ \A q \in Reserves : WF_gateVars(Serve(q)) /\ WF_gateVars(Sweep(q))

-----------------------------------------------------------------------------
GateTypeOK ==
    /\ TypeOK
    /\ at \in [Reserves -> {"idle", "keys", "credits", "route"} \cup Kinds \cup Ended]
    /\ kid \in [Reserves -> 1..Foreign] /\ stamp \in [Reserves -> 0..now]
    /\ issuedAt \in Seq(0..now) /\ Len(issuedAt) \in 1..MaxKeys
    /\ (known = NoSet \/ known \subseteq Issued) /\ loadedAt \in 0..now
    /\ inflight \in [by : Reserves \cup {"none"}, read : SUBSET (0..MaxKeys)]
    /\ hits \in [Kinds -> [Windows -> Nat]] /\ {through, unseen} \subseteq [Kinds -> Nat]
    /\ lastSweep.due <= now
    /\ now \in 0..MaxNow /\ faults \in 0..MaxFaults

\* "rotation heals itself without a restart" (jwks.ts:41-42): a token of a new key is
\* turned away only until a cooldown after the last load that could have missed it,
\* which ended at most a tick after the key was added.
RotationHeals ==
    [][\A q \in Reserves :
         /\ at[q] # "unknownKey" /\ at'[q] = "unknownKey"
         /\ kid'[q] # Foreign
         => now < issuedAt[kid'[q]] + 1 + Cooldown]_gateVars

\* While it is open a window lets no more than its maximum through, whatever is swept
\* meanwhile (budget.ts:12-13, 96), and one call more for each of its own statements that
\* failed open (budget.ts:88-91): a failure costs one call, never the row.
AllowanceIsKept == \A k \in Kinds : through[k] <= Limit(k) + unseen[k]

\* A request that has come is answered: nobody waits for a client, a key or a window
\* for ever while reserves leave one client to spare.
RequestsAreAnswered == \A q \in Reserves : at[q] # "idle" ~> at[q] \in Ended
=============================================================================

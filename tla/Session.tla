------------------------------ MODULE Session ------------------------------
(***************************************************************************)
(* Signing in: the desktop's pending state, session file and cached JWT    *)
(* (src-tauri/src/auth.rs), the deep link that brings the one-time code    *)
(* back (src-tauri/src/lib.rs), and the backend's routes that mint and     *)
(* redeem that code behind the invite list (server/src/auth, access).      *)
(*                                                                         *)
(* A sign-in attempt is a browser tab and the state written for it.  Codes *)
(* are numbered as they are minted; an exchange is one call of             *)
(* exchange_code, and the session it buys is named after it.  A call is a  *)
(* caller of fetch_jwt.  Better Auth and Google are external: a tab comes  *)
(* back signed in as some user, unless its OAuth cookie was replaced.      *)
(***************************************************************************)
EXTENDS Integers, FiniteSets

CONSTANTS Users, NoUser, Callers,
          MaxAttempts, MaxCodes, MaxExchanges,
          PendingTTL,      \* ticks a pending state is good for
          CodeTTL,         \* ticks a one-time code is good for
          Policies,        \* the values of KAIRO_REQUIRE_DESKTOP_AUTH_STATE explored
          MaxIncidents     \* how much may go wrong in one behaviour

ASSUME SessionAssumption ==
    /\ NoUser \notin Users
    /\ MaxAttempts \in Nat /\ MaxCodes \in Nat /\ MaxExchanges \in Nat
    /\ PendingTTL \in Nat \ {0} /\ CodeTTL \in Nat \ {0}
    /\ Policies \subseteq BOOLEAN /\ MaxIncidents \in Nat

Attempts  == 1 .. MaxAttempts
Codes     == 1 .. MaxCodes
Exchanges == 1 .. MaxExchanges
None      == 0             \* no attempt, no code, no session

VARIABLES requireState,    \* the backend insists on the desktop's state
          pending,         \* the attempt in pending-auth.state
          age,             \* per attempt: ticks since its state was written
          tab,             \* per attempt: where its browser tab is
          jar,             \* the browser's cookies
          code,            \* the oauth_code rows
          links,           \* deep links a page can open, each any number of times
          invited,         \* access_invite
          exchange,        \* the exchanges
          stored,          \* the session in session.token
          cache,           \* JWT_CACHE
          leaving,         \* sign_out is between its two writes
          call,            \* the callers of fetch_jwt
          ui,              \* what the settings window shows
          incidents

desktop == <<pending, age, stored, cache, leaving, call, ui>>
web     == <<tab, jar, links>>
backend == <<requireState, code, invited>>
vars    == <<desktop, web, backend, exchange, incidents>>

NoJwt  == [session |-> None, live |-> FALSE, late |-> FALSE]
Idle   == [pc |-> "idle", session |-> None, crossed |-> FALSE]
NoCode == [user |-> NoUser, age |-> 0, used |-> FALSE, struck |-> FALSE]
Unused == [pc |-> "none", code |-> None, attempt |-> None, heard |-> TRUE]

TypeOK ==
    /\ requireState \in BOOLEAN
    /\ pending \in Attempts \cup {None}
    /\ age \in [Attempts -> -1 .. PendingTTL]
    /\ tab \in [Attempts -> {"closed", "opening", "google", "returned",
                             "error", "dead", "waitlist", "done"}]
    /\ jar \in [state : Attempts \cup {None}, oauth : Attempts \cup {None},
                user : Users \cup {NoUser}]
    /\ code \in [Codes -> [user : Users \cup {NoUser}, age : 0 .. CodeTTL,
                           used : BOOLEAN, struck : BOOLEAN]]
    /\ links \subseteq [code : Codes, state : Attempts \cup {None}]
    /\ invited \subseteq Users
    /\ exchange \in [Exchanges -> [pc : {"none", "posting", "redeemed", "invited",
                                         "issued", "stored", "done", "failed"},
                                   code : Codes \cup {None},
                                   attempt : Attempts \cup {None}, heard : BOOLEAN]]
    /\ stored \in Exchanges \cup {None}
    /\ cache \in [session : Exchanges \cup {None}, live : BOOLEAN, late : BOOLEAN]
    /\ leaving \in BOOLEAN
    /\ call \in [Callers -> [pc : {"idle", "minting"},
                             session : Exchanges \cup {None}, crossed : BOOLEAN]]
    /\ ui \in [signedIn : BOOLEAN, rejected : BOOLEAN]
    /\ incidents \in 0 .. MaxIncidents

Init ==
    /\ requireState \in Policies
    /\ pending = None
    /\ age = [a \in Attempts |-> 0]
    /\ tab = [a \in Attempts |-> "closed"]
    /\ jar = [state |-> None, oauth |-> None, user |-> NoUser]
    /\ code = [k \in Codes |-> NoCode]
    /\ links = {}
    /\ invited = Users
    /\ exchange = [e \in Exchanges |-> Unused]
    /\ stored = None
    /\ cache = NoJwt
    /\ leaving = FALSE
    /\ call = [c \in Callers |-> Idle]
    /\ ui = [signedIn |-> FALSE, rejected |-> FALSE]
    /\ incidents = 0

Incident == incidents < MaxIncidents /\ incidents' = incidents + 1

Started(a) == tab[a] # "closed"
Latest     == CHOOSE a \in {b \in Attempts : Started(b)} :
                  \A b \in Attempts : Started(b) => b <= a

\* A pending state from the future, or ten minutes old, is not good.
Fresh(a)   == age[a] >= 0 /\ age[a] < PendingTTL
MatchesAnyState(l) == l.state # None /\ pending # None /\ Fresh(pending)
Matches(l) == l.state # None /\ pending = l.state /\ Fresh(pending)

\* The calls in flight when the session changes under them.
Crossed == [c \in Callers |-> IF call[c].pc = "minting"
                              THEN [call[c] EXCEPT !.crossed = TRUE] ELSE call[c]]

-----------------------------------------------------------------------------
(* The browser's way through sign-in.                                      *)

\* The settings window offers sign-in while it shows nobody signed in.  A second
\* start overwrites the pending state of the first; if the browser cannot be
\* opened, the state that was just written is removed.
StartGoogleAuth(a) ==
    /\ ~ui.signedIn
    /\ ~Started(a) /\ \A b \in Attempts : b < a => Started(b)
    /\ age' = [age EXCEPT ![a] = 0]
    /\ \/ /\ pending' = a
          /\ tab' = [tab EXCEPT ![a] = "opening"]
          /\ UNCHANGED incidents
       \/ /\ Incident
          /\ pending' = None
          /\ tab' = [tab EXCEPT ![a] = "dead"]
    /\ ui' = [ui EXCEPT !.rejected = FALSE]
    /\ UNCHANGED <<stored, cache, leaving, call, jar, links, backend, exchange>>

\* GET /auth/start: its answer replaces both cookies of an earlier attempt.
AuthStart(a) ==
    /\ tab[a] = "opening"
    /\ jar' = [jar EXCEPT !.state = a, !.oauth = a]
    /\ \/ tab' = [tab EXCEPT ![a] = "google"] /\ UNCHANGED incidents
       \/ tab' = [tab EXCEPT ![a] = "dead"] /\ Incident
    /\ UNCHANGED <<links, desktop, backend, exchange>>

\* "Try sign-in again" on the page of a failed sign-in starts without a state.
RetryFromPage(a) ==
    /\ tab[a] = "error"
    /\ Incident
    /\ IF requireState
       THEN tab' = [tab EXCEPT ![a] = "dead"] /\ UNCHANGED jar
       ELSE tab' = [tab EXCEPT ![a] = "google"] /\ jar' = [jar EXCEPT !.oauth = a]
    /\ UNCHANGED <<links, desktop, backend, exchange>>

\* Better Auth completes OAuth for the tab that was started last; an earlier one
\* no longer matches its cookie and lands on /api/auth/error.
OAuthReturns(a) ==
    /\ tab[a] = "google"
    /\ \/ /\ jar.oauth # a
          /\ tab' = [tab EXCEPT ![a] = "error"]
          /\ UNCHANGED jar
       \/ /\ jar.oauth = a
          /\ \E u \in Users : jar' = [jar EXCEPT !.oauth = None, !.user = u]
          /\ tab' = [tab EXCEPT ![a] = "returned"]
    /\ UNCHANGED <<links, desktop, backend, exchange, incidents>>

\* GET /auth/callback: the state is the cookie's, the user the browser session's,
\* whichever tab asks.  The cookie is cleared whatever the outcome.
MintCode(state) ==
    \E k \in Codes :
        /\ code[k].user = NoUser /\ \A j \in Codes : j < k => code[j].user # NoUser
        /\ code' = [code EXCEPT ![k] = [NoCode EXCEPT !.user = jar.user]]
        /\ links' = links \cup {[code |-> k, state |-> state]}

AuthCallback(a) ==
    /\ tab[a] = "returned"
    /\ jar' = [jar EXCEPT !.state = None]
    /\ \/ /\ requireState /\ jar.state = None
          /\ tab' = [tab EXCEPT ![a] = "error"]
          /\ UNCHANGED <<code, links, incidents>>
       \/ /\ ~(requireState /\ jar.state = None)     \* the browser's session lapsed
          /\ Incident
          /\ tab' = [tab EXCEPT ![a] = "error"]
          /\ UNCHANGED <<code, links>>
       \/ /\ ~(requireState /\ jar.state = None)
          /\ jar.user \notin invited
          /\ tab' = [tab EXCEPT ![a] = "waitlist"]
          /\ UNCHANGED <<code, links, incidents>>
       \/ /\ ~(requireState /\ jar.state = None)
          /\ jar.user \in invited
          /\ MintCode(jar.state)
          /\ tab' = [tab EXCEPT ![a] = "done"]
          /\ UNCHANGED incidents
    /\ UNCHANGED <<requireState, invited, desktop, exchange>>

-----------------------------------------------------------------------------
(* The deep link reaches the app.                                          *)

\* A genuine callback uses the pending state up, unless its file cannot be
\* removed, and its code goes to a task of its own.
AcceptCallback(l) ==
    /\ Matches(l)
    /\ \E e \in Exchanges :
        /\ exchange[e].pc = "none" /\ \A f \in Exchanges : f < e => exchange[f].pc # "none"
        /\ exchange' = [exchange EXCEPT ![e] = [Unused EXCEPT !.pc = "posting",
                                                              !.code = l.code,
                                                              !.attempt = l.state]]
    /\ \/ pending' = None /\ UNCHANGED incidents
       \/ UNCHANGED pending /\ Incident
    /\ UNCHANGED <<age, stored, cache, leaving, call, ui, web, backend>>

\* Any other is refused aloud; a state found malformed or out of date is removed,
\* one that merely differs is kept for its own callback.
RejectCallback(l) ==
    /\ ~Matches(l)
    /\ pending' = IF l.state # None /\ pending # None /\ ~Fresh(pending)
                  THEN None ELSE pending
    /\ ui' = [ui EXCEPT !.rejected = TRUE]
    /\ UNCHANGED <<age, stored, cache, leaving, call, web, backend, exchange, incidents>>

OpenLink == \E l \in links : AcceptCallback(l) \/ RejectCallback(l)

-----------------------------------------------------------------------------
(* POST /auth/exchange, statement by statement, and the reply.             *)

Advance(e, from, to) ==
    /\ exchange[e].pc = from
    /\ exchange' = [exchange EXCEPT ![e].pc = to]

RedeemableTwice(k) == code[k].age < CodeTTL
Redeemable(k) == ~code[k].used /\ code[k].age < CodeTTL

RedeemCode(e) ==
    LET k == exchange[e].code IN
    \/ /\ Advance(e, "posting", "redeemed")
       /\ Redeemable(k)
       /\ code' = [code EXCEPT ![k].used = TRUE]
       /\ UNCHANGED <<requireState, invited, desktop, web, incidents>>
    \/ /\ Advance(e, "posting", "failed")
       /\ ~Redeemable(k)
       /\ UNCHANGED <<desktop, web, backend, incidents>>

StillInvited(u) == u \in invited

CheckInvite(e) ==
    LET u == code[exchange[e].code].user IN
    /\ \/ Advance(e, "redeemed", "invited") /\ StillInvited(u)
       \/ Advance(e, "redeemed", "failed")  /\ ~StillInvited(u)
    /\ UNCHANGED <<desktop, web, backend, incidents>>

InsertSession(e) ==
    /\ Advance(e, "invited", "issued")
    /\ UNCHANGED <<desktop, web, backend, incidents>>

\* The reply is lost, or the file cannot be written: the failure is only logged.
ReplyLost(e) ==
    /\ Advance(e, "issued", "failed")
    /\ IF exchange[e].heard THEN Incident ELSE UNCHANGED incidents
    /\ UNCHANGED <<desktop, web, backend>>

\* store_session writes the file and then drops the cached JWT.
WriteSession(e) ==
    /\ exchange[e].heard
    /\ Advance(e, "issued", "stored")
    /\ stored' = e
    /\ call' = Crossed
    /\ UNCHANGED <<pending, age, cache, leaving, ui, web, backend, incidents>>

CacheKept == UNCHANGED cache
ClearCachedJwt == cache' = NoJwt

SessionStored(e) ==
    /\ Advance(e, "stored", "done")
    /\ ClearCachedJwt
    /\ call' = Crossed
    /\ ui' = [ui EXCEPT !.rejected = FALSE]
    /\ UNCHANGED <<pending, age, stored, leaving, web, backend, incidents>>

Exchange == \E e \in Exchanges :
    \/ RedeemCode(e) \/ CheckInvite(e) \/ InsertSession(e)
    \/ ReplyLost(e) \/ WriteSession(e) \/ SessionStored(e)

-----------------------------------------------------------------------------
(* Signing out, and the JWT of a call.                                     *)

\* clear_session drops the JWT and then removes the file.
SignOut ==
    /\ ui.signedIn /\ ~leaving
    /\ leaving' = TRUE
    /\ ClearCachedJwt
    /\ call' = Crossed
    /\ UNCHANGED <<pending, age, stored, ui, web, backend, exchange, incidents>>

SignedOut ==
    /\ leaving
    /\ leaving' = FALSE
    /\ stored' = None
    /\ call' = Crossed
    /\ ui' = [ui EXCEPT !.rejected = FALSE]
    /\ UNCHANGED <<pending, age, cache, web, backend, exchange, incidents>>

\* The window asks for the status on auth:changed and at launch.
RefreshStatus ==
    /\ ui.signedIn # (stored # None)
    /\ ui' = [ui EXCEPT !.signedIn = stored # None]
    /\ UNCHANGED <<pending, age, stored, cache, leaving, call, web, backend, exchange, incidents>>

\* fetch_jwt: a cached JWT that is still good is used as it is, which changes
\* nothing; otherwise the session file is read and the token asked for.
RequestJwt(c) ==
    /\ call[c].pc = "idle" /\ ~cache.live /\ stored # None
    /\ call' = [call EXCEPT ![c] = [Idle EXCEPT !.pc = "minting", !.session = stored]]
    /\ UNCHANGED <<pending, age, stored, cache, leaving, ui, web, backend, exchange, incidents>>

\* The answer is cached without another look at the file.  late is history: the
\* session changed, or was being signed out, while the token was on its way.
JwtArrives(c) ==
    /\ call[c].pc = "minting"
    /\ cache' = [session |-> call[c].session, live |-> TRUE,
                 late |-> call[c].crossed \/ leaving]
    /\ call' = [call EXCEPT ![c] = Idle]
    /\ UNCHANGED <<pending, age, stored, leaving, ui, web, backend, exchange, incidents>>

JwtRefused(c) ==
    /\ call[c].pc = "minting"
    /\ call' = [call EXCEPT ![c] = Idle]
    /\ UNCHANGED <<pending, age, stored, cache, leaving, ui, web, backend, exchange, incidents>>

\* The margin before the expiry is reached.
JwtExpires ==
    /\ cache.live
    /\ cache' = [cache EXCEPT !.live = FALSE]
    /\ UNCHANGED <<pending, age, stored, leaving, call, ui, web, backend, exchange, incidents>>

FetchJwt == JwtExpires \/ \E c \in Callers :
    RequestJwt(c) \/ JwtArrives(c) \/ JwtRefused(c)

-----------------------------------------------------------------------------
(* What the world does meanwhile.                                          *)

\* struck is history: the invite was taken back before the code was redeemed.
InviteChanges(u) ==
    /\ Incident
    /\ invited' = IF u \in invited THEN invited \ {u} ELSE invited \cup {u}
    /\ code' = [k \in Codes |-> IF code[k].user # u THEN code[k]
                                ELSE [code[k] EXCEPT !.struck =
                                        u \in invited /\ (code[k].struck \/ ~code[k].used)]]
    /\ UNCHANGED <<requireState, desktop, web, exchange>>

Older(n, limit) == IF n < limit THEN n + 1 ELSE n

Tick ==
    /\ age' = [a \in Attempts |-> IF Started(a) THEN Older(age[a], PendingTTL) ELSE age[a]]
    /\ jar' = IF jar.state # None /\ age'[jar.state] = PendingTTL
              THEN [jar EXCEPT !.state = None] ELSE jar
    /\ code' = [k \in Codes |-> IF code[k].user = NoUser THEN code[k]
                                ELSE [code[k] EXCEPT !.age = Older(@, CodeTTL)]]
    /\ <<age', code'>> # <<age, code>>
    /\ UNCHANGED <<pending, stored, cache, leaving, call, ui, tab, links,
                   requireState, invited, exchange, incidents>>

\* The desktop's clock is set back behind the pending state's stamp.
ClockSetBack ==
    /\ Incident
    /\ pending # None /\ age[pending] >= 0
    /\ age' = [age EXCEPT ![pending] = -1]
    /\ UNCHANGED <<pending, stored, cache, leaving, call, ui, web, backend, exchange>>

\* The app dies and starts again: files stay, tasks and the cache do not; what the
\* backend was asked goes on there and nobody hears the answer.
Restart ==
    /\ Incident
    /\ cache' = NoJwt
    /\ call' = [c \in Callers |-> Idle]
    /\ leaving' = FALSE
    /\ exchange' = [e \in Exchanges |->
                     CASE exchange[e].pc = "stored" -> [exchange[e] EXCEPT !.pc = "done"]
                       [] exchange[e].pc \in {"posting", "redeemed", "invited", "issued"} ->
                              [exchange[e] EXCEPT !.heard = FALSE]
                       [] OTHER -> exchange[e]]
    /\ ui' = [signedIn |-> stored # None, rejected |-> FALSE]
    /\ UNCHANGED <<pending, age, stored, web, backend>>

Next ==
    \/ \E a \in Attempts : \/ StartGoogleAuth(a) \/ AuthStart(a) \/ RetryFromPage(a)
                           \/ OAuthReturns(a) \/ AuthCallback(a)
    \/ OpenLink \/ Exchange
    \/ SignOut \/ SignedOut \/ RefreshStatus \/ FetchJwt
    \/ \E u \in Users : InviteChanges(u)
    \/ Tick \/ ClockSetBack \/ Restart

Spec == Init /\ [][Next]_vars

-----------------------------------------------------------------------------
(* What sign-in guarantees.                                                *)

Issued(e) == exchange[e].pc \in {"issued", "stored", "done"}

\* However many tabs are open and links are opened, and however late, a code is
\* taken only for the attempt that was started last, while that attempt's state
\* is good (consume_pending_auth_state_at, start_google_auth).
AcceptsOnlyTheLatest ==
    [][\A e \in Exchanges :
        exchange[e].pc = "none" /\ exchange'[e].pc = "posting"
            => /\ exchange'[e].attempt = Latest
               /\ age[Latest] \in 0 .. PendingTTL - 1]_vars

\* A one-time code buys one session, though a pending state that could not be
\* removed lets its link be accepted again (redeemCode is one UPDATE).
CodeBuysOneSession ==
    \A e, f \in Exchanges :
        Issued(e) /\ Issued(f) /\ exchange[e].code = exchange[f].code => e = f

\* A code minted before its owner's invite was taken back, and redeemed after,
\* buys nothing (the second isInvited of /auth/exchange).
InviteStillNeeded ==
    \A e \in Exchanges : Issued(e) => ~code[exchange[e].code].struck

Settled == \A e \in Exchanges : exchange[e].pc # "stored"

\* The JWT in the cache is one of the session in the file, except one that was on
\* its way while the session changed (store_session, clear_session, fetch_jwt).
CachedJwtIsCurrent ==
    Settled /\ cache.session # None /\ ~cache.late => cache.session = stored

\* What auth.rs:58 and auth.rs:304 say without the exception: a JWT cannot outlive
\* its session.  It can: fetch_jwt stores what it asked for before the change.
JwtMatchesSession ==
    Settled /\ ~leaving /\ cache.live => cache.session = stored
=============================================================================

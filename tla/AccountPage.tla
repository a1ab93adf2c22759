------------------------------ MODULE AccountPage ------------------------------
(***************************************************************************)
(* The account and plan of the settings window: whose they are, and        *)
(* whether a payment made in the browser shows.                            *)
(*                                                                         *)
(*   src/settings/SettingsView.tsx  refresh, reconcileAndRefresh and the   *)
(*                                  events that call them                  *)
(*   src/settings/billingState.ts   shouldContinueBillingPoll              *)
(*   src-tauri/src/auth.rs          fetch_jwt, as proxy.rs calls it        *)
(*                                                                         *)
(* A refresh asks the native side who is signed in, and then the backend   *)
(* for /v1/me.  Nothing orders the answers of two refreshes: the page      *)
(* shows the answer that came last.  The backend's record follows the      *)
(* payment provider by webhook, or when a poll reconciles them.  To the    *)
(* backend the user is whoever the JWT of the call names: one that is      *)
(* cached, or one minted from the session and then cached (module Session  *)
(* has the files and steps of this).                                       *)
(***************************************************************************)
EXTENDS Naturals, FiniteSets

CONSTANTS
    Users, Nobody,
    Attempts,       \* how often a poll reconciles; six in the code
    MaxRefreshes,   \* bound on the refreshes under way, those of polls apart
    MaxReturns,     \* bound on the returns from the browser
    MaxMoves,       \* bound on what happens elsewhere: sign-ins, payments, webhooks
    MaxLosses       \* bound on the requests that fail

ASSUME UsersAssumption == Nobody \notin Users
ASSUME AttemptsAssumption ==
    /\ {Attempts, MaxRefreshes, MaxReturns, MaxMoves, MaxLosses} \subseteq Nat
    /\ MaxLosses < Attempts

Polls     == 1..MaxReturns
Refreshes == 1..(MaxRefreshes + MaxReturns)
None      == 0

\* The refresh of a poll, which has one at a time.
RefreshOf(p) == MaxRefreshes + p
PollOf(r)    == IF r > MaxRefreshes THEN r - MaxRefreshes ELSE None

NoMe      == [user |-> Nobody, status |-> "none"]
NoRefresh == [at |-> "none", me |-> NoMe]
NoPoll    == [at |-> "unborn", attempt |-> 0, result |-> "none"]
NoJwt     == [at |-> "none", user |-> Nobody]

VARIABLES
    session,    \* whose session the native side holds
    jwtCache,   \* JWT_CACHE: whose JWT it is
    jwt,        \* the JWT of each refresh, or of the poll it belongs to
    late,       \* since the session changed, a JWT of an earlier one was cached
    provider,   \* each user's subscription at the provider
    record,     \* and in /v1/me
    notices,    \* auth:changed events on their way
    signedIn,   \* the page
    me,
    refreshes,  \* those under way
    latest,     \* the one that was asked last
    behind,     \* the parts of the page it has not set, or not last
    polls,
    moves, losses

jwtVars     == <<jwtCache, jwt, late>>
backendVars == <<session, provider, record>>
pageVars    == <<signedIn, me, behind>>
accountVars == <<backendVars, jwtVars, notices, pageVars, refreshes, latest, polls, moves, losses>>

Page == {"signedIn", "me"}

AccountInit ==
    /\ session \in Users \cup {Nobody}
    /\ jwtCache = Nobody /\ jwt = [r \in Refreshes |-> NoJwt] /\ late = FALSE
    /\ provider = [u \in Users |-> "none"] /\ record = provider
    /\ notices = 0
    /\ signedIn = FALSE /\ me = NoMe /\ behind = Page
    /\ refreshes = [r \in Refreshes |-> NoRefresh] /\ latest = None
    /\ polls = [p \in Polls |-> NoPoll]
    /\ moves = 0 /\ losses = 0

-----------------------------------------------------------------------------
(* Slips this code could have had, for the mutation runs.                   *)

SyncedIsEnough(result, next) == FALSE
SignedOutKeepsMe(r) == me' = me
JwtIsKept == jwtCache' = jwtCache

-----------------------------------------------------------------------------
(* The JWT of a call.                                                       *)

\* store_session and clear_session: no JWT of the session before is left.
ClearCachedJwt == jwtCache' = Nobody

\* The refresh fetches the account, or its poll reconciles.
Calls(r) ==
    \/ refreshes[r].at = "fetching"
    \/ PollOf(r) # None /\ polls[PollOf(r)].at = "syncing"

\* fetch_jwt: the JWT that is cached, or, when there is none or it has expired, one of the
\* session there is, if there is one.
AsksJwt(r) ==
    /\ Calls(r) /\ jwt[r].at = "none"
    /\ \/ /\ jwtCache # Nobody
          /\ jwt' = [jwt EXCEPT ![r] = [at |-> "held", user |-> jwtCache]]
          /\ UNCHANGED jwtCache
       \/ /\ jwtCache' = Nobody
          /\ jwt' = [jwt EXCEPT ![r] =
                       [at |-> IF session = Nobody THEN "held" ELSE "minting", user |-> session]]
    /\ UNCHANGED <<backendVars, late, notices, pageVars, refreshes, latest, polls, moves, losses>>

\* It is cached without another look at the session, or does not come.
JwtArrives(r) ==
    /\ jwt[r].at = "minting"
    /\ \/ /\ jwt' = [jwt EXCEPT ![r].at = "held"]
          /\ jwtCache' = jwt[r].user /\ late' = (late \/ jwt[r].user # session)
          /\ UNCHANGED losses
       \/ /\ losses < MaxLosses /\ losses' = losses + 1
          /\ jwt' = [jwt EXCEPT ![r] = [at |-> "held", user |-> Nobody]]
          /\ UNCHANGED <<jwtCache, late>>
    /\ UNCHANGED <<backendVars, notices, pageVars, refreshes, latest, polls, moves>>

Spent(r) == jwt[r].at = "held" /\ jwt' = [jwt EXCEPT ![r] = NoJwt] /\ UNCHANGED <<jwtCache, late>>

-----------------------------------------------------------------------------
(* The loop of a poll.                                                      *)

ShouldContinueBillingPoll(result, next) ==
    result = "pending" \/ next = NoMe \/ next.status # result

\* The poll's refresh returns next: the loop breaks, pauses, or was at its last attempt.
Decided(p, next) ==
    [polls[p] EXCEPT !.at =
        IF polls[p].result # "none" /\ ~ShouldContinueBillingPoll(polls[p].result, next)
        THEN "settled"
        ELSE IF polls[p].attempt = Attempts THEN "exhausted" ELSE "pausing"]

-----------------------------------------------------------------------------
(* refresh.                                                                 *)

\* r sets these parts of the page; an older one overtakes what the latest has set.
Sets(r, parts) == behind' = IF r = latest THEN behind \ parts ELSE behind \cup parts

\* get_auth_status runs at once; its answer is on its way.
Asks(r) ==
    /\ refreshes[r].at = "none"
    /\ refreshes' = [refreshes EXCEPT ![r] = [at |-> "told", me |-> [NoMe EXCEPT !.user = session]]]
    /\ latest' = r /\ behind' = Page
    /\ UNCHANGED <<signedIn, me>>

Returns(r, next) ==
    /\ refreshes' = [refreshes EXCEPT ![r] = NoRefresh]
    /\ polls' = IF PollOf(r) = None THEN polls
                ELSE [polls EXCEPT ![PollOf(r)] = Decided(PollOf(r), next)]

\* Nobody is signed in, and the account goes with them.
SignedOutPage(r) == me' = NoMe

\* The answer arrives; somebody's account is fetched next.
StatusArrives(r) ==
    /\ refreshes[r].at = "told"
    /\ signedIn' = (refreshes[r].me.user # Nobody)
    /\ IF signedIn'
       THEN /\ refreshes' = [refreshes EXCEPT ![r] = [NoRefresh EXCEPT !.at = "fetching"]]
            /\ Sets(r, {"signedIn"})
            /\ UNCHANGED <<me, polls>>
       ELSE SignedOutPage(r) /\ Sets(r, Page) /\ Returns(r, NoMe)
    /\ UNCHANGED <<backendVars, jwtVars, notices, latest, moves, losses>>

\* fetch_me: the account of whoever the JWT names, or nothing when it fails.
MeRead(r) ==
    /\ refreshes[r].at = "fetching" /\ Spent(r)
    /\ \/ /\ refreshes' = [refreshes EXCEPT ![r].at = "fetched", ![r].me =
                IF jwt[r].user = Nobody THEN NoMe
                ELSE [user |-> jwt[r].user, status |-> record[jwt[r].user]]]
          /\ UNCHANGED losses
       \/ /\ losses < MaxLosses /\ losses' = losses + 1
          /\ refreshes' = [refreshes EXCEPT ![r].at = "fetched"]
    /\ UNCHANGED <<backendVars, notices, pageVars, latest, polls, moves>>

MeArrives(r) ==
    /\ refreshes[r].at = "fetched"
    /\ me' = refreshes[r].me
    /\ Sets(r, {"me"})
    /\ Returns(r, refreshes[r].me)
    /\ UNCHANGED <<backendVars, jwtVars, notices, signedIn, latest, moves, losses>>

Refresh(r) == StatusArrives(r) \/ AsksJwt(r) \/ JwtArrives(r) \/ MeRead(r) \/ MeArrives(r)

-----------------------------------------------------------------------------
(* Who refreshes.                                                           *)

Moves == moves < MaxMoves /\ moves' = moves + 1

\* auth:changed
AuthChanged(r) ==
    /\ PollOf(r) = None
    /\ notices > 0 /\ notices' = notices - 1
    /\ Asks(r)
    /\ UNCHANGED <<backendVars, jwtVars, polls, moves, losses>>

\* The window opens, or is focused.
Opened(r) ==
    /\ PollOf(r) = None
    /\ Asks(r)
    /\ UNCHANGED <<backendVars, jwtVars, notices, polls, moves, losses>>

\* "Log out": the session is cleared, then the event emitted.  The refresh of its own
\* that follows is one more Opened.
LogOut ==
    /\ signedIn /\ Moves
    /\ session' = Nobody /\ ClearCachedJwt /\ late' = FALSE /\ notices' = notices + 1
    /\ UNCHANGED <<jwt, provider, record, pageVars, refreshes, latest, polls, losses>>

\* billing:changed
BillingReturns(p) ==
    /\ \A q \in Polls : (polls[q].at = "unborn") <=> q >= p
    /\ polls' = [polls EXCEPT ![p] = [NoPoll EXCEPT !.at = "syncing", !.attempt = 1]]
    /\ UNCHANGED <<backendVars, jwtVars, notices, pageVars, refreshes, latest, moves, losses>>

-----------------------------------------------------------------------------
(* A poll.                                                                  *)

\* reconcileBillingAccount stores what the provider says, when it knows of anything.
SyncRuns(p) ==
    LET u == jwt[RefreshOf(p)].user
    IN  /\ polls[p].at = "syncing" /\ Spent(RefreshOf(p))
        /\ \/ /\ u # Nobody
              /\ record' = [record EXCEPT ![u] = IF provider[u] = "none" THEN @ ELSE provider[u]]
              /\ polls' = [polls EXCEPT ![p].at = "synced", ![p].result = provider[u]]
              /\ UNCHANGED losses
           \/ /\ u = Nobody \/ losses < MaxLosses
              /\ losses' = IF u = Nobody THEN losses ELSE losses + 1
              /\ polls' = [polls EXCEPT ![p].at = "synced", ![p].result = "none"]
              /\ UNCHANGED record
        /\ UNCHANGED <<session, provider, notices, pageVars, refreshes, latest, moves>>

SyncArrives(p) ==
    /\ polls[p].at = "synced"
    /\ polls' = [polls EXCEPT ![p].at = "refreshing"]
    /\ Asks(RefreshOf(p))
    /\ UNCHANGED <<backendVars, jwtVars, notices, moves, losses>>

NextAttempt(p) ==
    /\ polls[p].at = "pausing"
    /\ polls' = [polls EXCEPT ![p].at = "syncing", ![p].attempt = @ + 1]
    /\ UNCHANGED <<backendVars, jwtVars, notices, pageVars, refreshes, latest, moves, losses>>

Poll(p) == SyncRuns(p) \/ NextAttempt(p) \/ SyncArrives(p)

-----------------------------------------------------------------------------
(* What happens elsewhere.                                                  *)

\* exchange_code stores the session, then emits the event.
SignIn(u) ==
    /\ Moves
    /\ session' = u /\ ClearCachedJwt /\ late' = FALSE /\ notices' = notices + 1
    /\ UNCHANGED <<jwt, provider, record, pageVars, refreshes, latest, polls, losses>>

After(status) == CASE status = "none" -> {"pending", "active"} [] status = "pending" -> {"active", "failed"}
                   [] OTHER -> {"pending"}

Pays(u) ==
    /\ Moves
    /\ \E s \in After(provider[u]) : provider' = [provider EXCEPT ![u] = s]
    /\ UNCHANGED <<session, jwtVars, record, notices, pageVars, refreshes, latest, polls, losses>>

Webhook(u) ==
    /\ Moves
    /\ record[u] # provider[u] /\ record' = [record EXCEPT ![u] = provider[u]]
    /\ UNCHANGED <<session, jwtVars, provider, notices, pageVars, refreshes, latest, polls, losses>>

-----------------------------------------------------------------------------
AccountNext ==
    \/ \E r \in Refreshes : Refresh(r) \/ AuthChanged(r) \/ Opened(r)
    \/ LogOut
    \/ \E p \in Polls : Poll(p) \/ BillingReturns(p)
    \/ \E u \in Users : SignIn(u) \/ Pays(u) \/ Webhook(u)

AccountSpec == AccountInit /\ [][AccountNext]_accountVars

\* Requests end, be it by their timeouts (proxy.rs:340, 387), and a pause is a timer.
AccountFairness ==
    /\ \A r \in Refreshes : WF_accountVars(Refresh(r))
    /\ \A p \in Polls : WF_accountVars(Poll(p))

-----------------------------------------------------------------------------
(* Properties.                                                              *)

AccountTypeOK ==
    /\ {session, jwtCache} \subseteq Users \cup {Nobody} /\ late \in BOOLEAN
    /\ jwt \in [Refreshes -> [at : {"none", "minting", "held"}, user : Users \cup {Nobody}]]
    /\ {provider, record} \subseteq [Users -> {"none", "pending", "active", "failed"}]
    /\ notices \in Nat /\ signedIn \in BOOLEAN
    /\ me.user \in Users \cup {Nobody} /\ behind \subseteq Page /\ latest \in Refreshes \cup {None}
    /\ moves \in 0..MaxMoves /\ losses \in 0..MaxLosses

\* Whoever signs in or out while refreshes are under way, the page comes to rest on
\* the right account: once no event and no refresh is pending, and unless an answer
\* was overtaken, it is signed in if the app is, and never shows another user's plan
\* (SettingsView.tsx:61-75, 125-135), unless a JWT asked for before the session changed
\* was cached after it (auth.rs:344): then the backend itself was asked for another user.
QuietPageIsTrue ==
    notices = 0 /\ behind = {} /\ (\A r \in Refreshes : refreshes[r] = NoRefresh) =>
        /\ signedIn <=> session # Nobody
        /\ me # NoMe /\ ~late => me.user = session

\* "Keep polling only while the provider is genuinely pending or /v1/me has not caught
\* up" (SettingsView.tsx:102-103): a payment that is settled when the user returns is
\* shown, although fewer requests fail than there are attempts, unless such a JWT is late.
PaidIsShown ==
    \A p \in Polls : \A u \in Users :
        (/\ polls[p].at = "syncing" /\ polls[p].attempt = 1 /\ jwt[RefreshOf(p)] = NoJwt
         /\ session = u /\ provider[u] = "active")
            ~> \/ me = [user |-> u, status |-> "active"]
               \/ session # u \/ provider[u] # "active" \/ late
===============================================================================

---------------------------- MODULE SettingsProofs ----------------------------
(***************************************************************************)
(* The sections of the settings window, for any voices, users and numbers  *)
(* of saves, refreshes, polls and calls: VoiceSettings, AccountPage and    *)
(* UpdateRow, which share no state.                                        *)
(***************************************************************************)
EXTENDS VoiceSettings, AccountPage, UpdateRow, TLAPS

(***************************************************************************)
(* The update row.                                                         *)
(***************************************************************************)

(* The row never waits for a check or a download that is over, however many *)
(* of them overlap, fail or outlive a sign-out, unless the download of an   *)
(* earlier row failed without its hearing.                                  *)
THEOREM RowIsNeverStuck == UpdateSpec => [](UpdateTypeOK /\ RowHasItsCall)
  <1> DEFINE Counts == /\ checks \in Nat /\ checks <= MaxCalls
                       /\ installs \in Nat /\ strays \in Nat /\ installs + strays <= MaxCalls
             Flags  == shown \in BOOLEAN /\ unheard \in BOOLEAN /\ newer \in BOOLEAN /\ retry \in BOOLEAN
             States == state \in {"idle", "checking", "current", "available", "installing", "error"}
             \* Without a row there is nothing to wait for.
             Away   == ~shown => state = "idle" /\ checks = 0 /\ installs = 0 /\ ~retry
             Rows   == Counts /\ States /\ Away /\ RowHasItsCall
  <1>0. UpdateTypeOK <=> Counts /\ Flags /\ States
    BY CallsAssumption DEF UpdateTypeOK
  <1>1. UpdateInit => Rows /\ Flags
    <2>1. UpdateInit => Rows
      BY CallsAssumption DEF UpdateInit, RowHasItsCall
    <2>2. UpdateInit => Flags
      BY DEF UpdateInit
    <2> QED BY <2>1, <2>2
  <1>2. Rows /\ Flags /\ [UpdateNext]_updateVars => (Rows /\ Flags)'
    <2> SUFFICES ASSUME Rows, Flags, [UpdateNext]_updateVars
                 PROVE  Rows' /\ Flags'
      OBVIOUS
    <2>1. Flags'
      BY DEF UpdateNext, updateVars, rowVars, CheckNow, Retry, Checks, CheckArrives, Install, Progress,
             InstallFails, StrayFails, SignsOut, SignsIn, NewRow, Restart, WatchFinds, Publish
    <2>2. ASSUME CheckNow \/ Retry PROVE Rows'
      <3>1. shown /\ Checks
        BY <2>2 DEF CheckNow, Retry
      <3> QED BY <3>1, CallsAssumption DEF Checks, RowHasItsCall
    <2>3. ASSUME CheckArrives PROVE Rows'
      <3>1. /\ checks > 0 /\ checks' = checks - 1 /\ UNCHANGED <<shown, installs, strays>>
            /\ state' \in {"available", "current", "error"}
        BY <2>3 DEF CheckArrives, Fails
      <3> QED BY <3>1, CallsAssumption DEF RowHasItsCall
    <2>4. ASSUME Install \/ Progress \/ InstallFails PROVE Rows'
      <3>1. shown /\ shown' = shown /\ checks' = checks
        BY <2>4 DEF Install, Progress, InstallFails
      <3> QED BY <2>4, <3>1, CallsAssumption DEF Install, Progress, InstallFails, Fails, RowHasItsCall
    <2>5. ASSUME StrayFails PROVE Rows'
      BY <2>5, CallsAssumption DEF StrayFails, RowHasItsCall
    <2>6. ASSUME SignsOut \/ Restart \/ WatchFinds PROVE Rows'
      BY <2>6, CallsAssumption DEF SignsOut, NewRow, Restart, WatchFinds, RowHasItsCall
    <2>7. ASSUME SignsIn \/ Publish \/ UNCHANGED updateVars PROVE Rows'
      <3>1. UNCHANGED <<state, checks, installs, strays, unheard, retry>> /\ (shown' = shown \/ shown')
        BY <2>7 DEF SignsIn, Publish, updateVars, rowVars
      <3> QED BY <3>1 DEF RowHasItsCall
    <2> QED BY <2>1, <2>2, <2>3, <2>4, <2>5, <2>6, <2>7 DEF UpdateNext
  <1>3. Rows /\ Flags => UpdateTypeOK /\ RowHasItsCall
    BY <1>0
  <1> HIDE DEF Rows, Flags
  <1> QED BY <1>1, <1>2, <1>3, PTL DEF UpdateSpec

(***************************************************************************)
(* The account.                                                            *)
(***************************************************************************)
Statuses == {"none", "pending", "active", "failed"}
Accounts == [user : Users \cup {Nobody}, status : Statuses]
RefreshTypes ==
    refreshes \in [Refreshes -> [at : {"none", "told", "fetching", "fetched"}, me : Accounts]]
MeIsAnAccount == me \in Accounts

(* A JWT belongs to a call under way, and a poll waits for its refresh.     *)
PollTypes ==
    polls \in [Polls -> [at : {"unborn", "syncing", "synced", "refreshing", "pausing",
                              "settled", "exhausted"},
                        attempt : Nat, result : Statuses]]
PollsWait == \A p \in Polls : refreshes[RefreshOf(p)].at # "none" => polls[p].at = "refreshing"
JwtBelongs == \A r \in Refreshes : jwt[r].at # "none" => Calls(r)

(* Without a late one, the JWT that is cached is one of the session there is. *)
CacheIsCurrent == ~late => jwtCache \in {Nobody, session}

Base == AccountTypeOK /\ RefreshTypes /\ PollTypes /\ PollsWait /\ JwtBelongs /\ CacheIsCurrent

(* Unless an event is on its way, the latest refresh was told of the        *)
(* session there is, and without a late JWT it asked for, and fetched, the  *)
(* account of that session or nothing.                                      *)
LatestIsTold ==
    notices = 0 /\ latest # None =>
        /\ refreshes[latest].at = "told" => refreshes[latest].me.user = session
        /\ ~late /\ jwt[latest].at # "none" => jwt[latest].user \in {Nobody, session}
        /\ ~late /\ refreshes[latest].at \in {"fetching", "fetched"} /\ refreshes[latest].me # NoMe
             => refreshes[latest].me.user = session

(* A refresh that fetches holds nothing yet.                                *)
FetchingIsEmpty == \A r \in Refreshes : refreshes[r].at = "fetching" => refreshes[r].me = NoMe

(* Unless an event is on its way, what the latest refresh has set is true.  *)
PartsAreTrue ==
    notices = 0 =>
        /\ "signedIn" \notin behind => (signedIn <=> session # Nobody)
        /\ "me" \notin behind /\ me # NoMe /\ ~late => me.user = session

AInv == Base /\ MeIsAnAccount /\ LatestIsTold /\ FetchingIsEmpty /\ PartsAreTrue

-----------------------------------------------------------------------------
LEMMA PagesAreBounded ==
  /\ \A p \in Polls : RefreshOf(p) \in Refreshes
  /\ None \notin Refreshes /\ NoMe \in Accounts /\ NoMe.user = Nobody
  /\ NoRefresh.at = "none" /\ NoRefresh.me = NoMe
  /\ NoRefresh \in [at : {"none", "told", "fetching", "fetched"}, me : Accounts]
  BY AttemptsAssumption DEF Polls, RefreshOf, Refreshes, None, NoMe, NoRefresh, Accounts, Statuses

\* A refresh starts: it is told of the session there is, and nothing of the page is its own.
LEMMA AskingKeeps ==
  ASSUME AInv, Base', NEW r \in Refreshes, Asks(r), UNCHANGED <<session, jwtVars>>,
         ~Calls(r)
  PROVE  AInv'
  <1>1. /\ refreshes' = [refreshes EXCEPT ![r] = [at |-> "told", me |-> [NoMe EXCEPT !.user = session]]]
        /\ latest' = r /\ behind' = Page /\ UNCHANGED <<signedIn, me, jwt, late>>
    BY DEF Asks, jwtVars
  <1>2. [NoMe EXCEPT !.user = session].user = session /\ jwt[r].at = "none"
    BY DEF NoMe, AInv, Base, JwtBelongs
  <1>4. refreshes'[r].at = "told" /\ refreshes'[r].me.user = session
        /\ \A q \in Refreshes \ {r} : refreshes'[q] = refreshes[q]
    BY <1>1, <1>2 DEF AInv, Base, RefreshTypes
  <1>5. LatestIsTold'
    BY <1>1, <1>2, <1>4 DEF LatestIsTold
  <1>6. FetchingIsEmpty'
    BY <1>4 DEF AInv, FetchingIsEmpty
  <1>7. PartsAreTrue'
    BY <1>1 DEF PartsAreTrue, Page
  <1> QED BY <1>1, <1>5, <1>6, <1>7 DEF AInv, MeIsAnAccount

\* The backend and other windows: a session that changes leaves an event on its way.
LEMMA ElsewhereKeeps ==
  ASSUME AInv, Base', UNCHANGED <<pageVars, refreshes, latest>>,
         \/ notices' > 0
         \/ UNCHANGED <<session, notices, late>>
              /\ \A r \in Refreshes : jwt'[r].at # "none" => jwt'[r] = jwt[r]
  PROVE  AInv'
  <1>1. UNCHANGED <<signedIn, me, behind, refreshes, latest>>
    BY DEF pageVars
  <1>2. MeIsAnAccount' /\ FetchingIsEmpty'
    BY <1>1 DEF AInv, MeIsAnAccount, FetchingIsEmpty
  <1>3. latest \in Refreshes \cup {None}
    BY DEF AInv, Base, AccountTypeOK
  <1>4. LatestIsTold' /\ PartsAreTrue'
    <2>1. CASE notices' > 0
      BY <2>1 DEF LatestIsTold, PartsAreTrue
    <2>2. CASE UNCHANGED <<session, notices, late>>
                 /\ \A r \in Refreshes : jwt'[r].at # "none" => jwt'[r] = jwt[r]
      BY <1>1, <1>3, <2>2 DEF AInv, LatestIsTold, PartsAreTrue
    <2> QED BY <2>1, <2>2
  <1> QED BY <1>2, <1>4 DEF AInv

\* A JWT is asked for, and arrives: without a late one it is the session's.
LEMMA JwtKeeps ==
  ASSUME AInv, Base', NEW r \in Refreshes, AsksJwt(r) \/ JwtArrives(r)
  PROVE  AInv'
  <1>1. UNCHANGED <<session, notices, signedIn, me, behind, refreshes, latest>>
    BY DEF AsksJwt, JwtArrives, backendVars, pageVars
  <1>2. MeIsAnAccount' /\ FetchingIsEmpty'
    BY <1>1 DEF AInv, MeIsAnAccount, FetchingIsEmpty
  <1>3. /\ \A q \in Refreshes \ {r} : jwt'[q] = jwt[q]
        /\ ~late' => ~late
        /\ \/ jwt[r].at = "minting" /\ jwt'[r].user \in {jwt[r].user, Nobody}
           \/ jwt'[r].user \in {jwtCache, session}
    BY DEF AsksJwt, JwtArrives, AInv, Base, AccountTypeOK
  <1>4. latest \in Refreshes \cup {None} /\ CacheIsCurrent
    BY DEF AInv, Base, AccountTypeOK
  <1>5. PartsAreTrue'
    BY <1>1, <1>3 DEF AInv, PartsAreTrue
  <1>6. LatestIsTold'
    <2> SUFFICES ASSUME notices = 0, latest # None
                 PROVE  /\ refreshes[latest].at = "told" => refreshes[latest].me.user = session
                        /\ ~late' /\ jwt'[latest].at # "none" => jwt'[latest].user \in {Nobody, session}
                        /\ ~late' /\ refreshes[latest].at \in {"fetching", "fetched"}
                             /\ refreshes[latest].me # NoMe => refreshes[latest].me.user = session
      BY <1>1 DEF LatestIsTold
    <2>1. ~late' /\ jwt'[latest].at # "none" => jwt'[latest].user \in {Nobody, session}
      <3>1. CASE latest = r
        BY <1>3, <1>4, <3>1 DEF AInv, LatestIsTold, CacheIsCurrent
      <3>2. CASE latest # r
        BY <1>3, <1>4, <3>2 DEF AInv, LatestIsTold
      <3> QED BY <3>1, <3>2
    <2> QED BY <1>3, <2>1 DEF AInv, LatestIsTold
  <1> QED BY <1>2, <1>5, <1>6 DEF AInv

\* Who is signed in is known.
LEMMA StatusKeeps ==
  ASSUME AInv, Base', NEW r \in Refreshes, StatusArrives(r)
  PROVE  AInv'
  <1>0. UNCHANGED <<session, notices, latest, jwt, late>> /\ refreshes[r].at = "told"
        /\ signedIn' = (refreshes[r].me.user # Nobody)
    BY DEF StatusArrives, backendVars, jwtVars
  <1>1. CASE signedIn'
    <2>1. /\ refreshes' = [refreshes EXCEPT ![r] = [NoRefresh EXCEPT !.at = "fetching"]]
          /\ Sets(r, {"signedIn"}) /\ UNCHANGED me
      BY <1>1 DEF StatusArrives
    <2>2. /\ [NoRefresh EXCEPT !.at = "fetching"].me = NoMe
          /\ [NoRefresh EXCEPT !.at = "fetching"].at = "fetching"
      BY PagesAreBounded DEF NoRefresh
    <2>3. MeIsAnAccount'
      BY <2>1 DEF AInv, MeIsAnAccount
    <2>4. /\ refreshes'[r].at = "fetching" /\ refreshes'[r].me = NoMe
          /\ \A q \in Refreshes \ {r} : refreshes'[q] = refreshes[q]
      BY <2>1, <2>2 DEF AInv, Base, RefreshTypes
    <2>5. LatestIsTold'
      BY <1>0, <2>4 DEF AInv, Base, AccountTypeOK, LatestIsTold
    <2>6. FetchingIsEmpty'
      BY <2>4 DEF AInv, FetchingIsEmpty
    <2>7. PartsAreTrue'
      <3>1. SUFFICES ASSUME notices = 0
                     PROVE  /\ "signedIn" \notin behind' => (signedIn' <=> session # Nobody)
                            /\ "me" \notin behind' /\ me # NoMe /\ ~late => me.user = session
        BY <1>0, <2>1 DEF PartsAreTrue
      <3>2. "me" \notin behind' => "me" \notin behind
        BY <2>1 DEF Sets
      <3>3. "signedIn" \notin behind' => r = latest
        BY <2>1 DEF Sets
      <3>4. r = latest => refreshes[r].me.user = session
        BY <1>0, <3>1, PagesAreBounded DEF AInv, LatestIsTold
      <3> QED BY <1>0, <3>1, <3>2, <3>3, <3>4 DEF AInv, PartsAreTrue
    <2> QED BY <2>3, <2>5, <2>6, <2>7 DEF AInv
  <1>2. CASE ~signedIn'
    <2>1. /\ refreshes' = [refreshes EXCEPT ![r] = NoRefresh]
          /\ Sets(r, Page) /\ me' = NoMe
      BY <1>2 DEF StatusArrives, SignedOutPage, Returns
    <2>3. MeIsAnAccount'
      BY <2>1, PagesAreBounded DEF AInv, MeIsAnAccount
    <2>4. /\ refreshes'[r] = NoRefresh
          /\ \A q \in Refreshes \ {r} : refreshes'[q] = refreshes[q]
      BY <2>1 DEF AInv, Base, RefreshTypes
    <2>5. LatestIsTold'
      BY <1>0, <2>4, PagesAreBounded DEF AInv, Base, AccountTypeOK, LatestIsTold
    <2>6. FetchingIsEmpty'
      BY <2>4, PagesAreBounded DEF AInv, FetchingIsEmpty
    <2>7. PartsAreTrue'
      <3>1. SUFFICES ASSUME notices = 0, "signedIn" \notin behind'
                     PROVE  signedIn' <=> session # Nobody
        BY <1>0, <2>1 DEF PartsAreTrue
      <3>2. r = latest
        BY <2>1, <3>1 DEF Sets, Page
      <3>3. refreshes[r].me.user = session
        BY <1>0, <3>1, <3>2, PagesAreBounded DEF AInv, LatestIsTold
      <3> QED BY <1>0, <3>3
    <2> QED BY <2>3, <2>5, <2>6, <2>7 DEF AInv
  <1> QED BY <1>1, <1>2

\* An account is read, and shown.
LEMMA MeKeeps ==
  ASSUME AInv, Base', NEW r \in Refreshes, MeRead(r) \/ MeArrives(r)
  PROVE  AInv'
  <1>0. UNCHANGED <<session, notices, latest, signedIn, late>>
    BY DEF MeRead, MeArrives, Spent, backendVars, pageVars, jwtVars
  <1>1. CASE MeRead(r)
    <2>0. /\ UNCHANGED <<me, behind>> /\ refreshes[r].at = "fetching" /\ refreshes[r].me = NoMe
          /\ jwt[r].at = "held" /\ jwt' = [jwt EXCEPT ![r] = NoJwt]
      BY <1>1 DEF MeRead, Spent, pageVars, AInv, FetchingIsEmpty
    <2>1. PICK a \in {NoMe, [user |-> jwt[r].user, status |-> record[jwt[r].user]]} :
             /\ refreshes' = [refreshes EXCEPT ![r].at = "fetched", ![r].me = a]
             /\ a # NoMe => a.user = jwt[r].user /\ a.user # Nobody
      <3>1. CASE refreshes' = [refreshes EXCEPT ![r].at = "fetched", ![r].me =
                     IF jwt[r].user = Nobody THEN NoMe
                     ELSE [user |-> jwt[r].user, status |-> record[jwt[r].user]]]
        BY <3>1
      <3>2. CASE refreshes' = [refreshes EXCEPT ![r].at = "fetched"]
        <4>1. refreshes' = [refreshes EXCEPT ![r].at = "fetched", ![r].me = NoMe]
          BY <2>0, <3>2 DEF AInv, Base, RefreshTypes
        <4> QED BY <4>1
      <3> QED BY <1>1, <3>1, <3>2 DEF MeRead
    <2>3. /\ refreshes'[r].at = "fetched" /\ refreshes'[r].me = a
          /\ \A q \in Refreshes \ {r} : refreshes'[q] = refreshes[q]
      BY <2>0, <2>1 DEF AInv, Base, RefreshTypes
    <2>4. LatestIsTold'
      <3>1. jwt'[r].at = "none" /\ \A q \in Refreshes \ {r} : jwt'[q] = jwt[q]
        BY <2>0 DEF AInv, Base, AccountTypeOK, NoJwt
      <3>2. latest \in Refreshes \cup {None} /\ LatestIsTold
        BY DEF AInv, Base, AccountTypeOK
      <3>3. notices = 0 /\ latest = r /\ ~late /\ a # NoMe => a.user = session
        BY <2>0, <2>1, <3>2, PagesAreBounded DEF LatestIsTold
      <3> QED BY <1>0, <2>3, <3>1, <3>2, <3>3 DEF LatestIsTold
    <2>5. FetchingIsEmpty'
      BY <2>3 DEF AInv, FetchingIsEmpty
    <2>6. PartsAreTrue'
      BY <1>0, <2>0 DEF AInv, PartsAreTrue
    <2> QED BY <2>0, <2>4, <2>5, <2>6 DEF AInv, MeIsAnAccount
  <1>2. CASE MeArrives(r)
    <2>1. /\ refreshes[r].at = "fetched" /\ me' = refreshes[r].me /\ Sets(r, {"me"})
          /\ refreshes' = [refreshes EXCEPT ![r] = NoRefresh] /\ jwt' = jwt
      BY <1>2 DEF MeArrives, Returns, jwtVars
    <2>2. MeIsAnAccount'
      BY <2>1 DEF AInv, Base, RefreshTypes, MeIsAnAccount
    <2>3. /\ refreshes'[r] = NoRefresh
          /\ \A q \in Refreshes \ {r} : refreshes'[q] = refreshes[q]
      BY <2>1 DEF AInv, Base, RefreshTypes
    <2>4. LatestIsTold'
      BY <1>0, <2>1, <2>3, PagesAreBounded DEF AInv, Base, AccountTypeOK, LatestIsTold
    <2>5. FetchingIsEmpty'
      BY <2>3, PagesAreBounded DEF AInv, FetchingIsEmpty
    <2>6. PartsAreTrue'
      <3>1. SUFFICES ASSUME notices = 0
                     PROVE  /\ "signedIn" \notin behind' => (signedIn' <=> session # Nobody)
                            /\ "me" \notin behind' /\ me' # NoMe /\ ~late => me'.user = session
        BY <1>0 DEF PartsAreTrue
      <3>2. "signedIn" \notin behind' => "signedIn" \notin behind
        BY <2>1 DEF Sets
      <3>3. "me" \notin behind' => r = latest
        BY <2>1 DEF Sets
      <3>4. r = latest /\ me' # NoMe /\ ~late => me'.user = session
        BY <2>1, <3>1, PagesAreBounded DEF AInv, LatestIsTold
      <3> QED BY <1>0, <3>1, <3>2, <3>3, <3>4 DEF AInv, PartsAreTrue
    <2> QED BY <2>2, <2>4, <2>5, <2>6 DEF AInv
  <1> QED BY <1>1, <1>2

LEMMA AccountTypesKeep ==
  ASSUME AInv, [AccountNext]_accountVars
  PROVE  AccountTypeOK'
  <1> DEFINE Sessions == session \in Users \cup {Nobody} /\ jwtCache \in Users \cup {Nobody}
             Tokens   == late \in BOOLEAN /\ jwt \in [Refreshes ->
                           [at : {"none", "minting", "held"}, user : Users \cup {Nobody}]]
             Bills    == provider \in [Users -> Statuses] /\ record \in [Users -> Statuses]
             Shown    == signedIn \in BOOLEAN /\ me.user \in Users \cup {Nobody}
             Asked    == behind \subseteq Page /\ latest \in Refreshes \cup {None}
             Counts   == notices \in Nat /\ moves \in 0..MaxMoves /\ losses \in 0..MaxLosses
  <1>0. /\ AccountTypeOK <=> Sessions /\ Tokens /\ Bills /\ Shown /\ Asked /\ Counts
        /\ (AccountTypeOK <=> Sessions /\ Tokens /\ Bills /\ Shown /\ Asked /\ Counts)'
    BY DEF AccountTypeOK, Statuses
  <1>1. Sessions /\ Tokens /\ Bills /\ Shown /\ Asked /\ Counts
    BY <1>0 DEF AInv, Base
  <1>a. ASSUME NEW r \in Refreshes, Spent(r) PROVE Tokens'
    BY <1>1, <1>a DEF Spent, NoJwt
  <1>2. ASSUME NEW r \in Refreshes, StatusArrives(r) \/ MeRead(r) \/ MeArrives(r) PROVE AccountTypeOK'
    <2>1. UNCHANGED <<session, jwtCache, provider, record, notices, latest, moves>>
      BY <1>2 DEF StatusArrives, MeRead, MeArrives, Spent, backendVars, jwtVars
    <2>2. Shown'
      <3>1. refreshes[r].me \in Accounts
        BY DEF AInv, Base, RefreshTypes
      <3>2. signedIn' \in BOOLEAN
        BY <1>1, <1>2 DEF StatusArrives, MeRead, MeArrives, pageVars
      <3>3. me' \in {me, NoMe, refreshes[r].me}
        BY <1>2 DEF StatusArrives, MeRead, MeArrives, pageVars, SignedOutPage
      <3> QED BY <1>1, <3>1, <3>2, <3>3, PagesAreBounded DEF Accounts
    <2>3. behind' \subseteq Page
      <3>1. UNCHANGED behind \/ \E parts \in SUBSET Page : Sets(r, parts)
        BY <1>2 DEF StatusArrives, MeRead, MeArrives, pageVars, Page
      <3> QED BY <1>1, <3>1 DEF Sets
    <2>4. losses' \in 0..MaxLosses
      BY <1>1, <1>2, AttemptsAssumption DEF StatusArrives, MeRead, MeArrives
    <2>5. Tokens'
      BY <1>1, <1>2, <1>a DEF StatusArrives, MeRead, MeArrives, jwtVars
    <2> QED BY <1>0, <1>1, <2>1, <2>2, <2>3, <2>4, <2>5
  <1>b. ASSUME NEW r \in Refreshes, AsksJwt(r) \/ JwtArrives(r) PROVE AccountTypeOK'
    <2>1. UNCHANGED <<session, provider, record, notices, signedIn, me, behind, latest, moves>>
      BY <1>b DEF AsksJwt, JwtArrives, backendVars, pageVars
    <2>2. losses' \in 0..MaxLosses
      BY <1>1, <1>b, AttemptsAssumption DEF AsksJwt, JwtArrives
    <2>3. jwtCache' \in Users \cup {Nobody} /\ late' \in BOOLEAN
      BY <1>1, <1>b DEF AsksJwt, JwtArrives
    <2>4. jwt' \in [Refreshes -> [at : {"none", "minting", "held"}, user : Users \cup {Nobody}]]
      BY <1>1, <1>b DEF AsksJwt, JwtArrives
    <2> QED BY <1>0, <1>1, <2>1, <2>2, <2>3, <2>4
  <1>3. ASSUME NEW r \in Refreshes, AuthChanged(r) \/ Opened(r) PROVE AccountTypeOK'
    <2>1. /\ UNCHANGED <<session, jwtCache, jwt, late, provider, record, moves, losses, signedIn, me>>
          /\ latest' = r /\ behind' = Page
      BY <1>3 DEF AuthChanged, Opened, Asks, backendVars, jwtVars
    <2>2. notices' \in Nat
      BY <1>1, <1>3 DEF AuthChanged, Opened
    <2> QED BY <1>0, <1>1, <2>1, <2>2
  <1>4. ASSUME NEW p \in Polls, Poll(p) \/ BillingReturns(p) PROVE AccountTypeOK'
    <2>1. UNCHANGED <<session, jwtCache, provider, notices, moves, signedIn, me>>
      BY <1>4 DEF Poll, SyncRuns, SyncArrives, NextAttempt, BillingReturns, Spent, backendVars,
                  pageVars, jwtVars, Asks
    <2>2. record' \in [Users -> Statuses]
      <3>1. CASE SyncRuns(p)
        <4>1. jwt[RefreshOf(p)].user \in Users \cup {Nobody}
          BY <1>1, PagesAreBounded
        <4>2. \/ UNCHANGED record
              \/ \E u \in Users : record' = [record EXCEPT ![u] =
                                     IF provider[u] = "none" THEN @ ELSE provider[u]]
          BY <3>1, <4>1 DEF SyncRuns
        <4> QED BY <1>1, <4>2
      <3> QED BY <1>1, <1>4, <3>1 DEF Poll, SyncArrives, NextAttempt, BillingReturns, backendVars
    <2>3. Asked'
      BY <1>1, <1>4, PagesAreBounded
      DEF Poll, SyncRuns, SyncArrives, NextAttempt, BillingReturns, pageVars, Asks
    <2>4. losses' \in 0..MaxLosses
      BY <1>1, <1>4, AttemptsAssumption
      DEF Poll, SyncRuns, SyncArrives, NextAttempt, BillingReturns
    <2>5. Tokens'
      BY <1>1, <1>4, <1>a, PagesAreBounded
      DEF Poll, SyncRuns, SyncArrives, NextAttempt, BillingReturns, jwtVars
    <2> QED BY <1>0, <1>1, <2>1, <2>2, <2>3, <2>4, <2>5
  <1>5. ASSUME LogOut \/ \E u \in Users : SignIn(u) \/ Pays(u) \/ Webhook(u) PROVE AccountTypeOK'
    <2>1. UNCHANGED <<signedIn, me, behind, latest, losses>>
      BY <1>5 DEF LogOut, SignIn, Pays, Webhook, pageVars
    <2>2. Sessions' /\ Tokens' /\ notices' \in Nat
      <3>1. CASE LogOut
        <4>1. UNCHANGED jwt /\ session' = Nobody /\ jwtCache' = Nobody /\ late' = FALSE
              /\ notices' = notices + 1
          BY <3>1 DEF LogOut, ClearCachedJwt
        <4>2. Sessions'
          BY <4>1
        <4>3. late' \in BOOLEAN
          BY <4>1
        <4>4. Tokens'
          BY <1>1, <4>1, <4>3
        <4>5. notices' \in Nat
          BY <1>1, <4>1
        <4> QED BY <4>2, <4>4, <4>5
      <3>2. ASSUME NEW u \in Users, SignIn(u) PROVE Sessions' /\ Tokens' /\ notices' \in Nat
        <4>1. UNCHANGED jwt /\ session' = u /\ jwtCache' = Nobody /\ late' = FALSE
              /\ notices' = notices + 1
          BY <3>2 DEF SignIn, ClearCachedJwt
        <4>2. Sessions'
          BY <4>1
        <4>3. late' \in BOOLEAN
          BY <4>1
        <4>4. Tokens'
          BY <1>1, <4>1, <4>3
        <4>5. notices' \in Nat
          BY <1>1, <4>1
        <4> QED BY <4>2, <4>4, <4>5
      <3>3. ASSUME NEW u \in Users, Pays(u) \/ Webhook(u)
            PROVE  Sessions' /\ Tokens' /\ notices' \in Nat
        <4>1. UNCHANGED <<session, jwtCache, late, jwt, notices>>
          BY <3>3 DEF Pays, Webhook, jwtVars
        <4> QED BY <1>1, <4>1
      <3> QED BY <1>5, <3>1, <3>2, <3>3
    <2>3. moves' \in 0..MaxMoves
      BY <1>1, <1>5, AttemptsAssumption DEF LogOut, SignIn, Pays, Webhook, Moves
    <2>4. Bills'
      <3>1. \A s : After(s) \subseteq Statuses
        BY DEF After, Statuses
      <3>2. ASSUME NEW u \in Users, Pays(u) PROVE Bills'
        BY <1>1, <3>1, <3>2 DEF Pays
      <3>3. ASSUME NEW u \in Users, Webhook(u) PROVE Bills'
        BY <1>1, <3>3 DEF Webhook
      <3> QED BY <1>1, <1>5, <3>2, <3>3 DEF LogOut, SignIn
    <2> QED BY <1>0, <1>1, <2>1, <2>2, <2>3, <2>4
  <1>6. CASE UNCHANGED accountVars
    BY <1>0, <1>1, <1>6 DEF accountVars, backendVars, pageVars, jwtVars
  <1> QED BY <1>2, <1>b, <1>3, <1>4, <1>5, <1>6 DEF AccountNext, Refresh

-----------------------------------------------------------------------------
LEMMA PollNumbers ==
  /\ \A p \in Polls : PollOf(RefreshOf(p)) = p /\ p # None
  /\ \A r \in Refreshes : PollOf(r) # None => PollOf(r) \in Polls /\ RefreshOf(PollOf(r)) = r
  BY AttemptsAssumption DEF Polls, RefreshOf, PollOf, Refreshes, None

\* A refresh that is over frees its poll, and had no JWT left.
LEMMA ReturnKeeps ==
  ASSUME AInv, NEW r \in Refreshes, NEW n, Returns(r, n), jwt' = jwt,
         refreshes[r].at \in {"told", "fetched"}
  PROVE  RefreshTypes' /\ PollTypes' /\ PollsWait' /\ JwtBelongs'
  <1>1. /\ refreshes' = [refreshes EXCEPT ![r] = NoRefresh]
        /\ polls' = IF PollOf(r) = None THEN polls
                    ELSE [polls EXCEPT ![PollOf(r)] = Decided(PollOf(r), n)]
    BY DEF Returns
  <1>2. RefreshTypes /\ PollTypes /\ PollsWait /\ JwtBelongs
    BY DEF AInv, Base
  <1>3. /\ refreshes'[r].at = "none" /\ \A q \in Refreshes \ {r} : refreshes'[q] = refreshes[q]
        /\ RefreshTypes'
    BY <1>1, <1>2, PagesAreBounded DEF RefreshTypes
  <1>4. PollTypes' /\ \A p \in Polls : PollOf(r) # p => polls'[p] = polls[p]
    <2>1. ASSUME NEW p \in Polls
          PROVE  Decided(p, n) \in [at : {"unborn", "syncing", "synced", "refreshing", "pausing",
                                          "settled", "exhausted"},
                                    attempt : Nat, result : Statuses]
      BY <1>2 DEF PollTypes, Decided
    <2> QED BY <1>1, <1>2, <2>1, PollNumbers DEF PollTypes
  <1>5. PollsWait'
    BY <1>2, <1>3, <1>4, PollNumbers, PagesAreBounded DEF PollsWait
  <1>6. JwtBelongs'
    <2> SUFFICES ASSUME NEW q \in Refreshes, jwt[q].at # "none" PROVE Calls(q)'
      BY DEF JwtBelongs
    <2>1. Calls(q)
      BY <1>2 DEF JwtBelongs
    <2>2. q # r
      BY <1>2, <2>1, PollNumbers DEF PollsWait, Calls
    <2>3. PollOf(q) # None => PollOf(q) \in Polls /\ PollOf(r) # PollOf(q)
      BY <2>2, PollNumbers
    <2> QED BY <1>3, <1>4, <2>1, <2>2, <2>3 DEF Calls, PollOf
  <1> QED BY <1>3, <1>4, <1>5, <1>6

\* A step that leaves the refreshes alone.
LEMMA CallsKeep ==
  ASSUME AInv, UNCHANGED <<refreshes, polls>>,
         \A r \in Refreshes : jwt'[r].at # "none" => jwt[r].at # "none" \/ Calls(r)
  PROVE  RefreshTypes' /\ PollTypes' /\ PollsWait' /\ JwtBelongs'
  BY DEF AInv, Base, RefreshTypes, PollTypes, PollsWait, JwtBelongs, Calls, PollOf

\* A refresh of nobody that is at work begins.
LEMMA AskKeeps ==
  ASSUME AInv, NEW r \in Refreshes, Asks(r), jwt' = jwt,
         \/ PollOf(r) = None /\ polls' = polls
         \/ \E p \in Polls : /\ r = RefreshOf(p) /\ polls[p].at = "synced"
                             /\ polls' = [polls EXCEPT ![p].at = "refreshing"]
  PROVE  RefreshTypes' /\ PollTypes' /\ PollsWait' /\ JwtBelongs' /\ ~Calls(r)
  <1>1. /\ refreshes[r].at = "none"
        /\ refreshes' = [refreshes EXCEPT ![r] = [at |-> "told", me |-> [NoMe EXCEPT !.user = session]]]
    BY DEF Asks
  <1>2. RefreshTypes /\ PollTypes /\ PollsWait /\ JwtBelongs
    BY DEF AInv, Base
  <1>3. [NoMe EXCEPT !.user = session] \in Accounts
    BY DEF NoMe, Accounts, Statuses, AInv, Base, AccountTypeOK
  <1>4. /\ refreshes'[r].at = "told" /\ \A q \in Refreshes \ {r} : refreshes'[q] = refreshes[q]
        /\ RefreshTypes'
    BY <1>1, <1>2, <1>3 DEF RefreshTypes
  <1>5. /\ PollTypes'
        /\ \A p \in Polls : IF r = RefreshOf(p) THEN polls[p].at = "synced" /\ polls'[p].at = "refreshing"
                            ELSE polls'[p] = polls[p]
    BY <1>2, PollNumbers DEF PollTypes
  <1>6. PollsWait'
    BY <1>2, <1>4, <1>5, PagesAreBounded DEF PollsWait
  <1>7. ~Calls(r)
    BY <1>1, <1>5, PollNumbers DEF Calls
  <1>8. JwtBelongs'
    <2> SUFFICES ASSUME NEW q \in Refreshes, jwt[q].at # "none" PROVE Calls(q)'
      BY DEF JwtBelongs
    <2>1. Calls(q) /\ q # r
      BY <1>2, <1>7 DEF JwtBelongs
    <2>2. PollOf(q) # None => PollOf(q) \in Polls /\ r # RefreshOf(PollOf(q))
      BY <2>1, PollNumbers
    <2> QED BY <1>4, <1>5, <2>1, <2>2 DEF Calls, PollOf
  <1> QED BY <1>4, <1>5, <1>6, <1>7, <1>8

\* A poll moves on, and leaves no JWT behind.
LEMMA PollKeeps ==
  ASSUME AInv, NEW p \in Polls, SyncRuns(p) \/ NextAttempt(p) \/ BillingReturns(p)
  PROVE  RefreshTypes' /\ PollTypes' /\ PollsWait' /\ JwtBelongs'
  <1>1. /\ refreshes' = refreshes /\ polls[p].at # "refreshing"
        /\ jwt' = jwt \/ SyncRuns(p)
        /\ SyncRuns(p) \/ polls'[p].at = "syncing"
    <2>1. CASE SyncRuns(p)
      BY <2>1 DEF SyncRuns, Spent
    <2>2. polls \in [Polls -> [at : {"unborn", "syncing", "synced", "refreshing", "pausing",
                                    "settled", "exhausted"}, attempt : Nat, result : Statuses]]
      BY DEF AInv, Base, PollTypes
    <2>3. CASE NextAttempt(p)
      BY <2>2, <2>3 DEF NextAttempt, jwtVars
    <2>4. CASE BillingReturns(p)
      <3>1. polls[p].at = "unborn" /\ refreshes' = refreshes /\ jwt' = jwt
        BY <2>4 DEF BillingReturns, jwtVars, Polls
      <3>2. polls'[p].at = "syncing"
        BY <2>2, <2>4 DEF BillingReturns, NoPoll
      <3> QED BY <3>1, <3>2
    <2> QED BY <2>1, <2>3, <2>4
  <1>2. RefreshTypes /\ PollTypes /\ PollsWait /\ JwtBelongs /\ AccountTypeOK
    BY DEF AInv, Base
  <1>3. PollTypes' /\ \A q \in Polls \ {p} : polls'[q] = polls[q]
    <2>1. CASE SyncRuns(p)
      <3>1. jwt[RefreshOf(p)].user \in Users \cup {Nobody}
        BY <1>2, PagesAreBounded DEF AccountTypeOK
      <3>2. jwt[RefreshOf(p)].user # Nobody => provider[jwt[RefreshOf(p)].user] \in Statuses
        BY <1>2, <3>1 DEF AccountTypeOK, Statuses
      <3>3. PICK x \in Statuses : polls' = [polls EXCEPT ![p].at = "synced", ![p].result = x]
        BY <2>1, <3>2 DEF SyncRuns, Statuses
      <3> QED BY <1>2, <3>3 DEF PollTypes
    <2>2. CASE NextAttempt(p)
      BY <1>2, <2>2 DEF PollTypes, NextAttempt
    <2>3. CASE BillingReturns(p)
      BY <1>2, <2>3 DEF PollTypes, BillingReturns, NoPoll, Statuses
    <2> QED BY <2>1, <2>2, <2>3
  <1>4. PollsWait'
    BY <1>1, <1>2, <1>3 DEF PollsWait
  <1>5. JwtBelongs'
    <2> SUFFICES ASSUME NEW q \in Refreshes, jwt'[q].at # "none" PROVE Calls(q)'
      BY DEF JwtBelongs
    <2>0. RefreshOf(p) \in Refreshes /\ jwt \in [Refreshes -> [at : {"none", "minting", "held"}, user : Users \cup {Nobody}]]
      BY <1>2, PagesAreBounded DEF AccountTypeOK
    <2>1. jwt'[q] = jwt[q] /\ (SyncRuns(p) => q # RefreshOf(p))
      <3>1. CASE SyncRuns(p)
        <4>1. jwt' = [jwt EXCEPT ![RefreshOf(p)] = NoJwt]
          BY <3>1 DEF SyncRuns, Spent
        <4> QED BY <2>0, <4>1 DEF NoJwt
      <3> QED BY <1>1, <3>1
    <2>2. Calls(q)
      BY <1>2, <2>1 DEF JwtBelongs
    <2>3. PollOf(q) # None => PollOf(q) \in Polls /\ q = RefreshOf(PollOf(q))
      BY PollNumbers
    <2> QED BY <1>1, <1>3, <2>1, <2>2, <2>3 DEF Calls, PollOf
  <1> QED BY <1>1, <1>2, <1>3, <1>4, <1>5 DEF RefreshTypes

LEMMA FetchKeeps ==
  ASSUME AInv, NEW r \in Refreshes, StatusArrives(r) \/ MeRead(r) \/ MeArrives(r)
  PROVE  RefreshTypes' /\ PollTypes' /\ PollsWait' /\ JwtBelongs'
  <1>2. RefreshTypes /\ PollTypes /\ PollsWait /\ JwtBelongs /\ AccountTypeOK /\ FetchingIsEmpty
    BY DEF AInv, Base
  <1>3. CASE refreshes[r].at # "fetching" /\ \E n : Returns(r, n)
    <2>1. refreshes[r].at \in {"told", "fetched"} /\ jwt' = jwt
      BY <1>3 DEF StatusArrives, MeRead, MeArrives, jwtVars
    <2> QED BY <1>3, <2>1, ReturnKeeps
  <1>4. CASE StatusArrives(r) /\ signedIn'
    <2>1. refreshes' = [refreshes EXCEPT ![r] = [NoRefresh EXCEPT !.at = "fetching"]]
          /\ polls' = polls /\ jwt' = jwt /\ refreshes[r].at = "told"
      BY <1>4 DEF StatusArrives, jwtVars
    <2>2. [NoRefresh EXCEPT !.at = "fetching"] \in [at : {"none", "told", "fetching", "fetched"}, me : Accounts]
          /\ [NoRefresh EXCEPT !.at = "fetching"].at = "fetching"
      BY PagesAreBounded DEF NoRefresh
    <2>3. /\ RefreshTypes' /\ refreshes'[r].at = "fetching"
          /\ \A q \in Refreshes \ {r} : refreshes'[q] = refreshes[q]
      BY <1>2, <2>1, <2>2 DEF RefreshTypes
    <2> QED BY <1>2, <2>1, <2>3, PagesAreBounded
            DEF PollTypes, PollsWait, JwtBelongs, Calls, PollOf
  <1>5. CASE MeRead(r)
    <2>1. refreshes[r].at = "fetching" /\ polls' = polls /\ jwt' = [jwt EXCEPT ![r] = NoJwt]
      BY <1>5 DEF MeRead, Spent
    <2>2. RefreshTypes' /\ refreshes'[r].at = "fetched"
          /\ \A q \in Refreshes \ {r} : refreshes'[q] = refreshes[q]
      <3>1. jwt[r].user \in Users \cup {Nobody}
        BY <1>2 DEF AccountTypeOK
      <3>2. jwt[r].user # Nobody => [user |-> jwt[r].user, status |-> record[jwt[r].user]] \in Accounts
        BY <1>2, <3>1 DEF AccountTypeOK, Accounts, Statuses
      <3>3. PICK a \in Accounts : refreshes' = [refreshes EXCEPT ![r].at = "fetched", ![r].me = a]
        <4>1. CASE refreshes' = [refreshes EXCEPT ![r].at = "fetched"]
          <5>1. refreshes' = [refreshes EXCEPT ![r].at = "fetched", ![r].me = NoMe]
            BY <1>2, <2>1, <4>1 DEF RefreshTypes, FetchingIsEmpty
          <5> QED BY <5>1, PagesAreBounded
        <4> QED BY <1>5, <3>2, <4>1, PagesAreBounded DEF MeRead
      <3> QED BY <1>2, <3>3 DEF RefreshTypes
    <2>3. PollsWait'
      BY <1>2, <2>1, <2>2, PagesAreBounded DEF PollsWait
    <2>4. JwtBelongs'
      <3>1. jwt'[r].at = "none" /\ \A q \in Refreshes \ {r} : jwt'[q] = jwt[q]
        BY <1>2, <2>1 DEF AccountTypeOK, NoJwt
      <3> QED BY <1>2, <2>1, <2>2, <3>1 DEF JwtBelongs, Calls, PollOf
    <2> QED BY <1>2, <2>1, <2>2, <2>3, <2>4 DEF PollTypes
  <1> QED BY <1>3, <1>4, <1>5 DEF StatusArrives, MeArrives

\* The cache holds the session's JWT, but for a late one.
LEMMA CacheKeeps ==
  ASSUME AInv, [AccountNext]_accountVars
  PROVE  CacheIsCurrent'
  <1>1. CacheIsCurrent
    BY DEF AInv, Base
  <1>2. ASSUME NEW r \in Refreshes, AsksJwt(r) \/ JwtArrives(r) PROVE CacheIsCurrent'
    <2>1. session' = session
      BY <1>2 DEF AsksJwt, JwtArrives, backendVars
    <2> QED BY <1>1, <1>2, <2>1 DEF AsksJwt, JwtArrives, CacheIsCurrent
  <1>3. ASSUME LogOut \/ \E u \in Users : SignIn(u) PROVE CacheIsCurrent'
    BY <1>3 DEF LogOut, SignIn, ClearCachedJwt, CacheIsCurrent
  <1>4. ASSUME UNCHANGED <<session, jwtCache, late>> PROVE CacheIsCurrent'
    BY <1>1, <1>4 DEF CacheIsCurrent
  <1>5. ASSUME NEW r \in Refreshes, StatusArrives(r) \/ MeRead(r) \/ MeArrives(r) \/ AuthChanged(r) \/ Opened(r)
        PROVE  CacheIsCurrent'
    BY <1>4, <1>5 DEF StatusArrives, MeRead, MeArrives, AuthChanged, Opened, Spent, backendVars, jwtVars
  <1>6. ASSUME NEW p \in Polls, Poll(p) \/ BillingReturns(p) PROVE CacheIsCurrent'
    BY <1>4, <1>6 DEF Poll, SyncRuns, SyncArrives, NextAttempt, BillingReturns, Spent, backendVars, jwtVars
  <1>7. ASSUME NEW u \in Users, Pays(u) \/ Webhook(u) PROVE CacheIsCurrent'
    BY <1>4, <1>7 DEF Pays, Webhook, jwtVars
  <1>8. CASE UNCHANGED accountVars
    BY <1>4, <1>8 DEF accountVars, backendVars, jwtVars
  <1> QED BY <1>2, <1>3, <1>5, <1>6, <1>7, <1>8 DEF AccountNext, Refresh

LEMMA BaseKeeps ==
  ASSUME AInv, [AccountNext]_accountVars
  PROVE  Base'
  <1> DEFINE Rest == RefreshTypes /\ PollTypes /\ PollsWait /\ JwtBelongs
  <1>1. AccountTypeOK' /\ CacheIsCurrent'
    BY AccountTypesKeep, CacheKeeps
  <1>2. ASSUME NEW r \in Refreshes, Refresh(r) PROVE Rest'
    <2>1. CASE AsksJwt(r) \/ JwtArrives(r)
      <3>1. UNCHANGED <<refreshes, polls>> /\ (jwt[r].at # "none" \/ Calls(r))
            /\ \A q \in Refreshes \ {r} : jwt'[q] = jwt[q]
        BY <2>1 DEF AsksJwt, JwtArrives, AInv, Base, AccountTypeOK
      <3> QED BY <3>1, CallsKeep
    <2> QED BY <1>2, <2>1, FetchKeeps DEF Refresh
  <1>3. ASSUME NEW r \in Refreshes, AuthChanged(r) \/ Opened(r) PROVE Rest'
    BY <1>3, AskKeeps DEF AuthChanged, Opened, jwtVars
  <1>4. ASSUME NEW p \in Polls, Poll(p) \/ BillingReturns(p) PROVE Rest'
    <2>1. CASE SyncArrives(p)
      BY <2>1, AskKeeps, PagesAreBounded DEF SyncArrives, jwtVars
    <2> QED BY <1>4, <2>1, PollKeeps DEF Poll
  <1>5. ASSUME UNCHANGED <<refreshes, polls, jwt>> PROVE Rest'
    BY <1>5, CallsKeep
  <1>6. ASSUME LogOut \/ \E u \in Users : SignIn(u) \/ Pays(u) \/ Webhook(u) PROVE Rest'
    BY <1>5, <1>6 DEF LogOut, SignIn, Pays, Webhook, jwtVars
  <1>7. ASSUME UNCHANGED accountVars PROVE Rest'
    <2>1. UNCHANGED <<refreshes, polls, jwt>>
      BY <1>7 DEF accountVars, jwtVars
    <2> QED BY <1>5, <2>1
  <1> QED BY <1>1, <1>2, <1>3, <1>4, <1>6, <1>7 DEF AccountNext, Base

-----------------------------------------------------------------------------
(* Every step of the account section keeps what the page shows tied to the  *)
(* latest refresh, and that refresh to the session.                         *)
THEOREM AccountInvariant == AccountSpec => []AInv
  <1>1. AccountInit => AInv
    <2> SUFFICES ASSUME AccountInit PROVE AInv
      OBVIOUS
    <2>1. /\ session \in Users \cup {Nobody} /\ notices = 0 /\ signedIn = FALSE /\ me = NoMe
          /\ behind = Page /\ latest = None /\ moves = 0 /\ losses = 0
          /\ provider = [u \in Users |-> "none"] /\ record = provider
          /\ refreshes = [r \in Refreshes |-> NoRefresh]
      BY DEF AccountInit
    <2>5. /\ jwtCache = Nobody /\ late = FALSE /\ jwt = [r \in Refreshes |-> NoJwt]
          /\ polls = [p \in Polls |-> NoPoll]
      BY DEF AccountInit
    <2>2. AccountTypeOK
      <3>1. moves \in 0..MaxMoves /\ losses \in 0..MaxLosses /\ notices \in Nat
        BY <2>1, AttemptsAssumption
      <3>2. {provider, record} \subseteq [Users -> {"none", "pending", "active", "failed"}]
        BY <2>1
      <3>3. signedIn \in BOOLEAN /\ me.user = Nobody /\ late \in BOOLEAN
        BY <2>1, <2>5 DEF NoMe
      <3>4. jwt \in [Refreshes -> [at : {"none", "minting", "held"}, user : Users \cup {Nobody}]]
        BY <2>5 DEF NoJwt
      <3> QED BY <2>1, <2>5, <3>1, <3>2, <3>3, <3>4 DEF AccountTypeOK
    <2>3. RefreshTypes /\ MeIsAnAccount /\ FetchingIsEmpty
      BY <2>1, PagesAreBounded DEF RefreshTypes, MeIsAnAccount, FetchingIsEmpty
    <2>4. LatestIsTold /\ PartsAreTrue
      BY <2>1 DEF LatestIsTold, PartsAreTrue, Page
    <2>6. PollTypes /\ PollsWait /\ JwtBelongs /\ CacheIsCurrent
      BY <2>1, <2>5, PagesAreBounded
      DEF PollTypes, PollsWait, JwtBelongs, CacheIsCurrent, NoPoll, NoJwt, Statuses
    <2> QED BY <2>2, <2>3, <2>4, <2>6 DEF AInv, Base
  <1>2. AInv /\ [AccountNext]_accountVars => AInv'
    <2> SUFFICES ASSUME AInv, [AccountNext]_accountVars PROVE AInv'
      OBVIOUS
    <2>0. Base' /\ notices \in Nat
      BY BaseKeeps DEF AInv, Base, AccountTypeOK
    <2>1. ASSUME NEW r \in Refreshes, Refresh(r) PROVE AInv'
      BY <2>0, <2>1, StatusKeeps, JwtKeeps, MeKeeps DEF Refresh
    <2>2. ASSUME NEW r \in Refreshes, AuthChanged(r) \/ Opened(r) PROVE AInv'
      <3>1. Asks(r) /\ UNCHANGED <<session, jwtVars, polls>> /\ PollOf(r) = None
        BY <2>2 DEF AuthChanged, Opened, backendVars
      <3>2. ~Calls(r)
        BY <3>1, AskKeeps DEF jwtVars
      <3> QED BY <2>0, <3>1, <3>2, AskingKeeps
    <2>3. ASSUME NEW p \in Polls, SyncArrives(p) PROVE AInv'
      <3>1. /\ Asks(RefreshOf(p)) /\ UNCHANGED <<session, jwtVars>> /\ RefreshOf(p) \in Refreshes
            /\ polls[p].at = "synced" /\ polls' = [polls EXCEPT ![p].at = "refreshing"]
        BY <2>3, PagesAreBounded DEF SyncArrives, backendVars
      <3>2. ~Calls(RefreshOf(p))
        BY <3>1, AskKeeps DEF jwtVars
      <3> QED BY <2>0, <3>1, <3>2, AskingKeeps
    <2>4. ASSUME NEW p \in Polls, SyncRuns(p) \/ NextAttempt(p) \/ BillingReturns(p) PROVE AInv'
      <3>1. UNCHANGED <<pageVars, refreshes, latest, session, notices, late>>
        BY <2>4 DEF SyncRuns, NextAttempt, BillingReturns, Spent, backendVars, jwtVars
      <3>2. \A r \in Refreshes : jwt'[r].at # "none" => jwt'[r] = jwt[r]
        BY <2>4 DEF SyncRuns, NextAttempt, BillingReturns, Spent, jwtVars, AInv, Base, AccountTypeOK, NoJwt
      <3> QED BY <2>0, <3>1, <3>2, ElsewhereKeeps
    <2>5. ASSUME LogOut \/ \E u \in Users : SignIn(u) \/ Pays(u) \/ Webhook(u) PROVE AInv'
      <3>1. UNCHANGED <<pageVars, refreshes, latest, jwt>>
        BY <2>5 DEF LogOut, SignIn, Pays, Webhook, jwtVars
      <3>2. notices' = notices + 1 \/ UNCHANGED <<session, notices, late>>
        BY <2>5 DEF LogOut, SignIn, Pays, Webhook, jwtVars
      <3> QED BY <2>0, <3>1, <3>2, ElsewhereKeeps
    <2>6. ASSUME UNCHANGED accountVars PROVE AInv'
      BY <2>0, <2>6, ElsewhereKeeps DEF accountVars, backendVars, jwtVars
    <2> QED BY <2>1, <2>2, <2>3, <2>4, <2>5, <2>6 DEF AccountNext, Poll
  <1> QED BY <1>1, <1>2, PTL DEF AccountSpec

(* Whoever signs in or out while refreshes are under way, a page at rest    *)
(* that the latest refresh has set is signed in if the app is, and shows no *)
(* other user's plan.                                                       *)
THEOREM RestingPageIsTrue == AccountSpec => []QuietPageIsTrue
  <1>1. AInv => QuietPageIsTrue
    BY DEF AInv, PartsAreTrue, QuietPageIsTrue
  <1> QED BY <1>1, AccountInvariant, PTL

(***************************************************************************)
(* The voice.                                                              *)
(***************************************************************************)
Pairs == [engine : Engines \cup {"none"}, voice : Voices \cup {NoVoice}]
Places == {"unborn", "asked", "read", "checked", "written", "over"}
PatchTypes == patches \in [Saves -> [at : Places, asked : Pairs, pair : Pairs]]

(* A fresh cache holds a list.                                              *)
FreshIsAList == fresh => cache # NoList

CatalogTypes == /\ enabled \in (SUBSET Engines) \ {{}}
                /\ live \subseteq LabVoices /\ (cache \subseteq LabVoices \/ cache = NoList)
                /\ fresh \in BOOLEAN /\ FreshIsAList
ChoiceTypes  == /\ row \in Pairs /\ prefs \in Pairs /\ previous \in Pairs
                /\ saving \in Saves \cup {NoSave} /\ unsure \in BOOLEAN
CountTypes   == /\ previewing \in Voices \cup {NoVoice}
                /\ changes \in 0..MaxChanges /\ faults \in 0..MaxFaults

(* While the picker is sure, only the save it waits for is under way.       *)
OneSaveAtATime ==
    ~unsure => \A q \in Saves \ {saving} : patches[q].at \in {"unborn", "over"}

(* What the picker shows of the stored row.                                 *)
ShowsRow(choice) ==
    row # NoChoice =>
        /\ choice.engine = row.engine \/ row.engine \notin enabled
        /\ choice.voice \in {row.voice, DefaultVoice(choice.engine)}

(* Until a save is written, what was shown before it is still stored.       *)
PreviousIsStored ==
    ~unsure /\ saving # NoSave /\ patches[saving].at # "written" => ShowsRow(previous)

VInv == /\ CatalogTypes /\ ChoiceTypes /\ PatchTypes
        /\ OneSaveAtATime /\ PreviousIsStored /\ ShownIsStored

-----------------------------------------------------------------------------
LEMMA TypesAreTypes == TypeOK /\ FreshIsAList <=> CatalogTypes /\ ChoiceTypes /\ CountTypes
  BY DEF TypeOK, CatalogTypes, ChoiceTypes, CountTypes, Pairs

\* What listVoices answers are voices its vendor knows, and what it caches is a list.
LEMMA ListsKnow ==
  ASSUME live \subseteq LabVoices, NEW c, c \subseteq LabVoices \/ c = NoList,
         NEW f \in BOOLEAN, f => c # NoList, NEW p, NEW l \in Lists(p, c, f)
  PROVE  /\ l.voices \subseteq Knows(p)
         /\ l.cache \subseteq LabVoices \/ l.cache = NoList
         /\ l.fresh \in BOOLEAN /\ (l.fresh => l.cache # NoList)
  <1>1. live # NoList
    BY VoicesAssumption DEF NoList
  <1>2. CASE p = "sarvam"
    <2>1. l = Listed(TRUE, SarvamVoices, c, f) /\ Knows(p) = SarvamVoices
      BY <1>2 DEF Lists, Knows
    <2> QED BY <2>1 DEF Listed
  <1>3. CASE p # "sarvam"
    <2>1. Knows(p) = LabVoices
      BY <1>3 DEF Knows
    <2>2. \/ f /\ l = Listed(TRUE, c, c, f)
          \/ l = Listed(TRUE, live, live, TRUE)
          \/ c = NoList /\ l = Listed(FALSE, {}, c, f)
          \/ c # NoList /\ l = Listed(TRUE, c, c, f)
      BY <1>3 DEF Lists
    <2>3. CASE l = Listed(TRUE, live, live, TRUE)
      BY <1>1, <2>1, <2>3 DEF Listed
    <2>4. CASE l = Listed(FALSE, {}, c, f)
      BY <2>1, <2>4 DEF Listed
    <2>5. CASE c # NoList /\ l = Listed(TRUE, c, c, f)
      BY <2>1, <2>5 DEF Listed
    <2> QED BY <2>2, <2>3, <2>4, <2>5
  <1> QED BY <1>2, <1>3

\* A choice is read as a voice of an engine that is enabled.
LEMMA ReadsWell ==
  ASSUME enabled \in (SUBSET Engines) \ {{}}, NEW r, NEW l, l.voices \subseteq Knows(ProviderOf(r))
  PROVE  LET c == ReadPreferences(r, l) IN
         /\ c.engine \in enabled /\ c.voice \in Knows(c.engine)
         /\ c \in Pairs /\ c # NoChoice
         /\ c.engine = r.engine \/ r.engine \notin enabled
         /\ c.voice \in {r.voice, DefaultVoice(c.engine)}
  <1>1. ProviderOf(r) \in enabled /\ ProviderOf(r) \in Engines
    <2>1. enabled \subseteq {"sarvam", "elevenlabs"} /\ enabled # {}
      BY DEF Engines
    <2>2. DefaultEngine \in enabled
      <3>1. PICK e : e \in enabled
        BY <2>1
      <3>2. "sarvam" \notin enabled => e = "elevenlabs"
        BY <2>1, <3>1
      <3>3. CASE "sarvam" \in enabled
        BY <3>3 DEF DefaultEngine
      <3>4. CASE "sarvam" \notin enabled
        BY <3>1, <3>2, <3>4 DEF DefaultEngine
      <3> QED BY <3>3, <3>4
    <2> QED BY <2>1, <2>2 DEF ProviderOf, Engines
  <1>2. ReadPreferences(r, l).engine = ProviderOf(r)
    BY DEF ReadPreferences
  <1>3. DefaultVoice(ProviderOf(r)) \in Knows(ProviderOf(r))
    BY VoicesAssumption DEF DefaultVoice, Knows
  <1>4. ReadPreferences(r, l).voice \in Knows(ProviderOf(r))
    BY <1>3 DEF ReadPreferences, IsKnownVoice
  <1>5. Knows(ProviderOf(r)) \subseteq Voices
    BY DEF Knows, Voices
  <1>6. ReadPreferences(r, l) \in Pairs
    BY <1>1, <1>4, <1>5 DEF ReadPreferences, Pairs
  <1>7. ReadPreferences(r, l) # NoChoice
    BY <1>1, <1>2 DEF NoChoice, Engines
  <1>8. ProviderOf(r) = r.engine \/ r.engine \notin enabled
    BY DEF ProviderOf
  <1>9. ReadPreferences(r, l).voice \in {r.voice, DefaultVoice(ProviderOf(r))}
    BY DEF ReadPreferences
  <1> QED BY <1>1, <1>2, <1>4, <1>6, <1>7, <1>8, <1>9

LEMMA Catalogued ==
  ASSUME CatalogTypes, NEW p, NEW l \in Lists(p, cache, fresh)
  PROVE  /\ l.voices \subseteq Knows(p)
         /\ l.cache \subseteq LabVoices \/ l.cache = NoList
         /\ l.fresh \in BOOLEAN /\ (l.fresh => l.cache # NoList)
  BY ListsKnow DEF CatalogTypes, FreshIsAList

LEMMA SpeaksWell == CatalogTypes => SpeaksItsEngine
  <1> SUFFICES ASSUME CatalogTypes PROVE SpeaksItsEngine
    OBVIOUS
  <1>0. enabled \in (SUBSET Engines) \ {{}}
    BY DEF CatalogTypes
  <1>1. ASSUME NEW c \in Spoken PROVE c.engine \in enabled /\ c.voice \in Knows(c.engine)
    <2>1. PICK d \in Stored : c = StreamTarget(d)
      BY DEF Spoken, Buffered
    <2>2. PICK l \in Lists(ProviderOf(row), cache, fresh) : d = ReadPreferences(row, l)
      BY DEF Stored
    <2>3. d.engine \in enabled /\ d.voice \in Knows(d.engine)
      BY <1>0, <2>2, Catalogued, ReadsWell
    <2> QED BY <1>0, <2>1, <2>3 DEF StreamTarget, Engines
  <1>2. ASSUME NEW p, NEW v, NEW c \in Auditioned(p, v)
        PROVE  c.engine \in enabled /\ c.voice \in Knows(c.engine)
    <2>1. /\ p \in enabled /\ c = StreamTarget([engine |-> p, voice |-> v])
          /\ \E l \in Lists(p, cache, fresh) : IsKnownVoice(l, v)
      BY <1>2 DEF Auditioned, Buffered
    <2>2. v \in Knows(p)
      BY <2>1, Catalogued DEF IsKnownVoice
    <2> QED BY <1>0, <2>1, <2>2 DEF StreamTarget, Engines
  <1> QED BY <1>1, <1>2 DEF SpeaksItsEngine

-----------------------------------------------------------------------------
\* Every step leaves the engines nonempty and a list in the cache.
LEMMA CatalogKeeps ==
  ASSUME CatalogTypes, [Next]_vars
  PROVE  CatalogTypes'
  <1>1. ASSUME NEW p, NEW l \in Lists(p, cache, fresh), Keeps(l), enabled' = enabled PROVE CatalogTypes'
    BY <1>1, Catalogued DEF Keeps, CatalogTypes, FreshIsAList
  <1>2. ASSUME UNCHANGED <<enabled, live, cache, fresh>> PROVE CatalogTypes'
    BY <1>2 DEF CatalogTypes, FreshIsAList
  <1>3. CASE Load \/ PreviewOver
    <2>1. enabled' = enabled
      BY <1>3 DEF Load, PreviewOver
    <2>2. UNCHANGED catalogVars \/ \E p : \E l \in Lists(p, cache, fresh) : Keeps(l)
      BY <1>3 DEF Load, PreviewOver
    <2> QED BY <1>1, <1>2, <2>1, <2>2 DEF catalogVars
  <1>4. ASSUME NEW s \in Saves, Check(s) PROVE CatalogTypes'
    <2>1. enabled' = enabled
      BY <1>4 DEF Check
    <2> DEFINE current(l) == ReadPreferences(patches[s].pair, l)
               asked == patches[s].asked
               engine(l) == IF asked.engine = "none" THEN current(l).engine ELSE asked.engine
    <2>0. PICK l \in Lists(ProviderOf(patches[s].pair), cache, fresh) :
             \E k \in Lists(engine(l), l.cache, l.fresh) : Keeps(k)
      BY <1>4 DEF Check
    <2> HIDE DEF engine
    <2>2. PICK k \in Lists(engine(l), l.cache, l.fresh) : Keeps(k)
      BY <2>0
    <2>3. /\ l.cache \subseteq LabVoices \/ l.cache = NoList
          /\ l.fresh \in BOOLEAN /\ (l.fresh => l.cache # NoList)
      BY Catalogued
    <2>4. /\ k.cache \subseteq LabVoices \/ k.cache = NoList
          /\ k.fresh \in BOOLEAN /\ (k.fresh => k.cache # NoList)
      <3>1. live \subseteq LabVoices
        BY DEF CatalogTypes
      <3> QED BY <2>3, <3>1, ListsKnow
    <2> QED BY <2>1, <2>2, <2>4 DEF Keeps, CatalogTypes, FreshIsAList
  <1>5. ASSUME NEW s \in Saves, ReadBack(s) PROVE CatalogTypes'
    BY <1>1, <1>5 DEF ReadBack
  <1>6. CASE CatalogueChanges
    <2>1. fresh' = FALSE /\ UNCHANGED <<enabled, cache>>
      BY <1>6 DEF CatalogueChanges
    <2>2. live' \subseteq LabVoices
      BY <1>6, VoicesAssumption DEF CatalogueChanges
    <2> QED BY <2>1, <2>2 DEF CatalogTypes, FreshIsAList
  <1>7. CASE Redeploy
    BY <1>7 DEF Redeploy, CatalogTypes, FreshIsAList
  <1>8. CASE GiveUp \/ UNCHANGED vars \/ \E v \in Voices : Preview(v)
    BY <1>2, <1>8 DEF GiveUp, Preview, vars, catalogVars
  <1>9. ASSUME NEW s \in Saves, ReadRow(s) \/ Write(s) \/ StatementFails(s) PROVE CatalogTypes'
    BY <1>2, <1>9 DEF ReadRow, Write, StatementFails, catalogVars
  <1>10. ASSUME NEW s \in Saves, NEW asked, Save(s, asked) PROVE CatalogTypes'
    BY <1>2, <1>10 DEF Save, catalogVars
  <1> QED BY <1>3, <1>4, <1>5, <1>6, <1>7, <1>8, <1>9, <1>10 DEF Next, Handle

(* Whatever is stored, listed and deployed, no vendor is asked for a voice  *)
(* of the other, and none that the deployment lacks.                        *)
THEOREM EnginesSpeakTheirVoices == Spec => []SpeaksItsEngine
  <1>1. Init => CatalogTypes
    <2>1. Engines # {}
      BY DEF Engines
    <2> QED BY <2>1 DEF Init, CatalogTypes, FreshIsAList
  <1>2. CatalogTypes /\ [Next]_vars => CatalogTypes'
    BY CatalogKeeps
  <1> QED BY <1>1, <1>2, SpeaksWell, PTL DEF Spec

-----------------------------------------------------------------------------
\* ShownIsStored, in the words of ShowsRow.
LEMMA ShownMeansShows == ShownIsStored <=> (Idle /\ ~unsure => ShowsRow(prefs))
  BY DEF ShownIsStored, ShowsRow

LEMMA SavesAreNumbered ==
  /\ NoSave \notin Saves /\ NoChoice \in Pairs
  /\ NoPatch \in [at : Places, asked : Pairs, pair : Pairs] /\ NoPatch.at = "unborn"
  BY BoundsAssumption DEF NoSave, Saves, NoChoice, Pairs, NoPatch, Places

\* One save's patch moves on.
LEMMA PatchMoves ==
  ASSUME PatchTypes, NEW s \in Saves, NEW to \in Places, NEW c \in Pairs,
         \/ patches' = [patches EXCEPT ![s].at = to]
         \/ patches' = [patches EXCEPT ![s].at = to, ![s].pair = c]
  PROVE  /\ PatchTypes' /\ patches'[s].at = to
         /\ \A q \in Saves \ {s} : patches'[q] = patches[q]
  BY DEF PatchTypes

\* A reply, a refusal or a failure: what the picker shows then is stored, or it is unsure.
LEMMA ReplyKeeps ==
  ASSUME VInv, NEW s \in Saves, NEW stored, Reply(s, stored), CatalogTypes',
         UNCHANGED <<enabled, row>>, patches[s].at \notin {"unborn", "over"},
         stored = NoChoice \/ (stored \in Pairs /\ stored # NoChoice /\ ShowsRow(stored))
  PROVE  VInv'
  <1>0. /\ ChoiceTypes /\ PatchTypes /\ OneSaveAtATime /\ PreviousIsStored /\ ShownIsStored
        /\ patches' = [patches EXCEPT ![s].at = "over"] /\ s # NoSave
    BY SavesAreNumbered DEF VInv, Reply
  <1>1. /\ PatchTypes' /\ patches'[s].at = "over"
        /\ \A q \in Saves \ {s} : patches'[q] = patches[q]
    BY <1>0, PatchMoves, SavesAreNumbered DEF Places
  <1>2. CASE ~Waits(s)
    <2>1. UNCHANGED <<prefs, previous, saving, unsure>>
      BY <1>2 DEF Reply, shownVars
    <2>2. ChoiceTypes' /\ ShownIsStored'
      BY <1>0, <2>1 DEF ChoiceTypes, ShownIsStored, Idle, DefaultVoice
    <2>3. OneSaveAtATime'
      BY <1>0, <1>1, <2>1 DEF OneSaveAtATime
    <2>4. PreviousIsStored'
      <3>1. saving # NoSave => saving \in Saves \ {s}
        BY <1>0, <1>2 DEF ChoiceTypes, Waits
      <3> QED BY <1>0, <1>1, <2>1, <3>1 DEF PreviousIsStored, ShowsRow
    <2> QED BY <1>1, <2>2, <2>3, <2>4 DEF VInv
  <1>3. CASE Waits(s) /\ stored = NoChoice
    <2>1. /\ saving' = NoSave /\ UNCHANGED previous /\ prefs' = previous
          /\ unsure' = (unsure \/ patches[s].at = "written")
      BY <1>3 DEF Reply
    <2>2. unsure' \in BOOLEAN /\ (~unsure' => ~unsure /\ patches[s].at # "written")
      BY <2>1
    <2>3. ChoiceTypes'
      BY <1>0, <2>1, <2>2 DEF ChoiceTypes
    <2>4. ~unsure' => ShowsRow(previous)
      BY <1>0, <1>3, <2>2 DEF PreviousIsStored, Waits
    <2>5. ShownIsStored'
      BY <2>1, <2>4 DEF ShownIsStored, Idle, ShowsRow, DefaultVoice
    <2>6. OneSaveAtATime'
      BY <1>0, <1>1, <1>3, <2>2 DEF OneSaveAtATime, Waits
    <2>7. PreviousIsStored'
      BY <2>1 DEF PreviousIsStored
    <2> QED BY <1>1, <2>3, <2>5, <2>6, <2>7 DEF VInv
  <1>4. CASE Waits(s) /\ stored # NoChoice
    <2>1. /\ saving' = NoSave /\ UNCHANGED previous /\ prefs' = stored
          /\ unsure' = \E q \in Saves \ {s} : patches[q].at \notin {"unborn", "over"}
      BY <1>4 DEF Reply, ShownAfter
    <2>2. unsure' \in BOOLEAN
          /\ (~unsure' => \A q \in Saves \ {s} : patches[q].at \in {"unborn", "over"})
      BY <2>1
    <2>3. ChoiceTypes'
      BY <1>0, <1>4, <2>1, <2>2 DEF ChoiceTypes
    <2>4. ShowsRow(stored)
      BY <1>4
    <2>5. ShownIsStored'
      BY <2>1, <2>4 DEF ShownIsStored, ShowsRow, DefaultVoice
    <2>6. OneSaveAtATime'
      BY <1>1, <2>2 DEF OneSaveAtATime
    <2>7. PreviousIsStored'
      BY <2>1 DEF PreviousIsStored
    <2> QED BY <1>1, <2>3, <2>5, <2>6, <2>7 DEF VInv
  <1> QED BY <1>2, <1>3, <1>4

\* The handler reads and checks: nothing of the picker or the row changes.
LEMMA HandlerKeeps ==
  ASSUME VInv, NEW s \in Saves, NEW to \in {"read", "checked"}, NEW c \in Pairs,
         patches' = [patches EXCEPT ![s].at = to, ![s].pair = c],
         patches[s].at \in {"asked", "read"}, CatalogTypes', UNCHANGED <<enabled, row, shownVars>>
  PROVE  VInv'
  <1>0. /\ ChoiceTypes /\ PatchTypes /\ OneSaveAtATime /\ PreviousIsStored /\ ShownIsStored
    BY DEF VInv
  <1>1. /\ PatchTypes' /\ patches'[s].at = to
        /\ \A q \in Saves \ {s} : patches'[q] = patches[q]
    BY <1>0, PatchMoves DEF Places
  <1>2. UNCHANGED <<prefs, previous, saving, unsure>>
    BY DEF shownVars
  <1>3. ChoiceTypes' /\ ShownIsStored'
    BY <1>0, <1>2 DEF ChoiceTypes, ShownIsStored, Idle, DefaultVoice
  <1>4. OneSaveAtATime'
    BY <1>0, <1>1, <1>2 DEF OneSaveAtATime
  <1>5. PreviousIsStored'
    <2>1. saving # NoSave => saving \in Saves
      BY <1>0 DEF ChoiceTypes
    <2>2. saving # NoSave /\ patches'[saving].at # "written" => patches[saving].at # "written"
      BY <1>1, <2>1
    <2> QED BY <1>0, <1>2, <2>2 DEF PreviousIsStored, ShowsRow, DefaultVoice
  <1> QED BY <1>1, <1>3, <1>4, <1>5 DEF VInv

LEMMA WriteKeeps ==
  ASSUME VInv, NEW s \in Saves, Write(s), CatalogTypes'
  PROVE  VInv'
  <1>0. /\ ChoiceTypes /\ PatchTypes /\ OneSaveAtATime /\ PreviousIsStored /\ ShownIsStored
    BY DEF VInv
  <1>1. /\ patches[s].at = "checked" /\ patches' = [patches EXCEPT ![s].at = "written"]
        /\ row' = patches[s].pair /\ patches[s].pair \in Pairs
        /\ UNCHANGED <<enabled, prefs, previous, saving, unsure>>
    BY <1>0 DEF Write, Step, shownVars, PatchTypes
  <1>2. /\ PatchTypes' /\ patches'[s].at = "written"
        /\ \A q \in Saves \ {s} : patches'[q] = patches[q]
    BY <1>0, <1>1, PatchMoves DEF Places
  <1>3. ChoiceTypes'
    BY <1>0, <1>1 DEF ChoiceTypes
  <1>4. ~unsure => saving = s
    BY <1>0, <1>1 DEF OneSaveAtATime
  <1>5. OneSaveAtATime' /\ PreviousIsStored' /\ ShownIsStored'
    BY <1>0, <1>1, <1>2, <1>4, SavesAreNumbered
    DEF OneSaveAtATime, PreviousIsStored, ShownIsStored, Idle
  <1> QED BY <1>2, <1>3, <1>5 DEF VInv

\* What the handler may write is a choice.
LEMMA ChosenIsAPair ==
  ASSUME CatalogTypes, NEW asked \in Pairs, NEW current \in Pairs, NEW p, NEW l,
         l.voices \subseteq Knows(p), NEW c \in Chosen(asked, current, p, l)
  PROVE  c \in Pairs
  <1>1. p \in enabled /\ p \in Engines
    BY DEF Chosen, CatalogTypes
  <1>2. \/ \E v \in l.voices : c = [engine |-> p, voice |-> v]
        \/ c = [current EXCEPT !.engine = p]
        \/ \E v \in Firsts(p, l.voices) : c = [engine |-> p, voice |-> v]
    BY <1>1 DEF Chosen
  <1>3. Knows(p) \subseteq Voices /\ Firsts(p, l.voices) \subseteq Voices
    BY VoicesAssumption DEF Knows, Voices, Firsts
  <1> QED BY <1>1, <1>2, <1>3 DEF Pairs

LEMMA CheckKeeps ==
  ASSUME VInv, NEW s \in Saves, Check(s), CatalogTypes'
  PROVE  VInv'
  <1>0. UNCHANGED <<enabled, row>> /\ patches[s].at = "read" /\ CatalogTypes
        /\ patches[s].pair \in Pairs /\ patches[s].asked \in Pairs
    BY DEF Check, VInv, PatchTypes
  <1>1. CASE Reply(s, NoChoice)
    BY <1>0, <1>1, ReplyKeeps
  <1>2. CASE ~Reply(s, NoChoice)
    <2> DEFINE current(l) == ReadPreferences(patches[s].pair, l)
               asked == patches[s].asked
               engine(l) == IF asked.engine = "none" THEN current(l).engine ELSE asked.engine
    <2>1. PICK l \in Lists(ProviderOf(patches[s].pair), cache, fresh) :
             \E k \in Lists(engine(l), l.cache, l.fresh) :
                /\ \E c \in Chosen(asked, current(l), engine(l), k) :
                      patches' = [patches EXCEPT ![s].at = "checked", ![s].pair = c]
                /\ UNCHANGED shownVars
      BY <1>2 DEF Check
    <2>2. /\ l.voices \subseteq Knows(ProviderOf(patches[s].pair))
          /\ l.cache \subseteq LabVoices \/ l.cache = NoList
          /\ l.fresh \in BOOLEAN /\ (l.fresh => l.cache # NoList)
      BY <1>0, Catalogued
    <2>3. current(l) \in Pairs
      BY <1>0, <2>2, ReadsWell DEF CatalogTypes
    <2> HIDE DEF engine, current
    <2>4. PICK k \in Lists(engine(l), l.cache, l.fresh) :
             /\ \E c \in Chosen(asked, current(l), engine(l), k) :
                   patches' = [patches EXCEPT ![s].at = "checked", ![s].pair = c]
             /\ UNCHANGED shownVars
      BY <2>1
    <2>5. k.voices \subseteq Knows(engine(l))
      <3>1. live \subseteq LabVoices
        BY <1>0 DEF CatalogTypes
      <3> QED BY <2>2, <3>1, ListsKnow
    <2>6. PICK c \in Chosen(asked, current(l), engine(l), k) :
             patches' = [patches EXCEPT ![s].at = "checked", ![s].pair = c]
      BY <2>4
    <2>7. c \in Pairs
      BY <1>0, <2>3, <2>5, ChosenIsAPair
    <2> QED BY <1>0, <2>4, <2>6, <2>7, HandlerKeeps
  <1> QED BY <1>1, <1>2

LEMMA AnswerKeeps ==
  ASSUME VInv, NEW s \in Saves, ReadRow(s) \/ ReadBack(s) \/ StatementFails(s), CatalogTypes'
  PROVE  VInv'
  <1>0. CatalogTypes /\ enabled \in (SUBSET Engines) \ {{}}
    BY DEF VInv, CatalogTypes
  <1>1. CASE ReadRow(s)
    BY <1>1, HandlerKeeps DEF ReadRow, VInv, ChoiceTypes
  <1>2. CASE ReadBack(s)
    <2>1. PICK l \in Lists(ProviderOf(row), cache, fresh) : Reply(s, ReadPreferences(row, l))
      BY <1>2 DEF ReadBack
    <2>2. l.voices \subseteq Knows(ProviderOf(row))
      BY <1>0, Catalogued
    <2> DEFINE c == ReadPreferences(row, l)
    <2>3. /\ c \in Pairs /\ c # NoChoice
          /\ c.engine = row.engine \/ row.engine \notin enabled
          /\ c.voice \in {row.voice, DefaultVoice(c.engine)}
      BY <1>0, <2>2, ReadsWell
    <2> HIDE DEF c
    <2>4. ShowsRow(c)
      BY <2>3 DEF ShowsRow
    <2>5. patches[s].at = "written" /\ UNCHANGED <<enabled, row>>
      BY <1>2 DEF ReadBack
    <2> QED BY <2>1, <2>3, <2>4, <2>5, ReplyKeeps DEF c
  <1>3. CASE StatementFails(s)
    BY <1>3, ReplyKeeps DEF StatementFails
  <1> QED BY <1>1, <1>2, <1>3

\* The picker loads, saves and gives up.
LEMMA PickerKeeps ==
  ASSUME VInv, CatalogTypes',
         Load \/ GiveUp \/ \E s \in Saves : \E asked \in Choices : Save(s, asked)
  PROVE  VInv'
  <1>0. /\ CatalogTypes /\ ChoiceTypes /\ PatchTypes
        /\ OneSaveAtATime /\ PreviousIsStored /\ ShownIsStored
    BY DEF VInv
  <1>1. CASE Load
    <2>1. PICK l \in Lists(ProviderOf(row), cache, fresh) : prefs' = ReadPreferences(row, l)
      BY <1>1 DEF Load
    <2>2. l.voices \subseteq Knows(ProviderOf(row)) /\ enabled \in (SUBSET Engines) \ {{}}
      BY <1>0, Catalogued DEF CatalogTypes
    <2>3. UNCHANGED <<enabled, row, patches, previous, saving, unsure>>
      BY <1>1 DEF Load
    <2>4. prefs' \in Pairs /\ ShowsRow(prefs')
      BY <2>1, <2>2, ReadsWell DEF ShowsRow
    <2>5. ChoiceTypes' /\ PatchTypes' /\ OneSaveAtATime' /\ PreviousIsStored'
      BY <1>0, <2>3, <2>4
      DEF ChoiceTypes, PatchTypes, OneSaveAtATime, PreviousIsStored, ShowsRow, DefaultVoice
    <2>6. ShownIsStored'
      BY <2>3, <2>4 DEF ShownIsStored, ShowsRow, DefaultVoice
    <2> QED BY <2>5, <2>6 DEF VInv
  <1>2. CASE GiveUp
    <2>1. /\ saving' = NoSave /\ prefs' = previous /\ unsure' = TRUE
          /\ UNCHANGED <<enabled, row, patches, previous>>
      BY <1>2 DEF GiveUp
    <2>2. ChoiceTypes' /\ PatchTypes'
      BY <1>0, <2>1 DEF ChoiceTypes, PatchTypes
    <2> QED BY <2>1, <2>2 DEF VInv, OneSaveAtATime, PreviousIsStored, ShownIsStored
  <1>3. ASSUME NEW s \in Saves, NEW asked \in Choices, Save(s, asked) PROVE VInv'
    <2>1. /\ Idle /\ previous' = prefs /\ saving' = s /\ prefs' = ShownAsAsked(prefs, asked)
          /\ patches' = [patches EXCEPT ![s] = [NoPatch EXCEPT !.at = "asked", !.asked = asked]]
          /\ UNCHANGED <<enabled, row, unsure>>
      BY <1>3 DEF Save
    <2>2. asked \in Pairs
      BY <1>0 DEF Choices, NoChoice, Pairs, CatalogTypes
    <2>3. prefs' \in Pairs
      BY <1>0, <2>1, <2>2 DEF ShownAsAsked, Pairs, ChoiceTypes
    <2>4. ChoiceTypes'
      BY <1>0, <2>1, <2>3 DEF ChoiceTypes
    <2>5. [NoPatch EXCEPT !.at = "asked", !.asked = asked]
             \in [at : Places, asked : Pairs, pair : Pairs]
          /\ [NoPatch EXCEPT !.at = "asked", !.asked = asked].at = "asked"
      BY <2>2, SavesAreNumbered DEF NoPatch, Places
    <2>6. PatchTypes' /\ patches'[s].at = "asked" /\ \A q \in Saves \ {s} : patches'[q] = patches[q]
      BY <1>0, <2>1, <2>5 DEF PatchTypes
    <2>7. OneSaveAtATime'
      <3>1. Saves \ {saving} = Saves
        BY <2>1, SavesAreNumbered DEF Idle
      <3> QED BY <1>0, <2>1, <2>6, <3>1 DEF OneSaveAtATime
    <2>8. ~unsure => ShowsRow(prefs)
      BY <1>0, <2>1, ShownMeansShows
    <2>9. PreviousIsStored' /\ ShownIsStored'
      BY <2>1, <2>8, SavesAreNumbered DEF PreviousIsStored, ShownIsStored, Idle, ShowsRow, DefaultVoice
    <2> QED BY <2>4, <2>6, <2>7, <2>9 DEF VInv
  <1> QED BY <1>1, <1>2, <1>3
-----------------------------------------------------------------------------
(* Every step keeps the picker tied to the stored row, but for saves lost   *)
(* from sight and deployments that changed the engines.                     *)
THEOREM VoiceInvariant == Spec => []VInv
  <1>1. Init => VInv
    <2> SUFFICES ASSUME Init PROVE VInv
      OBVIOUS
    <2>1. CatalogTypes
      <3>1. Engines # {}
        BY DEF Engines
      <3> QED BY <3>1 DEF Init, CatalogTypes, FreshIsAList
    <2>2. ChoiceTypes /\ PatchTypes
      BY SavesAreNumbered DEF Init, ChoiceTypes, PatchTypes
    <2>3. OneSaveAtATime /\ PreviousIsStored /\ ShownIsStored
      BY SavesAreNumbered DEF Init, OneSaveAtATime, PreviousIsStored, ShownIsStored
    <2> QED BY <2>1, <2>2, <2>3 DEF VInv
  <1>2. VInv /\ [Next]_vars => VInv'
    <2> SUFFICES ASSUME VInv, [Next]_vars PROVE VInv'
      OBVIOUS
    <2>1. CatalogTypes'
      BY CatalogKeeps DEF VInv
    <2>2. ASSUME UNCHANGED <<enabled, row, patches, shownVars>> PROVE VInv'
      BY <2>1, <2>2 DEF VInv, ChoiceTypes, PatchTypes, OneSaveAtATime, PreviousIsStored,
                        ShownIsStored, shownVars, Idle, ShowsRow, DefaultVoice
    <2>3. CASE PreviewOver \/ CatalogueChanges \/ UNCHANGED vars \/ \E v \in Voices : Preview(v)
      BY <2>2, <2>3 DEF PreviewOver, CatalogueChanges, Preview, vars
    <2>4. CASE Redeploy
      <3>1. /\ patches' = [s \in Saves |-> IF patches[s].at = "unborn" THEN NoPatch
                                           ELSE [patches[s] EXCEPT !.at = "over"]]
            /\ unsure' = TRUE /\ saving' = NoSave /\ prefs' \in {prefs, previous}
            /\ UNCHANGED <<row, previous>>
        BY <2>4 DEF Redeploy
      <3>2. ChoiceTypes'
        BY <3>1 DEF VInv, ChoiceTypes
      <3>3. PatchTypes'
        BY <3>1, SavesAreNumbered DEF VInv, PatchTypes, Places
      <3> QED BY <2>1, <3>1, <3>2, <3>3 DEF VInv, OneSaveAtATime, PreviousIsStored, ShownIsStored
    <2>5. ASSUME NEW s \in Saves, Handle(s) PROVE VInv'
      BY <2>1, <2>5, CheckKeeps, WriteKeeps, AnswerKeeps DEF Handle
    <2> QED BY <2>1, <2>3, <2>4, <2>5, PickerKeeps DEF Next
  <1> QED BY <1>1, <1>2, PTL DEF Spec

(* The idle picker shows the stored choice, or the default that replaces    *)
(* its voice, unless a save was lost from sight or a deployment changed the *)
(* engines, and no save has settled it since.                               *)
THEOREM PickerShowsTheRow == Spec => []ShownIsStored
  BY VoiceInvariant, PTL DEF VInv

(* Every variable of the voice section keeps its type.                      *)
THEOREM VoiceIsTyped == Spec => []TypeOK
  <1>1. Init => CountTypes
    BY BoundsAssumption DEF Init, CountTypes
  <1>2. CountTypes /\ [Next]_vars => CountTypes'
    <2> SUFFICES ASSUME CountTypes, [Next]_vars PROVE CountTypes'
      OBVIOUS
    <2>1. previewing' \in Voices \cup {NoVoice}
      <3>1. previewing' \in {previewing, NoVoice} \/ \E v \in Voices : previewing' = v
        BY DEF Next, Load, Save, GiveUp, Handle, ReadRow, Check, Write, ReadBack, StatementFails,
               Preview, PreviewOver, CatalogueChanges, Redeploy, vars
      <3> QED BY <3>1 DEF CountTypes
    <2>2. changes' = changes \/ Changes
      BY DEF Next, Load, Save, GiveUp, Handle, ReadRow, Check, Write, ReadBack, StatementFails,
             Preview, PreviewOver, CatalogueChanges, Redeploy, vars
    <2>3. faults' = faults \/ (faults < MaxFaults /\ faults' = faults + 1)
      BY DEF Next, Load, Save, GiveUp, Handle, ReadRow, Check, Write, ReadBack, StatementFails,
             Preview, PreviewOver, CatalogueChanges, Redeploy, vars
    <2>4. changes' \in 0..MaxChanges
      BY <2>2, BoundsAssumption DEF CountTypes, Changes
    <2>5. faults' \in 0..MaxFaults
      BY <2>3, BoundsAssumption DEF CountTypes
    <2> QED BY <2>1, <2>4, <2>5 DEF CountTypes
  <1>3. VInv /\ CountTypes => TypeOK
    BY TypesAreTypes DEF VInv, CatalogTypes
  <1> QED BY <1>1, <1>2, <1>3, VoiceInvariant, PTL DEF Spec
================================================================================

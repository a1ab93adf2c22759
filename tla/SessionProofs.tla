---------------------------- MODULE SessionProofs ----------------------------
(***************************************************************************)
(* Theorems about Session for any accounts, any number of attempts, codes, *)
(* exchanges and calls, any lifetimes and any number of incidents.         *)
(***************************************************************************)
EXTENDS Session, TLAPS

(* The attempts were started in order, and a pending state is the last's.   *)
AttemptFacts ==
    /\ \A a, b \in Attempts : b < a /\ Started(a) => Started(b)
    /\ pending # None => /\ Started(pending)
                         /\ \A b \in Attempts : Started(b) => b <= pending

(* A code that is out in a link or an exchange has its owner.               *)
Minted(k) == k \in Codes /\ code[k].user # NoUser

CodesOut ==
    /\ \A l \in links : Minted(l.code)
    /\ \A e \in Exchanges : exchange[e].pc # "none" => Minted(exchange[e].code)

(* An exchange past the UPDATE used its code up, and alone.                 *)
Redeemed(e) == exchange[e].pc \in {"redeemed", "invited", "issued", "stored", "done"}

OneBuyer ==
    \A e \in Exchanges : Redeemed(e) =>
        /\ code[exchange[e].code].used
        /\ \A f \in Exchanges :
               Redeemed(f) /\ exchange[f].code = exchange[e].code => f = e

(* The owner of a struck code is off the list; past the second look at the  *)
(* list no code is struck any more.                                         *)
Passed(e) == exchange[e].pc \in {"invited", "issued", "stored", "done"}

StruckFacts ==
    /\ \A k \in Codes : code[k].struck => code[k].user \notin invited
    /\ \A e \in Exchanges : Passed(e) => ~code[exchange[e].code].struck

(* A call no change has crossed asks for the stored session; while a        *)
(* session is being left, only a late JWT can be in the cache.              *)
JwtFacts ==
    /\ \A c \in Callers :
           call[c].pc = "minting" /\ ~call[c].crossed => call[c].session = stored
    /\ leaving => cache.session = None \/ cache.late
    /\ CachedJwtIsCurrent

IInv == /\ TypeOK /\ AttemptFacts
        /\ CodesOut /\ OneBuyer /\ StruckFacts
        /\ JwtFacts

-----------------------------------------------------------------------------
(* Type correctness.  The rows and records have names here, so that a step  *)
(* can speak of one of them without its fields.                             *)

Pcs     == {"none", "posting", "redeemed", "invited", "issued", "stored", "done", "failed"}
Tabs    == {"closed", "opening", "google", "returned", "error", "dead", "waitlist", "done"}
Cookies == [state : Attempts \cup {None}, oauth : Attempts \cup {None},
            user : Users \cup {NoUser}]
CodeRows == [user : Users \cup {NoUser}, age : 0 .. CodeTTL, used : BOOLEAN, struck : BOOLEAN]
Links    == [code : Codes, state : Attempts \cup {None}]
Posts    == [pc : Pcs, code : Codes \cup {None}, attempt : Attempts \cup {None},
             heard : BOOLEAN]
Jwts     == [session : Exchanges \cup {None}, live : BOOLEAN, late : BOOLEAN]
Calls    == [pc : {"idle", "minting"}, session : Exchanges \cup {None}, crossed : BOOLEAN]
Shown    == [signedIn : BOOLEAN, rejected : BOOLEAN]

DesktopTyped == /\ pending \in Attempts \cup {None} /\ age \in [Attempts -> -1 .. PendingTTL]
                /\ stored \in Exchanges \cup {None} /\ cache \in Jwts /\ leaving \in BOOLEAN
                /\ call \in [Callers -> Calls] /\ ui \in Shown
WebTyped     == tab \in [Attempts -> Tabs] /\ jar \in Cookies /\ links \subseteq Links
BackendTyped == requireState \in BOOLEAN /\ code \in [Codes -> CodeRows] /\ invited \subseteq Users
RestTyped    == exchange \in [Exchanges -> Posts] /\ incidents \in 0 .. MaxIncidents

Typed == DesktopTyped /\ WebTyped /\ BackendTyped /\ RestTyped

LEMMA TypedIsTypeOK == Typed <=> TypeOK
  BY DEF Typed, DesktopTyped, WebTyped, BackendTyped, RestTyped, TypeOK, Pcs, Tabs, Cookies,
         CodeRows, Links, Posts, Jwts, Calls, Shown

LEMMA InitTyped == Init => Typed
  <1> SUFFICES ASSUME Init PROVE Typed
    OBVIOUS
  <1> USE SessionAssumption DEF Init
  <1>1. DesktopTyped
    <2>1. NoJwt \in Jwts /\ Idle \in Calls
      BY DEF NoJwt, Jwts, Idle, Calls
    <2>2. ui \in Shown
      BY DEF Shown
    <2>3. age \in [Attempts -> -1 .. PendingTTL]
      <3>1. 0 \in -1 .. PendingTTL
        OBVIOUS
      <3> QED BY <3>1
    <2> QED BY <2>1, <2>2, <2>3 DEF DesktopTyped
  <1>2. WebTyped
    <2>1. jar \in Cookies
      BY DEF Cookies
    <2> QED BY <2>1 DEF WebTyped, Tabs
  <1>3. BackendTyped
    <2>1. NoCode \in CodeRows
      BY DEF NoCode, CodeRows
    <2> QED BY <2>1 DEF BackendTyped
  <1>4. RestTyped
    <2>1. Unused \in Posts
      BY DEF Unused, Posts, Pcs
    <2> QED BY <2>1 DEF RestTyped
  <1> QED BY <1>1, <1>2, <1>3, <1>4 DEF Typed

\* A call crossed by a change is still a call.
LEMMA CrossedTyped == call \in [Callers -> Calls] => Crossed \in [Callers -> Calls]
  <1> SUFFICES ASSUME call \in [Callers -> Calls], NEW c \in Callers
               PROVE  (IF call[c].pc = "minting" THEN [call[c] EXCEPT !.crossed = TRUE]
                                                 ELSE call[c]) \in Calls
    BY DEF Crossed
  <1>1. call[c] \in Calls
    OBVIOUS
  <1>2. [call[c] EXCEPT !.crossed = TRUE] \in Calls
    BY <1>1 DEF Calls
  <1> QED BY <1>1, <1>2

\* An exchange that advances is still an exchange, and the others are untouched.
LEMMA AdvanceTyped ==
    ASSUME exchange \in [Exchanges -> Posts], NEW e \in Exchanges, NEW from, NEW to \in Pcs,
           Advance(e, from, to)
    PROVE  /\ exchange' \in [Exchanges -> Posts]
           /\ exchange[e].pc = from /\ exchange'[e].pc = to
           /\ \A f \in Exchanges : /\ exchange'[f].code = exchange[f].code
                                   /\ f # e => exchange'[f] = exchange[f]
  <1>1. exchange[e] \in Posts
    OBVIOUS
  <1>2. [exchange[e] EXCEPT !.pc = to] \in Posts
    BY <1>1 DEF Posts
  <1>3. exchange' = [exchange EXCEPT ![e] = [exchange[e] EXCEPT !.pc = to]]
    BY DEF Advance
  <1>4. exchange'[e] = [exchange[e] EXCEPT !.pc = to]
    BY <1>3
  <1>5. exchange'[e].pc = to /\ exchange'[e].code = exchange[e].code
    BY <1>1, <1>4 DEF Posts
  <1> QED BY <1>2, <1>3, <1>5 DEF Advance

LEMMA NextTyped == Typed /\ [Next]_vars => Typed'
  <1> SUFFICES ASSUME Typed, [Next]_vars PROVE Typed'
    OBVIOUS
  <1> USE SessionAssumption
      DEF Typed, DesktopTyped, WebTyped, BackendTyped, RestTyped, desktop, web, backend, Incident
  <1>1. ASSUME NEW a \in Attempts, StartGoogleAuth(a) PROVE Typed'
    <2>1. [ui EXCEPT !.rejected = FALSE] \in Shown
      BY DEF Shown
    <2>2. age' \in [Attempts -> -1 .. PendingTTL]
      BY <1>1 DEF StartGoogleAuth
    <2>3. pending' \in Attempts \cup {None} /\ tab' \in [Attempts -> Tabs]
          /\ incidents' \in 0 .. MaxIncidents
      BY <1>1 DEF StartGoogleAuth, Tabs
    <2> QED BY <1>1, <2>1, <2>2, <2>3 DEF StartGoogleAuth
  <1>2. ASSUME NEW a \in Attempts, AuthStart(a) PROVE Typed'
    <2>1. [jar EXCEPT !.state = a, !.oauth = a] \in Cookies
      BY DEF Cookies
    <2> QED BY <1>2, <2>1 DEF AuthStart, Tabs
  <1>3. ASSUME NEW a \in Attempts, RetryFromPage(a) PROVE Typed'
    <2>1. [jar EXCEPT !.oauth = a] \in Cookies
      BY DEF Cookies
    <2> QED BY <1>3, <2>1 DEF RetryFromPage, Tabs
  <1>4. ASSUME NEW a \in Attempts, OAuthReturns(a) PROVE Typed'
    <2>1. \A u \in Users : [jar EXCEPT !.oauth = None, !.user = u] \in Cookies
      BY DEF Cookies
    <2>2. jar' \in Cookies
      BY <1>4, <2>1, ZenonT(60) DEF OAuthReturns
    <2>3. tab' \in [Attempts -> Tabs]
      BY <1>4 DEF OAuthReturns, Tabs
    <2> QED BY <1>4, <2>2, <2>3 DEF OAuthReturns
  <1>5. ASSUME NEW a \in Attempts, AuthCallback(a) PROVE Typed'
    <2>1. [jar EXCEPT !.state = None] \in Cookies /\ jar.state \in Attempts \cup {None}
          /\ jar.user \in Users \cup {NoUser}
      BY DEF Cookies
    <2>2. [NoCode EXCEPT !.user = jar.user] \in CodeRows
      <3>1. NoCode \in CodeRows
        BY DEF NoCode, CodeRows
      <3> QED BY <2>1, <3>1 DEF CodeRows
    <2>3. \A k \in Codes : [code |-> k, state |-> jar.state] \in Links
      BY <2>1 DEF Links
    <2>4. MintCode(jar.state) => code' \in [Codes -> CodeRows] /\ links' \subseteq Links
      BY <2>2, <2>3 DEF MintCode
    <2> QED BY <1>5, <2>1, <2>4 DEF AuthCallback, Tabs
  <1>6. ASSUME NEW l \in links, AcceptCallback(l) PROVE Typed'
    <2>1. l.code \in Codes /\ l.state \in Attempts \cup {None}
      BY DEF Links
    <2>2. [Unused EXCEPT !.pc = "posting", !.code = l.code, !.attempt = l.state] \in Posts
      BY <2>1 DEF Unused, Posts, Pcs
    <2> QED BY <1>6, <2>2 DEF AcceptCallback
  <1>7. ASSUME NEW l \in links, RejectCallback(l) PROVE Typed'
    <2>1. [ui EXCEPT !.rejected = TRUE] \in Shown
      BY DEF Shown
    <2> QED BY <1>7, <2>1 DEF RejectCallback
  <1>8. ASSUME NEW e \in Exchanges, RedeemCode(e) PROVE Typed'
    <2>1. exchange' \in [Exchanges -> Posts]
      BY <1>8, AdvanceTyped DEF RedeemCode, Pcs
    <2>2. \A k \in Codes : [code[k] EXCEPT !.used = TRUE] \in CodeRows
      BY DEF CodeRows
    <2> QED BY <1>8, <2>1, <2>2 DEF RedeemCode
  <1>9. ASSUME NEW e \in Exchanges, CheckInvite(e) PROVE Typed'
    BY <1>9, AdvanceTyped DEF CheckInvite, Pcs
  <1>10. ASSUME NEW e \in Exchanges, InsertSession(e) PROVE Typed'
    BY <1>10, AdvanceTyped DEF InsertSession, Pcs
  <1>11. ASSUME NEW e \in Exchanges, ReplyLost(e) PROVE Typed'
    BY <1>11, AdvanceTyped DEF ReplyLost, Pcs
  <1>12. ASSUME NEW e \in Exchanges, WriteSession(e) PROVE Typed'
    BY <1>12, AdvanceTyped, CrossedTyped DEF WriteSession, Pcs
  <1>13. ASSUME NEW e \in Exchanges, SessionStored(e) PROVE Typed'
    <2>1. [ui EXCEPT !.rejected = FALSE] \in Shown /\ NoJwt \in Jwts
      BY DEF Shown, NoJwt, Jwts
    <2> QED BY <1>13, <2>1, AdvanceTyped, CrossedTyped DEF SessionStored, ClearCachedJwt, Pcs
  <1>14. CASE SignOut
    <2>1. NoJwt \in Jwts
      BY DEF NoJwt, Jwts
    <2> QED BY <1>14, <2>1, CrossedTyped DEF SignOut, ClearCachedJwt
  <1>15. CASE SignedOut
    <2>1. [ui EXCEPT !.rejected = FALSE] \in Shown
      BY DEF Shown
    <2> QED BY <1>15, <2>1, CrossedTyped DEF SignedOut
  <1>16. CASE RefreshStatus
    <2>1. [ui EXCEPT !.signedIn = stored # None] \in Shown
      BY DEF Shown
    <2> QED BY <1>16, <2>1 DEF RefreshStatus
  <1>17. ASSUME NEW c \in Callers, RequestJwt(c) PROVE Typed'
    <2>1. [Idle EXCEPT !.pc = "minting", !.session = stored] \in Calls
      BY DEF Idle, Calls
    <2> QED BY <1>17, <2>1 DEF RequestJwt
  <1>18. ASSUME NEW c \in Callers, JwtArrives(c) PROVE Typed'
    <2>1. Idle \in Calls
      BY DEF Idle, Calls
    <2>2. call[c].session \in Exchanges \cup {None} /\ call[c].crossed \in BOOLEAN
      BY DEF Calls
    <2>3. [session |-> call[c].session, live |-> TRUE,
           late |-> call[c].crossed \/ leaving] \in Jwts
      BY <2>2 DEF Jwts
    <2> QED BY <1>18, <2>1, <2>3 DEF JwtArrives
  <1>19. ASSUME NEW c \in Callers, JwtRefused(c) PROVE Typed'
    <2>1. Idle \in Calls
      BY DEF Idle, Calls
    <2> QED BY <1>19, <2>1 DEF JwtRefused
  <1>20. CASE JwtExpires
    <2>1. [cache EXCEPT !.live = FALSE] \in Jwts
      BY DEF Jwts
    <2> QED BY <1>20, <2>1 DEF JwtExpires
  <1>21. ASSUME NEW u \in Users, InviteChanges(u) PROVE Typed'
    <2>1. ASSUME NEW k \in Codes
          PROVE  [code[k] EXCEPT !.struck = u \in invited /\ (code[k].struck \/ ~code[k].used)]
                     \in CodeRows
      BY DEF CodeRows
    <2>2. code' \in [Codes -> CodeRows]
      BY <1>21, <2>1 DEF InviteChanges
    <2> QED BY <1>21, <2>2 DEF InviteChanges
  <1>22. CASE Tick
    <2>1. \A a \in Attempts : age[a] \in -1 .. PendingTTL
      OBVIOUS
    <2>2. \A a \in Attempts : Older(age[a], PendingTTL) \in -1 .. PendingTTL
      BY <2>1 DEF Older
    <2>3. age' \in [Attempts -> -1 .. PendingTTL]
      BY <1>22, <2>1, <2>2 DEF Tick
    <2>4. [jar EXCEPT !.state = None] \in Cookies
      BY DEF Cookies
    <2>5. ASSUME NEW k \in Codes PROVE [code[k] EXCEPT !.age = Older(@, CodeTTL)] \in CodeRows
      <3>1. Older(code[k].age, CodeTTL) \in 0 .. CodeTTL
        BY DEF Older, CodeRows
      <3> QED BY <3>1 DEF CodeRows
    <2>6. code' \in [Codes -> CodeRows]
      BY <1>22, <2>5 DEF Tick
    <2> QED BY <1>22, <2>3, <2>4, <2>6 DEF Tick
  <1>23. CASE ClockSetBack
    BY <1>23 DEF ClockSetBack
  <1>24. CASE Restart
    <2>1. NoJwt \in Jwts /\ Idle \in Calls
      BY DEF NoJwt, Jwts, Idle, Calls
    <2>2. [signedIn |-> stored # None, rejected |-> FALSE] \in Shown
      BY DEF Shown
    <2>3. ASSUME NEW e \in Exchanges
          PROVE  /\ [exchange[e] EXCEPT !.pc = "done"] \in Posts
                 /\ [exchange[e] EXCEPT !.heard = FALSE] \in Posts
      BY DEF Posts, Pcs
    <2>4. exchange' \in [Exchanges -> Posts]
      BY <1>24, <2>3 DEF Restart
    <2>5. DesktopTyped'
      BY <1>24, <2>1, <2>2 DEF Restart
    <2>6. WebTyped' /\ BackendTyped'
      BY <1>24 DEF Restart
    <2>7. RestTyped'
      BY <1>24, <2>4 DEF Restart
    <2> QED BY <2>5, <2>6, <2>7
  <1>25. CASE UNCHANGED vars
    BY <1>25 DEF vars
  <1> QED
    BY <1>1, <1>2, <1>3, <1>4, <1>5, <1>6, <1>7, <1>8, <1>9, <1>10, <1>11, <1>12, <1>13,
       <1>14, <1>15, <1>16, <1>17, <1>18, <1>19, <1>20, <1>21, <1>22, <1>23, <1>24, <1>25
    DEF Next, OpenLink, Exchange, FetchJwt

\* Every variable keeps its type, whatever the constants.
THEOREM TypeCorrect == Spec => []TypeOK
  BY InitTyped, NextTyped, TypedIsTypeOK, PTL DEF Spec

-----------------------------------------------------------------------------
(* The attempts: only StartGoogleAuth starts one, and then it is the last.  *)

LEMMA NextAttemptFacts == Typed /\ AttemptFacts /\ [Next]_vars => AttemptFacts'
  <1> SUFFICES ASSUME Typed, AttemptFacts, [Next]_vars PROVE AttemptFacts'
    OBVIOUS
  <1>1. tab \in [Attempts -> Tabs]
    BY DEF Typed, WebTyped
  <1>2. ASSUME NEW a \in Attempts, StartGoogleAuth(a) PROVE AttemptFacts'
    <2>1. Started(a)' /\ \A b \in Attempts : b # a => (Started(b)' <=> Started(b))
      BY <1>1, <1>2 DEF StartGoogleAuth, Started
    <2>2. ~Started(a) /\ \A b \in Attempts : b < a => Started(b)
      BY <1>2 DEF StartGoogleAuth
    <2>3. \A b \in Attempts : Started(b) => b < a
      BY <2>2 DEF AttemptFacts, Attempts
    <2>4. pending' \in {a, None}
      BY <1>2 DEF StartGoogleAuth
    <2>5. \A b, c \in Attempts : c < b /\ Started(b)' => Started(c)'
      BY <2>1, <2>2, <2>3 DEF AttemptFacts, Attempts
    <2>6. pending' # None => /\ Started(pending)'
                             /\ \A b \in Attempts : Started(b)' => b <= pending'
      BY <2>1, <2>3, <2>4 DEF Attempts, Started
    <2> QED BY <2>5, <2>6 DEF AttemptFacts
  <1>3. ASSUME \A b \in Attempts : Started(b)' <=> Started(b), pending' \in {pending, None},
               pending \in Attempts \cup {None}
        PROVE  AttemptFacts'
    BY <1>3 DEF AttemptFacts, Started
  <1>4. pending \in Attempts \cup {None}
    BY DEF Typed, DesktopTyped
  <1>5. ASSUME NEW a \in Attempts, tab[a] # "closed", NEW t, t # "closed",
               tab' = [tab EXCEPT ![a] = t], pending' = pending
        PROVE  AttemptFacts'
    <2>1. \A b \in Attempts : Started(b)' <=> Started(b)
      BY <1>1, <1>5 DEF Started
    <2> QED BY <1>3, <1>4, <1>5, <2>1
  <1>6. ASSUME NEW a \in Attempts,
               AuthStart(a) \/ RetryFromPage(a) \/ OAuthReturns(a) \/ AuthCallback(a)
        PROVE  AttemptFacts'
    BY <1>5, <1>6 DEF AuthStart, RetryFromPage, OAuthReturns, AuthCallback, desktop
  <1>7. ASSUME tab' = tab, pending' \in {pending, None} PROVE AttemptFacts'
    BY <1>3, <1>4, <1>7 DEF Started
  <1>8. CASE OpenLink
    BY <1>7, <1>8 DEF OpenLink, AcceptCallback, RejectCallback, web
  <1>9. CASE Exchange
    BY <1>7, <1>9 DEF Exchange, RedeemCode, CheckInvite, InsertSession, ReplyLost, WriteSession,
                      SessionStored, web, desktop
  <1>10. CASE SignOut \/ SignedOut \/ RefreshStatus \/ FetchJwt
    BY <1>7, <1>10 DEF SignOut, SignedOut, RefreshStatus, FetchJwt, JwtExpires, RequestJwt,
                       JwtArrives, JwtRefused, web
  <1>11. CASE (\E u \in Users : InviteChanges(u)) \/ Tick \/ ClockSetBack \/ Restart
    BY <1>7, <1>11 DEF InviteChanges, Tick, ClockSetBack, Restart, web, desktop
  <1>12. CASE UNCHANGED vars
    BY <1>7, <1>12 DEF vars, desktop, web
  <1> QED BY <1>2, <1>6, <1>8, <1>9, <1>10, <1>11, <1>12 DEF Next

\* A pending state is that of the attempt started last.
LEMMA PendingIsLatest ==
    ASSUME Typed, AttemptFacts, pending # None
    PROVE  pending \in Attempts /\ pending = Latest
  <1>1. pending \in Attempts /\ Started(pending) /\ \A b \in Attempts : Started(b) => b <= pending
    BY DEF Typed, DesktopTyped, AttemptFacts
  <1>2. \E a \in {b \in Attempts : Started(b)} : \A b \in Attempts : Started(b) => b <= a
    BY <1>1
  <1>3. Latest \in Attempts /\ Started(Latest) /\ \A b \in Attempts : Started(b) => b <= Latest
    BY <1>2 DEF Latest
  <1>4. pending <= Latest /\ Latest <= pending
    BY <1>1, <1>3
  <1> QED BY <1>1, <1>3, <1>4 DEF Attempts

-----------------------------------------------------------------------------
(* The codes.                                                               *)

\* A step that lets the codes, the links and the exchanges be disturbs nothing.
LEMMA CodesUntouched ==
    ASSUME CodesOut, OneBuyer, StruckFacts,
           UNCHANGED <<code, links, invited, exchange>>
    PROVE  CodesOut' /\ OneBuyer' /\ StruckFacts'
  BY DEF CodesOut, OneBuyer, StruckFacts, Minted, Redeemed, Passed

\* A fresh row for a code nobody has yet.
LEMMA MintKeepsCodes ==
    ASSUME Typed, CodesOut, OneBuyer, StruckFacts, NEW state,
           MintCode(state), jar.user \in invited, UNCHANGED <<invited, exchange>>
    PROVE  CodesOut' /\ OneBuyer' /\ StruckFacts'
  <1> USE DEF Typed, BackendTyped, RestTyped
  <1>1. PICK k \in Codes :
            /\ code[k].user = NoUser
            /\ code' = [code EXCEPT ![k] = [NoCode EXCEPT !.user = jar.user]]
            /\ links' = links \cup {[code |-> k, state |-> state]}
    BY DEF MintCode
  <1>2. /\ code'[k].user = jar.user /\ ~code'[k].used /\ ~code'[k].struck
        /\ \A j \in Codes : j # k => code'[j] = code[j]
    BY <1>1 DEF NoCode
  <1>3. jar.user # NoUser
    BY SessionAssumption
  <1>4. \A e \in Exchanges : exchange[e].pc # "none" => exchange[e].code \in Codes \ {k}
    BY <1>1 DEF CodesOut, Minted
  <1>5. CodesOut'
    BY <1>1, <1>2, <1>3, <1>4 DEF CodesOut, Minted
  <1>6. OneBuyer'
    BY <1>2, <1>4 DEF OneBuyer, Redeemed
  <1>7. StruckFacts'
    BY <1>2, <1>4 DEF StruckFacts, Passed
  <1> QED BY <1>5, <1>6, <1>7

\* A link that is accepted starts an exchange with the link's code.
LEMMA AcceptKeepsCodes ==
    ASSUME Typed, CodesOut, OneBuyer, StruckFacts, NEW l \in links, AcceptCallback(l)
    PROVE  CodesOut' /\ OneBuyer' /\ StruckFacts'
  <1>1. exchange \in [Exchanges -> Posts] /\ code' = code /\ invited' = invited /\ links' = links
    BY DEF Typed, RestTyped, AcceptCallback, backend, web
  <1>2. PICK e \in Exchanges :
            exchange' = [exchange EXCEPT ![e] = [Unused EXCEPT !.pc = "posting",
                                                               !.code = l.code,
                                                               !.attempt = l.state]]
    BY DEF AcceptCallback
  <1>3. /\ exchange'[e].pc = "posting" /\ exchange'[e].code = l.code
        /\ \A f \in Exchanges : f # e => exchange'[f] = exchange[f]
    BY <1>1, <1>2 DEF Unused
  <1> QED BY <1>1, <1>3 DEF CodesOut, Minted, OneBuyer, Redeemed, StruckFacts, Passed

\* An exchange that advances to where it holds no more than it did.
LEMMA AdvanceKeepsCodes ==
    ASSUME Typed, CodesOut, OneBuyer, StruckFacts, NEW e \in Exchanges,
           NEW from, NEW to \in Pcs, Advance(e, from, to), from # "none",
           to = "failed" \/ from \in {"invited", "issued", "stored"}
               \/ (from = "redeemed" /\ code[exchange[e].code].user \in invited),
           UNCHANGED <<code, links, invited>>
    PROVE  CodesOut' /\ OneBuyer' /\ StruckFacts'
  <1>1. /\ exchange[e].pc = from /\ exchange'[e].pc = to
        /\ \A f \in Exchanges : /\ exchange'[f].code = exchange[f].code
                                /\ f # e => exchange'[f] = exchange[f]
    BY AdvanceTyped DEF Typed, RestTyped
  <1>2. CodesOut'
    BY <1>1 DEF CodesOut, Minted
  <1>3. \A f \in Exchanges : Redeemed(f)' => Redeemed(f)
    BY <1>1 DEF Redeemed
  <1>4. OneBuyer'
    BY <1>1, <1>3 DEF OneBuyer
  <1>5. exchange[e].code \in Codes
    BY <1>1 DEF CodesOut, Minted
  <1>6. \A f \in Exchanges : Passed(f)' => ~code[exchange[f].code].struck
    BY <1>1, <1>5 DEF StruckFacts, Passed
  <1> QED BY <1>1, <1>2, <1>4, <1>6 DEF StruckFacts

LEMMA RedeemKeepsCodes ==
    ASSUME Typed, CodesOut, OneBuyer, StruckFacts, NEW e \in Exchanges, RedeemCode(e)
    PROVE  CodesOut' /\ OneBuyer' /\ StruckFacts'
  <1> DEFINE k == exchange[e].code
  <1>1. CASE Advance(e, "posting", "failed") /\ UNCHANGED <<desktop, web, backend, incidents>>
    BY <1>1, AdvanceKeepsCodes DEF Pcs, web, backend
  <1>2. CASE /\ Advance(e, "posting", "redeemed") /\ Redeemable(k)
             /\ code' = [code EXCEPT ![k].used = TRUE]
             /\ UNCHANGED <<requireState, invited, desktop, web, incidents>>
    <2>1. /\ exchange[e].pc = "posting" /\ exchange'[e].pc = "redeemed"
          /\ \A f \in Exchanges : /\ exchange'[f].code = exchange[f].code
                                  /\ f # e => exchange'[f] = exchange[f]
      BY <1>2, AdvanceTyped DEF Typed, RestTyped, Pcs
    <2>2. k \in Codes /\ ~code[k].used /\ code \in [Codes -> CodeRows]
      BY <1>2, <2>1 DEF Redeemable, CodesOut, Minted, Typed, BackendTyped
    <2>3. code[k] \in CodeRows /\ code'[k] = [code[k] EXCEPT !.used = TRUE]
      BY <1>2, <2>2
    <2>4. code'[k].used /\ \A j \in Codes : /\ code'[j].user = code[j].user
                                            /\ code'[j].struck = code[j].struck
                                            /\ j # k => code'[j] = code[j]
      BY <1>2, <2>2, <2>3 DEF CodeRows
    <2>5. links' = links /\ invited' = invited
      BY <1>2 DEF web
    <2>6. CodesOut'
      BY <2>1, <2>4, <2>5 DEF CodesOut, Minted
    <2>7. \A f \in Exchanges : Redeemed(f) => exchange[f].code \in Codes \ {k}
      BY <2>2 DEF OneBuyer, CodesOut, Minted, Redeemed
    <2>8. \A f \in Exchanges : f # e => (Redeemed(f)' <=> Redeemed(f))
      BY <2>1 DEF Redeemed
    <2>9. OneBuyer'
      <3> SUFFICES ASSUME NEW f \in Exchanges, Redeemed(f)'
                   PROVE  /\ code'[exchange'[f].code].used
                          /\ \A g \in Exchanges :
                                 Redeemed(g)' /\ exchange'[g].code = exchange'[f].code => g = f
        BY DEF OneBuyer
      <3>1. CASE f = e
        BY <3>1, <2>1, <2>4, <2>7, <2>8
      <3>2. CASE f # e
        <4>1. Redeemed(f) /\ exchange[f].code \in Codes \ {k}
          BY <3>2, <2>7, <2>8
        <4> QED BY <3>2, <4>1, <2>1, <2>4, <2>7, <2>8 DEF OneBuyer
      <3> QED BY <3>1, <3>2
    <2>10. \A f \in Exchanges : Passed(f)' => Passed(f) /\ exchange[f].code \in Codes
      BY <2>1 DEF Passed, CodesOut, Minted
    <2>11. StruckFacts'
      BY <2>1, <2>4, <2>5, <2>10 DEF StruckFacts
    <2> QED BY <2>6, <2>9, <2>11
  <1> QED BY <1>1, <1>2 DEF RedeemCode

LEMMA NextCodes ==
    Typed /\ CodesOut /\ OneBuyer /\ StruckFacts /\ [Next]_vars
        => CodesOut' /\ OneBuyer' /\ StruckFacts'
  <1> SUFFICES ASSUME Typed, CodesOut, OneBuyer, StruckFacts, [Next]_vars
               PROVE  CodesOut' /\ OneBuyer' /\ StruckFacts'
    OBVIOUS
  <1> DEFINE Goal == CodesOut' /\ OneBuyer' /\ StruckFacts'
  <1>1. ASSUME NEW a \in Attempts, AuthCallback(a) PROVE Goal
    <2>1. CASE UNCHANGED <<code, links>>
      BY <1>1, <2>1, CodesUntouched DEF AuthCallback
    <2>2. CASE jar.user \in invited /\ MintCode(jar.state)
      BY <1>1, <2>2, MintKeepsCodes DEF AuthCallback
    <2> QED BY <1>1, <2>1, <2>2 DEF AuthCallback
  <1>2. ASSUME NEW a \in Attempts,
               StartGoogleAuth(a) \/ AuthStart(a) \/ RetryFromPage(a) \/ OAuthReturns(a)
        PROVE  Goal
    BY <1>2, CodesUntouched
    DEF StartGoogleAuth, AuthStart, RetryFromPage, OAuthReturns, backend
  <1>3. ASSUME NEW l \in links, AcceptCallback(l) PROVE Goal
    BY <1>3, AcceptKeepsCodes
  <1>4. ASSUME NEW l \in links, RejectCallback(l) PROVE Goal
    BY <1>4, CodesUntouched DEF RejectCallback, web, backend
  <1>5. ASSUME NEW e \in Exchanges, RedeemCode(e) PROVE Goal
    BY <1>5, RedeemKeepsCodes
  <1>6. ASSUME NEW e \in Exchanges, CheckInvite(e) PROVE Goal
    BY <1>6, AdvanceKeepsCodes DEF CheckInvite, StillInvited, Pcs, web, backend
  <1>7. ASSUME NEW e \in Exchanges,
               \/ InsertSession(e) \/ ReplyLost(e) \/ WriteSession(e) \/ SessionStored(e)
        PROVE  Goal
    BY <1>7, AdvanceKeepsCodes
    DEF InsertSession, ReplyLost, WriteSession, SessionStored, Pcs, web, backend
  <1>8. CASE SignOut \/ SignedOut \/ RefreshStatus \/ FetchJwt
    BY <1>8, CodesUntouched
    DEF SignOut, SignedOut, RefreshStatus, FetchJwt, RequestJwt, JwtArrives, JwtRefused,
        JwtExpires, web, backend
  <1>9. ASSUME NEW u \in Users, InviteChanges(u) PROVE Goal
    <2>1. /\ invited' = IF u \in invited THEN invited \ {u} ELSE invited \cup {u}
          /\ UNCHANGED <<links, exchange>>
          /\ code \in [Codes -> CodeRows]
      BY <1>9 DEF InviteChanges, web, Typed, BackendTyped
    <2>2. ASSUME NEW k \in Codes
          PROVE  /\ code'[k].user = code[k].user /\ code'[k].used = code[k].used
                 /\ code[k].user # u => code'[k].struck = code[k].struck
                 /\ code[k].user = u =>
                        code'[k].struck = (u \in invited /\ (code[k].struck \/ ~code[k].used))
      <3>1. code[k] \in CodeRows
        BY <2>1
      <3>2. code'[k] = IF code[k].user # u THEN code[k]
                       ELSE [code[k] EXCEPT !.struck =
                               u \in invited /\ (code[k].struck \/ ~code[k].used)]
        BY <1>9 DEF InviteChanges
      <3> QED BY <3>1, <3>2 DEF CodeRows
    <2>3. CodesOut'
      BY <2>1, <2>2 DEF CodesOut, Minted
    <2>4. OneBuyer'
      BY <2>1, <2>2 DEF OneBuyer, Redeemed, CodesOut, Minted
    <2>5. \A k \in Codes : code'[k].struck => code'[k].user \notin invited'
      BY <2>1, <2>2 DEF StruckFacts
    <2>6. ASSUME NEW e \in Exchanges, Passed(e)' PROVE ~code'[exchange'[e].code].struck
      <3>1. Passed(e) /\ Redeemed(e) /\ exchange'[e] = exchange[e]
        BY <2>1, <2>6 DEF Passed, Redeemed
      <3>2. exchange[e].code \in Codes /\ code[exchange[e].code].used
            /\ ~code[exchange[e].code].struck
        BY <3>1 DEF CodesOut, Minted, OneBuyer, StruckFacts, Redeemed
      <3> QED BY <2>2, <3>1, <3>2
    <2> QED BY <2>3, <2>4, <2>5, <2>6 DEF StruckFacts
  <1>10. CASE Tick
    <2>1. UNCHANGED <<links, invited, exchange>> /\ code \in [Codes -> CodeRows]
      BY <1>10 DEF Tick, Typed, BackendTyped
    <2>2. ASSUME NEW k \in Codes
          PROVE  /\ code'[k].user = code[k].user /\ code'[k].used = code[k].used
                 /\ code'[k].struck = code[k].struck
      <3>1. code[k] \in CodeRows
        BY <2>1
      <3>2. code'[k] = IF code[k].user = NoUser THEN code[k]
                       ELSE [code[k] EXCEPT !.age = Older(@, CodeTTL)]
        BY <1>10 DEF Tick
      <3> QED BY <3>1, <3>2 DEF CodeRows
    <2> QED BY <2>1, <2>2 DEF CodesOut, Minted, OneBuyer, Redeemed, StruckFacts, Passed
  <1>11. CASE ClockSetBack
    BY <1>11, CodesUntouched DEF ClockSetBack, web, backend
  <1>12. CASE Restart
    <2>1. UNCHANGED <<links, invited, code>>
      BY <1>12 DEF Restart, web, backend
    <2>2. ASSUME NEW e \in Exchanges
          PROVE  /\ exchange'[e].code = exchange[e].code
                 /\ exchange'[e].pc = IF exchange[e].pc = "stored" THEN "done" ELSE exchange[e].pc
      <3>1. exchange[e] \in Posts
        BY DEF Typed, RestTyped
      <3>2. exchange[e].pc # "stored" =>
                exchange'[e] \in {exchange[e], [exchange[e] EXCEPT !.heard = FALSE]}
        BY <1>12 DEF Restart
      <3>3. exchange[e].pc = "stored" => exchange'[e] = [exchange[e] EXCEPT !.pc = "done"]
        BY <1>12 DEF Restart
      <3> QED BY <3>1, <3>2, <3>3 DEF Posts
    <2>3. \A e \in Exchanges : /\ exchange'[e].pc # "none" => exchange[e].pc # "none"
                               /\ Redeemed(e)' => Redeemed(e)
                               /\ Passed(e)' => Passed(e)
      BY <2>2 DEF Redeemed, Passed
    <2> QED BY <2>1, <2>2, <2>3 DEF CodesOut, Minted, OneBuyer, StruckFacts
  <1>13. CASE UNCHANGED vars
    BY <1>13, CodesUntouched DEF vars, web, backend
  <1> QED BY <1>1, <1>2, <1>3, <1>4, <1>5, <1>6, <1>7, <1>8, <1>9, <1>10, <1>11, <1>12, <1>13
          DEF Next, OpenLink, Exchange

-----------------------------------------------------------------------------
(* The cached JWT.                                                          *)

\* Every call in flight is crossed by a change of the session.
LEMMA AllCrossed ==
    ASSUME call \in [Callers -> Calls], NEW c \in Callers, Crossed[c].pc = "minting"
    PROVE  Crossed[c].crossed
  <1>1. call[c] \in Calls
    OBVIOUS
  <1>2. CASE call[c].pc = "minting"
    BY <1>1, <1>2 DEF Crossed, Calls
  <1>3. CASE call[c].pc # "minting"
    BY <1>3 DEF Crossed
  <1> QED BY <1>2, <1>3

\* A step that lets the session and the JWT be, and settles nothing.
LEMMA JwtUntouched ==
    ASSUME JwtFacts, UNCHANGED <<stored, cache, leaving, call>>, Settled' => Settled
    PROVE  JwtFacts'
  BY DEF JwtFacts, CachedJwtIsCurrent

\* Without a JWT, and with no call that could bring an old one.
LEMMA JwtCleared ==
    ASSUME cache' = NoJwt, \A c \in Callers : call'[c].pc = "minting" => call'[c].crossed
    PROVE  JwtFacts'
  BY DEF JwtFacts, CachedJwtIsCurrent, NoJwt

LEMMA NextJwtFacts == Typed /\ JwtFacts /\ [Next]_vars => JwtFacts'
  <1> SUFFICES ASSUME Typed, JwtFacts, [Next]_vars PROVE JwtFacts'
    OBVIOUS
  <1>1. /\ exchange \in [Exchanges -> Posts] /\ call \in [Callers -> Calls]
        /\ cache \in Jwts /\ leaving \in BOOLEAN
    BY DEF Typed, RestTyped, DesktopTyped
  <1>2. ASSUME NEW a \in Attempts,
               \/ StartGoogleAuth(a) \/ AuthStart(a) \/ RetryFromPage(a)
               \/ OAuthReturns(a) \/ AuthCallback(a)
        PROVE  JwtFacts'
    BY <1>2, JwtUntouched
    DEF StartGoogleAuth, AuthStart, RetryFromPage, OAuthReturns, AuthCallback, desktop, Settled
  <1>3. ASSUME NEW l \in links, AcceptCallback(l) PROVE JwtFacts'
    <2>1. PICK e \in Exchanges :
              /\ exchange[e].pc = "none"
              /\ exchange' = [exchange EXCEPT ![e] = [Unused EXCEPT !.pc = "posting",
                                                                 !.code = l.code,
                                                                 !.attempt = l.state]]
      BY <1>3 DEF AcceptCallback
    <2>2. Settled' => Settled
      BY <1>1, <2>1 DEF Settled
    <2> QED BY <1>3, <2>2, JwtUntouched DEF AcceptCallback
  <1>4. ASSUME NEW l \in links, RejectCallback(l) PROVE JwtFacts'
    BY <1>4, JwtUntouched DEF RejectCallback, Settled
  <1>5. ASSUME NEW e \in Exchanges, NEW from, NEW to \in Pcs, from # "stored",
               Advance(e, from, to), UNCHANGED <<stored, cache, leaving, call>>
        PROVE  JwtFacts'
    <2>1. Settled' => Settled
      BY <1>1, <1>5, AdvanceTyped DEF Settled
    <2> QED BY <1>5, <2>1, JwtUntouched
  <1>6. ASSUME NEW e \in Exchanges,
               RedeemCode(e) \/ CheckInvite(e) \/ InsertSession(e) \/ ReplyLost(e)
        PROVE  JwtFacts'
    BY <1>5, <1>6 DEF RedeemCode, CheckInvite, InsertSession, ReplyLost, Pcs, desktop
  <1>7. ASSUME NEW e \in Exchanges, WriteSession(e) PROVE JwtFacts'
    <2>1. exchange'[e].pc = "stored"
      BY <1>1, <1>7, AdvanceTyped DEF WriteSession, Pcs
    <2>2. ~Settled'
      BY <2>1 DEF Settled
    <2>3. call' = Crossed /\ UNCHANGED <<cache, leaving>>
      BY <1>7 DEF WriteSession
    <2> QED BY <1>1, <2>2, <2>3, AllCrossed DEF JwtFacts, CachedJwtIsCurrent
  <1>8. ASSUME NEW e \in Exchanges, SessionStored(e) PROVE JwtFacts'
    BY <1>1, <1>8, AllCrossed, JwtCleared DEF SessionStored, ClearCachedJwt
  <1>9. CASE SignOut
    BY <1>1, <1>9, AllCrossed, JwtCleared DEF SignOut, ClearCachedJwt
  <1>10. CASE SignedOut
    <2>1. call' = Crossed /\ cache' = cache /\ ~leaving' /\ (cache.session = None \/ cache.late)
      BY <1>10 DEF SignedOut, JwtFacts
    <2> QED BY <1>1, <2>1, AllCrossed DEF JwtFacts, CachedJwtIsCurrent
  <1>11. CASE RefreshStatus
    BY <1>11, JwtUntouched DEF RefreshStatus, Settled
  <1>12. ASSUME NEW c \in Callers, RequestJwt(c) PROVE JwtFacts'
    <2>1. /\ call' = [call EXCEPT ![c] = [Idle EXCEPT !.pc = "minting", !.session = stored]]
          /\ UNCHANGED <<stored, cache, leaving, exchange>>
      BY <1>12 DEF RequestJwt
    <2>2. call'[c].session = stored /\ \A d \in Callers : d # c => call'[d] = call[d]
      BY <1>1, <2>1 DEF Idle
    <2> QED BY <2>1, <2>2 DEF JwtFacts, CachedJwtIsCurrent, Settled
  <1>13. ASSUME NEW c \in Callers, call' = [call EXCEPT ![c] = Idle], UNCHANGED <<stored, leaving>>
         PROVE  \A d \in Callers :
                    call'[d].pc = "minting" /\ ~call'[d].crossed => call'[d].session = stored'
    BY <1>1, <1>13 DEF Idle, JwtFacts
  <1>14. ASSUME NEW c \in Callers, JwtArrives(c) PROVE JwtFacts'
    <2>1. /\ call[c].pc = "minting" /\ call' = [call EXCEPT ![c] = Idle]
          /\ cache' = [session |-> call[c].session, live |-> TRUE,
                       late |-> call[c].crossed \/ leaving]
          /\ UNCHANGED <<stored, leaving, exchange>>
      BY <1>14 DEF JwtArrives
    <2>2. cache'.session = call[c].session /\ (cache'.late <=> call[c].crossed \/ leaving)
      BY <2>1
    <2>3. ~cache'.late => cache'.session = stored /\ ~leaving'
      BY <2>1, <2>2 DEF JwtFacts
    <2> QED BY <1>13, <2>1, <2>3 DEF JwtFacts, CachedJwtIsCurrent
  <1>15. ASSUME NEW c \in Callers, JwtRefused(c) PROVE JwtFacts'
    BY <1>13, <1>15 DEF JwtRefused, JwtFacts, CachedJwtIsCurrent, Settled
  <1>16. CASE JwtExpires
    <2>1. cache'.session = cache.session /\ cache'.late = cache.late
      BY <1>1, <1>16 DEF JwtExpires, Jwts
    <2> QED BY <1>16, <2>1 DEF JwtExpires, JwtFacts, CachedJwtIsCurrent, Settled
  <1>17. CASE (\E u \in Users : InviteChanges(u)) \/ Tick \/ ClockSetBack
    BY <1>17, JwtUntouched DEF InviteChanges, Tick, ClockSetBack, desktop, Settled
  <1>18. CASE Restart
    <2>1. cache' = NoJwt /\ \A c \in Callers : call'[c].pc # "minting"
      BY <1>18 DEF Restart, Idle
    <2> QED BY <2>1, JwtCleared
  <1>19. CASE UNCHANGED vars
    BY <1>19, JwtUntouched DEF vars, desktop, Settled
  <1> QED BY <1>2, <1>3, <1>4, <1>6, <1>7, <1>8, <1>9, <1>10, <1>11, <1>12, <1>14, <1>15, <1>16,
             <1>17, <1>18, <1>19
          DEF Next, OpenLink, Exchange, FetchJwt

-----------------------------------------------------------------------------
(* The theorems.                                                            *)

LEMMA InitInv == Init => IInv
  <1> SUFFICES ASSUME Init PROVE IInv
    OBVIOUS
  <1> USE DEF Init, NoJwt, Idle, NoCode, Unused
  <1>1. TypeOK
    BY InitTyped, TypedIsTypeOK
  <1>2. AttemptFacts
    BY DEF AttemptFacts, Started
  <1>3. CodesOut /\ OneBuyer /\ StruckFacts
    BY DEF CodesOut, OneBuyer, Redeemed, StruckFacts, Passed
  <1>4. JwtFacts
    BY DEF JwtFacts, CachedJwtIsCurrent
  <1> QED BY <1>1, <1>2, <1>3, <1>4 DEF IInv

LEMMA NextInv == IInv /\ [Next]_vars => IInv'
  <1>1. IInv /\ [Next]_vars => Typed'
    BY NextTyped, TypedIsTypeOK DEF IInv
  <1>2. Typed' => TypeOK'
    BY TypedIsTypeOK, PTL
  <1> QED BY <1>1, <1>2, TypedIsTypeOK, NextAttemptFacts, NextCodes, NextJwtFacts DEF IInv

\* What holds between attempts, codes, exchanges and the cache at every step.
THEOREM Inductive == Spec => []IInv
  BY InitInv, NextInv, PTL DEF Spec

\* A one-time code buys one session (redeemCode in server/src/auth/store.ts), for
\* any number of links, accepted any number of times.
THEOREM OneSessionPerCode == Spec => []CodeBuysOneSession
  <1>1. IInv => CodeBuysOneSession
    BY DEF IInv, OneBuyer, Redeemed, CodeBuysOneSession, Issued
  <1> QED BY <1>1, Inductive, PTL

\* A code whose owner's invite was taken back before it was redeemed buys no
\* session (the second isInvited of POST /auth/exchange).
THEOREM RevokedInviteBuysNothing == Spec => []InviteStillNeeded
  <1>1. IInv => InviteStillNeeded
    BY DEF IInv, StruckFacts, Passed, InviteStillNeeded, Issued
  <1> QED BY <1>1, Inductive, PTL

\* The cached JWT is one of the stored session, unless it was asked for before
\* the session changed (store_session, clear_session, fetch_jwt in auth.rs).
THEOREM CacheHoldsCurrentJwt == Spec => []CachedJwtIsCurrent
  <1>1. IInv => CachedJwtIsCurrent
    BY DEF IInv, JwtFacts
  <1> QED BY <1>1, Inductive, PTL

\* A callback is accepted only for the attempt started last, while its state is
\* good (consume_pending_auth_state_at in auth.rs).
THEOREM OnlyLatestAccepted == Spec => AcceptsOnlyTheLatest
  <1> DEFINE Taken == \A e \in Exchanges :
                 exchange[e].pc = "none" /\ exchange'[e].pc = "posting"
                     => /\ exchange'[e].attempt = Latest
                        /\ age[Latest] \in 0 .. PendingTTL - 1
  <1>1. IInv /\ [Next]_vars => [Taken]_vars
    <2> SUFFICES ASSUME IInv, Next PROVE Taken
      BY DEF Taken
    <2>1. Typed /\ AttemptFacts /\ exchange \in [Exchanges -> Posts]
      BY TypedIsTypeOK DEF IInv, Typed, RestTyped
    <2>2. ASSUME NEW l \in links, AcceptCallback(l) PROVE Taken
      <3>1. pending # None /\ pending = l.state /\ Fresh(pending)
        BY <2>2 DEF AcceptCallback, Matches
      <3>2. pending \in Attempts /\ pending = Latest
        BY <2>1, <3>1, PendingIsLatest
      <3>3. age[Latest] \in 0 .. PendingTTL - 1
        <4>1. age[pending] \in Int /\ PendingTTL \in Nat
          BY <2>1, <3>2, SessionAssumption DEF Typed, DesktopTyped
        <4> QED BY <3>1, <3>2, <4>1 DEF Fresh
      <3>4. PICK e \in Exchanges :
                exchange' = [exchange EXCEPT ![e] = [Unused EXCEPT !.pc = "posting",
                                                                   !.code = l.code,
                                                                   !.attempt = l.state]]
        BY <2>2 DEF AcceptCallback
      <3>5. exchange'[e].attempt = l.state
            /\ \A f \in Exchanges : f # e => exchange'[f] = exchange[f]
        BY <2>1, <3>4 DEF Unused
      <3> QED BY <3>1, <3>2, <3>3, <3>5
    <2>3. ASSUME NEW e \in Exchanges, NEW from, NEW to \in Pcs, from # "none", Advance(e, from, to)
          PROVE  Taken
      BY <2>1, <2>3, AdvanceTyped
    <2>4. CASE Exchange
      BY <2>3, <2>4 DEF Exchange, RedeemCode, CheckInvite, InsertSession, ReplyLost, WriteSession,
                        SessionStored, Pcs
    <2>5. CASE Restart
      <3>1. ASSUME NEW e \in Exchanges, exchange[e].pc = "none" PROVE exchange'[e] = exchange[e]
        BY <2>5, <3>1 DEF Restart
      <3> QED BY <3>1
    <2>6. CASE exchange' = exchange
      BY <2>6
    <2>7. CASE \/ \E a \in Attempts : \/ StartGoogleAuth(a) \/ AuthStart(a) \/ RetryFromPage(a)
                                      \/ OAuthReturns(a) \/ AuthCallback(a)
               \/ \E l \in links : RejectCallback(l)
               \/ SignOut \/ SignedOut \/ RefreshStatus \/ FetchJwt
               \/ \E u \in Users : InviteChanges(u)
               \/ Tick \/ ClockSetBack
      BY <2>6, <2>7
      DEF StartGoogleAuth, AuthStart, RetryFromPage, OAuthReturns, AuthCallback, RejectCallback,
          SignOut, SignedOut, RefreshStatus, FetchJwt, RequestJwt, JwtArrives, JwtRefused,
          JwtExpires, InviteChanges, Tick, ClockSetBack
    <2> QED BY <2>2, <2>4, <2>5, <2>7 DEF Next, OpenLink
  <1> QED BY <1>1, Inductive, PTL DEF Spec, AcceptsOnlyTheLatest
=============================================================================

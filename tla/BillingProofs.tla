----------------------------- MODULE BillingProofs -----------------------------
(***************************************************************************)
(* What module Billing promises of the subscription record, for every      *)
(* number of subscriptions, callers, webhooks and instants.                *)
(***************************************************************************)
EXTENDS Billing, TLAPS

-----------------------------------------------------------------------------
(* The invariant.                                                           *)

CallKinds == {"sync", "checkout"}
Asked    == [kind : CallKinds, known : SubIds \cup {NoSub}, live : SUBSET SubIds]
Answered == [kind : CallKinds, live : SUBSET SubIds, state : States]
Writing  == [kind : CallKinds, live : SUBSET SubIds, state : States, last : Times]
Subscriptions == [status : Statuses, end : Times, cancel : BOOLEAN]

\* What TypeOK leaves out: the requests by their place, and that an event is open once.
CallTypes ==
    /\ call \in [Callers -> [kind : {"none"}] \cup Asked \cup Answered \cup Writing]
    /\ \A c \in Callers :
        /\ pc[c] = "asking" => call[c] \in Asked
        /\ pc[c] = "answered" => call[c] \in Answered
        /\ pc[c] = "writing" => call[c] \in Writing
        /\ pc[c] \in {"deciding", "creating"} => call[c] \in Asked \cup Writing
EventTypes ==
    /\ nextId \in Nat \ {0} /\ lost \in Nat
    /\ \A m \in outbox : m.id \in Nat \ {0}
    /\ \A t, u \in open : t.event = u.event => t = u
Typed == TypeOK /\ CallTypes /\ EventTypes

\* Any set of subscriptions Dodo has created has a newest one.
NewestExists == \A S \in SUBSET Created : S # {} => \E m \in S : \A o \in S : o <= m

\* st says what Dodo once said of a subscription: a cancellation is for good, and no
\* period is taken back.
Said(st) ==
    /\ st.sub \in Created
    /\ st.status # "none"
    /\ st.status = "cancelled" => provider[st.sub].status = "cancelled"
    /\ ~world.payments => st.end # NoEnd /\ st.end <= provider[st.sub].end

AllSaid ==
    /\ \A s \in Created : provider[s].end # NoEnd
    /\ \A m \in outbox : Said(m.state)
    /\ IF row.sub = NoSub THEN row.status = "none" ELSE Said(row)
    /\ \A c \in Callers :
        /\ pc[c] = "asking" => call[c].known \in Created \cup {NoSub}
        /\ pc[c] \in {"answered", "writing"} => Said(call[c].state)

\* Nothing is of the future.
Past ==
    /\ \A m \in outbox : m.state.at < now
    /\ row.last <= now
    /\ \A c \in Callers : pc[c] = "writing" =>
          call[c].last <= call[c].state.at /\ call[c].state.at <= now

\* A checkout that saw a live subscription finds one on record when it decides.
CheckoutSees ==
    \A c \in Callers :
        /\ pc[c] = "asking" => call[c].live = {}
        /\ pc[c] # "idle" => call[c].live \subseteq Created
        /\ pc[c] = "deciding" /\ call[c].live # {} => row.sub # NoSub

\* Where transactions do not overlap, whoever is about to write has read the last row.
Serial ==
    ~world.overlap =>
        /\ \A t \in open : t.last = row.last
        /\ \A t, u \in open : t = u
        /\ \A c \in Callers : pc[c] = "writing" =>
              /\ call[c].last = row.last /\ open = {}
              /\ \A d \in Callers \ {c} : pc[d] # "writing"

\* Where webhooks alone write, what Dodo said last is on its way or on record, and
\* what else is on its way is older or the payment that came with it.
IsNewest(st, last) ==
    /\ st.sub \in Created /\ st.end # NoEnd
    /\ st.status = provider[st.sub].status /\ st.end = provider[st.sub].end
    /\ st.cancel = provider[st.sub].cancel
    /\ \A m \in outbox :
        /\ m.state.at <= last
        /\ m.state.at = last =>
              /\ m.state.sub = st.sub /\ m.state.status = st.status
              /\ m.state.cancel = st.cancel /\ m.state.end \in {NoEnd, st.end}
LastWord ==
    ~world.overlap /\ ~world.calls /\ lost = 0 =>
        /\ row.last < now
        /\ Created = {} => outbox = {}
        /\ Created # {} =>
            \/ IsNewest(row, row.last)
            \/ \E m \in outbox : IsNewest(m.state, m.state.at) /\ row.last <= m.state.at
NoCalls == ~world.calls => \A c \in Callers : pc[c] = "idle"

IInv == /\ Typed /\ NewestExists /\ AllSaid /\ Past /\ CheckoutSees
        /\ Serial /\ LastWord /\ NoCalls /\ NoSecondCheckout

-----------------------------------------------------------------------------
LEMMA WorldTypes ==
    ASSUME world \in Worlds
    PROVE  /\ world.until \in 1..MaxTime /\ world.lost \in Nat
           /\ world.overlap \in BOOLEAN /\ world.payments \in BOOLEAN
           /\ world.outages \in BOOLEAN /\ world.calls \in BOOLEAN
  BY WorldsAssumption

\* Nothing has been paid, sent or asked: the invariant holds at first.
LEMMA BillingBegins == Init => IInv
<1> SUFFICES ASSUME Init PROVE IInv
    OBVIOUS
<1> USE IdsAssumption, TimeAssumption DEF Init
<1>1. TypeOK
  <2>1. world.until \in 1..MaxTime
    BY WorldTypes
  <2>2. now \in 1..world.until /\ seen \subseteq 1..(nextId - 1)
    BY <2>1
  <2>3. row \in [status : Statuses, sub : SubIds \cup {NoSub}, end : Times,
                 cancel : BOOLEAN, last : Times]
    BY DEF Statuses, Times, NoEnd
  <2>4. provider \in [SubIds -> [status : Statuses, end : Times, cancel : BOOLEAN]]
    BY DEF Statuses, Times, NoEnd
  <2>5. QED
    BY <2>2, <2>3, <2>4 DEF TypeOK
<1>2. CallTypes /\ EventTypes
  BY DEF CallTypes, EventTypes
<1>3. Created = {}
  BY DEF Created
<1>4. NewestExists
  BY <1>3 DEF NewestExists
<1>5. AllSaid /\ Past /\ CheckoutSees /\ Serial
  BY <1>3 DEF AllSaid, Past, CheckoutSees, Serial
<1>6. LastWord /\ NoCalls /\ NoSecondCheckout
  BY <1>3 DEF LastWord, NoCalls, NoSecondCheckout
<1>7. QED
  BY <1>1, <1>2, <1>4, <1>5, <1>6 DEF IInv, Typed

-----------------------------------------------------------------------------
(* Dodo changes a subscription.                                             *)

\* How a subscription may change: it is never deleted, revived, or cut short.
Advances(s, p) ==
    /\ p \in Subscriptions
    /\ p.status # "none" /\ p.end # NoEnd
    /\ s \in Created => provider[s].end <= p.end
    /\ provider[s].status # "cancelled"

LEMMA ChangesKeepTypes ==
    ASSUME Typed, NEW s \in SubIds, NEW p, NEW paid \in BOOLEAN, Advances(s, p),
           Changes(s, p, paid), sessions' \in 0..MaxSessions
    PROVE  Typed'
<1> DEFINE event   == [id |-> nextId, state |-> StateOf(s, p, now)]
           payment == [id |-> nextId + 1, state |-> [StateOf(s, p, now) EXCEPT !.end = NoEnd]]
<1> USE IdsAssumption, TimeAssumption
<1>1. /\ world \in Worlds /\ world.until \in 1..MaxTime /\ now \in 1..world.until
      /\ nextId \in Nat \ {0} /\ now < world.until
  BY WorldTypes DEF Typed, TypeOK, EventTypes, Changes
<1>2. event.state \in States /\ payment.state \in States
  BY <1>1 DEF StateOf, States, Advances, Subscriptions, Times, NoEnd
<1>3. outbox' \subseteq outbox \cup {event, payment} /\ outbox \subseteq outbox'
  BY DEF Changes
<1>4. /\ nextId' \in Nat \ {0} /\ nextId' > nextId
      /\ payment \in outbox' => payment \in outbox \/ nextId' = nextId + 2
  BY <1>1 DEF Changes
<1>5. \A m \in outbox' : m.id \in Nat \ {0} /\ m.id < nextId' /\ m.state \in States
  <2> SUFFICES ASSUME NEW m \in outbox'
               PROVE  m.id \in Nat \ {0} /\ m.id < nextId' /\ m.state \in States
    OBVIOUS
  <2>1. CASE m \in outbox
    BY <2>1, <1>1, <1>4 DEF Typed, TypeOK, EventTypes
  <2>2. CASE m = event
    BY <2>2, <1>1, <1>2, <1>4
  <2>3. CASE m = payment /\ m \notin outbox
    BY <2>3, <1>1, <1>2, <1>4
  <2>4. QED
    BY <2>1, <2>2, <2>3, <1>3
<1>6. provider' \in [SubIds -> [status : Statuses, end : Times, cancel : BOOLEAN]]
  BY DEF Changes, Advances, Subscriptions, Typed, TypeOK
<1>7. TypeOK'
  BY <1>1, <1>3, <1>4, <1>5, <1>6 DEF Typed, TypeOK, Changes
<1>8. CallTypes'
  BY DEF Typed, CallTypes, Changes
<1>9. EventTypes'
  BY <1>4, <1>5 DEF Typed, EventTypes, Changes
<1>10. QED
  BY <1>7, <1>8, <1>9 DEF Typed

LEMMA ChangesGrow ==
    ASSUME Typed, AllSaid, NEW s \in SubIds, NEW p, NEW paid \in BOOLEAN, Advances(s, p),
           Changes(s, p, paid)
    PROVE  /\ Created' = Created \cup {s}
           /\ \A st : Said(st) /\ st.end \in Nat => Said(st)'
           /\ \A o \in Created : Live(o)' => Live(o)
           /\ \A o \in Created' : provider'[o].end # NoEnd
<1>1. provider' = [provider EXCEPT ![s] = p] /\ world' = world
  BY DEF Changes
<1>2. /\ provider \in [SubIds -> Subscriptions] /\ provider'[s] = p
      /\ \A o \in SubIds \ {s} : provider'[o] = provider[o]
  BY <1>1 DEF Typed, TypeOK, Subscriptions
<1>3. Created' = Created \cup {s}
  BY <1>2 DEF Created, Advances
<1>4. \A o \in Created : Live(o)' => Live(o)
  BY <1>2 DEF Created, Live, Advances, Subscriptions, Statuses
<1>5. \A o \in Created' : provider'[o].end # NoEnd
  BY <1>2, <1>3 DEF AllSaid, Advances, Created
<1>6. ASSUME NEW st, Said(st), st.end \in Nat
      PROVE  Said(st)'
  <2>1. st.sub \in Created /\ st.sub \in Created' /\ st.sub \in SubIds
    BY <1>3, <1>6 DEF Said, Created
  <2>2. st.status = "cancelled" => provider'[st.sub].status = "cancelled"
    BY <2>1, <1>2, <1>6 DEF Said, Advances
  <2>3. provider[st.sub].end <= provider'[st.sub].end
    BY <2>1, <1>2, TimeAssumption DEF Advances, Subscriptions, Times
  <2>4. provider[st.sub].end \in Nat /\ provider'[st.sub].end \in Nat
    BY <2>1, <1>2, TimeAssumption DEF Advances, Subscriptions, Times
  <2>5. QED
    BY <2>1, <2>2, <2>3, <2>4, <1>1, <1>6 DEF Said
<1>7. QED
  BY <1>3, <1>4, <1>5, <1>6

LEMMA ChangesKeepNewest ==
    ASSUME NewestExists, NEW s \in SubIds, Created \subseteq SubIds,
           Created' = Created \cup {s}
    PROVE  NewestExists'
<1> SUFFICES ASSUME NEW S \in SUBSET (Created \cup {s}), S # {}
             PROVE  \E m \in S : \A o \in S : o <= m
    BY DEF NewestExists
<1>1. S \subseteq Nat
  BY IdsAssumption
<1>2. CASE S \ {s} = {}
  <2>1. s \in S /\ \A o \in S : o = s
    BY <1>2
  <2>2. QED
    BY <2>1, <1>1
<1>3. CASE S \ {s} # {}
  <2>1. PICK m \in S \ {s} : \A o \in S \ {s} : o <= m
    BY <1>3 DEF NewestExists
  <2>2. CASE s \in S /\ m <= s
    BY <2>1, <2>2, <1>1
  <2>3. CASE s \notin S \/ ~(m <= s)
    BY <2>1, <2>3, <1>1
  <2>4. QED
    BY <2>2, <2>3
<1>4. QED
  BY <1>2, <1>3

\* What Dodo announces is the last word: everything else is of an earlier moment.
LEMMA ChangesKeepLastWord ==
    ASSUME IInv, NEW s \in SubIds, NEW p, NEW paid \in BOOLEAN, Advances(s, p),
           Changes(s, p, paid)
    PROVE  LastWord'
<1>0. PICK event, payment :
        /\ event = [id |-> nextId, state |-> StateOf(s, p, now)]
        /\ payment = [id |-> nextId + 1, state |-> [StateOf(s, p, now) EXCEPT !.end = NoEnd]]
  OBVIOUS
<1> SUFFICES ASSUME ~world.overlap, ~world.calls, lost = 0
             PROVE  LastWord'
    BY DEF LastWord, Changes
<1>1. /\ row.last < now /\ now' = now + 1 /\ now \in Nat /\ row.last \in Nat /\ row' = row
      /\ \A m \in outbox : m.state.at < now /\ m.state.at \in Nat
  BY WorldTypes, TimeAssumption
     DEF IInv, Typed, TypeOK, LastWord, Past, Changes, States, Times
<1>2. /\ outbox' \subseteq outbox \cup {event, payment} /\ event \in outbox'
      /\ Created' = Created \cup {s}
  <2>1. outbox' \subseteq outbox \cup {event, payment} /\ event \in outbox'
    BY <1>0 DEF Changes
  <2>2. Created' = Created \cup {s}
    BY ChangesGrow DEF IInv
  <2>3. QED
    BY <2>1, <2>2
<1>3. provider'[s] = p
  BY DEF Changes, IInv, Typed, TypeOK
<1>4. IsNewest(event.state, event.state.at)'
  <2>1. /\ event.state.sub = s /\ event.state.status = p.status /\ event.state.end = p.end
        /\ event.state.cancel = p.cancel /\ event.state.at = now
    BY <1>0 DEF StateOf
  <2>2. /\ payment.state.sub = s /\ payment.state.status = p.status
        /\ payment.state.end = NoEnd
        /\ payment.state.cancel = p.cancel /\ payment.state.at = now
    BY <1>0 DEF StateOf
  <2>3. ASSUME NEW m \in outbox'
        PROVE  /\ m.state.at <= now
               /\ m.state.at = now =>
                    /\ m.state.sub = s /\ m.state.status = p.status
                    /\ m.state.cancel = p.cancel /\ m.state.end \in {NoEnd, p.end}
    <3>1. CASE m \in outbox
      BY <3>1, <1>1
    <3>2. CASE m = event \/ m = payment
      BY <3>2, <2>1, <2>2, <1>1
    <3>3. QED
      BY <3>1, <3>2, <1>2
  <2>4. p.end # NoEnd /\ s \in Created'
    BY <1>2 DEF Advances
  <2>5. QED
    BY <2>1, <2>3, <2>4, <1>2, <1>3 DEF IsNewest
<1>5. event.state.at = now
  BY <1>0 DEF StateOf
<1>6. QED
  BY <1>1, <1>2, <1>4, <1>5 DEF LastWord

LEMMA ChangesKeep ==
    ASSUME IInv, NEW s \in SubIds, NEW p, NEW paid \in BOOLEAN, Advances(s, p),
           Changes(s, p, paid), sessions' \in 0..MaxSessions
    PROVE  IInv'
<1>1. Typed'
  BY ChangesKeepTypes DEF IInv
<1>2. /\ Created' = Created \cup {s} /\ Created \subseteq Created'
      /\ \A st : Said(st) /\ st.end \in Nat => Said(st)'
      /\ \A o \in Created : Live(o)' => Live(o)
      /\ \A o \in Created' : provider'[o].end # NoEnd
  BY ChangesGrow DEF IInv
<1>3. NewestExists'
  BY <1>2, ChangesKeepNewest DEF IInv, Created
<1>4. AllSaid'
  <2>1. ASSUME NEW m \in outbox' PROVE Said(m.state)'
    <3>1. CASE m \in outbox
      <4>1. m.state.end \in Nat
        BY <3>1, TimeAssumption DEF IInv, Typed, TypeOK, States, Times
      <4>2. QED
        BY <4>1, <3>1, <1>2 DEF IInv, AllSaid
    <3>2. CASE m.state \in {StateOf(s, p, now), [StateOf(s, p, now) EXCEPT !.end = NoEnd]}
               /\ (~world.payments => m.state = StateOf(s, p, now))
      <4>1. /\ m.state.sub = s /\ m.state.status = p.status
            /\ ~world.payments => m.state.end = p.end
        BY <3>2 DEF StateOf
      <4>2. s \in Created' /\ provider'[s] = p /\ world' = world /\ p.end \in Nat
        BY <1>2, TimeAssumption
           DEF Changes, IInv, Typed, TypeOK, Advances, Subscriptions, Times
      <4>3. QED
        BY <4>1, <4>2 DEF Said, Advances
    <3>3. QED
      BY <3>1, <3>2 DEF Changes
  <2>2. IF row'.sub = NoSub THEN row'.status = "none" ELSE Said(row)'
    <3>1. row' = row /\ row.end \in Nat
      BY TimeAssumption DEF Changes, IInv, Typed, TypeOK, Times
    <3>2. QED
      BY <3>1, <1>2 DEF IInv, AllSaid
  <2>3. ASSUME NEW c \in Callers
        PROVE  /\ pc'[c] = "asking" => call'[c].known \in Created' \cup {NoSub}
               /\ pc'[c] \in {"answered", "writing"} => Said(call[c].state)'
    <3>1. pc' = pc /\ call' = call
      BY DEF Changes
    <3>2. pc[c] \in {"answered", "writing"} => call[c].state.end \in Nat
      BY TimeAssumption DEF IInv, Typed, CallTypes, Answered, Writing, States, Times
    <3>3. QED
      BY <3>1, <3>2, <1>2 DEF IInv, AllSaid
  <2>4. QED
    BY <2>1, <2>2, <2>3, <1>2 DEF AllSaid
<1>5. Past'
  <2>1. now \in Nat /\ now' = now + 1
    BY WorldTypes DEF IInv, Typed, TypeOK, Changes
  <2>2. ASSUME NEW m \in outbox' PROVE m.state.at < now'
    <3>1. CASE m \in outbox
      BY <3>1, <2>1, TimeAssumption DEF IInv, Past, Typed, TypeOK, States, Times
    <3>2. CASE m.state.at = now
      BY <3>2, <2>1
    <3>3. QED
      BY <3>1, <3>2 DEF Changes, StateOf
  <2>3. row'.last <= now'
    BY <2>1, TimeAssumption DEF IInv, Past, Typed, TypeOK, Times, Changes
  <2>4. ASSUME NEW c \in Callers, pc[c] = "writing"
        PROVE  call[c].last <= call[c].state.at /\ call[c].state.at <= now'
    BY <2>1, <2>4, TimeAssumption
       DEF IInv, Past, Typed, CallTypes, Writing, States, Times
  <2>5. QED
    BY <2>2, <2>3, <2>4 DEF Past, Changes
<1>6. CheckoutSees' /\ NoSecondCheckout'
  BY <1>2 DEF IInv, CheckoutSees, NoSecondCheckout, Changes
<1>7. Serial' /\ NoCalls'
  BY DEF IInv, Serial, NoCalls, Changes
<1>8. LastWord'
  BY ChangesKeepLastWord
<1>9. QED
  BY <1>1, <1>3, <1>4, <1>5, <1>6, <1>7, <1>8 DEF IInv

\* Whatever Dodo does to a subscription is such a change.
LEMMA DodoKeeps ==
    ASSUME IInv, NEW s \in SubIds, Pay(s) \/ ScheduleCancel(s) \/ PeriodEnds(s)
    PROVE  IInv'
<1> USE TimeAssumption
<1>1. /\ now \in Nat \ {0} /\ provider \in [SubIds -> Subscriptions]
      /\ provider[s] \in Subscriptions /\ provider[s].end \in Nat
      /\ sessions \in 0..MaxSessions
  BY WorldTypes DEF IInv, Typed, TypeOK, Subscriptions, Times
<1>2. provider[s].status # "none" => provider[s].end # NoEnd
  BY DEF IInv, AllSaid, Created
<1>3. now < world.until => now + Period \in Times /\ now + Period # NoEnd
  BY <1>1, WorldTypes DEF IInv, Typed, TypeOK, Times, NoEnd
<1>4. CASE Pay(s)
  <2> DEFINE p == [status |-> "active", end |-> now + Period, cancel |-> FALSE]
  <2>1. /\ Changes(s, p, TRUE) /\ now < world.until /\ provider[s].status = "none"
        /\ sessions' \in 0..MaxSessions
    <3>1. /\ Changes(s, p, TRUE) /\ s \notin Created
          /\ sessions > 0 /\ sessions' = sessions - 1
      BY <1>4 DEF Pay
    <3>2. now < world.until
      BY <3>1 DEF Changes
    <3>3. provider[s].status = "none"
      BY <3>1 DEF Created
    <3>4. sessions' \in 0..MaxSessions
      BY <1>1, <3>1
    <3>5. QED
      BY <3>1, <3>2, <3>3, <3>4
  <2>2. now + Period \in Times /\ now + Period # NoEnd
    BY <1>3, <2>1
  <2>3. p \in Subscriptions /\ p.status = "active" /\ p.end = now + Period
    BY <2>2 DEF Subscriptions, Statuses
  <2>4. Advances(s, p)
    BY <2>1, <2>2, <2>3 DEF Advances, Created
  <2>5. QED
    BY <2>1, <2>4, ChangesKeep
<1>5. CASE ScheduleCancel(s)
  <2> DEFINE p == [provider[s] EXCEPT !.cancel = TRUE]
  <2>1. /\ Changes(s, p, FALSE) /\ provider[s].status = "active" /\ sessions' = sessions
    BY <1>5 DEF ScheduleCancel
  <2>2. /\ p \in Subscriptions /\ p.status = provider[s].status /\ p.end = provider[s].end
    BY <1>1 DEF Subscriptions
  <2>3. Advances(s, p)
    BY <1>1, <1>2, <2>1, <2>2 DEF Advances
  <2>4. QED
    BY <1>1, <2>1, <2>3, ChangesKeep
<1>6. CASE PeriodEnds(s)
  <2> DEFINE renewed == [status |-> "active", end |-> now + Period, cancel |-> FALSE]
             unpaid  == [provider[s] EXCEPT !.status = "on_hold"]
             over    == [provider[s] EXCEPT !.status = "cancelled"]
  <2>1. /\ provider[s].status \in {"active", "on_hold"} /\ now >= provider[s].end
        /\ sessions' = sessions
    BY <1>6 DEF PeriodEnds, Live
  <2>2. CASE Changes(s, renewed, FALSE)
    <3>1. Advances(s, renewed)
      BY <1>1, <1>3, <2>1, <2>2 DEF Advances, Subscriptions, Statuses, Changes
    <3>2. QED
      BY <1>1, <2>1, <2>2, <3>1, ChangesKeep
  <2>3. CASE Changes(s, unpaid, FALSE)
    <3>1. /\ unpaid \in Subscriptions /\ unpaid.status = "on_hold"
          /\ unpaid.end = provider[s].end
      BY <1>1 DEF Subscriptions, Statuses
    <3>2. Advances(s, unpaid)
      BY <1>1, <1>2, <2>1, <3>1 DEF Advances
    <3>3. QED
      BY <1>1, <2>1, <2>3, <3>2, ChangesKeep
  <2>4. CASE Changes(s, over, FALSE)
    <3>1. /\ over \in Subscriptions /\ over.status = "cancelled"
          /\ over.end = provider[s].end
      BY <1>1 DEF Subscriptions, Statuses
    <3>2. Advances(s, over)
      BY <1>1, <1>2, <2>1, <3>1 DEF Advances
    <3>3. QED
      BY <1>1, <2>1, <2>4, <3>2, ChangesKeep
  <2>5. QED
    BY <1>6, <2>2, <2>3, <2>4 DEF PeriodEnds
<1>7. QED
  BY <1>4, <1>5, <1>6

-----------------------------------------------------------------------------
(* The record is written.                                                   *)

\* What stands when the provider and the events on their way are left alone.
LEMMA SaidStays ==
    ASSUME UNCHANGED <<provider, world>>
    PROVE  /\ Created' = Created
           /\ \A st : Said(st)' <=> Said(st)
           /\ \A s : Live(s)' <=> Live(s)
  BY DEF Created, Said, Live

\* applyDodoStateWith: a row that Dodo once said stays one.  The cached plan looks
\* at the incoming state alone.
LEMMA ApplyKeeps ==
    ASSUME Typed, AllSaid, NEW state \in States, NEW last \in Times, Said(state),
           Apply(state, last), UNCHANGED <<provider, world>>
    PROVE  /\ row' \in [status : Statuses, sub : SubIds \cup {NoSub}, end : Times,
                        cancel : BOOLEAN, last : Times]
           /\ plan' \in BOOLEAN
           /\ IF row'.sub = NoSub THEN row'.status = "none" ELSE Said(row)'
           /\ row.sub # NoSub => row'.sub # NoSub
           /\ row'.last = row.last \/ row'.last = state.at
           /\ last <= state.at => row'.sub = state.sub /\ row'.last = state.at
<1> USE TimeAssumption, IdsAssumption
<1>1. CASE last > state.at
  BY <1>1, SaidStays DEF Apply, IsStale, Typed, TypeOK, AllSaid, States, Times
<1>2. CASE ~(last > state.at)
  <2>1. /\ row'.status = state.status /\ row'.sub = state.sub /\ row'.end = MergeEnd(state.end)
        /\ row'.cancel = state.cancel /\ row'.last = state.at
        /\ row' = [status |-> state.status, sub |-> state.sub, end |-> MergeEnd(state.end),
                   cancel |-> state.cancel, last |-> state.at]
    <3>1. row' = [status |-> state.status, sub |-> state.sub, end |-> MergeEnd(state.end),
                  cancel |-> state.cancel, last |-> state.at]
      BY <1>2, Zenon DEF Apply, IsStale
    <3>2. QED
      BY <3>1
  <2>2. MergeEnd(state.end) \in Times
    BY DEF MergeEnd, Typed, TypeOK, States
  <2>3. row' \in [status : Statuses, sub : SubIds \cup {NoSub}, end : Times,
                  cancel : BOOLEAN, last : Times]
    BY <2>1, <2>2 DEF States
  <2>4. plan' \in BOOLEAN
    BY <1>2 DEF Apply, IsStale, ProNow
  <2>5. Said(row)'
    <3>1. ~world.payments => row'.end = state.end
      BY <2>1 DEF MergeEnd, Said
    <3>2. QED
      BY <2>1, <3>1 DEF Said, Created
  <2>6. row'.sub # NoSub
    BY <2>1 DEF Said, Created
  <2>7. QED
    BY <2>1, <2>3, <2>4, <2>5, <2>6
<1>3. QED
  BY <1>1, <1>2

-----------------------------------------------------------------------------
(* The webhooks.                                                            *)

LEMMA CommitKeepsLastWord ==
    ASSUME IInv, NEW t \in open, CommitWebhook(t),
           ~world.overlap, ~world.calls, lost = 0
    PROVE  LastWord'
<1> DEFINE m == t.event
           last == row.last
<1> USE TimeAssumption
<1>1. /\ m \in outbox /\ m.state \in States /\ m.state.at \in Nat /\ last \in Nat
      /\ t.last = last /\ m.state.at < now /\ last < now /\ now \in Nat
  BY WorldTypes DEF IInv, Typed, TypeOK, Past, Serial, LastWord, States, Times
<1>2. /\ outbox' = outbox \ {m} /\ UNCHANGED <<provider, world, now, lost>>
      /\ Apply(m.state, last)
  BY <1>1 DEF CommitWebhook
<1>3. Created' = Created /\ Created # {} /\ row.end \in Nat /\ m.state.end \in Nat
  BY <1>1, <1>2, SaidStays DEF IInv, Typed, TypeOK, LastWord, States, Times
<1>4. CASE last > m.state.at
  <2>1. row' = row
    BY <1>2, <1>4 DEF Apply, IsStale
  <2>2. CASE IsNewest(row, row.last)
    <3>1. IsNewest(row, row.last)'
      BY <1>2, <1>3, <2>1, <2>2 DEF IsNewest
    <3>2. QED
      BY <1>1, <1>2, <1>3, <2>1, <3>1 DEF LastWord
  <2>3. CASE \E n \in outbox : IsNewest(n.state, n.state.at) /\ row.last <= n.state.at
    <3>1. PICK n \in outbox : IsNewest(n.state, n.state.at) /\ row.last <= n.state.at
      BY <2>3
    <3>2. n \in outbox' /\ IsNewest(n.state, n.state.at)'
      BY <1>1, <1>2, <1>3, <1>4, <3>1 DEF IsNewest
    <3>3. QED
      BY <1>1, <1>2, <1>3, <2>1, <3>1, <3>2 DEF LastWord
  <2>4. QED
    BY <1>3, <2>2, <2>3 DEF IInv, LastWord
<1>5. CASE ~(last > m.state.at)
  <2>1. /\ row'.status = m.state.status /\ row'.sub = m.state.sub
        /\ row'.end = (IF m.state.end = NoEnd THEN row.end ELSE m.state.end)
        /\ row'.cancel = m.state.cancel /\ row'.last = m.state.at
    <3>1. row' = [status |-> m.state.status, sub |-> m.state.sub,
                  end |-> MergeEnd(m.state.end), cancel |-> m.state.cancel,
                  last |-> m.state.at]
      BY <1>2, <1>5, Zenon DEF Apply, IsStale
    <3>2. QED
      BY <3>1 DEF MergeEnd
  <2>2. CASE IsNewest(row, row.last)
    <3>1. /\ m.state.at = last /\ m.state.sub = row.sub /\ m.state.status = row.status
          /\ m.state.cancel = row.cancel /\ m.state.end \in {NoEnd, row.end}
      BY <1>1, <1>5, <2>2 DEF IsNewest
    <3>2. /\ row'.status = row.status /\ row'.sub = row.sub /\ row'.end = row.end
          /\ row'.cancel = row.cancel /\ row'.last = row.last
      BY <2>1, <3>1
    <3>3. IsNewest(row, row.last)'
      BY <1>2, <1>3, <2>2, <3>2 DEF IsNewest
    <3>4. QED
      BY <1>1, <1>2, <1>3, <3>2, <3>3 DEF LastWord
  <2>3. CASE \E n \in outbox : IsNewest(n.state, n.state.at) /\ row.last <= n.state.at
    <3>1. PICK n \in outbox : IsNewest(n.state, n.state.at) /\ row.last <= n.state.at
      BY <2>3
    <3>2. CASE n = m
      <4>1. IsNewest(row, row.last)'
        BY <1>2, <1>3, <2>1, <3>1, <3>2 DEF IsNewest
      <4>2. QED
        BY <1>1, <1>2, <1>3, <2>1, <4>1 DEF LastWord
    <3>3. CASE n # m
      <4>1. n \in outbox' /\ IsNewest(n.state, n.state.at)' /\ row'.last <= n.state.at
        BY <1>1, <1>2, <1>3, <2>1, <3>1, <3>3 DEF IsNewest
      <4>2. QED
        BY <1>1, <1>2, <1>3, <2>1, <4>1 DEF LastWord
    <3>4. QED
      BY <3>2, <3>3
  <2>4. QED
    BY <1>3, <2>2, <2>3 DEF IInv, LastWord
<1>6. QED
  BY <1>4, <1>5

LEMMA CommitKeeps ==
    ASSUME IInv, NEW t \in open, CommitWebhook(t)
    PROVE  IInv'
<1> DEFINE m == t.event
<1> USE TimeAssumption
<1>1. /\ m \in outbox /\ m.state \in States /\ t.last \in Times /\ Said(m.state)
      /\ m.id \in Nat \ {0} /\ m.id < nextId /\ nextId \in Nat
  BY DEF IInv, Typed, TypeOK, EventTypes, AllSaid
<1>2. /\ open' = open \ {t} /\ outbox' = outbox \ {m} /\ seen' = seen \cup {m.id}
      /\ UNCHANGED <<world, now, provider, nextId, lost, pc, call, sessions>>
      /\ Apply(m.state, t.last)
  BY DEF CommitWebhook
<1>3. /\ row' \in [status : Statuses, sub : SubIds \cup {NoSub}, end : Times,
                   cancel : BOOLEAN, last : Times]
      /\ plan' \in BOOLEAN
      /\ IF row'.sub = NoSub THEN row'.status = "none" ELSE Said(row)'
      /\ row.sub # NoSub => row'.sub # NoSub
      /\ row'.last = row.last \/ row'.last = m.state.at
  BY <1>1, <1>2, ApplyKeeps DEF IInv
<1>4. /\ Created' = Created
      /\ \A st : Said(st)' <=> Said(st)
      /\ \A s : Live(s)' <=> Live(s)
  BY <1>2, SaidStays
<1>5. Typed'
  <2>1. \A u \in open' : u.event \in outbox' /\ u.last \in Times
    BY <1>2 DEF IInv, Typed, TypeOK, EventTypes
  <2>2. seen' \subseteq 1..(nextId - 1)
    <3>1. seen \subseteq 1..(nextId - 1)
      BY DEF IInv, Typed, TypeOK
    <3>2. m.id \in 1..(nextId - 1)
      BY <1>1
    <3>3. QED
      BY <1>2, <3>1, <3>2
  <2>3. TypeOK'
    BY <1>2, <1>3, <2>1, <2>2 DEF IInv, Typed, TypeOK
  <2>4. CallTypes' /\ EventTypes'
    BY <1>2 DEF IInv, Typed, CallTypes, EventTypes
  <2>5. QED
    BY <2>3, <2>4 DEF Typed
<1>6. NewestExists' /\ NoCalls' /\ NoSecondCheckout'
  BY <1>2, <1>4 DEF IInv, NewestExists, NoCalls, NoSecondCheckout
<1>7. AllSaid'
  BY <1>2, <1>3, <1>4 DEF IInv, AllSaid
<1>8. Past'
  <2>1. m.state.at < now /\ m.state.at \in Nat /\ now \in Nat
    BY <1>1, WorldTypes DEF IInv, Past, Typed, TypeOK, States, Times
  <2>2. row'.last <= now
    BY <1>3, <2>1 DEF IInv, Past
  <2>3. QED
    BY <1>2, <2>2 DEF IInv, Past
<1>9. CheckoutSees'
  BY <1>2, <1>3, <1>4 DEF IInv, CheckoutSees
<1>10. Serial'
  <2>1. SUFFICES ASSUME ~world.overlap PROVE Serial'
    BY <1>2 DEF Serial
  <2>2. open' = {} /\ \A c \in Callers : pc'[c] # "writing"
    BY <1>2, <2>1 DEF IInv, Serial
  <2>3. QED
    BY <2>2 DEF Serial
<1>11. LastWord'
  BY <1>2, CommitKeepsLastWord DEF LastWord
<1>12. QED
  BY <1>5, <1>6, <1>7, <1>8, <1>9, <1>10, <1>11 DEF IInv

LEMMA DeliveryKeeps ==
    ASSUME IInv, \/ \E m \in outbox : LoseWebhook(m) \/ BeginWebhook(m)
                 \/ \E t \in open : AbortWebhook(t)
    PROVE  IInv'
<1> USE TimeAssumption
<1>1. ASSUME NEW m \in outbox, LoseWebhook(m)
      PROVE  IInv'
  <2>1. /\ outbox' = outbox \ {m} /\ lost' = lost + 1 /\ \A t \in open : t.event # m
        /\ UNCHANGED <<world, now, provider, nextId, seen, row, plan, open, pc, call, sessions>>
    BY <1>1 DEF LoseWebhook
  <2>2. /\ Created' = Created
        /\ \A st : Said(st)' <=> Said(st)
        /\ \A s : Live(s)' <=> Live(s)
    BY <2>1, SaidStays
  <2>3. Typed'
    BY <2>1 DEF IInv, Typed, TypeOK, CallTypes, EventTypes
  <2>4. NewestExists' /\ NoCalls' /\ NoSecondCheckout' /\ CheckoutSees'
    BY <2>1, <2>2 DEF IInv, NewestExists, NoCalls, NoSecondCheckout, CheckoutSees
  <2>5. AllSaid' /\ Past' /\ Serial'
    BY <2>1, <2>2 DEF IInv, AllSaid, Past, Serial
  <2>6. LastWord'
    BY <2>1 DEF IInv, Typed, EventTypes, LastWord
  <2>7. QED
    BY <2>3, <2>4, <2>5, <2>6 DEF IInv
<1>2. ASSUME NEW m \in outbox, BeginWebhook(m)
      PROVE  IInv'
  <2> DEFINE new == [event |-> m, last |-> row.last]
  <2>1. /\ open' = open \cup {new} /\ \A t \in open : t.event # m
        /\ UNCHANGED <<dodoVars, seen, row, plan, pc, call>>
    BY <1>2 DEF BeginWebhook
  <2>2. /\ Created' = Created
        /\ \A st : Said(st)' <=> Said(st)
        /\ \A s : Live(s)' <=> Live(s)
    BY <2>1, SaidStays DEF dodoVars
  <2>3. Typed'
    <3>1. new.event = m /\ new.last \in Times /\ m \in outbox
      BY DEF IInv, Typed, TypeOK
    <3>2. TypeOK'
      BY <2>1, <3>1 DEF IInv, Typed, TypeOK, dodoVars
    <3>3. EventTypes'
      BY <2>1, <3>1 DEF IInv, Typed, EventTypes, dodoVars
    <3>4. CallTypes'
      BY <2>1 DEF IInv, Typed, CallTypes
    <3>5. QED
      BY <3>2, <3>3, <3>4 DEF Typed
  <2>4. NewestExists' /\ NoCalls' /\ NoSecondCheckout' /\ CheckoutSees'
    BY <2>1, <2>2 DEF IInv, NewestExists, NoCalls, NoSecondCheckout, CheckoutSees, dodoVars
  <2>5. AllSaid' /\ Past'
    BY <2>1, <2>2 DEF IInv, AllSaid, Past, dodoVars
  <2>6. Serial'
    <3>1. SUFFICES ASSUME ~world.overlap PROVE Serial'
      BY <2>1 DEF Serial, dodoVars
    <3>2. MayOpen
      BY <1>2 DEF BeginWebhook
    <3>3. open = {} /\ \A c \in Callers : pc'[c] # "writing"
      BY <2>1, <3>1, <3>2 DEF MayOpen
    <3>4. open' = {new} /\ row' = row /\ new.last = row.last
      BY <2>1, <3>3
    <3>5. QED
      BY <3>3, <3>4 DEF Serial
  <2>7. LastWord'
    BY <2>1, <2>2 DEF IInv, LastWord, IsNewest, dodoVars
  <2>8. QED
    BY <2>3, <2>4, <2>5, <2>6, <2>7 DEF IInv
<1>3. ASSUME NEW t \in open, AbortWebhook(t)
      PROVE  IInv'
  <2>1. open' = open \ {t} /\ UNCHANGED <<dodoVars, seen, row, plan, pc, call>>
    BY <1>3 DEF AbortWebhook
  <2>2. /\ Created' = Created
        /\ \A st : Said(st)' <=> Said(st)
        /\ \A s : Live(s)' <=> Live(s)
    BY <2>1, SaidStays DEF dodoVars
  <2>3. Typed'
    BY <2>1 DEF IInv, Typed, TypeOK, CallTypes, EventTypes, dodoVars
  <2>4. NewestExists' /\ NoCalls' /\ NoSecondCheckout' /\ CheckoutSees'
    BY <2>1, <2>2 DEF IInv, NewestExists, NoCalls, NoSecondCheckout, CheckoutSees, dodoVars
  <2>5. AllSaid' /\ Past' /\ Serial'
    BY <2>1, <2>2 DEF IInv, AllSaid, Past, Serial, dodoVars
  <2>6. LastWord'
    BY <2>1, <2>2 DEF IInv, LastWord, IsNewest, dodoVars
  <2>7. QED
    BY <2>3, <2>4, <2>5, <2>6 DEF IInv
<1>4. QED
  BY <1>1, <1>2, <1>3

-----------------------------------------------------------------------------
(* The reconciling requests.                                                *)

\* Among the subscriptions there are, one is best.
LEMMA BestIsCreated ==
    ASSUME NewestExists, Created # {}
    PROVE  BestCandidate \in Created
<1> DEFINE Better(s, o) ==
               Priority(s) > Priority(o) \/ (Priority(s) = Priority(o) /\ s > o)
           Best(s) == \A o \in Created \ {s} : Better(s, o)
           OfRank(n) == {s \in Created : Priority(s) = n}
<1>1. Created \subseteq Nat
  BY IdsAssumption DEF Created
<1>2. \A s : Priority(s) \in {0, 2, 3}
  BY DEF Priority
<1>3. ASSUME NEW n \in {0, 2, 3}, OfRank(n) # {}, \A s \in Created : Priority(s) <= n
      PROVE  \E s \in Created : Best(s)
  <2>1. PICK s \in OfRank(n) : \A o \in OfRank(n) : o <= s
    BY <1>3 DEF NewestExists
  <2>2. \A o \in Created \ {s} : Better(s, o)
    BY <1>1, <1>2, <1>3, <2>1
  <2>3. QED
    BY <2>1, <2>2
<1>4. \E s \in Created : Best(s)
  <2>1. CASE OfRank(3) # {}
    BY <1>2, <1>3, <2>1
  <2>2. CASE OfRank(3) = {} /\ OfRank(2) # {}
    <3>1. \A s \in Created : Priority(s) <= 2
      BY <1>2, <2>2
    <3>2. QED
      BY <1>3, <2>2, <3>1
  <2>3. CASE OfRank(3) = {} /\ OfRank(2) = {}
    <3>1. \A s \in Created : Priority(s) = 0
      BY <1>2, <2>3
    <3>2. QED
      BY <1>3, <3>1
  <2>4. QED
    BY <2>1, <2>2, <2>3
<1>5. QED
  BY <1>4 DEF BestCandidate

\* What the requests leave alone as long as they write nothing.
LEMMA ReadersKeep ==
    ASSUME IInv, UNCHANGED <<dodoVars, seen, row, plan, open>>,
           CallTypes', pc' \in [Callers -> {"idle", "asking", "answered", "writing",
                                            "deciding", "creating"}],
           ~world.calls => pc' = pc,
           \A c \in Callers :
              /\ pc'[c] = "asking" => call'[c].known \in Created \cup {NoSub}
              /\ pc'[c] \in {"answered", "writing"} => Said(call'[c].state),
           Past', CheckoutSees', Serial', NoSecondCheckout'
    PROVE  IInv'
<1>1. /\ Created' = Created
      /\ \A st : Said(st)' <=> Said(st)
  BY SaidStays DEF dodoVars
<1>2. Typed'
  BY DEF IInv, Typed, TypeOK, EventTypes, dodoVars
<1>3. NewestExists' /\ AllSaid' /\ NoCalls'
  BY <1>1 DEF IInv, NewestExists, AllSaid, NoCalls, dodoVars
<1>4. LastWord'
  BY <1>1 DEF IInv, LastWord, IsNewest, dodoVars
<1>5. QED
  BY <1>2, <1>3, <1>4 DEF IInv

Pcs == {"idle", "asking", "answered", "writing", "deciding", "creating"}

LEMMA StartKeeps ==
    ASSUME IInv, NEW c \in Callers, Start(c)
    PROVE  IInv'
<1> USE TimeAssumption, IdsAssumption
<1>1. PICK kind \in CallKinds :
        call' = [call EXCEPT ![c] = [kind |-> kind, known |-> row.sub, live |-> {}]]
  BY DEF Start, CallKinds
<1>2. /\ world.calls /\ pc' = [pc EXCEPT ![c] = "asking"]
      /\ UNCHANGED <<dodoVars, seen, row, plan, open>>
  BY DEF Start
<1>3. [kind |-> kind, known |-> row.sub, live |-> {}] \in Asked
  BY DEF Asked, IInv, Typed, TypeOK
<1>4. pc \in [Callers -> Pcs] /\ pc' \in [Callers -> Pcs]
  BY <1>2 DEF IInv, Typed, TypeOK, Pcs
<1>5. /\ call'[c].known = row.sub /\ call'[c].live = {} /\ pc'[c] = "asking"
      /\ \A d \in Callers \ {c} : call'[d] = call[d] /\ pc'[d] = pc[d]
      /\ call'[c] \in Asked
  BY <1>1, <1>2, <1>3, <1>4 DEF IInv, Typed, CallTypes
<1>6. CallTypes'
  BY <1>1, <1>2, <1>3, <1>4, <1>5 DEF IInv, Typed, CallTypes
<1>7. \A d \in Callers :
        /\ pc'[d] = "asking" => call'[d].known \in Created \cup {NoSub}
        /\ pc'[d] \in {"answered", "writing"} => Said(call'[d].state)
  BY <1>5 DEF IInv, AllSaid, Said
<1>8. Past' /\ CheckoutSees' /\ NoSecondCheckout'
  <2>1. Created' = Created /\ \A s : Live(s)' <=> Live(s)
    BY <1>2, SaidStays DEF dodoVars
  <2>2. QED
    BY <1>2, <1>5, <2>1 DEF IInv, Past, CheckoutSees, NoSecondCheckout, dodoVars
<1>9. Serial'
  BY <1>2, <1>5 DEF IInv, Serial, dodoVars
<1>10. QED
  BY <1>2, <1>4, <1>6, <1>7, <1>8, <1>9, ReadersKeep DEF Pcs

LEMMA AnswerKeeps ==
    ASSUME IInv, NEW c \in Callers, Answer(c) \/ Outage(c)
    PROVE  IInv'
<1> USE TimeAssumption, IdsAssumption
<1> DEFINE s == Target(call[c].known)
           live == {o \in SubIds : Live(o)}
           answer == [kind |-> call[c].kind, live |-> live,
                      state |-> StateOf(s, provider[s], 0)]
<1>1. /\ pc[c] = "asking" /\ call[c] \in Asked /\ call[c].live = {}
      /\ call[c].known \in Created \cup {NoSub}
      /\ UNCHANGED <<dodoVars, seen, row, plan, open>>
      /\ ~world.calls => FALSE
  BY DEF Answer, Outage, IInv, Typed, CallTypes, CheckoutSees, AllSaid, NoCalls
<1>2. Created' = Created /\ \A o : Live(o)' <=> Live(o)
  BY <1>1, SaidStays DEF dodoVars
<1>3. pc \in [Callers -> Pcs]
  BY DEF IInv, Typed, TypeOK, Pcs
<1>4. CASE \/ s = NoSub /\ pc' = [pc EXCEPT ![c] = AfterReconcile(c)] /\ UNCHANGED call
           \/ Outage(c)
  <2>1. /\ pc' = [pc EXCEPT ![c] = AfterReconcile(c)] /\ call' = call
        /\ AfterReconcile(c) \in {"deciding", "idle"}
    BY <1>4 DEF Outage, AfterReconcile
  <2>2. /\ pc' \in [Callers -> Pcs] /\ pc'[c] \in {"deciding", "idle"}
        /\ \A d \in Callers \ {c} : pc'[d] = pc[d]
    BY <1>3, <2>1 DEF Pcs
  <2>3. CallTypes'
    BY <1>1, <2>1, <2>2 DEF IInv, Typed, CallTypes
  <2>4. Past' /\ CheckoutSees' /\ NoSecondCheckout'
    BY <1>1, <1>2, <2>1, <2>2 DEF IInv, Past, CheckoutSees, NoSecondCheckout, dodoVars
  <2>5. Serial'
    BY <1>1, <2>1, <2>2 DEF IInv, Serial, dodoVars
  <2>6. \A d \in Callers :
          /\ pc'[d] = "asking" => call'[d].known \in Created \cup {NoSub}
          /\ pc'[d] \in {"answered", "writing"} => Said(call'[d].state)
    BY <2>1, <2>2 DEF IInv, AllSaid
  <2>7. QED
    BY <1>1, <2>2, <2>3, <2>4, <2>5, <2>6, ReadersKeep DEF Pcs
<1>5. CASE /\ s # NoSub /\ pc' = [pc EXCEPT ![c] = "answered"]
           /\ call' = [call EXCEPT ![c] = answer]
  <2>1. s \in Created
    BY <1>1, <1>5, BestIsCreated DEF Target, BestCandidate, IInv
  <2>2. /\ answer.state \in States /\ answer \in Answered /\ Said(answer.state)
        /\ answer.live \subseteq Created
    <3>1. provider[s] \in Subscriptions /\ s \in SubIds
      BY <2>1 DEF IInv, Typed, TypeOK, Subscriptions, Created
    <3>2. answer.state \in States
      BY <3>1 DEF StateOf, States, Subscriptions, Times
    <3>3. answer \in Answered
      BY <1>1, <3>2 DEF Answered, Asked
    <3>4. /\ answer.state.sub = s /\ answer.state.status = provider[s].status
          /\ answer.state.end = provider[s].end
      BY DEF StateOf
    <3>5. provider[s].end \in Nat
      BY <3>1 DEF Subscriptions, Times
    <3>6. Said(answer.state)
      <4>1. provider[s].status # "none" /\ provider[s].end # NoEnd
        BY <2>1 DEF IInv, AllSaid, Created
      <4>2. ASSUME NEW st, NEW o, o \in Created, st.sub = o, st.status = provider[o].status,
                   st.end = provider[o].end, st.end \in Nat, st.status # "none", st.end # NoEnd
            PROVE  Said(st)
        BY <4>2 DEF Said
      <4>3. QED
        BY <2>1, <3>4, <3>5, <4>1, <4>2
    <3>7. answer.live \subseteq Created
      BY DEF Live, Created
    <3>8. QED
      BY <3>2, <3>3, <3>6, <3>7
  <2> HIDE DEF answer
  <2>3. /\ pc' \in [Callers -> Pcs] /\ pc'[c] = "answered" /\ call'[c] = answer
        /\ \A d \in Callers \ {c} : pc'[d] = pc[d] /\ call'[d] = call[d]
    BY <1>3, <1>5 DEF Pcs, IInv, Typed, CallTypes
  <2>4. CallTypes'
    BY <1>1, <1>5, <2>2, <2>3 DEF IInv, Typed, CallTypes
  <2>5. Past' /\ CheckoutSees' /\ NoSecondCheckout'
    BY <1>1, <1>2, <2>2, <2>3 DEF IInv, Past, CheckoutSees, NoSecondCheckout, dodoVars
  <2>6. Serial'
    BY <1>1, <2>3 DEF IInv, Serial, dodoVars
  <2>7. \A d \in Callers :
          /\ pc'[d] = "asking" => call'[d].known \in Created \cup {NoSub}
          /\ pc'[d] \in {"answered", "writing"} => Said(call'[d].state)
    BY <2>2, <2>3 DEF IInv, AllSaid
  <2>8. QED
    BY <1>1, <2>3, <2>4, <2>5, <2>6, <2>7, ReadersKeep DEF Pcs
<1>6. QED
  BY <1>4, <1>5 DEF Answer

LEMMA ReceiveKeeps ==
    ASSUME IInv, NEW c \in Callers, Receive(c)
    PROVE  IInv'
<1> USE TimeAssumption, IdsAssumption
<1> DEFINE write == [kind |-> call[c].kind, live |-> call[c].live,
                     state |-> [call[c].state EXCEPT !.at = now], last |-> row.last]
<1>1. /\ pc[c] = "answered" /\ call[c] \in Answered /\ MayOpen
      /\ pc' = [pc EXCEPT ![c] = "writing"] /\ call' = [call EXCEPT ![c] = write]
      /\ UNCHANGED <<dodoVars, seen, row, plan, open>>
  BY DEF Receive, IInv, Typed, CallTypes
<1>2. Created' = Created /\ \A o : Live(o)' <=> Live(o)
  BY <1>1, SaidStays DEF dodoVars
<1>3. pc \in [Callers -> Pcs] /\ now \in Times /\ row.last \in Times /\ row.last <= now
  BY WorldTypes DEF IInv, Typed, TypeOK, Pcs, Times, Past
<1>4. /\ write.state \in States /\ write.live = call[c].live /\ write.last = row.last
      /\ write.state.at = now /\ write.state.sub = call[c].state.sub
      /\ write.state.status = call[c].state.status /\ write.state.end = call[c].state.end
  BY <1>1, <1>3 DEF Answered, States
<1>5. write \in Writing
  BY <1>1, <1>3, <1>4 DEF Answered, Writing
<1>6. Said(write.state)
  BY <1>1, <1>4 DEF IInv, AllSaid, Said
<1> HIDE DEF write
<1>7. /\ pc' \in [Callers -> Pcs] /\ pc'[c] = "writing" /\ call'[c] = write
      /\ \A d \in Callers \ {c} : pc'[d] = pc[d] /\ call'[d] = call[d]
  BY <1>1, <1>3 DEF Pcs, IInv, Typed, CallTypes
<1>8. CallTypes'
  BY <1>1, <1>5, <1>7 DEF IInv, Typed, CallTypes
<1>9. Past'
  BY <1>1, <1>3, <1>4, <1>7 DEF IInv, Past, dodoVars, Times
<1>10. CheckoutSees' /\ NoSecondCheckout'
  BY <1>1, <1>2, <1>4, <1>7 DEF IInv, CheckoutSees, NoSecondCheckout
<1>11. Serial'
  BY <1>1, <1>4, <1>7 DEF IInv, Serial, MayOpen, dodoVars
<1>12. \A d \in Callers :
        /\ pc'[d] = "asking" => call'[d].known \in Created \cup {NoSub}
        /\ pc'[d] \in {"answered", "writing"} => Said(call'[d].state)
  BY <1>6, <1>7 DEF IInv, AllSaid
<1>13. QED
  BY <1>1, <1>7, <1>8, <1>9, <1>10, <1>11, <1>12, ReadersKeep DEF Pcs, IInv, NoCalls

LEMMA WriteKeeps ==
    ASSUME IInv, NEW c \in Callers, Write(c)
    PROVE  IInv'
<1> USE TimeAssumption, IdsAssumption
<1> DEFINE state == call[c].state
           last == call[c].last
<1>1. /\ pc[c] = "writing" /\ call[c] \in Writing /\ state \in States /\ last \in Times
      /\ Said(state) /\ last <= state.at /\ state.at <= now
      /\ pc' = [pc EXCEPT ![c] = AfterReconcile(c)]
      /\ UNCHANGED <<dodoVars, seen, open, call>>
      /\ Apply(state, last)
  BY DEF Write, IInv, Typed, CallTypes, Writing, AllSaid, Past
<1>2. /\ row' \in [status : Statuses, sub : SubIds \cup {NoSub}, end : Times,
                   cancel : BOOLEAN, last : Times]
      /\ plan' \in BOOLEAN
      /\ IF row'.sub = NoSub THEN row'.status = "none" ELSE Said(row)'
      /\ row.sub # NoSub => row'.sub # NoSub
      /\ row'.sub = state.sub /\ row'.last = state.at
  BY <1>1, ApplyKeeps DEF IInv, dodoVars
<1>3. /\ Created' = Created
      /\ \A st : Said(st)' <=> Said(st)
      /\ \A o : Live(o)' <=> Live(o)
  BY <1>1, SaidStays DEF dodoVars
<1>4. /\ pc' \in [Callers -> Pcs] /\ pc'[c] \in {"deciding", "idle"}
      /\ \A d \in Callers \ {c} : pc'[d] = pc[d]
  BY <1>1 DEF IInv, Typed, TypeOK, Pcs, AfterReconcile
<1>5. Typed'
  <2>1. TypeOK'
    BY <1>1, <1>2, <1>4 DEF IInv, Typed, TypeOK, dodoVars, Pcs
  <2>2. CallTypes' /\ EventTypes'
    BY <1>1, <1>4 DEF IInv, Typed, CallTypes, EventTypes, dodoVars
  <2>3. QED
    BY <2>1, <2>2 DEF Typed
<1>6. NewestExists' /\ NoSecondCheckout'
  BY <1>1, <1>3, <1>4 DEF IInv, NewestExists, NoSecondCheckout
<1>7. AllSaid'
  BY <1>1, <1>2, <1>3, <1>4 DEF IInv, AllSaid, dodoVars
<1>8. Past'
  BY <1>1, <1>2, <1>4 DEF IInv, Past, dodoVars
<1>9. CheckoutSees'
  <2>1. row'.sub # NoSub
    BY <1>1, <1>2 DEF Said, Created
  <2>2. QED
    BY <1>1, <1>3, <1>4, <2>1 DEF IInv, CheckoutSees
<1>10. Serial'
  <2>1. SUFFICES ASSUME ~world.overlap PROVE Serial'
    BY <1>1 DEF Serial, dodoVars
  <2>2. open' = {} /\ \A d \in Callers : pc'[d] # "writing"
    BY <1>1, <1>4, <2>1 DEF IInv, Serial
  <2>3. QED
    BY <2>2 DEF Serial
<1>11. NoCalls' /\ LastWord'
  <2>1. world.calls /\ world' = world
    BY <1>1 DEF IInv, NoCalls, dodoVars
  <2>2. QED
    BY <2>1 DEF NoCalls, LastWord
<1>12. QED
  BY <1>5, <1>6, <1>7, <1>8, <1>9, <1>10, <1>11 DEF IInv

\* The checkout looks at the record its reconciliation has left, or at a later one: one
\* that names a subscription that lives blocks it.
LEMMA DecideKeeps ==
    ASSUME IInv, NEW c \in Callers, Decide(c)
    PROVE  IInv'
<1>1. /\ pc[c] = "deciding" /\ call[c] \in Asked \cup Writing
      /\ pc' = [pc EXCEPT ![c] = IF BlocksCheckout THEN "idle" ELSE "creating"]
      /\ UNCHANGED <<dodoVars, seen, row, plan, open, call>>
  BY DEF Decide, IInv, Typed, CallTypes
<1>2. /\ pc' \in [Callers -> Pcs] /\ pc'[c] \in {"idle", "creating"}
      /\ \A d \in Callers \ {c} : pc'[d] = pc[d]
  BY <1>1 DEF IInv, Typed, TypeOK, Pcs
<1>3. Created' = Created /\ \A o : Live(o)' <=> Live(o)
  BY <1>1, SaidStays DEF dodoVars
<1>4. CallTypes'
  BY <1>1, <1>2 DEF IInv, Typed, CallTypes
<1>5. Past' /\ CheckoutSees' /\ Serial'
  BY <1>1, <1>2, <1>3 DEF IInv, Past, CheckoutSees, Serial, dodoVars
<1>6. NoSecondCheckout'
  <2>1. ASSUME NEW s \in call[c].live, Live(s), Created = {s}, pc'[c] = "creating"
        PROVE  FALSE
    <3>1. row.sub # NoSub
      BY <1>1, <2>1 DEF IInv, CheckoutSees
    <3>2. row.sub = s /\ Said(row)
      BY <2>1, <3>1 DEF IInv, AllSaid, Said
    <3>3. row.status \in Statuses \ {"none", "active", "on_hold"}
      BY <1>1, <2>1, <3>2 DEF BlocksCheckout, Said, IInv, Typed, TypeOK
    <3>4. provider[s].status = "cancelled"
      BY <3>2, <3>3 DEF Statuses, Said
    <3>5. QED
      BY <2>1, <3>4 DEF Live
  <2>2. QED
    BY <1>1, <1>2, <1>3, <2>1 DEF IInv, NoSecondCheckout
<1>7. \A d \in Callers :
        /\ pc'[d] = "asking" => call'[d].known \in Created \cup {NoSub}
        /\ pc'[d] \in {"answered", "writing"} => Said(call'[d].state)
  BY <1>1, <1>2 DEF IInv, AllSaid
<1>8. QED
  BY <1>1, <1>2, <1>4, <1>5, <1>6, <1>7, ReadersKeep DEF Pcs, IInv, NoCalls

LEMMA CreateSessionKeeps ==
    ASSUME IInv, NEW c \in Callers, CreateSession(c)
    PROVE  IInv'
<1>1. /\ pc[c] = "creating" /\ pc' = [pc EXCEPT ![c] = "idle"]
      /\ sessions < MaxSessions /\ sessions' = sessions + 1
      /\ UNCHANGED <<world, now, provider, outbox, nextId, lost, seen, row, plan, open, call>>
  BY DEF CreateSession
<1>2. /\ pc' \in [Callers -> Pcs] /\ pc'[c] = "idle"
      /\ \A d \in Callers \ {c} : pc'[d] = pc[d]
  BY <1>1 DEF IInv, Typed, TypeOK, Pcs
<1>3. /\ Created' = Created
      /\ \A st : Said(st)' <=> Said(st)
      /\ \A o : Live(o)' <=> Live(o)
  BY <1>1, SaidStays
<1>4. Typed'
  <2>1. sessions' \in 0..MaxSessions
    BY <1>1, TimeAssumption DEF IInv, Typed, TypeOK
  <2>2. TypeOK'
    BY <1>1, <1>2, <2>1 DEF IInv, Typed, TypeOK, Pcs
  <2>3. CallTypes' /\ EventTypes'
    BY <1>1, <1>2 DEF IInv, Typed, CallTypes, EventTypes
  <2>4. QED
    BY <2>2, <2>3 DEF Typed
<1>5. NewestExists' /\ AllSaid' /\ Past' /\ CheckoutSees'
  BY <1>1, <1>2, <1>3 DEF IInv, NewestExists, AllSaid, Past, CheckoutSees
<1>6. Serial' /\ NoCalls' /\ NoSecondCheckout'
  BY <1>1, <1>2, <1>3 DEF IInv, Serial, NoCalls, NoSecondCheckout
<1>7. LastWord'
  BY <1>1, <1>3 DEF IInv, LastWord, IsNewest
<1>8. QED
  BY <1>4, <1>5, <1>6, <1>7 DEF IInv

-----------------------------------------------------------------------------
(* The results.                                                             *)

LEMMA TickKeeps ==
    ASSUME IInv, Tick
    PROVE  IInv'
<1>1. /\ now < world.until /\ now' = now + 1 /\ now \in Nat \ {0} /\ world.until \in Nat
      /\ UNCHANGED <<world, provider, outbox, nextId, lost, seen, row, plan, open, pc, call,
                     sessions>>
  BY WorldTypes, TimeAssumption DEF Tick, IInv, Typed, TypeOK
<1>2. /\ Created' = Created
      /\ \A st : Said(st)' <=> Said(st)
      /\ \A o : Live(o)' <=> Live(o)
  BY <1>1, SaidStays
<1>3. Typed'
  BY <1>1 DEF IInv, Typed, TypeOK, CallTypes, EventTypes
<1>4. NewestExists' /\ AllSaid' /\ CheckoutSees'
  BY <1>1, <1>2 DEF IInv, NewestExists, AllSaid, CheckoutSees
<1>5. Past'
  BY <1>1, TimeAssumption
     DEF IInv, Past, Typed, TypeOK, CallTypes, Writing, States, Times
<1>6. Serial' /\ NoCalls' /\ NoSecondCheckout'
  BY <1>1, <1>2 DEF IInv, Serial, NoCalls, NoSecondCheckout
<1>7. LastWord'
  <2>1. row.last < now => row.last < now'
    BY <1>1, TimeAssumption DEF IInv, Typed, TypeOK, Times
  <2>2. QED
    BY <1>1, <1>2, <2>1 DEF IInv, LastWord, IsNewest
<1>8. QED
  BY <1>3, <1>4, <1>5, <1>6, <1>7 DEF IInv

LEMMA BillingStep == IInv /\ [Next]_vars => IInv'
<1> SUFFICES ASSUME IInv, [Next]_vars PROVE IInv'
    OBVIOUS
<1>1. CASE \E s \in SubIds : Pay(s) \/ ScheduleCancel(s) \/ PeriodEnds(s)
  BY <1>1, DodoKeeps
<1>2. CASE Tick
  BY <1>2, TickKeeps
<1>3. CASE \E m \in outbox : LoseWebhook(m) \/ BeginWebhook(m)
  BY <1>3, DeliveryKeeps
<1>4. CASE \E t \in open : CommitWebhook(t) \/ AbortWebhook(t)
  BY <1>4, CommitKeeps, DeliveryKeeps
<1>5. CASE \E c \in Callers : Reconciling(c)
  BY <1>5, StartKeeps, AnswerKeeps, ReceiveKeeps, WriteKeeps, DecideKeeps, CreateSessionKeeps
     DEF Reconciling
<1>6. CASE UNCHANGED vars
  <2>1. /\ Created' = Created
        /\ \A st : Said(st)' <=> Said(st)
        /\ \A o : Live(o)' <=> Live(o)
    BY <1>6, SaidStays DEF vars
  <2>2. Typed' /\ NewestExists' /\ AllSaid' /\ Past'
    BY <1>6, <2>1 DEF vars, IInv, Typed, TypeOK, CallTypes, EventTypes, NewestExists,
                      AllSaid, Past
  <2>3. CheckoutSees' /\ Serial' /\ LastWord' /\ NoCalls' /\ NoSecondCheckout'
    BY <1>6, <2>1 DEF vars, IInv, CheckoutSees, Serial, LastWord, IsNewest, NoCalls,
                      NoSecondCheckout
  <2>4. QED
    BY <2>2, <2>3 DEF IInv
<1>7. QED
  BY <1>1, <1>2, <1>3, <1>4, <1>5, <1>6 DEF Next

\* The whole of it holds in every state.
THEOREM BillingInvariant == Spec => []IInv
<1>1. QED
  BY BillingBegins, BillingStep, PTL DEF Spec

\* Every variable keeps its type: events carry states that Dodo can be in, and no
\* instant lies past the clock's bound.
THEOREM BillingIsTyped == Spec => []TypeOK
<1>1. IInv => TypeOK
  BY DEF IInv, Typed
<1>2. QED
  BY <1>1, BillingInvariant, PTL

\* Whatever order the webhooks arrive in, once they all have the record says what Dodo
\* says of the subscription it names.  The invariant follows the last word Dodo has
\* spoken (LastWord): it is on record, or still on its way and newer than the record.
THEOREM RecordCatchesUp == Spec => []QuietRecordIsTrue
<1>1. IInv => QuietRecordIsTrue
  BY DEF IInv, LastWord, IsNewest, QuietRecordIsTrue
<1>2. QED
  BY <1>1, BillingInvariant, PTL

\* Access ends with the grace of what was paid for, whatever is lost, late or
\* overlapping: every row and every state on its way names a period no longer than
\* the one Dodo has for that subscription now.
THEOREM AccessExpires == Spec => []AccessIsPaidFor
<1>1. IInv => AccessIsPaidFor
  <2> SUFFICES ASSUME IInv, ~world.payments, Entitled
               PROVE  \E s \in Created : now < provider[s].end + Grace
      BY DEF AccessIsPaidFor
  <2>1. row.status # "none" /\ (row.end # NoEnd => now < row.end + Grace)
    BY TimeAssumption, WorldTypes
       DEF Entitled, ProNow, IInv, Typed, TypeOK, Times, NoEnd
  <2>2. Said(row)
    BY <2>1 DEF IInv, AllSaid
  <2>3. /\ row.sub \in Created /\ row.end <= provider[row.sub].end
        /\ now < row.end + Grace
    BY <2>1, <2>2 DEF Said
  <2>4. row.end \in Nat /\ provider[row.sub].end \in Nat /\ now \in Nat
    BY <2>3, TimeAssumption, WorldTypes DEF IInv, Typed, TypeOK, Times, Created
  <2>5. QED
    BY <2>3, <2>4, TimeAssumption
<1>2. QED
  BY <1>1, BillingInvariant, PTL

\* A checkout that reached Dodo while the account's subscription lived makes no second
\* one: the snapshot it wrote, or a later record, still names it.
THEOREM CheckoutSellsOnce == Spec => []NoSecondCheckout
<1>1. IInv => NoSecondCheckout
  BY DEF IInv
<1>2. QED
  BY <1>1, BillingInvariant, PTL

\* Of transactions that do not overlap, none takes the record back to an older event
\* than the one it holds.
THEOREM NoEventGoesBack == Spec => SerialEventsMonotone
<1>1. IInv /\ [Next]_vars => [~world.overlap => row'.last >= row.last]_row
  <2> SUFFICES ASSUME IInv, [Next]_vars, ~world.overlap, row' # row
               PROVE  row'.last >= row.last
      OBVIOUS
  <2>1. ASSUME NEW state \in States, Apply(state, row.last)
        PROVE  row'.last >= row.last
    <3>1. row.last \in Nat /\ state.at \in Nat
      BY TimeAssumption DEF IInv, Typed, TypeOK, States, Times
    <3>2. CASE row.last > state.at
      BY <2>1, <3>2 DEF Apply, IsStale
    <3>3. CASE ~(row.last > state.at)
      <4>1. row' = [status |-> state.status, sub |-> state.sub,
                    end |-> MergeEnd(state.end), cancel |-> state.cancel, last |-> state.at]
        BY <2>1, <3>3, Zenon DEF Apply, IsStale
      <4>2. QED
        BY <3>1, <3>3, <4>1
    <3>4. QED
      BY <3>2, <3>3
  <2>2. ASSUME NEW t \in open, CommitWebhook(t)
        PROVE  row'.last >= row.last
    <3>1. t.event.state \in States /\ t.last = row.last
      BY DEF IInv, Typed, TypeOK, Serial
    <3>2. QED
      BY <2>1, <2>2, <3>1 DEF CommitWebhook
  <2>3. ASSUME NEW c \in Callers, Write(c)
        PROVE  row'.last >= row.last
    <3>1. call[c].state \in States /\ call[c].last = row.last
      BY <2>3 DEF Write, IInv, Typed, CallTypes, Writing, Serial
    <3>2. QED
      BY <2>1, <2>3, <3>1 DEF Write
  <2>4. (\E t \in open : CommitWebhook(t)) \/ (\E c \in Callers : Write(c))
    BY DEF Next, Pay, ScheduleCancel, PeriodEnds, Changes, Tick, LoseWebhook, BeginWebhook,
           AbortWebhook, Reconciling, Start, Answer, Outage, Receive, Decide, CreateSession,
           dodoVars, vars
  <2>5. QED
    BY <2>2, <2>3, <2>4
<1>2. QED
  BY <1>1, BillingInvariant, PTL DEF Spec, SerialEventsMonotone
================================================================================

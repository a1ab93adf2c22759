------------------------------- MODULE Billing -------------------------------
(***************************************************************************)
(* The subscription record of one account: how Dodo's webhooks and the     *)
(* backend's own reconciliations write it, and what checkout reads of it.  *)
(*                                                                         *)
(*   server/src/billing/service.ts   isProNow, applyDodoState, the webhook *)
(*                                   transaction                           *)
(*   server/src/billing/webhook.ts   which state an event carries          *)
(*   server/src/billing/routes.ts    reconcile, checkout, sync, portal     *)
(*                                                                         *)
(* Dodo is external: it keeps the subscriptions, emits an event at each    *)
(* change, and delivers an event any number of times, in any order, late,  *)
(* or (its retries exhausted) never.  Transactions run at READ COMMITTED:  *)
(* the SELECT of last_event_at takes no lock, so another transaction may   *)
(* commit between it and the upsert.                                       *)
(***************************************************************************)
EXTENDS Naturals, FiniteSets

CONSTANTS SubIds,          \* subscriptions Dodo may create, in this order
          NoSub,           \* no subscription
          Callers,         \* concurrent requests that reconcile
          Period, Grace,   \* the billing period; RENEWAL_GRACE_MS
          MaxTime,         \* bound on every clock
          MaxSessions,     \* bound on unpaid checkout sessions
          Worlds           \* what the surroundings may do, one of them per run

(* until: where the clock stops.  lost: how many webhooks may never arrive.  *)
(* overlap: two transactions may be open at once.  payments: the first       *)
(* payment also emits payment.succeeded, which names no period.  outages: a  *)
(* call to Dodo may fail.  calls: the Callers run.  subs: how many           *)
(* subscriptions there will be.                                              *)
ASSUME IdsAssumption  == SubIds \subseteq Nat \ {0} /\ NoSub = 0
ASSUME TimeAssumption == /\ Period \in Nat \ {0} /\ Grace \in Nat /\ MaxTime \in Nat \ {0}
                         /\ MaxSessions \in Nat
ASSUME WorldsAssumption ==
    Worlds \subseteq [until : 1..MaxTime, lost : Nat, overlap : BOOLEAN, payments : BOOLEAN,
                      outages : BOOLEAN, calls : BOOLEAN, subs : Nat]

VARIABLES world,      \* the surroundings of this run
          now,        \* the clock
          provider,   \* Dodo's subscriptions
          outbox,     \* events Dodo still tries to deliver
          nextId,     \* the next webhook-id
          lost,       \* how many events it gave up on
          seen,       \* webhook_event
          row,        \* subscription
          plan,       \* usage_counter.plan = 'pro', the cache
          open,       \* webhook transactions between their SELECT and COMMIT
          pc, call,   \* the reconciling requests
          sessions    \* checkout sessions the user holds and has not paid

vars == <<world, now, provider, outbox, nextId, lost, seen, row, plan, open, pc, call, sessions>>
dodoVars == <<world, now, provider, outbox, nextId, lost, sessions>>

-----------------------------------------------------------------------------
NoEnd == 0   \* current_period_end IS NULL; real ends lie after the first instant

Statuses == {"none", "active", "on_hold", "cancelled"}
Times    == 0..(MaxTime + Period)
States   == [status : Statuses, sub : SubIds \cup {NoSub}, end : Times, cancel : BOOLEAN,
             at : Times]

\* A slip, for the mutation runs: entitlement changes only when an event arrives.
ProNowByStatusAlone(status, end, cancel) == status = "active"

\* isProNow
ProNow(status, end, cancel) ==
    \/ /\ status = "active"
       /\ end = NoEnd \/ now < end + (IF cancel THEN 0 ELSE Grace)
    \/ /\ status = "on_hold"
       /\ end # NoEnd /\ now < end + Grace

Entitled == ProNow(row.status, row.end, row.cancel)

Live(s)  == provider[s].status \in {"active", "on_hold"}
Created  == {s \in SubIds : provider[s].status # "none"}

Init ==
    /\ world \in Worlds
    /\ now      = 1
    /\ provider = [s \in SubIds |-> [status |-> "none", end |-> NoEnd, cancel |-> FALSE]]
    /\ outbox   = {}
    /\ nextId   = 1
    /\ lost     = 0
    /\ seen     = {}
    /\ row      = [status |-> "none", sub |-> NoSub, end |-> NoEnd, cancel |-> FALSE, last |-> 0]
    /\ plan     = FALSE
    /\ open     = {}
    /\ pc       = [c \in Callers |-> "idle"]
    /\ call     = [c \in Callers |-> [kind |-> "none"]]
    /\ sessions \in 0..MaxSessions   \* checkout pages opened before

-----------------------------------------------------------------------------
(* Slips this code could have had, for the mutation runs.                   *)

IsStaleNever(last, at) == FALSE
MergeEndOverwriting(end) == end
BlocksCheckoutUnlessDunning == plan \/ row.status \in {"pending", "active"}

-----------------------------------------------------------------------------
(* applyDodoStateWith.                                                      *)

IsStale(last, at) == last > at

\* COALESCE(EXCLUDED.current_period_end, subscription.current_period_end)
MergeEnd(end) == IF end = NoEnd THEN row.end ELSE end

\* The upsert and the cached plan, which looks at the incoming state alone.
Apply(state, last) ==
    IF IsStale(last, state.at) THEN UNCHANGED <<row, plan>>
    ELSE /\ row' = [status |-> state.status, sub |-> state.sub,
                    end |-> MergeEnd(state.end), cancel |-> state.cancel,
                    last |-> state.at]
         /\ plan' = ProNow(state.status, state.end, FALSE)

MayOpen == world.overlap \/ (open = {} /\ \A c \in Callers : pc[c] # "writing")

-----------------------------------------------------------------------------
(* Dodo.                                                                    *)

StateOf(s, p, t) ==
    [status |-> p.status, sub |-> s, end |-> p.end, cancel |-> p.cancel, at |-> t]

\* Subscription s becomes p, which takes a moment and emits an event; the
\* first payment also emits payment.succeeded, without the period.
Changes(s, p, paid) ==
    /\ now < world.until
    /\ now' = now + 1
    /\ provider' = [provider EXCEPT ![s] = p]
    /\ LET event   == [id |-> nextId, state |-> StateOf(s, p, now)]
           payment == [id |-> nextId + 1, state |-> [StateOf(s, p, now) EXCEPT !.end = NoEnd]]
       IN IF paid /\ world.payments
          THEN outbox' = outbox \cup {event, payment} /\ nextId' = nextId + 2
          ELSE outbox' = outbox \cup {event} /\ nextId' = nextId + 1
    /\ UNCHANGED <<world, lost, seen, row, plan, open, pc, call>>

Pay(s) ==
    /\ sessions > 0 /\ s <= world.subs
    /\ sessions' = sessions - 1
    /\ s \notin Created /\ \A older \in SubIds : older < s => older \in Created
    /\ Changes(s, [status |-> "active", end |-> now + Period, cancel |-> FALSE], TRUE)

ScheduleCancel(s) ==
    /\ provider[s].status = "active" /\ ~provider[s].cancel
    /\ Changes(s, [provider[s] EXCEPT !.cancel = TRUE], FALSE)
    /\ UNCHANGED sessions

\* A period ends in a renewal, in dunning, or in the scheduled cancellation;
\* dunning ends in a late payment or a cancellation.
PeriodEnds(s) ==
    /\ Live(s) /\ now >= provider[s].end
    /\ \/ /\ ~provider[s].cancel
          /\ Changes(s, [status |-> "active", end |-> now + Period, cancel |-> FALSE], FALSE)
       \/ /\ ~provider[s].cancel /\ provider[s].status = "active"
          /\ Changes(s, [provider[s] EXCEPT !.status = "on_hold"], FALSE)
       \/ /\ provider[s].cancel \/ provider[s].status = "on_hold"
          /\ Changes(s, [provider[s] EXCEPT !.status = "cancelled"], FALSE)
    /\ UNCHANGED sessions

Tick ==
    /\ now < world.until
    /\ now' = now + 1
    /\ UNCHANGED <<world, provider, outbox, nextId, lost, seen, row, plan, open, pc, call, sessions>>

\* The retries of an event are exhausted.
LoseWebhook(m) ==
    /\ lost < world.lost
    /\ lost' = lost + 1
    /\ \A t \in open : t.event # m
    /\ outbox' = outbox \ {m}
    /\ UNCHANGED <<world, now, provider, nextId, seen, row, plan, open, pc, call, sessions>>

-----------------------------------------------------------------------------
(* The webhook route.  A delivery whose id is in seen, or is being inserted *)
(* by another transaction, ends as a duplicate and changes nothing.         *)

BeginWebhook(m) ==
    /\ m.id \notin seen /\ \A t \in open : t.event # m
    /\ MayOpen
    /\ open' = open \cup {[event |-> m, last |-> row.last]}
    /\ UNCHANGED <<dodoVars, seen, row, plan, pc, call>>

CommitWebhook(t) ==
    /\ open' = open \ {t}
    /\ seen' = seen \cup {t.event.id}
    /\ outbox' = outbox \ {t.event}
    /\ Apply(t.event.state, t.last)
    /\ UNCHANGED <<world, now, provider, nextId, lost, pc, call, sessions>>

\* A statement fails or the process dies: the id rolls back with the state, and
\* Dodo retries.
AbortWebhook(t) ==
    /\ open' = open \ {t}
    /\ UNCHANGED <<dodoVars, seen, row, plan, pc, call>>

-----------------------------------------------------------------------------
(* reconcileBillingAccount, and the routes that call it.                    *)

Priority(s) == CASE provider[s].status = "active"  -> 3
                 [] provider[s].status = "on_hold" -> 2
                 [] OTHER                          -> 0

\* The first of the customer's subscriptions by status, then by age.
BestCandidate ==
    IF Created = {} THEN NoSub
    ELSE CHOOSE s \in Created :
           \A o \in Created \ {s} : Priority(s) > Priority(o) \/ (Priority(s) = Priority(o) /\ s > o)

\* The subscription on record, if any; only without one are the customer's
\* subscriptions listed.
Target(known) == IF known # NoSub THEN known ELSE BestCandidate

AfterReconcile(c) == IF call[c].kind = "checkout" THEN "deciding" ELSE "idle"

Start(c) ==
    /\ world.calls
    /\ pc[c] = "idle"
    /\ pc' = [pc EXCEPT ![c] = "asking"]
    /\ \E kind \in {"sync", "checkout"} :
         call' = [call EXCEPT ![c] = [kind |-> kind, known |-> row.sub,
                                      live |-> {}]]
    /\ UNCHANGED <<dodoVars, seen, row, plan, open>>

\* Dodo takes its snapshot; the response is still under way.  (live is a
\* history variable: the subscriptions that were live just then.)
Answer(c) ==
    /\ pc[c] = "asking"
    /\ LET s == Target(call[c].known) IN
       IF s = NoSub
       THEN pc' = [pc EXCEPT ![c] = AfterReconcile(c)] /\ UNCHANGED call
       ELSE /\ pc' = [pc EXCEPT ![c] = "answered"]
            /\ call' = [call EXCEPT ![c] = [kind |-> @.kind,
                                            live |-> {o \in SubIds : Live(o)},
                                            state |-> StateOf(s, provider[s], 0)]]
    /\ UNCHANGED <<dodoVars, seen, row, plan, open>>

Outage(c) ==
    /\ world.outages
    /\ pc[c] = "asking"
    /\ pc' = [pc EXCEPT ![c] = AfterReconcile(c)]
    /\ UNCHANGED <<dodoVars, seen, row, plan, open, call>>

\* stateFromDodoSnapshot stamps the snapshot with the time it was received.
Receive(c) ==
    /\ pc[c] = "answered"
    /\ MayOpen
    /\ pc' = [pc EXCEPT ![c] = "writing"]
    /\ call' = [call EXCEPT ![c] = [kind |-> @.kind, live |-> @.live,
                                    state |-> [@.state EXCEPT !.at = now],
                                    last |-> row.last]]
    /\ UNCHANGED <<dodoVars, seen, row, plan, open>>

Write(c) ==
    /\ pc[c] = "writing"
    /\ pc' = [pc EXCEPT ![c] = AfterReconcile(c)]
    /\ Apply(call[c].state, call[c].last)
    /\ UNCHANGED <<dodoVars, seen, open, call>>

BlocksCheckout == plan \/ row.status \in {"pending", "active", "on_hold"}

Decide(c) ==
    /\ pc[c] = "deciding"
    /\ pc' = [pc EXCEPT ![c] = IF BlocksCheckout THEN "idle" ELSE "creating"]
    /\ UNCHANGED <<dodoVars, seen, row, plan, open, call>>

\* The session is created and remembered before its URL reaches the user.
CreateSession(c) ==
    /\ pc[c] = "creating"
    /\ pc' = [pc EXCEPT ![c] = "idle"]
    /\ sessions < MaxSessions
    /\ sessions' = sessions + 1
    /\ UNCHANGED <<world, now, provider, outbox, nextId, lost, seen, row, plan, open, call>>

-----------------------------------------------------------------------------
Reconciling(c) == \/ Start(c) \/ Answer(c) \/ Outage(c) \/ Receive(c) \/ Write(c)
                  \/ Decide(c) \/ CreateSession(c)

Next ==
    \/ \E s \in SubIds : Pay(s) \/ ScheduleCancel(s) \/ PeriodEnds(s)
    \/ Tick
    \/ \E m \in outbox : LoseWebhook(m) \/ BeginWebhook(m)
    \/ \E t \in open : CommitWebhook(t) \/ AbortWebhook(t)
    \/ \E c \in Callers : Reconciling(c)

Spec == Init /\ [][Next]_vars

-----------------------------------------------------------------------------
(* Properties.                                                              *)

TypeOK ==
    /\ world \in Worlds
    /\ now \in 1..world.until
    /\ provider \in [SubIds -> [status : Statuses, end : Times, cancel : BOOLEAN]]
    /\ \A m \in outbox : m.id < nextId /\ m.state \in States
    /\ seen \subseteq 1..(nextId - 1)
    /\ row \in [status : Statuses, sub : SubIds \cup {NoSub}, end : Times,
                cancel : BOOLEAN, last : Times]
    /\ plan \in BOOLEAN
    /\ \A t \in open : t.event \in outbox /\ t.last \in Times
    /\ pc \in [Callers -> {"idle", "asking", "answered", "writing", "deciding", "creating"}]
    /\ sessions \in 0..MaxSessions

\* "A stale event (older than the last applied) must not overwrite newer state"
\* (tests/billing.test.ts:79): last_event_at never goes back.
LastEventMonotone == [][row'.last >= row.last]_row

\* What the code gives of it: the same, of transactions that do not overlap
\* (the SELECT of service.ts:75-77 takes no lock).
SerialEventsMonotone == [][~world.overlap => row'.last >= row.last]_row

\* When every event has arrived, in whatever order and however often, the
\* record says of the subscription it names, one of the account's own, what Dodo
\* says (service.ts:70-100), as long as webhooks alone write it, one transaction
\* at a time.
QuietRecordIsTrue ==
    ~world.overlap /\ ~world.calls /\ outbox = {} /\ lost = 0 /\ Created # {} =>
        /\ row.sub \in Created
        /\ row.status = provider[row.sub].status /\ row.cancel = provider[row.sub].cancel
        /\ row.end = provider[row.sub].end

\* "Access must expire because time passed, not because a message arrived"
\* (service.ts:36): nobody is Pro past the grace of the last period paid for,
\* whatever is lost, late or out of order, where every event names its period.
AccessIsPaidFor ==
    ~world.payments /\ Entitled => \E s \in Created : now < provider[s].end + Grace

\* "a missed webhook cannot let an already-subscribed user buy twice"
\* (routes.ts:146): a checkout that reached Dodo while a subscription was live
\* creates no session as long as that subscription lives and is the account's only
\* one.  (With a second one the record may name the other.)
NoSecondCheckout ==
    \A c \in Callers : pc[c] = "creating" =>
        \A s \in call[c].live : Live(s) => Created # {s}
=============================================================================

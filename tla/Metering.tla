------------------------------ MODULE Metering ------------------------------
(***************************************************************************)
(* The metered tutor turn of the backend, for one account.                 *)
(*                                                                         *)
(*   server/src/usage/service.ts        reserve / refund and the budgets   *)
(*   server/src/plugins/require-credits.ts   the paywall pre-handler       *)
(*   server/src/proxy/llm.ts            the two vision routes              *)
(*   server/src/proxy/stream.ts         how a streamed reply can end       *)
(*   src-tauri/src/tutor.rs             the desktop's buffered fallback    *)
(*                                                                         *)
(* Rows of other accounts are never touched by these statements, so one    *)
(* account is enough.  Every SQL statement is one step (a transaction      *)
(* takes effect at its commit); between two statements any other request,  *)
(* a webhook, the clock or a fault may step.                               *)
(*                                                                         *)
(* A question is put to the streaming route and, when that yields nothing  *)
(* usable, once more to the buffered route.  Each attempt is a request     *)
(* with an ask id of its own, minted by the server with randomUUID(), so   *)
(* the ON CONFLICT branch of reserve cannot be reached from the routes.    *)
(***************************************************************************)
EXTENDS Naturals, FiniteSets

CONSTANTS Questions,     \* what the user asks of the tutor
          Streamed,      \* those whose turn streams (tutor.rs:474)
          FreeLimit,     \* usage_counter.free_limit
          TutorialCap,   \* ONBOARDING_VISION_CAP
          MaxDisturbances \* bound on changes of the subscription row and on
                          \* database failures and crashes, taken together

ASSUME QuestionsAssumption == IsFiniteSet(Questions) /\ Streamed \subseteq Questions
ASSUME BudgetsAssumption   == FreeLimit \in Nat /\ TutorialCap \in Nat
ASSUME BoundAssumption     == MaxDisturbances \in Nat

VARIABLES pc,               \* where each request is in its handler
          snapshot,         \* the subscription a request read in requireCredits
          event,            \* usage_event rows, as committed
          charge,           \* which budget a request's reserve took one unit of
          returned,         \* whether that request's refund decremented a budget
          proAtReserve,     \* the entitlement answer reserve acted on
          proAtRefund,      \* the entitlement answer refund acted on
          reply,            \* what the desktop knows of the request
          usedFree,         \* usage_counter.used_free
          onboardingUsed,   \* usage_counter.onboarding_used
          onboarded,        \* profile.onboarding_completed_at IS NOT NULL
          subscription,     \* what the subscription row entitles to, now
          slotTaken,        \* last_reconcile_at lies inside the cooldown
          rechecks,         \* provider re-checks started since the cooldown ended
          moves, faults     \* bounded counters

requestVars == <<pc, snapshot, charge, returned, proAtReserve, proAtRefund, reply>>
counterVars == <<usedFree, onboardingUsed>>
slotVars    == <<slotTaken, rechecks>>
vars == <<requestVars, event, counterVars, onboarded, subscription, slotVars,
          moves, faults>>

-----------------------------------------------------------------------------
Asks == (Streamed \X {"stream"}) \cup (Questions \X {"buffered"})
IsStreamed(a) == a[2] = "stream"
StreamOf(a)   == <<a[1], "stream">>
BufferedOf(a) == <<a[1], "buffered">>

(* "pro": isProNow holds.  "lapsed": active or on_hold with a period end    *)
(* that has passed (hasLapsedProRecord).  "free": every other record.       *)
Subscriptions == {"free", "pro", "lapsed"}

GateSteps   == {"lapsedCheck", "lapsedRecheck", "reread", "paywall",
                "paywallCheck", "paywallRecheck", "recount", "resubscribed"}
RouteSteps  == {"limits", "budget", "reserveTutorial", "reserve",
                "reserveCommit", "provider"}
RefundSteps == {"refundTutorial", "refundEvent", "refundRead", "refundCredit"}
Live        == GateSteps \cup RouteSteps \cup RefundSteps
Ended       == {"done", "failed"}
\* Steps that await something other than a statement whose failure escapes:
\* recheckWithProvider and consumeDetailed swallow their errors.
NotDatabase == {"lapsedRecheck", "paywallRecheck", "limits", "provider"}

Init ==
    /\ pc             = [a \in Asks |-> "idle"]
    /\ snapshot       = [a \in Asks |-> "none"]
    /\ event          = [a \in Asks |-> "absent"]
    /\ charge         = [a \in Asks |-> "none"]
    /\ returned       = [a \in Asks |-> FALSE]
    /\ proAtReserve   = [a \in Asks |-> "unread"]
    /\ proAtRefund    = [a \in Asks |-> "unread"]
    /\ reply          = [a \in Asks |-> "none"]
    /\ usedFree       = 0
    /\ onboardingUsed = 0
    /\ onboarded \in BOOLEAN
    /\ subscription \in Subscriptions
    /\ slotTaken = FALSE
    /\ rechecks  = 0
    /\ moves     = 0
    /\ faults    = 0

-----------------------------------------------------------------------------
(* Slips this code could have had; the mutation runs put one in the place   *)
(* of the definition it is named after.                                     *)

HasFreeCreditOffByOne      == usedFree <= FreeLimit
GiveBackOneForgotten(n)    == n
RefundOfIgnoringTutorial(a) == "refundEvent"
OwesCreditByCachedPlan     == TRUE

-----------------------------------------------------------------------------
(* Helpers shared by the actions.                                           *)

Goto(a, from, to) == pc[a] = from /\ pc' = [pc EXCEPT ![a] = to]

Entitlement == IF subscription = "pro" THEN "pro" ELSE "metered"

HasFreeCredit   == usedFree < FreeLimit
HasTutorialTurn == onboardingUsed < TutorialCap

\* GREATEST(n - 1, 0)
GiveBackOne(n) == IF n = 0 THEN 0 ELSE n - 1

\* The counter half of isPaywalled.
OverBudget == IF onboarded THEN ~HasFreeCredit ELSE ~HasTutorialTurn

\* The desktop keeps waiting unless it gave up on this request before.
Tell(a, r) == reply' = [reply EXCEPT ![a] = IF @ = "waiting" THEN r ELSE @]

Refuse(a, from) == Goto(a, from, "done") /\ Tell(a, "refused")

\* The bound of the two counters.
Undisturbed == moves + faults < MaxDisturbances

\* The subscription row becomes s: a webhook, a reconcile or the clock.
Becomes(s) ==
    /\ subscription' = s
    /\ IF s = subscription THEN UNCHANGED moves
                           ELSE Undisturbed /\ moves' = moves + 1

-----------------------------------------------------------------------------
(* requireCredits: the pre-handler of both routes.                          *)

\* A turn that streams comes to the buffered route only after a stream that
\* gave it nothing usable, and not when it was refused or dropped.
MayAsk(a) ==
    StreamOf(a) \in Asks \ {a} => reply[StreamOf(a)] \in {"unusable", "error"}

Ask(a) ==
    /\ MayAsk(a)
    /\ Goto(a, "idle", IF subscription = "lapsed" THEN "lapsedCheck" ELSE "paywall")
    /\ snapshot' = [snapshot EXCEPT ![a] = subscription]
    /\ reply' = [reply EXCEPT ![a] = "waiting"]
    /\ UNCHANGED <<event, charge, returned, proAtReserve, proAtRefund,
                   counterVars, onboarded, subscription, slotVars, moves, faults>>

\* claimReconcileSlot: the UPDATE is the lock.
SlotFree == ~slotTaken

ClaimSlot(a, to) ==
    /\ SlotFree
    /\ slotTaken' = TRUE
    /\ rechecks' = rechecks + 1
    /\ pc' = [pc EXCEPT ![a] = to]
    /\ UNCHANGED <<snapshot, event, charge, returned, proAtReserve, proAtRefund,
                   reply, counterVars, onboarded, subscription, moves, faults>>

CheckLapsed(a) ==
    /\ pc[a] = "lapsedCheck"
    /\ \/ ClaimSlot(a, "lapsedRecheck")
       \/ /\ ~SlotFree
          /\ Goto(a, "lapsedCheck", "paywall")
          /\ UNCHANGED <<snapshot, event, charge, returned, proAtReserve,
                         proAtRefund, reply, counterVars, onboarded,
                         subscription, slotVars, moves, faults>>

\* The provider answered and the reconcile wrote what it said, or it failed
\* and the local record stands.
Recheck(a, from, answered, failed) ==
    /\ \/ /\ Goto(a, from, answered)
          /\ \E s \in Subscriptions : Becomes(s)
          /\ UNCHANGED reply
       \/ /\ IF failed = "done" THEN Refuse(a, from)
                              ELSE Goto(a, from, failed) /\ UNCHANGED reply
          /\ UNCHANGED <<subscription, moves>>
    /\ UNCHANGED <<snapshot, event, charge, returned, proAtReserve, proAtRefund,
                   counterVars, onboarded, slotVars, faults>>

RecheckLapsed(a) == Recheck(a, "lapsedRecheck", "reread", "paywall")
RecheckPaywall(a) == Recheck(a, "paywallRecheck", "recount", "done")

RereadSubscription(a) ==
    /\ Goto(a, "reread", "paywall")
    /\ snapshot' = [snapshot EXCEPT ![a] = subscription]
    /\ UNCHANGED <<event, charge, returned, proAtReserve, proAtRefund, reply,
                   counterVars, onboarded, subscription, slotVars, moves, faults>>

\* isPaywalled with the snapshot, whose last use this is: one query of the
\* counters.
CheckPaywall(a) ==
    /\ Goto(a, "paywall",
            IF OverBudget /\ snapshot[a] # "pro" THEN "paywallCheck" ELSE "limits")
    /\ snapshot' = [snapshot EXCEPT ![a] = "none"]
    /\ UNCHANGED <<event, charge, returned, proAtReserve, proAtRefund,
                   reply, counterVars, onboarded, subscription, slotVars, moves,
                   faults>>

CheckBeforeRefusing(a) ==
    /\ pc[a] = "paywallCheck"
    /\ \/ ClaimSlot(a, "paywallRecheck")
       \/ /\ ~SlotFree
          /\ Refuse(a, "paywallCheck")
          /\ UNCHANGED <<snapshot, event, charge, returned, proAtReserve,
                         proAtRefund, counterVars, onboarded, subscription,
                         slotVars, moves, faults>>

\* isPaywalled without a snapshot: the counters, then the subscription.
Recount(a) ==
    /\ Goto(a, "recount", IF OverBudget THEN "resubscribed" ELSE "limits")
    /\ UNCHANGED <<snapshot, event, charge, returned, proAtReserve, proAtRefund,
                   reply, counterVars, onboarded, subscription, slotVars, moves,
                   faults>>

ReadRecovered(a) ==
    /\ IF Entitlement = "pro" THEN Goto(a, "resubscribed", "limits") /\ UNCHANGED reply
                              ELSE Refuse(a, "resubscribed")
    /\ UNCHANGED <<snapshot, event, charge, returned, proAtReserve, proAtRefund,
                   counterVars, onboarded, subscription, slotVars, moves, faults>>

CooldownEnds ==
    /\ slotTaken
    /\ slotTaken' = FALSE
    /\ rechecks' = 0
    /\ UNCHANGED <<requestVars, event, counterVars, onboarded, subscription,
                   moves, faults>>

-----------------------------------------------------------------------------
(* The route handlers.                                                      *)

\* chargeAccount: within both windows, or 429 before anything is reserved.
ChargeAccount(a) ==
    /\ \/ Goto(a, "limits", "budget") /\ UNCHANGED reply
       \/ Goto(a, "limits", "done") /\ Tell(a, "error")
    /\ UNCHANGED <<snapshot, event, charge, returned, proAtReserve, proAtRefund,
                   counterVars, onboarded, subscription, slotVars, moves, faults>>

\* isOnboarding decides the budget; the answer is used after the await.
ChooseBudget(a) ==
    /\ Goto(a, "budget", IF onboarded THEN "reserve" ELSE "reserveTutorial")
    /\ UNCHANGED <<snapshot, event, charge, returned, proAtReserve, proAtRefund,
                   reply, counterVars, onboarded, subscription, slotVars, moves,
                   faults>>

ReserveOnboarding(a) ==
    /\ IF HasTutorialTurn
       THEN /\ Goto(a, "reserveTutorial", "provider")
            /\ onboardingUsed' = onboardingUsed + 1
            /\ charge' = [charge EXCEPT ![a] = "tutorial"]
            /\ UNCHANGED reply
       ELSE Refuse(a, "reserveTutorial") /\ UNCHANGED <<onboardingUsed, charge>>
    /\ UNCHANGED <<snapshot, event, returned, proAtReserve, proAtRefund, usedFree,
                   onboarded, subscription, slotVars, moves, faults>>

\* reserve, first half: the event row (visible at the commit) and the read of
\* the subscription, which runs outside the transaction.
ReadForReserve(a) ==
    /\ Goto(a, "reserve", "reserveCommit")
    /\ proAtReserve' = [proAtReserve EXCEPT ![a] = Entitlement]
    /\ UNCHANGED <<snapshot, event, charge, returned, proAtRefund, reply,
                   counterVars, onboarded, subscription, slotVars, moves, faults>>

SpendsCredit(a) == proAtReserve[a] = "metered"

\* reserve, second half: the conditional UPDATE and the commit.  A refused
\* reserve commits its event row too.
CommitReserve(a) ==
    /\ event' = [event EXCEPT ![a] = "counted"]
    /\ \/ /\ SpendsCredit(a) /\ HasFreeCredit
          /\ Goto(a, "reserveCommit", "provider")
          /\ usedFree' = usedFree + 1
          /\ charge' = [charge EXCEPT ![a] = "credit"]
          /\ UNCHANGED reply
       \/ /\ SpendsCredit(a) /\ ~HasFreeCredit
          /\ Refuse(a, "reserveCommit")
          /\ UNCHANGED <<usedFree, charge>>
       \/ /\ ~SpendsCredit(a)
          /\ Goto(a, "reserveCommit", "provider")
          /\ UNCHANGED <<usedFree, charge, reply>>
    /\ UNCHANGED <<snapshot, returned, proAtReserve, proAtRefund, onboardingUsed,
                   onboarded, subscription, slotVars, moves, faults>>

\* An answer went out.  A stream only ends so if the desktop is still there;
\* the buffered forward runs on without it.  "unusable": bytes arrived, but
\* not an answer (a cut tail, or events without text).
Deliver(a) ==
    /\ IsStreamed(a) => reply[a] = "waiting"
    /\ Goto(a, "provider", "done")
    /\ \E r \in {"answer", "unusable"} : Tell(a, r)
    /\ UNCHANGED <<snapshot, event, charge, returned, proAtReserve, proAtRefund,
                   counterVars, onboarded, subscription, slotVars, moves, faults>>

RefundOf(a) == IF charge[a] = "tutorial" THEN "refundTutorial" ELSE "refundEvent"

\* Nothing was delivered.  The buffered route refunds before it answers; the
\* streamed one has by then sent 502 ("error"), or a body that is empty or
\* stops midway ("unusable"), or, when the connection to the provider threw,
\* nothing at all ("waiting").
FailToDeliver(a) ==
    /\ Goto(a, "provider", RefundOf(a))
    /\ \E r \in IF IsStreamed(a) THEN {"error", "unusable", "waiting"} ELSE {"waiting"} :
           Tell(a, r)
    /\ UNCHANGED <<snapshot, event, charge, returned, proAtReserve, proAtRefund,
                   counterVars, onboarded, subscription, slotVars, moves, faults>>

-----------------------------------------------------------------------------
(* The refunds.                                                             *)

\* After its refund the buffered route rethrows; the streamed one is silent.
TellRefunded(a) == IF IsStreamed(a) THEN UNCHANGED reply ELSE Tell(a, "error")

RefundOnboarding(a) ==
    /\ Goto(a, "refundTutorial", "done")
    /\ onboardingUsed' = GiveBackOne(onboardingUsed)
    /\ returned' = [returned EXCEPT ![a] = TRUE]
    /\ TellRefunded(a)
    /\ UNCHANGED <<snapshot, event, charge, proAtReserve, proAtRefund, usedFree,
                   onboarded, subscription, slotVars, moves, faults>>

\* The early return of refund serves replays of an ask id; here every request
\* refunds at most once, so its row still counts.
UncountEvent(a) ==
    /\ event[a] = "counted"
    /\ Goto(a, "refundEvent", "refundRead")
    /\ event' = [event EXCEPT ![a] = "uncounted"]
    /\ UNCHANGED <<snapshot, charge, returned, proAtReserve, proAtRefund, reply,
                   counterVars, onboarded, subscription, slotVars, moves, faults>>

\* "the same question reserve asked": the subscription, not the cached plan.
OwesCredit == Entitlement = "metered"

ReadForRefund(a) ==
    /\ proAtRefund' = [proAtRefund EXCEPT ![a] = Entitlement]
    /\ IF OwesCredit THEN Goto(a, "refundRead", "refundCredit") /\ UNCHANGED reply
                     ELSE Goto(a, "refundRead", "done") /\ TellRefunded(a)
    /\ UNCHANGED <<snapshot, event, charge, returned, proAtReserve, counterVars,
                   onboarded, subscription, slotVars, moves, faults>>

RefundCredit(a) ==
    /\ Goto(a, "refundCredit", "done")
    /\ usedFree' = GiveBackOne(usedFree)
    /\ returned' = [returned EXCEPT ![a] = TRUE]
    /\ TellRefunded(a)
    /\ UNCHANGED <<snapshot, event, charge, proAtReserve, proAtRefund,
                   onboardingUsed, onboarded, subscription, slotVars, moves, faults>>

-----------------------------------------------------------------------------
(* The environment.                                                         *)

\* The request timeout of the desktop, or a newer ask that drops this one.
GiveUp(a) ==
    /\ reply[a] = "waiting"
    /\ \E r \in {"error", "abandoned"} : Tell(a, r)
    /\ UNCHANGED <<pc, snapshot, event, charge, returned, proAtReserve,
                   proAtRefund, counterVars, onboarded, subscription, slotVars,
                   moves, faults>>

\* saveProfile stamps onboarding_completed_at; nothing unsets it.
CompleteOnboarding ==
    /\ ~onboarded
    /\ onboarded' = TRUE
    /\ UNCHANGED <<requestVars, event, counterVars, subscription, slotVars, moves,
                   faults>>

\* A webhook, a billing sync, or a period that ends.
SubscriptionChanges ==
    /\ \E s \in Subscriptions \ {subscription} : Becomes(s)
    /\ UNCHANGED <<requestVars, event, counterVars, onboarded, slotVars, faults>>

\* The requests in S end where they stand: a statement throws (500), or the
\* process dies and takes every live request with it.  An open transaction is
\* rolled back; what was committed stays.
EndAbruptly(S) ==
    /\ Undisturbed
    /\ faults' = faults + 1
    /\ pc' = [a \in Asks |-> IF a \in S THEN "failed" ELSE pc[a]]
    /\ reply' = [a \in Asks |-> IF a \in S /\ reply[a] = "waiting" THEN "error" ELSE reply[a]]
    /\ UNCHANGED <<snapshot, event, charge, returned, proAtReserve, proAtRefund,
                   counterVars, onboarded, subscription, slotVars, moves>>

StatementFails(a) == pc[a] \in Live \ NotDatabase /\ EndAbruptly({a})

Crash ==
    /\ \E a \in Asks : pc[a] \in Live
    /\ EndAbruptly({a \in Asks : pc[a] \in Live})

-----------------------------------------------------------------------------
\* What the server does by itself once a request has arrived.
Serve(a) ==
    \/ CheckLapsed(a) \/ RecheckLapsed(a) \/ RereadSubscription(a)
    \/ CheckPaywall(a) \/ CheckBeforeRefusing(a) \/ RecheckPaywall(a)
    \/ Recount(a) \/ ReadRecovered(a)
    \/ ChargeAccount(a) \/ ChooseBudget(a) \/ ReserveOnboarding(a)
    \/ ReadForReserve(a) \/ CommitReserve(a)
    \/ Deliver(a) \/ FailToDeliver(a)
    \/ RefundOnboarding(a) \/ UncountEvent(a) \/ ReadForRefund(a) \/ RefundCredit(a)

Next ==
    \/ \E a \in Asks : Ask(a) \/ Serve(a) \/ GiveUp(a) \/ StatementFails(a)
    \/ CooldownEnds \/ CompleteOnboarding \/ SubscriptionChanges \/ Crash

Spec == Init /\ [][Next]_vars

\* The event loop runs every continuation whose statement has returned, every
\* provider call is bounded by a timeout, and so is the desktop's patience.
FairSpec == Spec /\ \A a \in Asks : WF_vars(Serve(a)) /\ WF_vars(GiveUp(a))

-----------------------------------------------------------------------------
(* Properties.                                                              *)

TypeOK ==
    /\ pc \in [Asks -> {"idle"} \cup Live \cup Ended]
    /\ snapshot \in [Asks -> Subscriptions \cup {"none"}]
    /\ event \in [Asks -> {"absent", "counted", "uncounted"}]
    /\ charge \in [Asks -> {"none", "credit", "tutorial"}]
    /\ returned \in [Asks -> BOOLEAN]
    /\ proAtReserve \in [Asks -> {"unread", "pro", "metered"}]
    /\ proAtRefund \in [Asks -> {"unread", "pro", "metered"}]
    /\ reply \in [Asks -> {"none", "waiting", "answer", "unusable", "refused",
                           "error", "abandoned"}]
    /\ usedFree \in Nat /\ onboardingUsed \in Nat
    /\ onboarded \in BOOLEAN
    /\ subscription \in Subscriptions
    /\ slotTaken \in BOOLEAN /\ rechecks \in Nat
    /\ moves \in Nat /\ faults \in Nat /\ moves + faults <= MaxDisturbances

\* The requests that took a unit of budget b and have not had it returned.
Held(b) == {a \in Asks : charge[a] = b /\ ~returned[a]}

\* Some refund asked "is this account Pro?" and heard something else than its
\* reserve had heard.
Drifted ==
    \E a \in Asks : /\ proAtReserve[a] # "unread"
                    /\ proAtRefund[a] # "unread"
                    /\ proAtReserve[a] # proAtRefund[a]

\* The two ceilings of usage_counter hold whatever requests, refunds and
\* faults interleave: "the atomic reserves on the vision route are the real
\* ceilings" (usage/service.ts:109-110).
WithinBudgets == usedFree <= FreeLimit /\ onboardingUsed <= TutorialCap

\* onboarding_used is exactly the number of tutorial turns held: every failed
\* turn was returned once, even those that reserved just before onboarding
\* completed (llm.ts:82-91, service.ts:138-152).
TutorialLedger == onboardingUsed = Cardinality(Held("tutorial"))

\* used_free is exactly the number of credits held, through every interleaving
\* of reserves, refunds, rollbacks and crashes, as long as no refund disagreed
\* with its reserve about the subscription (service.ts:15-36, 155-169).
CreditLedger == ~Drifted => usedFree = Cardinality(Held("credit"))

\* Without such a disagreement a user never hears more metered answers than
\* the free limit, however streams fail and fall back.
FreeAnswersBounded ==
    ~Drifted => Cardinality({a \in Asks : charge[a] = "credit" /\ reply[a] = "answer"})
                    <= FreeLimit

\* Concurrent requests of a paywalled account cost one provider call per
\* cooldown between them (entitlement.ts:16-18).
OneRecheckPerCooldown == rechecks <= 1

\* A turn whose provider call failed ends with its unit returned, unless the
\* subscription moved under it or a statement of the refund failed.
FailedTurnIsReturned ==
    \A a \in Asks :
        pc[a] \in RefundSteps ~>
            \/ charge[a] = "none" \/ returned[a]
            \/ proAtRefund[a] = "pro" \/ pc[a] = "failed"

\* "Refund exactly what `reserve` charged" (service.ts:160).
RefundsExactlyTheCharge ==
    \A a \in Asks :
        pc[a] = "done" /\ event[a] = "uncounted" => (returned[a] <=> charge[a] = "credit")

\* "one metered unit ... it also dedupes an accidental retry" (tutor.rs:372-373):
\* a question costs at most one credit.
OneCreditPerQuestion ==
    \A a \in Held("credit") : IsStreamed(a) => BufferedOf(a) \notin Held("credit")

\* "a client whose stream dies mid-response ... keeps working" (llm.ts:105-107):
\* the fallback is not refused over the credit its own stream is about to
\* give back.
FallbackNotRefused ==
    \A a \in Asks :
        IsStreamed(a) /\ reply[BufferedOf(a)] = "refused" => pc[a] \notin RefundSteps

\* The counters of usage/service.ts implement a CreditAccount: a request takes
\* one credit, at most once, below the limit, and gives back only what it took
\* (reserve 15-36, refund 155-169), up to the first refund that disagrees with
\* its reserve about the subscription.
Credits == INSTANCE CreditAccount
    WITH Limit   <- FreeLimit,
         used    <- usedFree,
         holders <- Held("credit"),
         repaid  <- {a \in Asks : charge[a] = "credit" /\ returned[a]}
ImplementsCreditAccount ==
    Credits!Init /\ [][Drifted' \/ Credits!Next]_(Credits!accountVars)
=============================================================================

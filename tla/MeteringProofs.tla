--------------------------- MODULE MeteringProofs ---------------------------
(***************************************************************************)
(* Theorems about Metering for any number of questions, any budgets and    *)
(* any number of subscription changes and faults.                          *)
(***************************************************************************)
EXTENDS Metering, FiniteSetTheorems, TLAPS

(* The steps before a request has touched a budget.                         *)
Untouched == {"idle", "limits", "budget", "reserveTutorial", "reserve"} \cup GateSteps

(* What a request's own rows and locals say, by the step it has reached.    *)
Fresh(a) == charge[a] = "none" /\ ~returned[a] /\ proAtRefund[a] = "unread"

ReservedBy(a) == \/ charge[a] = "credit" /\ proAtReserve[a] = "metered"
                 \/ charge[a] = "none" /\ proAtReserve[a] = "pro"

StepFacts(a) ==
    /\ pc[a] \in Untouched => Fresh(a) /\ proAtReserve[a] = "unread" /\ event[a] = "absent"
    /\ pc[a] = "reserveCommit" => Fresh(a) /\ proAtReserve[a] # "unread"
    /\ pc[a] = "provider" => /\ ~returned[a] /\ proAtRefund[a] = "unread"
                             /\ charge[a] = "tutorial" \/ ReservedBy(a)
    /\ pc[a] = "refundTutorial" => charge[a] = "tutorial" /\ ~returned[a]
    /\ pc[a] \in {"refundEvent", "refundRead"} =>
           ReservedBy(a) /\ ~returned[a] /\ proAtRefund[a] = "unread"
    /\ pc[a] = "refundCredit" =>
           ReservedBy(a) /\ ~returned[a] /\ proAtRefund[a] = "metered"
    /\ reply[a] = "answer" => pc[a] \in Ended /\ ~returned[a]

AllStepFacts == \A a \in Asks : StepFacts(a)

SlotFacts == rechecks <= 1 /\ (~slotTaken => rechecks = 0)

IInv == /\ TypeOK /\ AllStepFacts /\ SlotFacts
        /\ WithinBudgets /\ TutorialLedger /\ CreditLedger

-----------------------------------------------------------------------------
(* Finite sets.                                                             *)

\* There are finitely many requests, so what is held can be counted.
LEMMA AsksFinite == IsFiniteSet(Asks)
  <1>1. IsFiniteSet(Questions) /\ IsFiniteSet(Streamed)
    BY QuestionsAssumption, FS_Subset
  <1>2. IsFiniteSet({"stream"}) /\ IsFiniteSet({"buffered"})
    BY FS_Singleton
  <1>3. IsFiniteSet(Streamed \X {"stream"}) /\ IsFiniteSet(Questions \X {"buffered"})
    BY <1>1, <1>2, FS_Product
  <1> QED BY <1>3, FS_Union DEF Asks

LEMMA HeldFinite == ASSUME NEW b PROVE IsFiniteSet(Held(b)) /\ Cardinality(Held(b)) \in Nat
  <1>1. Held(b) \in SUBSET Asks
    BY DEF Held
  <1> QED BY <1>1, AsksFinite, FS_Subset, FS_CardinalityType

-----------------------------------------------------------------------------
(* Type correctness.                                                        *)

LEMMA InitType == Init => TypeOK
  <1> SUFFICES ASSUME Init PROVE TypeOK
    OBVIOUS
  <1>1. moves \in Nat /\ faults \in Nat /\ moves + faults <= MaxDisturbances
    BY BoundAssumption DEF Init
  <1>2. pc \in [Asks -> {"idle"} \cup Live \cup Ended]
    BY DEF Init
  <1>3. /\ snapshot \in [Asks -> Subscriptions \cup {"none"}]
        /\ event \in [Asks -> {"absent", "counted", "uncounted"}]
        /\ charge \in [Asks -> {"none", "credit", "tutorial"}]
        /\ returned \in [Asks -> BOOLEAN]
    BY DEF Init
  <1> QED BY <1>1, <1>2, <1>3 DEF Init, TypeOK

LEMMA NextType == TypeOK /\ [Next]_vars => TypeOK'
  <1> SUFFICES ASSUME TypeOK, [Next]_vars PROVE TypeOK'
    OBVIOUS
  <1> USE BoundAssumption DEF TypeOK, Live, Ended, GateSteps, RouteSteps, RefundSteps,
          Subscriptions, Goto, Tell, Refuse, Becomes, Undisturbed
  <1>1. ASSUME NEW a \in Asks, Ask(a) PROVE TypeOK'
    BY <1>1 DEF Ask, counterVars, slotVars
  <1>2. ASSUME NEW a \in Asks, CheckLapsed(a) PROVE TypeOK'
    <2>1. CASE ClaimSlot(a, "lapsedRecheck")
      BY <2>1 DEF ClaimSlot, counterVars
    <2>2. CASE ~ClaimSlot(a, "lapsedRecheck")
      BY <1>2, <2>2 DEF CheckLapsed, counterVars, slotVars
    <2> QED BY <2>1, <2>2
  <1>3. ASSUME NEW a \in Asks, RecheckLapsed(a) PROVE TypeOK'
    BY <1>3 DEF RecheckLapsed, Recheck, counterVars, slotVars
  <1>4. ASSUME NEW a \in Asks, RereadSubscription(a) PROVE TypeOK'
    BY <1>4 DEF RereadSubscription, counterVars, slotVars
  <1>5. ASSUME NEW a \in Asks, CheckPaywall(a) PROVE TypeOK'
    BY <1>5 DEF CheckPaywall, counterVars, slotVars
  <1>6. ASSUME NEW a \in Asks, CheckBeforeRefusing(a) PROVE TypeOK'
    <2>1. CASE ClaimSlot(a, "paywallRecheck")
      BY <2>1 DEF ClaimSlot, counterVars
    <2>2. CASE ~ClaimSlot(a, "paywallRecheck")
      BY <1>6, <2>2 DEF CheckBeforeRefusing, counterVars, slotVars
    <2> QED BY <2>1, <2>2
  <1>7. ASSUME NEW a \in Asks, RecheckPaywall(a) PROVE TypeOK'
    BY <1>7 DEF RecheckPaywall, Recheck, counterVars, slotVars
  <1>8. ASSUME NEW a \in Asks, Recount(a) PROVE TypeOK'
    BY <1>8 DEF Recount, counterVars, slotVars
  <1>9. ASSUME NEW a \in Asks, ReadRecovered(a) PROVE TypeOK'
    BY <1>9 DEF ReadRecovered, counterVars, slotVars
  <1>10. ASSUME NEW a \in Asks, ChargeAccount(a) PROVE TypeOK'
    BY <1>10 DEF ChargeAccount, counterVars, slotVars
  <1>11. ASSUME NEW a \in Asks, ChooseBudget(a) PROVE TypeOK'
    BY <1>11 DEF ChooseBudget, counterVars, slotVars
  <1>12. ASSUME NEW a \in Asks, ReserveOnboarding(a) PROVE TypeOK'
    BY <1>12 DEF ReserveOnboarding, counterVars, slotVars
  <1>13. ASSUME NEW a \in Asks, ReadForReserve(a) PROVE TypeOK'
    BY <1>13 DEF ReadForReserve, Entitlement, counterVars, slotVars
  <1>14. ASSUME NEW a \in Asks, CommitReserve(a) PROVE TypeOK'
    BY <1>14 DEF CommitReserve, counterVars, slotVars
  <1>15. ASSUME NEW a \in Asks, Deliver(a) PROVE TypeOK'
    BY <1>15 DEF Deliver, counterVars, slotVars
  <1>16. ASSUME NEW a \in Asks, FailToDeliver(a) PROVE TypeOK'
    BY <1>16 DEF FailToDeliver, RefundOf, counterVars, slotVars
  <1>17. ASSUME NEW a \in Asks, RefundOnboarding(a) PROVE TypeOK'
    BY <1>17 DEF RefundOnboarding, GiveBackOne, TellRefunded, slotVars
  <1>18. ASSUME NEW a \in Asks, UncountEvent(a) PROVE TypeOK'
    BY <1>18 DEF UncountEvent, counterVars, slotVars
  <1>19. ASSUME NEW a \in Asks, ReadForRefund(a) PROVE TypeOK'
    BY <1>19 DEF ReadForRefund, Entitlement, OwesCredit, TellRefunded, counterVars, slotVars
  <1>20. ASSUME NEW a \in Asks, RefundCredit(a) PROVE TypeOK'
    BY <1>20 DEF RefundCredit, GiveBackOne, TellRefunded, slotVars
  <1>21. ASSUME NEW a \in Asks, GiveUp(a) PROVE TypeOK'
    BY <1>21 DEF GiveUp, counterVars, slotVars
  <1>22. ASSUME NEW S, EndAbruptly(S) PROVE TypeOK'
    BY <1>22 DEF EndAbruptly, counterVars, slotVars
  <1>23. CASE CooldownEnds
    BY <1>23 DEF CooldownEnds, requestVars, counterVars
  <1>24. CASE CompleteOnboarding
    BY <1>24 DEF CompleteOnboarding, requestVars, counterVars, slotVars
  <1>25. CASE SubscriptionChanges
    BY <1>25 DEF SubscriptionChanges, requestVars, counterVars, slotVars
  <1>26. CASE UNCHANGED vars
    BY <1>26 DEF vars, requestVars, counterVars, slotVars
  <1> QED
    BY <1>1, <1>2, <1>3, <1>4, <1>5, <1>6, <1>7, <1>8, <1>9, <1>10, <1>11, <1>12, <1>13,
       <1>14, <1>15, <1>16, <1>17, <1>18, <1>19, <1>20, <1>21, <1>22, <1>23, <1>24, <1>25,
       <1>26
    DEF Next, Serve, StatementFails, Crash

\* Every variable keeps its type, whatever the constants.
THEOREM TypeCorrect == Spec => []TypeOK
  BY InitType, NextType, PTL DEF Spec
-----------------------------------------------------------------------------
(* The step facts: every action moves one request along, and leaves the     *)
(* rows and locals of the others alone.                                     *)

LEMMA NextStepFacts == TypeOK /\ AllStepFacts /\ [Next]_vars => AllStepFacts'
  <1> SUFFICES ASSUME TypeOK, AllStepFacts, [Next]_vars, NEW b \in Asks
               PROVE  StepFacts(b)'
    BY DEF AllStepFacts
  <1>0. StepFacts(b)
    BY DEF AllStepFacts
  <1> USE <1>0 DEF TypeOK, StepFacts, Fresh, ReservedBy, Untouched, GateSteps, Ended, Goto,
          Tell, Refuse
  <1>1. ASSUME NEW a \in Asks, Ask(a) PROVE StepFacts(b)'
    BY <1>1 DEF Ask, counterVars, slotVars
  <1>2. ASSUME NEW a \in Asks, CheckLapsed(a) PROVE StepFacts(b)'
    BY <1>2 DEF CheckLapsed, ClaimSlot, counterVars, slotVars
  <1>3. ASSUME NEW a \in Asks, RecheckLapsed(a) PROVE StepFacts(b)'
    BY <1>3 DEF RecheckLapsed, Recheck, counterVars, slotVars
  <1>4. ASSUME NEW a \in Asks, RereadSubscription(a) PROVE StepFacts(b)'
    BY <1>4 DEF RereadSubscription, counterVars, slotVars
  <1>5. ASSUME NEW a \in Asks, CheckPaywall(a) PROVE StepFacts(b)'
    BY <1>5 DEF CheckPaywall, counterVars, slotVars
  <1>6. ASSUME NEW a \in Asks, CheckBeforeRefusing(a) PROVE StepFacts(b)'
    BY <1>6 DEF CheckBeforeRefusing, ClaimSlot, counterVars, slotVars
  <1>7. ASSUME NEW a \in Asks, RecheckPaywall(a) PROVE StepFacts(b)'
    BY <1>7 DEF RecheckPaywall, Recheck, counterVars, slotVars
  <1>8. ASSUME NEW a \in Asks, Recount(a) PROVE StepFacts(b)'
    BY <1>8 DEF Recount, counterVars, slotVars
  <1>9. ASSUME NEW a \in Asks, ReadRecovered(a) PROVE StepFacts(b)'
    BY <1>9 DEF ReadRecovered, counterVars, slotVars
  <1>10. ASSUME NEW a \in Asks, ChargeAccount(a) PROVE StepFacts(b)'
    BY <1>10 DEF ChargeAccount, counterVars, slotVars
  <1>11. ASSUME NEW a \in Asks, ChooseBudget(a) PROVE StepFacts(b)'
    BY <1>11 DEF ChooseBudget, counterVars, slotVars
  <1>12. ASSUME NEW a \in Asks, ReserveOnboarding(a) PROVE StepFacts(b)'
    BY <1>12 DEF ReserveOnboarding
  <1>13. ASSUME NEW a \in Asks, ReadForReserve(a) PROVE StepFacts(b)'
    BY <1>13 DEF ReadForReserve, Entitlement, counterVars, slotVars
  <1>14. ASSUME NEW a \in Asks, CommitReserve(a) PROVE StepFacts(b)'
    BY <1>14 DEF CommitReserve, SpendsCredit, slotVars
  <1>15. ASSUME NEW a \in Asks, Deliver(a) PROVE StepFacts(b)'
    BY <1>15 DEF Deliver, counterVars, slotVars
  <1>16. ASSUME NEW a \in Asks, FailToDeliver(a) PROVE StepFacts(b)'
    BY <1>16 DEF FailToDeliver, RefundOf, counterVars, slotVars
  <1>17. ASSUME NEW a \in Asks, RefundOnboarding(a) PROVE StepFacts(b)'
    BY <1>17 DEF RefundOnboarding, TellRefunded
  <1>18. ASSUME NEW a \in Asks, UncountEvent(a) PROVE StepFacts(b)'
    BY <1>18 DEF UncountEvent, counterVars, slotVars
  <1>19. ASSUME NEW a \in Asks, ReadForRefund(a) PROVE StepFacts(b)'
    BY <1>19 DEF ReadForRefund, Entitlement, OwesCredit, TellRefunded, counterVars, slotVars
  <1>20. ASSUME NEW a \in Asks, RefundCredit(a) PROVE StepFacts(b)'
    BY <1>20 DEF RefundCredit, TellRefunded
  <1>21. ASSUME NEW a \in Asks, GiveUp(a) PROVE StepFacts(b)'
    BY <1>21 DEF GiveUp, counterVars, slotVars
  <1>22. ASSUME NEW a \in Asks, StatementFails(a) PROVE StepFacts(b)'
    BY <1>22 DEF StatementFails, EndAbruptly, counterVars, slotVars
  <1>23. CASE Crash
    BY <1>23 DEF Crash, EndAbruptly, Live, RouteSteps, RefundSteps, counterVars, slotVars
  <1>24. CASE CooldownEnds
    BY <1>24 DEF CooldownEnds, requestVars, counterVars
  <1>25. CASE CompleteOnboarding
    BY <1>25 DEF CompleteOnboarding, requestVars, counterVars, slotVars
  <1>26. CASE SubscriptionChanges
    BY <1>26 DEF SubscriptionChanges, requestVars, counterVars, slotVars
  <1>27. CASE UNCHANGED vars
    BY <1>27 DEF vars, requestVars, counterVars, slotVars
  <1> QED
    BY <1>1, <1>2, <1>3, <1>4, <1>5, <1>6, <1>7, <1>8, <1>9, <1>10, <1>11,
       <1>12, <1>13, <1>14, <1>15, <1>16, <1>17, <1>18, <1>19, <1>20, <1>21,
       <1>22, <1>23, <1>24, <1>25, <1>26, <1>27
    DEF Next, Serve

-----------------------------------------------------------------------------
(* The ledgers.  Only four actions touch a budget; for the rest it is       *)
(* enough that they leave the columns of the ledger alone.                  *)

ledgerVars == <<charge, returned, usedFree, onboardingUsed>>

Ledgers == WithinBudgets /\ TutorialLedger /\ CreditLedger

\* A disagreement between a reserve and its refund is never undone: the
\* answers they acted on are read once.
LEMMA DriftIsMonotone == TypeOK /\ AllStepFacts /\ [Next]_vars /\ Drifted => Drifted'
  <1> SUFFICES ASSUME TypeOK, AllStepFacts, [Next]_vars,
                      NEW b \in Asks, proAtReserve[b] # "unread",
                      proAtRefund[b] # "unread", proAtReserve[b] # proAtRefund[b]
               PROVE  proAtReserve'[b] = proAtReserve[b] /\ proAtRefund'[b] = proAtRefund[b]
    BY DEF Drifted
  <1>0. StepFacts(b) /\ proAtReserve \in [Asks -> {"unread", "pro", "metered"}]
        /\ proAtRefund \in [Asks -> {"unread", "pro", "metered"}]
    BY DEF AllStepFacts, TypeOK
  <1>1. ASSUME NEW a \in Asks, ReadForReserve(a) PROVE a # b
    BY <1>0, <1>1 DEF ReadForReserve, Goto, StepFacts, Untouched
  <1>2. ASSUME NEW a \in Asks, ReadForRefund(a) PROVE a # b
    BY <1>0, <1>2 DEF ReadForRefund, Goto, StepFacts, TellRefunded, Tell
  <1>3. ASSUME NEW a \in Asks, ReadForReserve(a)
        PROVE  proAtReserve'[b] = proAtReserve[b] /\ proAtRefund'[b] = proAtRefund[b]
    BY <1>0, <1>1, <1>3 DEF ReadForReserve
  <1>4. ASSUME NEW a \in Asks, ReadForRefund(a)
        PROVE  proAtReserve'[b] = proAtReserve[b] /\ proAtRefund'[b] = proAtRefund[b]
    BY <1>0, <1>2, <1>4 DEF ReadForRefund
  <1>5. CASE UNCHANGED <<proAtReserve, proAtRefund>>
    BY <1>5
  <1> QED
    BY <1>3, <1>4, <1>5
    DEF Next, Serve, vars, requestVars, Ask, CheckLapsed, ClaimSlot, RecheckLapsed, Recheck,
        RereadSubscription, CheckPaywall, CheckBeforeRefusing, RecheckPaywall, Recount,
        ReadRecovered, ChargeAccount, ChooseBudget, ReserveOnboarding, CommitReserve,
        Deliver, FailToDeliver, RefundOnboarding, UncountEvent, RefundCredit, GiveUp,
        StatementFails, EndAbruptly, Crash, CooldownEnds, CompleteOnboarding,
        SubscriptionChanges

LEMMA InitLedgers == Init => Ledgers
  <1> SUFFICES ASSUME Init PROVE Ledgers
    OBVIOUS
  <1>1. Held("credit") = {} /\ Held("tutorial") = {}
    BY DEF Init, Held
  <1> QED BY <1>1, FS_EmptySet, BudgetsAssumption
          DEF Init, Ledgers, WithinBudgets, TutorialLedger, CreditLedger

LEMMA NextLedgers ==
  TypeOK /\ AllStepFacts /\ Ledgers /\ [Next]_vars => Ledgers'
  <1> SUFFICES ASSUME TypeOK, AllStepFacts, Ledgers, [Next]_vars PROVE Ledgers'
    OBVIOUS
  <1> USE BudgetsAssumption
  <1>0. /\ charge \in [Asks -> {"none", "credit", "tutorial"}]
        /\ returned \in [Asks -> BOOLEAN]
        /\ usedFree \in Nat /\ onboardingUsed \in Nat
    BY DEF TypeOK
  <1>1. ~Drifted' => ~Drifted
    BY DriftIsMonotone
  <1>2. CASE UNCHANGED ledgerVars
    <2>1. \A k \in {"credit", "tutorial"} : Held(k)' = Held(k)
      BY <1>2 DEF Held, ledgerVars
    <2> QED BY <1>1, <1>2, <2>1
            DEF Ledgers, WithinBudgets, TutorialLedger, CreditLedger, ledgerVars
  <1>3. ASSUME NEW a \in Asks, ReserveOnboarding(a), HasTutorialTurn PROVE Ledgers'
    <2>1. a \notin Held("tutorial") /\ charge[a] # "credit" /\ ~returned[a]
      BY <1>3 DEF ReserveOnboarding, Goto, Refuse, AllStepFacts, StepFacts, Untouched, Fresh, Held
    <2>2. Held("tutorial")' = Held("tutorial") \cup {a} /\ Held("credit")' = Held("credit")
      BY <1>0, <1>3, <2>1 DEF ReserveOnboarding, Held
    <2>3. Cardinality(Held("tutorial")') = Cardinality(Held("tutorial")) + 1
      BY <2>1, <2>2, HeldFinite, FS_AddElement
    <2>4. onboardingUsed' = onboardingUsed + 1 /\ UNCHANGED usedFree
      BY <1>3 DEF ReserveOnboarding
    <2> QED BY <1>0, <1>1, <1>3, <2>2, <2>3, <2>4
            DEF Ledgers, WithinBudgets, TutorialLedger, CreditLedger, HasTutorialTurn
  <1>4. ASSUME NEW a \in Asks, CommitReserve(a), SpendsCredit(a), HasFreeCredit PROVE Ledgers'
    <2>1. a \notin Held("credit") /\ charge[a] # "tutorial" /\ ~returned[a]
      BY <1>4 DEF CommitReserve, Goto, Refuse, AllStepFacts, StepFacts, Fresh, Held
    <2>2. charge' = [charge EXCEPT ![a] = "credit"] /\ usedFree' = usedFree + 1
          /\ UNCHANGED <<returned, onboardingUsed>>
      BY <1>4 DEF CommitReserve
    <2>3. Held("credit")' = Held("credit") \cup {a} /\ Held("tutorial")' = Held("tutorial")
      BY <1>0, <2>1, <2>2 DEF Held
    <2>4. Cardinality(Held("credit")') = Cardinality(Held("credit")) + 1
      BY <2>1, <2>3, HeldFinite, FS_AddElement
    <2> QED BY <1>0, <1>1, <1>4, <2>2, <2>3, <2>4
            DEF Ledgers, WithinBudgets, TutorialLedger, CreditLedger, HasFreeCredit
  <1>5. ASSUME NEW a \in Asks, RefundOnboarding(a) PROVE Ledgers'
    <2>1. a \in Held("tutorial") /\ charge[a] = "tutorial"
      BY <1>5 DEF RefundOnboarding, Goto, AllStepFacts, StepFacts, Held
    <2>2. Held("tutorial")' = Held("tutorial") \ {a} /\ Held("credit")' = Held("credit")
      BY <1>0, <1>5, <2>1 DEF RefundOnboarding, Held
    <2>3. /\ Cardinality(Held("tutorial")') = Cardinality(Held("tutorial")) - 1
          /\ Cardinality(Held("tutorial")) # 0
      BY <2>1, <2>2, HeldFinite, FS_RemoveElement, FS_EmptySet
    <2>4. onboardingUsed' = GiveBackOne(onboardingUsed) /\ UNCHANGED usedFree
      BY <1>5 DEF RefundOnboarding
    <2> QED BY <1>0, <1>1, <2>2, <2>3, <2>4
            DEF Ledgers, WithinBudgets, TutorialLedger, CreditLedger, GiveBackOne
  <1>6. ASSUME NEW a \in Asks, RefundCredit(a) PROVE Ledgers'
    <2>1. ReservedBy(a) /\ ~returned[a] /\ proAtRefund[a] = "metered"
      BY <1>6 DEF RefundCredit, Goto, AllStepFacts, StepFacts
    <2>2. usedFree' = GiveBackOne(usedFree) /\ UNCHANGED <<charge, onboardingUsed>>
          /\ returned' = [returned EXCEPT ![a] = TRUE]
      BY <1>6 DEF RefundCredit
    <2>3. Held("tutorial")' = Held("tutorial")
      BY <1>0, <2>1, <2>2 DEF Held, ReservedBy
    <2>4. CASE charge[a] = "credit"
      <3>1. a \in Held("credit") /\ Held("credit")' = Held("credit") \ {a}
        BY <1>0, <2>1, <2>2, <2>4 DEF Held
      <3>2. /\ Cardinality(Held("credit")') = Cardinality(Held("credit")) - 1
            /\ Cardinality(Held("credit")) # 0
        BY <3>1, HeldFinite, FS_RemoveElement, FS_EmptySet
      <3> QED BY <1>0, <1>1, <2>2, <2>3, <3>2
              DEF Ledgers, WithinBudgets, TutorialLedger, CreditLedger, GiveBackOne
    <2>5. CASE charge[a] # "credit"
      <3>1. Drifted
        BY <2>1, <2>5 DEF ReservedBy, Drifted
      <3> QED BY <1>0, <1>1, <2>2, <2>3, <3>1
              DEF Ledgers, WithinBudgets, TutorialLedger, CreditLedger, GiveBackOne
    <2> QED BY <2>4, <2>5
  <1>7. ASSUME NEW a \in Asks, Ask(a) \/ Serve(a) \/ GiveUp(a) \/ StatementFails(a)
        PROVE  Ledgers'
    BY <1>2, <1>3, <1>4, <1>5, <1>6, <1>7
    DEF Serve, ledgerVars, counterVars, Ask, CheckLapsed, ClaimSlot, RecheckLapsed, Recheck,
        RereadSubscription, CheckPaywall, CheckBeforeRefusing, RecheckPaywall, Recount,
        ReadRecovered, ChargeAccount, ChooseBudget, ReserveOnboarding, ReadForReserve,
        CommitReserve, Deliver, FailToDeliver, UncountEvent, ReadForRefund, GiveUp,
        StatementFails, EndAbruptly
  <1>8. CASE CooldownEnds \/ CompleteOnboarding \/ SubscriptionChanges \/ Crash \/ UNCHANGED vars
    BY <1>2, <1>8
    DEF ledgerVars, vars, counterVars, requestVars, CooldownEnds, CompleteOnboarding,
        SubscriptionChanges, Crash, EndAbruptly
  <1> QED BY <1>7, <1>8 DEF Next

-----------------------------------------------------------------------------
(* The cooldown slot.                                                       *)

LEMMA NextSlotFacts == TypeOK /\ SlotFacts /\ [Next]_vars => SlotFacts'
  <1> SUFFICES ASSUME TypeOK, SlotFacts, [Next]_vars PROVE SlotFacts'
    OBVIOUS
  <1>1. ASSUME NEW a \in Asks, NEW to, ClaimSlot(a, to) PROVE SlotFacts'
    BY <1>1 DEF ClaimSlot, SlotFree, SlotFacts
  <1>2. CASE CooldownEnds
    BY <1>2 DEF CooldownEnds, SlotFacts
  <1>3. CASE UNCHANGED slotVars
    BY <1>3 DEF slotVars, SlotFacts
  <1> QED
    BY <1>1, <1>2, <1>3
    DEF Next, Serve, vars, Ask, CheckLapsed, RecheckLapsed, Recheck,
        RereadSubscription, CheckPaywall, CheckBeforeRefusing, RecheckPaywall, Recount,
        ReadRecovered, ChargeAccount, ChooseBudget, ReserveOnboarding, ReadForReserve,
        CommitReserve, Deliver, FailToDeliver, RefundOnboarding, UncountEvent,
        ReadForRefund, RefundCredit, GiveUp, StatementFails, EndAbruptly, Crash,
        CompleteOnboarding, SubscriptionChanges

-----------------------------------------------------------------------------
(* The theorems.                                                            *)

THEOREM Inductive == Spec => []IInv
  <1>1. Init => IInv
    <2>1. Init => AllStepFacts
      BY DEF Init, AllStepFacts, StepFacts, Fresh, Untouched, Ended
    <2>2. Init => SlotFacts
      BY DEF Init, SlotFacts
    <2> QED BY <2>1, <2>2, InitType, InitLedgers DEF IInv, Ledgers
  <1>2. IInv /\ [Next]_vars => IInv'
    BY NextType, NextStepFacts, NextLedgers, NextSlotFacts DEF IInv, Ledgers
  <1> QED BY <1>1, <1>2, PTL DEF Spec

\* Neither budget is ever exceeded, for any number of concurrent requests,
\* faults and subscription changes (service.ts:29-33, 138-145).
THEOREM BudgetsHold == Spec => []WithinBudgets
  BY Inductive, PTL DEF IInv

\* The tutorial counter counts exactly the tutorial turns held.
THEOREM TutorialLedgerHolds == Spec => []TutorialLedger
  BY Inductive, PTL DEF IInv

\* The free counter counts exactly the credits held, unless some refund heard
\* another answer about the subscription than its reserve did.
THEOREM CreditLedgerHolds == Spec => []CreditLedger
  BY Inductive, PTL DEF IInv

\* An account whose subscription never moved between a reserve and its refund
\* hears at most FreeLimit metered answers.
THEOREM FreeAnswersAreBounded == Spec => []FreeAnswersBounded
  <1>1. IInv => FreeAnswersBounded
    <2> SUFFICES ASSUME IInv, ~Drifted
                 PROVE  Cardinality({a \in Asks : charge[a] = "credit" /\ reply[a] = "answer"})
                            <= FreeLimit
      BY DEF FreeAnswersBounded
    <2> DEFINE Heard == {a \in Asks : charge[a] = "credit" /\ reply[a] = "answer"}
    <2>1. Heard \in SUBSET Held("credit")
      BY DEF IInv, AllStepFacts, StepFacts, Held
    <2>2. Cardinality(Heard) <= Cardinality(Held("credit")) /\ Cardinality(Heard) \in Nat
      BY <2>1, HeldFinite, FS_Subset, FS_CardinalityType
    <2>3. Cardinality(Held("credit")) <= FreeLimit /\ Cardinality(Held("credit")) \in Nat
      BY HeldFinite DEF IInv, CreditLedger, WithinBudgets
    <2> QED BY <2>2, <2>3, BudgetsAssumption
  <1> QED BY <1>1, Inductive, PTL

\* However many paywalled requests race, they make one provider call per
\* cooldown (entitlement.ts:16-32).
THEOREM OneRecheck == Spec => []OneRecheckPerCooldown
  <1>1. IInv => OneRecheckPerCooldown
    BY DEF IInv, SlotFacts, OneRecheckPerCooldown
  <1> QED BY <1>1, Inductive, PTL

-----------------------------------------------------------------------------
(* The refinement.  Two steps move the abstract account: the commit of a    *)
(* reserve takes a credit, the last statement of a refund gives it back.    *)

Repaid == {a \in Asks : charge[a] = "credit" /\ returned[a]}

LEMMA ReserveTakes ==
  ASSUME TypeOK, AllStepFacts, NEW a \in Asks, CommitReserve(a), SpendsCredit(a), HasFreeCredit
  PROVE  Credits!Take(a)
  <1>0. charge \in [Asks -> {"none", "credit", "tutorial"}]
    BY DEF TypeOK
  <1>1. charge[a] = "none" /\ ~returned[a]
    BY DEF CommitReserve, Goto, Refuse, AllStepFacts, StepFacts, Fresh
  <1>2. /\ charge' = [charge EXCEPT ![a] = "credit"]
        /\ usedFree' = usedFree + 1
        /\ UNCHANGED returned
    BY DEF CommitReserve
  <1>3. a \notin Held("credit") \cup Repaid
    BY <1>1 DEF Held, Repaid
  <1>4. Held("credit")' = Held("credit") \cup {a}
    BY <1>0, <1>1, <1>2 DEF Held
  <1>5. Repaid' = Repaid
    BY <1>0, <1>1, <1>2 DEF Repaid
  <1> QED BY <1>2, <1>3, <1>4, <1>5 DEF Credits!Take, HasFreeCredit, Repaid

LEMMA RefundGivesBack ==
  ASSUME IInv, NEW a \in Asks, RefundCredit(a), ~Drifted
  PROVE  Credits!GiveBack(a)
  <1>0. /\ charge \in [Asks -> {"none", "credit", "tutorial"}]
        /\ returned \in [Asks -> BOOLEAN]
        /\ usedFree \in Nat
    BY DEF IInv, TypeOK
  <1>1. ReservedBy(a) /\ ~returned[a] /\ proAtRefund[a] = "metered"
    BY DEF RefundCredit, Goto, IInv, AllStepFacts, StepFacts
  <1>2. charge[a] = "credit"
    BY <1>1 DEF ReservedBy, Drifted
  <1>3. a \in Held("credit")
    BY <1>1, <1>2 DEF Held
  <1>4. usedFree # 0
    BY <1>3, HeldFinite, FS_EmptySet DEF IInv, CreditLedger
  <1>5. /\ usedFree' = usedFree - 1
        /\ returned' = [returned EXCEPT ![a] = TRUE]
        /\ UNCHANGED charge
    BY <1>0, <1>4 DEF RefundCredit, GiveBackOne
  <1>6. Held("credit")' = Held("credit") \ {a}
    BY <1>0, <1>5 DEF Held
  <1>7. Repaid' = Repaid \cup {a}
    BY <1>0, <1>2, <1>5 DEF Repaid
  <1> QED BY <1>3, <1>5, <1>6, <1>7 DEF Credits!GiveBack, Repaid

accountColumns == <<charge, returned, usedFree>>

\* Every step of the handlers is a step of the abstract account or leaves it
\* alone, or a refund has disagreed with its reserve.
LEMMA NextImplements ==
  IInv /\ [Next]_vars => [Drifted' \/ Credits!Next]_(Credits!accountVars)
  <1> SUFFICES ASSUME IInv, [Next]_vars
               PROVE  \/ Drifted' \/ Credits!Next
                      \/ UNCHANGED <<usedFree, Held("credit"), Repaid>>
    BY DEF Credits!accountVars, Repaid
  <1>0. TypeOK /\ AllStepFacts
    BY DEF IInv
  <1>1. Drifted => Drifted'
    BY <1>0, DriftIsMonotone
  <1>2. CASE UNCHANGED accountColumns
    BY <1>2 DEF accountColumns, Held, Repaid
  <1>3. ASSUME NEW a \in Asks, ReserveOnboarding(a), HasTutorialTurn
        PROVE  UNCHANGED <<usedFree, Held("credit"), Repaid>>
    <2>1. charge[a] = "none"
      BY <1>0, <1>3 DEF ReserveOnboarding, Goto, Refuse, AllStepFacts, StepFacts, Untouched, Fresh
    <2>2. charge' = [charge EXCEPT ![a] = "tutorial"] /\ UNCHANGED <<usedFree, returned>>
      BY <1>3 DEF ReserveOnboarding
    <2> QED BY <1>0, <2>1, <2>2 DEF TypeOK, Held, Repaid
  <1>4. ASSUME NEW a \in Asks, CommitReserve(a), SpendsCredit(a), HasFreeCredit
        PROVE  Credits!Next
    BY <1>0, <1>4, ReserveTakes DEF Credits!Next
  <1>5. ASSUME NEW a \in Asks, RefundOnboarding(a)
        PROVE  UNCHANGED <<usedFree, Held("credit"), Repaid>>
    <2>1. charge[a] = "tutorial"
      BY <1>0, <1>5 DEF RefundOnboarding, Goto, AllStepFacts, StepFacts
    <2>2. returned' = [returned EXCEPT ![a] = TRUE] /\ UNCHANGED <<usedFree, charge>>
      BY <1>5 DEF RefundOnboarding
    <2> QED BY <1>0, <2>1, <2>2 DEF TypeOK, Held, Repaid
  <1>6. ASSUME NEW a \in Asks, RefundCredit(a) PROVE Drifted' \/ Credits!Next
    BY <1>1, <1>6, RefundGivesBack DEF Credits!Next
  <1>7. ASSUME NEW a \in Asks, Ask(a) \/ Serve(a) \/ GiveUp(a) \/ StatementFails(a)
        PROVE  \/ Drifted' \/ Credits!Next
               \/ UNCHANGED <<usedFree, Held("credit"), Repaid>>
    BY <1>2, <1>3, <1>4, <1>5, <1>6, <1>7
    DEF Serve, accountColumns, counterVars, Ask, CheckLapsed, ClaimSlot, RecheckLapsed,
        Recheck, RereadSubscription, CheckPaywall, CheckBeforeRefusing, RecheckPaywall,
        Recount, ReadRecovered, ChargeAccount, ChooseBudget, ReserveOnboarding,
        ReadForReserve, CommitReserve, Deliver, FailToDeliver, UncountEvent,
        ReadForRefund, GiveUp, StatementFails, EndAbruptly
  <1>8. CASE CooldownEnds \/ CompleteOnboarding \/ SubscriptionChanges \/ Crash \/ UNCHANGED vars
    BY <1>2, <1>8
    DEF accountColumns, vars, counterVars, requestVars, CooldownEnds, CompleteOnboarding,
        SubscriptionChanges, Crash, EndAbruptly
  <1> QED BY <1>7, <1>8 DEF Next

\* For any number of questions, budgets, faults and subscription changes the
\* handlers of usage/service.ts implement the abstract account until a refund
\* hears another answer about the subscription than its reserve did.
THEOREM AccountImplemented == Spec => ImplementsCreditAccount
  <1>1. Init => Credits!Init
    BY DEF Init, Credits!Init, Held
  <1> QED BY <1>1, NextImplements, Inductive, PTL DEF Spec, ImplementsCreditAccount

=============================================================================

---------------------------- MODULE CreditAccount ----------------------------
(***************************************************************************)
(* What the metered routes promise of one account's free credits, with no  *)
(* word on requests, statements or subscriptions: an ask takes one credit  *)
(* while some are left, at most once, and may give that one credit back.   *)
(***************************************************************************)
EXTENDS Naturals

CONSTANTS Asks, Limit

VARIABLES used,     \* credits spent
          holders,  \* the asks that hold one
          repaid    \* the asks that gave theirs back

accountVars == <<used, holders, repaid>>

Init == used = 0 /\ holders = {} /\ repaid = {}

Take(a) ==
    /\ a \notin holders \cup repaid
    /\ used < Limit
    /\ used' = used + 1
    /\ holders' = holders \cup {a}
    /\ UNCHANGED repaid

GiveBack(a) ==
    /\ a \in holders
    /\ used' = used - 1
    /\ holders' = holders \ {a}
    /\ repaid' = repaid \cup {a}

Next == \E a \in Asks : Take(a) \/ GiveBack(a)

Spec == Init /\ [][Next]_accountVars
=============================================================================

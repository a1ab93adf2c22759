------------------------------ MODULE MCBilling ------------------------------
(* Billing on small instances: the surroundings one run goes through.       *)
EXTENDS Billing

CONSTANT c1

\* Webhooks alone, in any order and repeated, one transaction at a time.
InAnyOrder == [until |-> 7, lost |-> 0, overlap |-> FALSE, payments |-> TRUE,
               outages |-> FALSE, calls |-> FALSE, subs |-> 2]
\* Overlapping transactions, a lost webhook, reconciliation and outages.
Adverse == [until |-> 5, lost |-> 1, overlap |-> TRUE, payments |-> FALSE,
            outages |-> TRUE, calls |-> TRUE, subs |-> 1]
\* A checkout after a lost webhook.
Checkout == [until |-> 5, lost |-> 1, overlap |-> FALSE, payments |-> TRUE,
             outages |-> FALSE, calls |-> TRUE, subs |-> 1]
\* A second subscription beside the first.
Twice == [Adverse EXCEPT !.until = 4, !.subs = 2]

\* Overlapping transactions and nothing else.
Racing == [InAnyOrder EXCEPT !.until = 6, !.overlap = TRUE, !.subs = 1]

AllWorlds   == {InAnyOrder, Adverse, Checkout, Twice}
RacingAlone == {Racing}
=============================================================================

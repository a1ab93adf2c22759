----------------------------- MODULE MCMetering -----------------------------
(* Metering on small instances.                                             *)
EXTENDS Metering

CONSTANTS q1, q2

\* The behaviours of the run: the second question is asked only while the first
\* has not come to its fallback, and then nothing disturbs the two.
\* Asking and disturbing carry no fairness, so this only leaves behaviours out.
SecondAsked == reply[<<q2, "buffered">>] # "none"
RacesByTwo ==
    SecondAsked => reply[<<q1, "buffered">>] = "none" /\ moves + faults = 0
=============================================================================

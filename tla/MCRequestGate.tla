---------------------------- MODULE MCRequestGate ----------------------------
(* RequestGate on small instances: every request has each statement once.    *)
EXTENDS RequestGate

CONSTANTS q1, q2

MCReserves == {q1, q2}
MCReaders  == MCReserves \X {"keys", "burst", "daily", "sweep"}
=============================================================================

---------------------------- MODULE MCReservePool ----------------------------
(* ReservePool on small instances.                                          *)
EXTENDS ReservePool
=============================================================================

---------------------------- MODULE MCNotchTurns ----------------------------
(* NotchTurns on small instances.                                           *)
EXTENDS NotchTurns
=============================================================================

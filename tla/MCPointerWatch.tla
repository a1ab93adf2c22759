--------------------------- MODULE MCPointerWatch ---------------------------
(* PointerWatch on small instances.                                         *)
EXTENDS PointerWatch
=============================================================================

------------------------------- MODULE MCSpeech -------------------------------
(* Speech on small instances.                                               *)
EXTENDS Speech
===============================================================================

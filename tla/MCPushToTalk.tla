---------------------------- MODULE MCPushToTalk ----------------------------
(* PushToTalk on small instances.                                           *)
EXTENDS PushToTalk
=============================================================================

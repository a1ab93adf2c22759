----------------------------- MODULE MCSession -----------------------------
(* Session on small instances.  The users are interchangeable.             *)
EXTENDS Session, TLC

UserSymmetry == Permutations(Users)
=============================================================================

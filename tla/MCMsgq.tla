------------------------------- MODULE MCMsgq -------------------------------
(***************************************************************************)
(* Instances of the queue for TLC.  Publishers and subscribers are model   *)
(* values; where all subscribers are alike they are symmetric.             *)
(***************************************************************************)
EXTENDS MsgqProperties, TLC

CONSTANTS p1, p2, s1, s2

Sym == Permutations(Subscribers)
=============================================================================

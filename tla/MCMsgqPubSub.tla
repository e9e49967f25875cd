---------------------------- MODULE MCMsgqPubSub ----------------------------
(***************************************************************************)
(* Instances of the queue with its history for TLC.                        *)
(***************************************************************************)
EXTENDS MsgqPubSub

CONSTANTS p1, p2, s1, s2
=============================================================================

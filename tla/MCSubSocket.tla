---------------------------- MODULE MCSubSocket ----------------------------
(***************************************************************************)
(* Instances of the socket on the queue for TLC.  A timeout of two ticks   *)
(* is the shortest that a signal can cut in two.                           *)
(***************************************************************************)
EXTENDS SubSocket

CONSTANTS p1, p2, s1, s2

SomeTimeouts == {-1, 2}
=============================================================================

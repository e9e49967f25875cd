------------------------------ MODULE MCWaits ------------------------------
(***************************************************************************)
(* Instances of the wait loops for TLC.  Of two ticks to a millisecond one *)
(* is the fraction that poll_events cuts off; a timeout of two slices is   *)
(* the shortest that macOS sleeps piecewise; an interval of three ticks    *)
(* does not end at the deadline.                                           *)
(***************************************************************************)
EXTENDS Waits

CONSTANTS a, b

AllKinds     == {"linux", "macos", "events", "readers"}
SomeTimeouts == {-1, 0, 2}
=============================================================================

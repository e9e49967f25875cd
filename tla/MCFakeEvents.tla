---------------------------- MODULE MCFakeEvents ----------------------------
(***************************************************************************)
(* Instances of the test and the daemon for TLC.                           *)
(***************************************************************************)
EXTENDS FakeEvents
=============================================================================

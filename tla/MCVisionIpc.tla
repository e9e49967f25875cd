---------------------------- MODULE MCVisionIpc ----------------------------
(***************************************************************************)
(* Instances of the frame server and its clients for TLC: a server that is *)
(* replaced by one with another number of buffers, or that does not serve  *)
(* the stream.                                                             *)
(***************************************************************************)
EXTENDS VisionIpc, TLC

CONSTANTS v1, v2, c1

TwoThenOne   == (v1 :> 2) @@ (v2 :> 1)
ThreeThenOne == (v1 :> 3) @@ (v2 :> 1)
NoneThenOne  == (v1 :> 0) @@ (v2 :> 1)
=============================================================================

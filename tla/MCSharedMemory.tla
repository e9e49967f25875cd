--------------------------- MODULE MCSharedMemory ---------------------------
(***************************************************************************)
(* Instances of the shared memory for TLC: two processes share a segment,  *)
(* one of them with two sockets; a test and a daemon share an EventState;  *)
(* a server passes frames to a client, which may serve frames itself.      *)
(***************************************************************************)
EXTENDS SharedMemory, TLC

CONSTANTS m1, m2

ThreeScenarios == {(m1 :> {"pub", "sub"})    @@ (m2 :> {"sub"}),
                   (m1 :> {"handle", "pub"}) @@ (m2 :> {"fake_sub"}),
                   (m1 :> {"frame"})         @@ (m2 :> {"import", "frame"})}
=============================================================================

----------------------------- MODULE FakeEvents -----------------------------
(***************************************************************************)
(* msgq/event.cc and the fake mode of SubSocket::receive: a test and a     *)
(* daemon that run in lockstep.  The test creates a SocketEventHandle for  *)
(* the endpoint the daemon subscribes to: two fifos, whose paths it writes *)
(* to an EventState in shared memory.  A receive of the daemon sets        *)
(* RECV_CALLED and blocks until the test sets RECV_READY.  The test        *)
(* follows msgq/tests/test_fake.py, test_synced_pub_sub, and the daemon    *)
(* its daemon_repub_process_run, except that the daemon may start at any   *)
(* time and its reply names the message it received; the queues of the two *)
(* endpoints are plain sequences here.                                     *)
(***************************************************************************)
EXTENDS Naturals, Sequences

CONSTANTS
  Rounds,      (* bound of the model: the rounds of the test                *)
  FifoBytes,   (* bound of the model: the bytes a fifo holds                *)
  EarlyStart   (* may the daemon start among the leftovers of a killed test *)

ASSUME RoundsAssumption ==
  Rounds \in Nat /\ FifoBytes \in Nat \ {0} /\ EarlyStart \in BOOLEAN

Purposes == {"called", "ready"}      (* EventPurpose                        *)

(* A fifo is named by who made it: an earlier test that was killed, or     *)
(* this one.  NoPath is the empty path of a zeroed EventState.             *)
Makers == {"killed", "test"}
NoPath == "none"

VARIABLES
  paths, enabled,  (* EventState                                            *)
  linked,          (* the fifos that exist under their path                 *)
  bytes,           (* the bytes in each fifo                                *)
  test,            (* the test: program counter and round                   *)
  daemon,          (* the daemon: program counter, fake_fds, message        *)
  inbox, outbox    (* the queues from and to the test                       *)

evState == <<paths, enabled, linked>>
queues  == <<inbox, outbox>>
evVars  == <<evState, bytes, test, daemon, queues>>

StartTest   == [pc |-> "make_called", round |-> 1]
NewDaemon   == [pc |-> "new", fds |-> [u \in Purposes |-> NoPath], msg |-> 0]

InitQueues ==
  /\ bytes  = [m \in Makers |-> [u \in Purposes |-> 0]]
  /\ test   = StartTest
  /\ daemon = NewDaemon
  /\ inbox  = <<>> /\ outbox = <<>>

(* event_state_shm_mmap created the EventState, whoever came first.        *)
InitFresh ==
  /\ paths   = [u \in Purposes |-> NoPath]
  /\ enabled = FALSE
  /\ linked  = {}
  /\ InitQueues

(* An earlier test was killed before its handle's destructor: its          *)
(* EventState, enabled or not, and its fifos are still there.              *)
InitKilled ==
  /\ paths   = [u \in Purposes |-> "killed"]
  /\ enabled \in BOOLEAN
  /\ linked  = {"killed"} \X Purposes
  /\ InitQueues

-----------------------------------------------------------------------------
(* Event::set writes a byte, or returns if the fifo is full; Event::clear  *)
(* reads until nothing is left.                                            *)
Set(m, u) == bytes' = [bytes EXCEPT ![m][u] = IF bytes[m][u] < FifoBytes
                                                THEN bytes[m][u] + 1 ELSE FifoBytes]
Drain(m, u) == bytes' = [bytes EXCEPT ![m][u] = 0]
Readable(m, u) == bytes[m][u] > 0

TestAt(pc) == test.pc = pc
TestGoto(pc) == test' = [test EXCEPT !.pc = pc]

(* A mutant: a path that is already there is kept.                         *)
MakeFifoKept(u, pc) ==
  /\ linked' = linked \cup {<<"test", u>>}
  /\ paths'  = IF paths[u] = NoPath THEN [paths EXCEPT ![u] = "test"] ELSE paths
  /\ TestGoto(pc)
  /\ UNCHANGED <<enabled, bytes, daemon, queues>>

(* A mutant: the path is not written.                                      *)
MakeFifoNoPath(u, pc) ==
  /\ linked' = linked \cup {<<"test", u>>}
  /\ TestGoto(pc)
  /\ UNCHANGED <<paths, enabled, bytes, daemon, queues>>

(* SocketEventHandle::SocketEventHandle: per purpose, make the fifo and    *)
(* write its path.                                                         *)
MakeFifo(u, pc) ==
  /\ linked' = linked \cup {<<"test", u>>}
  /\ paths'  = [paths EXCEPT ![u] = "test"]
  /\ TestGoto(pc)
  /\ UNCHANGED <<enabled, bytes, daemon, queues>>

MakeCalled == TestAt("make_called") /\ MakeFifo("called", "make_ready")
MakeReady  == TestAt("make_ready") /\ MakeFifo("ready", "disable")

Disable ==
  /\ TestAt("disable")
  /\ enabled' = FALSE
  /\ TestGoto("enable")
  /\ UNCHANGED <<paths, linked, bytes, daemon, queues>>

(* fake_event_handle(enable=True).                                         *)
Enable ==
  /\ TestAt("enable")
  /\ enabled' = TRUE
  /\ TestGoto("first")
  /\ UNCHANGED <<paths, linked, bytes, daemon, queues>>

(* recv_called.wait(), before and after a round.                           *)
WaitCalled ==
  /\ test.pc \in {"first", "second"}
  /\ Readable("test", "called")
  /\ TestGoto(IF test.pc = "first" THEN "clear" ELSE "reply")
  /\ UNCHANGED <<evState, bytes, daemon, queues>>

ClearCalled ==
  /\ TestAt("clear")
  /\ IF Readable("test", "called")
       THEN Drain("test", "called") /\ UNCHANGED test
       ELSE TestGoto("send") /\ UNCHANGED bytes
  /\ UNCHANGED <<evState, daemon, queues>>

SendRound ==
  /\ TestAt("send")
  /\ inbox' = Append(inbox, test.round)
  /\ TestGoto("release")
  /\ UNCHANGED <<evState, bytes, daemon, outbox>>

(* recv_ready.set().                                                       *)
Release ==
  /\ TestAt("release")
  /\ Set("test", "ready")
  /\ TestGoto("second")
  /\ UNCHANGED <<evState, daemon, queues>>

ReadReply ==
  /\ TestAt("reply")
  /\ outbox' = IF outbox = <<>> THEN outbox ELSE Tail(outbox)
  /\ test' = IF test.round < Rounds THEN [pc |-> "first", round |-> test.round + 1]
                                    ELSE [test EXCEPT !.pc = "unlink_called"]
  /\ UNCHANGED <<evState, bytes, daemon, inbox>>

(* ~SocketEventHandle unlinks the fifos; the daemon keeps its descriptors. *)
Unlink(u, pc) ==
  /\ linked' = linked \ {<<paths[u], u>>}
  /\ TestGoto(pc)
  /\ UNCHANGED <<paths, enabled, bytes, daemon, queues>>

DestroyHandle ==
  \/ TestAt("unlink_called") /\ Unlink("called", "unlink_ready")
  \/ TestAt("unlink_ready") /\ Unlink("ready", "done")

-----------------------------------------------------------------------------
DaemonAt(pc) == daemon.pc = pc
DaemonGoto(pc) == daemon' = [daemon EXCEPT !.pc = pc]

(* The test starts the daemon when its handle is complete; a daemon that   *)
(* is started by others may come earlier.                                  *)
HandleComplete == test.pc \notin {"make_called", "make_ready", "disable", "enable"}
StartDaemon ==
  /\ DaemonAt("new")
  /\ HandleComplete \/ EarlyStart \/ \A u \in Purposes : <<"killed", u>> \notin linked
  /\ DaemonGoto("connect_called")
  /\ UNCHANGED <<evState, bytes, test, queues>>

(* SubSocket::receive looks at the state once.                             *)
CheckEnabled ==
  /\ DaemonAt("enabled")
  /\ DaemonGoto(IF enabled THEN "open_called" ELSE "recv")
  /\ UNCHANGED <<evState, bytes, test, queues>>

(* open_fake_fifos, in SubSocket::connect and again in receive: a          *)
(* descriptor that is open stays; if the path is empty or its fifo is      *)
(* gone, it stays invalid.                                                 *)
OpenFifo(u, pc) ==
  /\ daemon' = [daemon EXCEPT !.pc = pc, !.fds[u] =
                  IF daemon.fds[u] = NoPath /\ <<paths[u], u>> \in linked
                    THEN paths[u] ELSE daemon.fds[u]]
  /\ UNCHANGED <<evState, bytes, test, queues>>

ConnectFake ==
  \/ DaemonAt("connect_called") /\ OpenFifo("called", "connect_ready")
  \/ DaemonAt("connect_ready") /\ OpenFifo("ready", "enabled")

OpenFifos ==
  \/ DaemonAt("open_called") /\ OpenFifo("called", "open_ready")
  \/ DaemonAt("open_ready") /\ OpenFifo("ready", "set")

(* Event::set of RECV_CALLED throws if the descriptor is invalid.          *)
SetCalled ==
  /\ DaemonAt("set")
  /\ IF daemon.fds["called"] = NoPath
       THEN DaemonGoto("thrown") /\ UNCHANGED bytes
       ELSE Set(daemon.fds["called"], "called") /\ DaemonGoto("wait")
  /\ UNCHANGED <<evState, test, queues>>

WaitReady ==
  /\ DaemonAt("wait")
  /\ IF daemon.fds["ready"] = NoPath
       THEN DaemonGoto("thrown")
       ELSE Readable(daemon.fds["ready"], "ready") /\ DaemonGoto("clear")
  /\ UNCHANGED <<evState, bytes, test, queues>>

(* A mutant: the event stays set.                                          *)
ClearReadyForgotten ==
  /\ DaemonAt("clear")
  /\ DaemonGoto("recv")
  /\ UNCHANGED <<evState, bytes, test, queues>>

ClearReady ==
  /\ DaemonAt("clear")
  /\ IF Readable(daemon.fds["ready"], "ready")
       THEN Drain(daemon.fds["ready"], "ready") /\ UNCHANGED daemon
       ELSE DaemonGoto("recv") /\ UNCHANGED bytes
  /\ UNCHANGED <<evState, test, queues>>

(* msgq_msg_recv without blocking; None starts the next receive.           *)
DaemonRecv ==
  /\ DaemonAt("recv")
  /\ IF inbox = <<>>
       THEN DaemonGoto("enabled") /\ UNCHANGED inbox
       ELSE /\ daemon' = [daemon EXCEPT !.pc = "repub", !.msg = Head(inbox)]
            /\ inbox'  = Tail(inbox)
  /\ UNCHANGED <<evState, bytes, test, outbox>>

Republish ==
  /\ DaemonAt("repub")
  /\ outbox' = Append(outbox, daemon.msg)
  /\ DaemonGoto("enabled")
  /\ UNCHANGED <<evState, bytes, test, inbox>>

-----------------------------------------------------------------------------
TestNext ==
  \/ MakeCalled \/ MakeReady \/ Disable \/ Enable
  \/ WaitCalled \/ ClearCalled \/ SendRound \/ Release \/ ReadReply
  \/ DestroyHandle

DaemonNext ==
  \/ StartDaemon \/ ConnectFake \/ CheckEnabled \/ OpenFifos \/ SetCalled \/ WaitReady \/ ClearReady
  \/ DaemonRecv \/ Republish

EventNext == TestNext \/ DaemonNext

(* Both threads run: each blocks only in a wait.                           *)
LiveThreads == WF_evVars(TestNext) /\ WF_evVars(DaemonNext)

EventSpec  == (InitFresh \/ InitKilled) /\ [][EventNext]_evVars /\ LiveThreads
KilledSpec == InitKilled /\ [][EventNext]_evVars /\ LiveThreads

-----------------------------------------------------------------------------
(* "deterministic testing" (README.md): when the test reads the reply of a *)
(* round, exactly the reply to the message of that round is there, however *)
(* the two processes are scheduled and whenever the daemon started.        *)
Lockstep == TestAt("reply") => outbox = <<test.round>> /\ inbox = <<>>

(* While the test decides what the daemon may see, the daemon is held in   *)
(* its receive: it takes nothing before the release.                       *)
HeldUntilReleased ==
  test.pc \in {"clear", "send", "release"} =>
    daemon.pc = "wait" /\ ~Readable("test", "ready")

(* The fifos are there whenever a receive finds the fake mode enabled:     *)
(* "Event does not have valid file descriptor." is never thrown.           *)
DescriptorsValid == ~DaemonAt("thrown")

(* Every round ends and the test with it: neither process waits for ever   *)
(* for the other, not even for a fifo that a killed test has left behind.  *)
TestEnds == <>TestAt("done")

(* "the sockets block in receive() until the test releases them" (ipc.cc): *)
(* a receive that the test has released goes on.                           *)
ReleasedGoesOn == TestAt("second") ~> ~TestAt("second")
=============================================================================

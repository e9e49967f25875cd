-------------------------- MODULE FakeEventsProofs --------------------------
(***************************************************************************)
(* The lockstep of test and daemon, for any number of rounds and any size  *)
(* of the fifos, if no daemon starts among the leftovers of a killed test. *)
(***************************************************************************)
EXTENDS FakeEvents, TLAPS

-----------------------------------------------------------------------------
TestPC == {"make_called", "make_ready", "disable", "enable", "first", "clear", "send",
           "release", "second", "reply", "unlink_called", "unlink_ready", "done"}
DaemonPC == {"new", "connect_called", "connect_ready", "enabled", "open_called",
             "open_ready", "set", "wait", "clear", "recv", "repub", "thrown"}

EventTypeOK ==
  /\ paths   \in [Purposes -> Makers \cup {NoPath}]
  /\ enabled \in BOOLEAN
  /\ linked  \subseteq Makers \X Purposes
  /\ bytes   \in [Makers -> [Purposes -> 0 .. FifoBytes]]
  /\ test    \in [pc : TestPC, round : Nat]
  /\ daemon  \in [pc : DaemonPC, fds : [Purposes -> {NoPath, "test"}], msg : Nat]
  /\ inbox   \in Seq(Nat)
  /\ outbox  \in Seq(Nat)

(* How far the handle is: the paths it has written, the fifos that exist.  *)
HandleInv ==
  /\ test.pc # "make_called" => paths["called"] = "test"
  /\ test.pc \notin {"make_called", "make_ready"} => paths["ready"] = "test"
  /\ test.pc \notin {"make_called", "unlink_ready", "done"} => <<"test", "called">> \in linked
  /\ test.pc \notin {"make_called", "make_ready", "done"} => <<"test", "ready">> \in linked
  /\ HandleComplete => enabled

(* A daemon that runs before the handle is complete finds the fake mode    *)
(* disabled, and no fifo of a killed test.                                 *)
NoLeftovers == \A u \in Purposes : <<"killed", u>> \notin linked
EarlyInv ==
  /\ daemon.pc # "new" => HandleComplete \/ NoLeftovers
  /\ NoLeftovers /\ ~HandleComplete => ~enabled
  /\ daemon.pc = "open_ready" => daemon.fds["called"] = "test"
  /\ daemon.pc \in {"set", "wait", "clear"} => \A u \in Purposes : daemon.fds[u] = "test"

(* The daemon is held in its receive.                                      *)
Called  == bytes["test"]["called"]
Ready   == bytes["test"]["ready"]
Blocked == daemon.pc = "wait" /\ Ready = 0
Sent    == inbox = <<test.round>> /\ outbox = <<>>
Taken   == inbox = <<>> /\ outbox = <<>>
Replied == inbox = <<>> /\ outbox = <<test.round>>

(* What the test knows of the daemon at each of its steps.  Between the    *)
(* release and the next receive, the daemon goes once around its loop.     *)
Round ==
  \/ Ready = 0 /\ Called = 0 /\ Sent /\ daemon.pc \in {"clear", "recv"}
  \/ Ready > 0 /\ Called = 0 /\ Sent /\ daemon.pc \in {"wait", "clear"}
  \/ Ready = 0 /\ Called = 0 /\ Taken /\ daemon.pc = "repub" /\ daemon.msg = test.round
  \/ /\ Ready = 0 /\ Called = 0 /\ Replied
     /\ daemon.pc \in {"enabled", "open_called", "open_ready", "set"}
  \/ Called > 0 /\ Replied /\ Blocked

PhaseInv ==
  /\ ~HandleComplete =>
       /\ Ready = 0 /\ Called = 0 /\ Taken
       /\ daemon.pc \in {"new", "connect_called", "connect_ready", "enabled", "recv"}
  /\ test.pc = "first" =>
       /\ Ready = 0 /\ Taken
       /\ \/ Called > 0 /\ Blocked
          \/ Called = 0 /\ daemon.pc \notin {"wait", "clear", "repub", "thrown"}
  /\ test.pc = "clear"   => Blocked /\ Taken
  /\ test.pc = "send"    => Blocked /\ Taken /\ Called = 0
  /\ test.pc = "release" => Blocked /\ Sent /\ Called = 0
  /\ test.pc = "second"  => Round
  /\ test.pc = "reply"   => Blocked /\ Replied /\ Called > 0
  /\ test.pc \in {"unlink_called", "unlink_ready", "done"} => Blocked

(* The inductive invariant.                                                *)
LockstepInv == EventTypeOK /\ HandleInv /\ EarlyInv /\ PhaseInv

-----------------------------------------------------------------------------
(* The steps of the test and of the daemon replace their locals.           *)
LEMMA TestMoves ==
  ASSUME EventTypeOK, NEW pc \in TestPC, TestGoto(pc)
  PROVE  test' \in [pc : TestPC, round : Nat] /\ test'.pc = pc /\ test'.round = test.round
  BY DEF EventTypeOK, TestGoto

(* A step of the daemon to another line keeps its descriptors and its     *)
(* place in the trace.                                                    *)
LEMMA DaemonMoves ==
  ASSUME EventTypeOK, NEW pc \in DaemonPC, DaemonGoto(pc)
  PROVE  /\ daemon' \in [pc : DaemonPC, fds : [Purposes -> {NoPath, "test"}], msg : Nat]
         /\ daemon'.pc = pc /\ daemon'.fds = daemon.fds /\ daemon'.msg = daemon.msg
  BY DEF EventTypeOK, DaemonGoto

(* Event::set leaves the fifo readable, even a full one; Event::clear      *)
(* leaves it empty.                                                        *)
LEMMA SetFacts ==
  ASSUME EventTypeOK, NEW u \in Purposes, Set("test", u)
  PROVE  /\ bytes' \in [Makers -> [Purposes -> 0 .. FifoBytes]]
         /\ bytes'["test"][u] > 0
         /\ \A v \in Purposes : v # u => bytes'["test"][v] = bytes["test"][v]
  <1> DEFINE n == IF bytes["test"][u] < FifoBytes THEN bytes["test"][u] + 1 ELSE FifoBytes
  <1>1. "test" \in Makers /\ bytes \in [Makers -> [Purposes -> 0 .. FifoBytes]]
    BY DEF EventTypeOK, Makers
  <1>2. bytes["test"][u] \in 0 .. FifoBytes
    BY <1>1
  <1>3. n \in 0 .. FifoBytes /\ n > 0
    BY <1>2, RoundsAssumption
  <1>4. bytes' = [bytes EXCEPT !["test"][u] = n]
    BY DEF Set
  <1> HIDE DEF n
  <1> QED
    BY <1>1, <1>3, <1>4

(* Reading a fifo dry changes nothing but that fifo.                      *)
LEMMA DrainFacts ==
  ASSUME EventTypeOK, NEW u \in Purposes, Drain("test", u)
  PROVE  /\ bytes' \in [Makers -> [Purposes -> 0 .. FifoBytes]]
         /\ bytes'["test"][u] = 0
         /\ \A v \in Purposes : v # u => bytes'["test"][v] = bytes["test"][v]
  <1>1. "test" \in Makers /\ bytes \in [Makers -> [Purposes -> 0 .. FifoBytes]]
    BY DEF EventTypeOK, Makers
  <1>2. 0 \in 0 .. FifoBytes
    BY RoundsAssumption
  <1> QED
    BY <1>1, <1>2 DEF Drain

(* The bytes in the two fifos of the test.                                 *)
LEMMA FifoFacts ==
  ASSUME EventTypeOK
  PROVE  /\ Called \in Nat /\ Ready \in Nat
         /\ Readable("test", "called") <=> Called > 0
         /\ Readable("test", "ready") <=> Ready > 0
  BY RoundsAssumption DEF EventTypeOK, Called, Ready, Readable, Makers, Purposes

-----------------------------------------------------------------------------
(* The test makes, enables and removes the handle.                         *)
LEMMA MakeInv ==
  ASSUME LockstepInv, MakeCalled \/ MakeReady \/ Disable \/ Enable
  PROVE  LockstepInv'
  <1>0. EventTypeOK /\ HandleInv /\ EarlyInv /\ PhaseInv
    BY DEF LockstepInv
  <1>1. /\ test.pc \in {"make_called", "make_ready", "disable", "enable"} /\ ~HandleComplete
        /\ UNCHANGED <<bytes, daemon, inbox, outbox>>
    BY DEF MakeCalled, MakeReady, Disable, Enable, MakeFifo, TestAt, HandleComplete, queues
  <1>2. /\ test' \in [pc : TestPC, round : Nat] /\ test'.round = test.round
        /\ test.pc = "make_called" => test'.pc = "make_ready"
        /\ test.pc = "make_ready" => test'.pc = "disable"
        /\ test.pc = "disable" => test'.pc = "enable"
        /\ test.pc = "enable" => test'.pc = "first"
    BY <1>0, TestMoves DEF MakeCalled, MakeReady, Disable, Enable, MakeFifo, TestAt, TestPC
  <1>3. EventTypeOK' /\ HandleInv'
    <2>1. CASE MakeCalled \/ MakeReady
      BY <1>0, <1>1, <1>2, <2>1 DEF EventTypeOK, HandleInv, MakeCalled, MakeReady, MakeFifo, TestAt,
         HandleComplete, Purposes, Makers, NoPath
    <2>2. CASE Disable \/ Enable
      BY <1>0, <1>1, <1>2, <2>2 DEF EventTypeOK, HandleInv, Disable, Enable, TestAt,
         HandleComplete
    <2> QED
      BY <2>1, <2>2
  <1>4. NoLeftovers' <=> NoLeftovers
    BY DEF NoLeftovers, MakeCalled, MakeReady, MakeFifo, Disable, Enable
  <1>5. EarlyInv'
    BY <1>0, <1>1, <1>2, <1>4 DEF EarlyInv, HandleComplete, MakeCalled, MakeReady, MakeFifo,
       Disable, Enable, TestAt
  <1>6. PhaseInv'
    BY <1>0, <1>1, <1>2 DEF PhaseInv, HandleComplete, Called, Ready, Taken, Sent, Replied
  <1> QED
    BY <1>3, <1>5, <1>6 DEF LockstepInv

(* The test destroys its handle: nothing of the daemon is touched.        *)
LEMMA DestroyInv ==
  ASSUME LockstepInv, DestroyHandle
  PROVE  LockstepInv'
  <1>0. EventTypeOK /\ HandleInv /\ EarlyInv /\ PhaseInv
    BY DEF LockstepInv
  <1>1. /\ test.pc \in {"unlink_called", "unlink_ready"} /\ HandleComplete
        /\ UNCHANGED <<paths, enabled, bytes, daemon, inbox, outbox>>
    BY DEF DestroyHandle, Unlink, TestAt, HandleComplete, queues
  <1>2. /\ test' \in [pc : TestPC, round : Nat]
        /\ test.pc = "unlink_called" => test'.pc = "unlink_ready"
        /\ test.pc = "unlink_ready" => test'.pc = "done"
    BY <1>0, TestMoves DEF DestroyHandle, Unlink, TestAt, TestPC
  <1>3. HandleComplete'
    BY <1>1, <1>2 DEF HandleComplete
  <1>4. EventTypeOK' /\ HandleInv'
    BY <1>0, <1>1, <1>2, <1>3 DEF EventTypeOK, HandleInv, DestroyHandle, Unlink, TestAt
  <1>5. EarlyInv'
    BY <1>0, <1>1, <1>3 DEF EarlyInv
  <1>6. PhaseInv'
    BY <1>0, <1>1, <1>2, <1>3 DEF PhaseInv, Blocked, Ready
  <1> QED
    BY <1>4, <1>5, <1>6 DEF LockstepInv

(* The steps of a round.                                                   *)
LEMMA TestInv ==
  ASSUME LockstepInv, WaitCalled \/ ClearCalled \/ SendRound \/ Release \/ ReadReply
  PROVE  LockstepInv'
  <1>0. EventTypeOK /\ HandleInv /\ EarlyInv /\ PhaseInv
    BY DEF LockstepInv
  <1>1. /\ test.pc \in {"first", "second", "clear", "send", "release", "reply"}
        /\ HandleComplete /\ UNCHANGED <<paths, enabled, linked, daemon>>
    BY DEF WaitCalled, ClearCalled, SendRound, Release, ReadReply, TestAt, HandleComplete, evState
  <1>2. /\ test' \in [pc : TestPC, round : Nat]
        /\ test'.pc \in {"first", "second", "clear", "send", "release", "reply", "unlink_called"}
        /\ test.pc # "reply" => test'.round = test.round
    <2>1. CASE WaitCalled
      BY <1>0, <2>1, TestMoves DEF WaitCalled, TestPC
    <2>2. CASE ClearCalled
      BY <1>0, <1>1, <2>2, TestMoves DEF ClearCalled, TestPC, EventTypeOK
    <2>3. CASE SendRound \/ Release
      BY <1>0, <2>3, TestMoves DEF SendRound, Release, TestPC
    <2>4. CASE ReadReply
      <3>1. /\ test.pc = "reply" /\ test \in [pc : TestPC, round : Nat]
            /\ \/ test' = [pc |-> "first", round |-> test.round + 1]
               \/ test' = [test EXCEPT !.pc = "unlink_called"]
        BY <1>0, <2>4 DEF ReadReply, TestAt, EventTypeOK
      <3> QED
        BY <3>1 DEF TestPC
    <2> QED
      BY <2>1, <2>2, <2>3, <2>4
  <1>3. HandleComplete' /\ HandleInv' /\ EarlyInv'
    <2>1. HandleComplete'
      BY <1>2 DEF HandleComplete
    <2> QED
      BY <1>0, <1>1, <1>2, <2>1 DEF HandleInv, EarlyInv
  <1>4. Called \in Nat /\ Ready \in Nat /\ (Readable("test", "called") <=> Called > 0)
    BY <1>0, FifoFacts
  <1>5. CASE WaitCalled
    <2>1. /\ UNCHANGED <<bytes, inbox, outbox>> /\ Called > 0
          /\ \/ test.pc = "first" /\ test'.pc = "clear"
             \/ test.pc = "second" /\ test'.pc = "reply"
      BY <1>0, <1>4, <1>5, TestMoves DEF WaitCalled, queues, TestPC
    <2>2. EventTypeOK'
      BY <1>0, <1>1, <1>2, <2>1 DEF EventTypeOK
    <2>3. PhaseInv'
      BY <1>0, <1>1, <1>2, <1>3, <1>4, <2>1 DEF PhaseInv, Round, Blocked, Called, Ready, Sent, Taken,
         Replied
    <2> QED
      BY <1>3, <2>2, <2>3 DEF LockstepInv
  <1>6. CASE ClearCalled
    <2>0. test.pc = "clear" /\ UNCHANGED <<inbox, outbox>>
      BY <1>6 DEF ClearCalled, TestAt, queues
    <2>1. CASE Readable("test", "called")
      <3>1. /\ UNCHANGED test /\ bytes' \in [Makers -> [Purposes -> 0 .. FifoBytes]]
            /\ Ready' = Ready
        BY <1>0, <1>6, <2>1, DrainFacts DEF ClearCalled, Purposes, Ready
      <3> QED
        BY <1>0, <1>1, <1>3, <2>0, <3>1 DEF LockstepInv, EventTypeOK, PhaseInv, Blocked, Taken
    <2>2. CASE ~Readable("test", "called")
      <3>1. UNCHANGED bytes /\ test'.pc = "send" /\ Called = 0
        BY <1>0, <1>4, <1>6, <2>2, TestMoves DEF ClearCalled, TestPC
      <3> QED
        BY <1>0, <1>1, <1>2, <1>3, <2>0, <3>1 DEF LockstepInv, EventTypeOK, PhaseInv, Blocked, Taken,
           Ready, Called
    <2> QED
      BY <2>1, <2>2
  <1>7. CASE SendRound
    <2>1. /\ test.pc = "send" /\ test'.pc = "release" /\ UNCHANGED <<bytes, outbox>>
          /\ inbox' = Append(inbox, test.round)
      BY <1>0, <1>7, TestMoves DEF SendRound, TestAt, TestPC
    <2>2. inbox = <<>> /\ test.round \in Nat
      BY <1>0, <2>1 DEF PhaseInv, Taken, EventTypeOK
    <2>3. inbox' = <<test.round>> /\ inbox' \in Seq(Nat)
      BY <2>1, <2>2
    <2> QED
      BY <1>0, <1>1, <1>2, <1>3, <2>1, <2>3 DEF LockstepInv, EventTypeOK, PhaseInv, Blocked, Taken,
         Sent, Ready, Called
  <1>8. CASE Release
    <2>1. /\ test.pc = "release" /\ test'.pc = "second" /\ UNCHANGED <<inbox, outbox>>
          /\ bytes' \in [Makers -> [Purposes -> 0 .. FifoBytes]]
          /\ Ready' > 0 /\ Called' = Called
      BY <1>0, <1>8, TestMoves, SetFacts DEF Release, TestAt, TestPC, Purposes, Ready, Called, queues
    <2> QED
      BY <1>0, <1>1, <1>2, <1>3, <2>1 DEF LockstepInv, EventTypeOK, PhaseInv, Blocked, Sent, Round
  <1>9. CASE ReadReply
    <2>1. /\ test.pc = "reply" /\ test'.pc \in {"first", "unlink_called"}
          /\ UNCHANGED <<bytes, inbox>>
          /\ outbox' = IF outbox = <<>> THEN outbox ELSE Tail(outbox)
      BY <1>0, <1>9 DEF ReadReply, TestAt, EventTypeOK
    <2>2. outbox = <<test.round>> /\ test.round \in Nat
      BY <1>0, <2>1 DEF PhaseInv, Replied, EventTypeOK
    <2>3. outbox' = <<>> /\ outbox' \in Seq(Nat)
      BY <2>1, <2>2
    <2> QED
      BY <1>0, <1>1, <1>2, <1>3, <1>4, <2>1, <2>3 DEF LockstepInv, EventTypeOK, PhaseInv, Blocked, Taken,
         Replied, Ready, Called
  <1> QED
    BY <1>5, <1>6, <1>7, <1>8, <1>9

-----------------------------------------------------------------------------
(* The daemon connects, and opens the fifos of its receive.                *)
LEMMA OpenInv ==
  ASSUME LockstepInv, ConnectFake \/ OpenFifos
  PROVE  LockstepInv'
  <1>0. EventTypeOK /\ HandleInv /\ EarlyInv /\ PhaseInv
    BY DEF LockstepInv
  <1>1. PICK u \in Purposes, pc \in {"connect_ready", "enabled", "open_ready", "set"} :
          /\ OpenFifo(u, pc)
          /\ \/ daemon.pc = "connect_called" /\ u = "called" /\ pc = "connect_ready"
             \/ daemon.pc = "connect_ready" /\ u = "ready" /\ pc = "enabled"
             \/ daemon.pc = "open_called" /\ u = "called" /\ pc = "open_ready"
             \/ daemon.pc = "open_ready" /\ u = "ready" /\ pc = "set"
    BY DEF ConnectFake, OpenFifos, DaemonAt, Purposes
  <1>2. /\ UNCHANGED <<paths, enabled, linked, bytes, test, inbox, outbox>>
        /\ daemon.fds \in [Purposes -> {NoPath, "test"}]
    BY <1>0, <1>1 DEF OpenFifo, evState, queues, EventTypeOK
  <1> DEFINE f == IF daemon.fds[u] = NoPath /\ <<paths[u], u>> \in linked
                    THEN paths[u] ELSE daemon.fds[u]
  <1>3. f \in {NoPath, "test"}
    <2>1. HandleComplete \/ NoLeftovers
      BY <1>0, <1>1 DEF EarlyInv
    <2>2. HandleComplete => paths[u] = "test"
      BY <1>0 DEF HandleInv, HandleComplete, Purposes
    <2>3. NoLeftovers /\ <<paths[u], u>> \in linked => paths[u] = "test"
      BY <1>0 DEF NoLeftovers, EventTypeOK, Makers
    <2> QED
      BY <1>2, <2>1, <2>2, <2>3
  <1>4. daemon.pc \in {"open_called", "open_ready"} => f = "test"
    <2> SUFFICES ASSUME daemon.pc \in {"open_called", "open_ready"} PROVE f = "test"
      OBVIOUS
    <2>1. test.pc \in {"first", "second"}
      BY <1>0 DEF PhaseInv, HandleComplete, EventTypeOK, TestPC, Blocked
    <2>2. paths[u] = "test" /\ <<"test", u>> \in linked
      BY <1>0, <2>1 DEF HandleInv, Purposes
    <2> QED
      BY <1>2, <2>2 DEF NoPath
  <1>5. daemon' = [daemon EXCEPT !.pc = pc, !.fds[u] = f]
    BY <1>1 DEF OpenFifo
  <1> HIDE DEF f
  <1>6. /\ daemon' \in [pc : DaemonPC, fds : [Purposes -> {NoPath, "test"}], msg : Nat]
        /\ daemon'.pc = pc /\ daemon'.msg = daemon.msg /\ daemon'.fds[u] = f
        /\ \A v \in Purposes : v # u => daemon'.fds[v] = daemon.fds[v]
    BY <1>0, <1>1, <1>3, <1>5 DEF EventTypeOK, DaemonPC
  <1>7. EventTypeOK' /\ HandleInv'
    BY <1>0, <1>2, <1>6 DEF EventTypeOK, HandleInv, HandleComplete
  <1>8. EarlyInv'
    BY <1>0, <1>1, <1>2, <1>4, <1>6 DEF EarlyInv, HandleComplete, NoLeftovers, Purposes
  <1>9. PhaseInv'
    BY <1>0, <1>1, <1>2, <1>6 DEF PhaseInv, HandleComplete, Round, Blocked, Called, Ready, Sent,
       Taken, Replied
  <1> QED
    BY <1>7, <1>8, <1>9 DEF LockstepInv

(* It blocks, is released, receives and replies.                           *)
LEMMA DaemonInv ==
  ASSUME LockstepInv, EarlyStart = FALSE,
         \/ StartDaemon \/ CheckEnabled \/ SetCalled \/ WaitReady \/ ClearReady
         \/ DaemonRecv \/ Republish
  PROVE  LockstepInv'
  <1>0. EventTypeOK /\ HandleInv /\ EarlyInv /\ PhaseInv
    BY DEF LockstepInv
  <1>1. UNCHANGED <<paths, enabled, linked, test>>
    BY DEF StartDaemon, CheckEnabled, SetCalled, WaitReady, ClearReady, DaemonRecv, Republish,
       evState
  <1>2. HandleInv' /\ (HandleComplete' <=> HandleComplete) /\ (NoLeftovers' <=> NoLeftovers)
    BY <1>0, <1>1 DEF HandleInv, HandleComplete, NoLeftovers
  <1>3. /\ Called \in Nat /\ Ready \in Nat
        /\ Readable("test", "ready") <=> Ready > 0
    BY <1>0, FifoFacts
  <1>4. CASE StartDaemon \/ CheckEnabled
    <2>1. /\ daemon' \in [pc : DaemonPC, fds : [Purposes -> {NoPath, "test"}], msg : Nat]
          /\ daemon'.fds = daemon.fds /\ UNCHANGED <<bytes, inbox, outbox>>
          /\ \/ daemon.pc = "new" /\ daemon'.pc = "connect_called" /\ (HandleComplete \/ NoLeftovers)
             \/ daemon.pc = "enabled" /\ enabled /\ daemon'.pc = "open_called"
             \/ daemon.pc = "enabled" /\ ~enabled /\ daemon'.pc = "recv"
      BY <1>0, <1>4, DaemonMoves DEF StartDaemon, CheckEnabled, DaemonAt, DaemonPC, queues, NoLeftovers
    <2>2. EventTypeOK'
      BY <1>0, <1>1, <2>1 DEF EventTypeOK
    <2>3. EarlyInv'
      BY <1>0, <1>1, <1>2, <2>1 DEF EarlyInv
    <2>4. PhaseInv'
      <3>1. daemon.pc # "new" /\ enabled => HandleComplete
        BY <1>0 DEF EarlyInv
      <3>2. HandleComplete => enabled
        BY <1>0 DEF HandleInv
      <3> QED
        BY <1>0, <1>1, <1>2, <2>1, <3>1, <3>2 DEF PhaseInv, HandleComplete, Round, Blocked, Called,
           Ready, Sent, Taken, Replied
    <2> QED
      BY <1>2, <2>2, <2>3, <2>4 DEF LockstepInv
  <1>5. CASE SetCalled
    <2>0. daemon.pc = "set" /\ UNCHANGED <<inbox, outbox>> /\ \A u \in Purposes : daemon.fds[u] = "test"
      BY <1>0, <1>5 DEF SetCalled, DaemonAt, EarlyInv, queues
    <2>1. Set("test", "called") /\ DaemonGoto("wait")
      BY <1>5, <2>0 DEF SetCalled, NoPath, Purposes
    <2>2. /\ daemon' \in [pc : DaemonPC, fds : [Purposes -> {NoPath, "test"}], msg : Nat]
          /\ daemon'.fds = daemon.fds /\ daemon'.pc = "wait"
          /\ bytes' \in [Makers -> [Purposes -> 0 .. FifoBytes]]
          /\ Called' > 0 /\ Ready' = Ready
      BY <1>0, <2>1, DaemonMoves, SetFacts DEF DaemonPC, Purposes, Ready, Called
    <2>3. EventTypeOK' /\ EarlyInv'
      BY <1>0, <1>1, <1>2, <2>0, <2>2 DEF EventTypeOK, EarlyInv
    <2>4. PhaseInv'
      BY <1>0, <1>1, <1>2, <1>3, <2>0, <2>2 DEF PhaseInv, Round, Blocked, Sent, Taken, Replied
    <2> QED
      BY <1>2, <2>3, <2>4 DEF LockstepInv
  <1>6. CASE WaitReady
    <2>0. /\ daemon.pc = "wait" /\ UNCHANGED <<bytes, inbox, outbox>>
          /\ \A u \in Purposes : daemon.fds[u] = "test"
      BY <1>0, <1>6 DEF WaitReady, DaemonAt, EarlyInv, queues
    <2>1. Readable("test", "ready") /\ DaemonGoto("clear")
      BY <1>6, <2>0 DEF WaitReady, NoPath, Purposes
    <2>2. /\ daemon' \in [pc : DaemonPC, fds : [Purposes -> {NoPath, "test"}], msg : Nat]
          /\ daemon'.fds = daemon.fds /\ daemon'.pc = "clear" /\ Ready > 0
      BY <1>0, <1>3, <2>1, DaemonMoves DEF DaemonPC
    <2>3. EventTypeOK' /\ EarlyInv'
      BY <1>0, <1>1, <1>2, <2>0, <2>2 DEF EventTypeOK, EarlyInv
    <2>4. PhaseInv'
      BY <1>0, <1>1, <1>2, <1>3, <2>0, <2>2 DEF PhaseInv, Round, Blocked, Sent, Taken, Replied, Ready,
         Called
    <2> QED
      BY <1>2, <2>3, <2>4 DEF LockstepInv
  <1>7. CASE ClearReady
    <2>0. /\ daemon.pc = "clear" /\ UNCHANGED <<inbox, outbox>>
          /\ \A u \in Purposes : daemon.fds[u] = "test"
      BY <1>0, <1>7 DEF ClearReady, DaemonAt, EarlyInv, queues
    <2>1. test.pc = "second"
      BY <1>0, <2>0 DEF PhaseInv, HandleComplete, EventTypeOK, TestPC, Blocked
    <2>2. CASE Readable("test", "ready")
      <3>1. Drain("test", "ready") /\ UNCHANGED daemon
        BY <1>7, <2>0, <2>2 DEF ClearReady, Purposes
      <3>2. /\ bytes' \in [Makers -> [Purposes -> 0 .. FifoBytes]]
            /\ Ready' = 0 /\ Called' = Called
        BY <1>0, <3>1, DrainFacts DEF Purposes, Ready, Called
      <3>3. EventTypeOK' /\ EarlyInv'
        BY <1>0, <1>1, <1>2, <2>0, <3>1, <3>2 DEF EventTypeOK, EarlyInv
      <3>4. PhaseInv'
        BY <1>0, <1>1, <1>2, <2>0, <2>1, <3>1, <3>2 DEF PhaseInv, HandleComplete, Round, Blocked, Sent, Taken, Replied
      <3> QED
        BY <1>2, <3>3, <3>4 DEF LockstepInv
    <2>3. CASE ~Readable("test", "ready")
      <3>1. DaemonGoto("recv") /\ UNCHANGED bytes /\ Ready = 0
        BY <1>3, <1>7, <2>0, <2>3 DEF ClearReady, Purposes
      <3>2. /\ daemon' \in [pc : DaemonPC, fds : [Purposes -> {NoPath, "test"}], msg : Nat]
            /\ daemon'.fds = daemon.fds /\ daemon'.pc = "recv"
        BY <1>0, <3>1, DaemonMoves DEF DaemonPC
      <3>3. EventTypeOK' /\ EarlyInv'
        BY <1>0, <1>1, <1>2, <2>0, <3>1, <3>2 DEF EventTypeOK, EarlyInv
      <3>4. PhaseInv'
        BY <1>0, <1>1, <1>2, <2>0, <2>1, <3>1, <3>2 DEF PhaseInv, HandleComplete, Round, Blocked, Sent, Taken, Replied,
           Ready, Called
      <3> QED
        BY <1>2, <3>3, <3>4 DEF LockstepInv
    <2> QED
      BY <2>2, <2>3
  <1>8. CASE DaemonRecv
    <2>0. daemon.pc = "recv" /\ UNCHANGED <<bytes, outbox>>
      BY <1>8 DEF DaemonRecv, DaemonAt
    <2>1. CASE inbox = <<>>
      <3>1. UNCHANGED inbox /\ DaemonGoto("enabled")
        BY <1>8, <2>1 DEF DaemonRecv
      <3>2. /\ daemon' \in [pc : DaemonPC, fds : [Purposes -> {NoPath, "test"}], msg : Nat]
            /\ daemon'.fds = daemon.fds /\ daemon'.pc = "enabled"
        BY <1>0, <3>1, DaemonMoves DEF DaemonPC
      <3>3. EventTypeOK' /\ EarlyInv'
        BY <1>0, <1>1, <1>2, <2>0, <3>1, <3>2 DEF EventTypeOK, EarlyInv
      <3>4. test.pc # "second"
        <4> SUFFICES ASSUME test.pc = "second" PROVE FALSE
          OBVIOUS
        <4>1. inbox = <<test.round>>
          BY <1>0, <2>0 DEF PhaseInv, Round, Sent, Blocked
        <4>2. <<test.round>> # <<>>
          OBVIOUS
        <4> QED
          BY <2>1, <4>1, <4>2
      <3>5. PhaseInv'
        BY <1>0, <1>1, <1>2, <2>0, <3>1, <3>2, <3>4 DEF PhaseInv, HandleComplete, Blocked, Sent, Taken, Replied,
           Ready, Called
      <3> QED
        BY <1>2, <3>3, <3>5 DEF LockstepInv
    <2>2. CASE inbox # <<>>
      <3>1. /\ daemon' = [daemon EXCEPT !.pc = "repub", !.msg = Head(inbox)]
            /\ inbox' = Tail(inbox)
        BY <1>8, <2>2 DEF DaemonRecv
      <3>2. test.pc = "second"
        BY <1>0, <2>0, <2>2 DEF PhaseInv, HandleComplete, EventTypeOK, TestPC, Blocked, Taken
      <3>3. Sent /\ Ready = 0 /\ Called = 0 /\ test.round \in Nat
        BY <1>0, <2>0, <3>2 DEF PhaseInv, Round, Blocked, EventTypeOK
      <3>4. inbox' = <<>> /\ Head(inbox) = test.round
        BY <3>1, <3>3 DEF Sent
      <3>5. /\ daemon' \in [pc : DaemonPC, fds : [Purposes -> {NoPath, "test"}], msg : Nat]
            /\ daemon'.fds = daemon.fds /\ daemon'.pc = "repub" /\ daemon'.msg = test.round
        BY <1>0, <3>1, <3>3, <3>4 DEF EventTypeOK, DaemonPC
      <3>6. EventTypeOK' /\ EarlyInv'
        BY <1>0, <1>1, <1>2, <2>0, <3>4, <3>5 DEF EventTypeOK, EarlyInv
      <3>7. PhaseInv'
        BY <1>1, <1>2, <2>0, <3>2, <3>3, <3>4, <3>5 DEF PhaseInv, HandleComplete, Round, Sent, Taken,
           Ready, Called
      <3> QED
        BY <1>2, <3>6, <3>7 DEF LockstepInv
    <2> QED
      BY <2>1, <2>2
  <1>9. CASE Republish
    <2>0. /\ daemon.pc = "repub" /\ UNCHANGED <<bytes, inbox>> /\ DaemonGoto("enabled")
          /\ outbox' = Append(outbox, daemon.msg)
      BY <1>9 DEF Republish, DaemonAt
    <2>1. test.pc = "second"
      BY <1>0, <2>0 DEF PhaseInv, HandleComplete, EventTypeOK, TestPC, Blocked
    <2>2. Taken /\ daemon.msg = test.round /\ Ready = 0 /\ Called = 0 /\ test.round \in Nat
      BY <1>0, <2>0, <2>1 DEF PhaseInv, Round, Blocked, EventTypeOK
    <2>3. outbox' = <<test.round>> /\ outbox' \in Seq(Nat)
      BY <2>0, <2>2 DEF Taken
    <2>4. /\ daemon' \in [pc : DaemonPC, fds : [Purposes -> {NoPath, "test"}], msg : Nat]
          /\ daemon'.fds = daemon.fds /\ daemon'.pc = "enabled"
      BY <1>0, <2>0, DaemonMoves DEF DaemonPC
    <2>5. EventTypeOK' /\ EarlyInv'
      BY <1>0, <1>1, <1>2, <2>0, <2>3, <2>4 DEF EventTypeOK, EarlyInv
    <2>6. PhaseInv'
      BY <1>1, <1>2, <2>0, <2>1, <2>2, <2>3, <2>4 DEF PhaseInv, HandleComplete, Round, Taken, Replied,
         Ready, Called
    <2> QED
      BY <1>2, <2>5, <2>6 DEF LockstepInv
  <1> QED
    BY <1>4, <1>5, <1>6, <1>7, <1>8, <1>9

-----------------------------------------------------------------------------
(* The invariant holds of a fresh EventState and among the leftovers of a  *)
(* killed test, and every step preserves it.                               *)
LEMMA InitLockstep == InitFresh \/ InitKilled => LockstepInv
  <1> SUFFICES ASSUME InitFresh \/ InitKilled PROVE LockstepInv
    OBVIOUS
  <1>1. /\ test = StartTest /\ daemon = NewDaemon /\ inbox = <<>> /\ outbox = <<>>
        /\ bytes = [m \in Makers |-> [u \in Purposes |-> 0]]
    BY DEF InitFresh, InitKilled, InitQueues
  <1>2. test.pc = "make_called" /\ daemon.pc = "new" /\ ~HandleComplete
    BY <1>1 DEF StartTest, NewDaemon, HandleComplete
  <1>3. EventTypeOK
    <2>1. bytes \in [Makers -> [Purposes -> 0 .. FifoBytes]]
      <3>1. 0 \in 0 .. FifoBytes
        BY RoundsAssumption
      <3> QED
        BY <1>1, <3>1
    <2>2. test \in [pc : TestPC, round : Nat]
      BY <1>1 DEF StartTest, TestPC
    <2>3. daemon \in [pc : DaemonPC, fds : [Purposes -> {NoPath, "test"}], msg : Nat]
      BY <1>1 DEF NewDaemon, DaemonPC
    <2>4. /\ paths \in [Purposes -> Makers \cup {NoPath}] /\ enabled \in BOOLEAN
          /\ linked \subseteq Makers \X Purposes
      BY DEF InitFresh, InitKilled, Makers
    <2> QED
      BY <1>1, <2>1, <2>2, <2>3, <2>4 DEF EventTypeOK
  <1>4. HandleInv
    BY <1>2 DEF HandleInv
  <1>5. EarlyInv
    <2>1. NoLeftovers => ~enabled
      BY DEF NoLeftovers, InitFresh, InitKilled, Purposes
    <2> QED
      BY <1>2, <2>1 DEF EarlyInv
  <1>6. PhaseInv
    <2>1. Ready = 0 /\ Called = 0
      BY <1>1 DEF Ready, Called, Makers, Purposes
    <2> QED
      BY <1>1, <1>2, <2>1 DEF PhaseInv, Taken
  <1> QED
    BY <1>3, <1>4, <1>5, <1>6 DEF LockstepInv

(* Every step, of the test or of the daemon, keeps the lockstep           *)
(* invariant.                                                             *)
LEMMA NextLockstep ==
  ASSUME EarlyStart = FALSE
  PROVE  LockstepInv /\ [EventNext]_evVars => LockstepInv'
  <1> SUFFICES ASSUME LockstepInv, [EventNext]_evVars PROVE LockstepInv'
    OBVIOUS
  <1>1. CASE TestNext
    BY <1>1, MakeInv, TestInv, DestroyInv DEF TestNext
  <1>2. CASE DaemonNext
    BY <1>2, OpenInv, DaemonInv DEF DaemonNext
  <1>3. CASE UNCHANGED evVars
    BY <1>3 DEF evVars, evState, queues, LockstepInv, EventTypeOK, HandleInv, EarlyInv, PhaseInv, Round,
       HandleComplete, NoLeftovers, Blocked, Called, Ready, Sent, Taken, Replied
  <1> QED
    BY <1>1, <1>2, <1>3 DEF EventNext

(* The lockstep invariant holds in every state, when the daemon starts    *)
(* after the test made its handle.                                        *)
LEMMA EventInv ==
  ASSUME EarlyStart = FALSE
  PROVE  EventSpec => []LockstepInv
  BY InitLockstep, NextLockstep, PTL DEF EventSpec

(* The test reads the reply to the message of its round and no other, in   *)
(* every round, whenever the daemon starts: SocketEventHandle makes a run  *)
(* of test and daemon deterministic, even if an earlier test was killed    *)
(* and its fifos and its enabled EventState are still there.               *)
THEOREM RoundsInLockstep ==
  ASSUME EarlyStart = FALSE
  PROVE  EventSpec => []Lockstep
  <1>1. LockstepInv => Lockstep
    BY DEF LockstepInv, PhaseInv, Lockstep, TestAt, Replied
  <1> QED
    BY <1>1, EventInv, PTL

(* While the test prepares a round, the daemon blocks in                   *)
(* SubSocket::receive, with nothing in RECV_READY that would let it go.    *)
THEOREM DaemonHeld ==
  ASSUME EarlyStart = FALSE
  PROVE  EventSpec => []HeldUntilReleased
  <1>1. LockstepInv => HeldUntilReleased
    BY FifoFacts DEF LockstepInv, PhaseInv, HeldUntilReleased, Blocked
  <1> QED
    BY <1>1, EventInv, PTL

(* A receive that finds the fake mode enabled finds the fifos too, so the  *)
(* "Event does not have valid file descriptor." of Event::set and          *)
(* Event::wait is never thrown.                                            *)
THEOREM FifosFound ==
  ASSUME EarlyStart = FALSE
  PROVE  EventSpec => []DescriptorsValid
  <1>1. LockstepInv => DescriptorsValid
    BY DEF LockstepInv, PhaseInv, DescriptorsValid, DaemonAt, Round, Blocked, EventTypeOK, TestPC,
       HandleComplete
  <1> QED
    BY <1>1, EventInv, PTL
=============================================================================

-------------------------- MODULE SubSocketProofs --------------------------
(***************************************************************************)
(* The sockets use the queue as module Msgq says, and their waits end      *)
(* neither early nor, but for one case, late: for any number of sockets    *)
(* and any timeouts, whatever signals interrupt their sleeps.              *)
(***************************************************************************)
EXTENDS SubSocket, MsgqProofs

-----------------------------------------------------------------------------
SockPC == {"idle", "recv", "check", "again", "sleep", "woken"}
SockRecord ==
  [pc : SockPC, op : {"none", "poll", "blocking", "non_blocking"},
   timeout : Timeouts \cup {-1}, limit : Timeouts \cup {-1, 0}, n : {-1, 0, 1},
   ts : Nat, left : Nat, full : BOOLEAN, slept : Nat, seen : BOOLEAN,
   ret : {"none", "msg", "readable"}]

(* A socket with locals r and the queue's locals q are in step.            *)
InStep(r, q) ==
  /\ r.pc # "idle" => q.pc # "closed"
  /\ r.pc \in {"sleep", "woken"} => q.pc = "idle"
  /\ r.pc = "recv" => q.op \in {"none", "recv"}
  /\ r.pc \in {"check", "again"} => q.op \in {"none", "ready"}

(* What nanosleep is asked for at most.                                    *)
Longest(r) == IF r.limit = -1 THEN PollTicks ELSE r.limit

LocalsOK(r) ==
  /\ r.left <= r.ts
  /\ r.pc = "idle" => r.op = "none" /\ r.limit = 0 /\ r.slept = 0 /\ r.ts = 0
  /\ r.pc \in {"check", "again", "sleep", "woken"} => r.op \in {"poll", "blocking"}
  /\ r.pc = "recv" => r.op \in {"blocking", "non_blocking"}
  /\ r.pc # "idle" => r.limit \in Timeouts \cup {-1} /\ r.ts <= Longest(r)

(* The time asleep and the time left add up to the timeout, until a poll   *)
(* has seen a message; then the receive may have started over.             *)
Adds(r, left) == /\ r.slept + left >= r.limit
                 /\ ~r.seen => r.slept + left <= r.limit
TimeOK(r) ==
  /\ r.pc = "recv" => /\ r.n = -1 => r.slept = 0
                      /\ r.n = 0 => Adds(r, 0)
                      /\ r.n = 1 => r.seen
  /\ r.pc = "check" => r.ts = r.limit /\ (~r.seen => r.slept = 0)
  /\ r.pc = "sleep" => Adds(r, r.left)
  /\ r.pc = "woken" => Adds(r, r.ts)
  /\ r.pc = "again" => Adds(r, IF r.full THEN 0 ELSE r.ts)

SockInv(s) == /\ sock[s] \in SockRecord /\ InStep(sock[s], sub[s]) /\ LocalsOK(sock[s])
              /\ sock[s].limit # -1 => TimeOK(sock[s])

SocketInv == IInv /\ DOMAIN sock = Subscribers /\ \A s \in Subscribers : SockInv(s)

-----------------------------------------------------------------------------
(* The longest timeout.                                                    *)
LEMMA BoundFacts == SleptBound \in Int /\ \A t \in Timeouts : t \in Int /\ t < SleptBound
  <1> DEFINE max == CHOOSE t \in Timeouts : \A u \in Timeouts : u <= t
  <1>1. max \in Timeouts /\ \A u \in Timeouts : u <= max
    BY TimeoutsAssumption
  <1>2. Timeouts \subseteq Int
    BY TimeoutsAssumption
  <1>3. SleptBound = 1 + max
    BY DEF SleptBound
  <1> HIDE DEF max
  <1> QED
    BY <1>1, <1>2, <1>3

(* The locals of a subscriber in a call become r.                          *)
Proceeds(s) ==
  /\ sub[s].pc \notin {"idle", "closed"}
  /\ \E r \in Subscriber : sub' = [sub EXCEPT ![s] = r] /\ r.op \in {sub[s].op, "none"} /\ r.pc # "closed"

(* A step of a call into msgq.cc goes on with the call or returns from it. *)
LEMMA StepProceeds ==
  ASSUME IInv, NEW s \in Subscribers, SubscriberStep(s), IInv'
  PROVE  Proceeds(s)
  <1>0. /\ sub \in [Subscribers -> Subscriber] /\ sub' \in [Subscribers -> Subscriber]
        /\ sub[s] \in Subscriber /\ sub'[s] \in Subscriber
    BY DEF IInv, TypeOK
  <1>1. ASSUME sub[s].pc \notin {"idle", "closed"}, NEW r, SetSub(s, r),
               r.op \in {sub[s].op, "none"}, r.pc # "closed"
        PROVE  Proceeds(s)
    <2>1. sub' = [sub EXCEPT ![s] = r] /\ r = sub'[s]
      BY <1>0, <1>1 DEF SetSub
    <2> QED
      BY <1>0, <1>1, <2>1 DEF Proceeds
  <1>2. ASSUME sub[s].pc \notin {"idle", "closed"}, NEW pc, SubGoto(s, pc), pc # "closed"
        PROVE  Proceeds(s)
    <2> DEFINE r == [sub[s] EXCEPT !.pc = pc]
    <2>1. SetSub(s, r) /\ r.op = sub[s].op /\ r.pc = pc
      BY <1>0, <1>2 DEF SubGoto, Subscriber
    <2> HIDE DEF r
    <2> QED
      BY <1>1, <1>2, <2>1
  <1>3. ASSUME sub[s].pc \notin {"idle", "closed"}, NEW pc, SubBack(s, pc), pc # "closed"
        PROVE  Proceeds(s)
    <2> DEFINE r == SubAt(pc, sub[s].op, sub[s].id)
    <2>1. SetSub(s, r) /\ r.op = sub[s].op /\ r.pc = pc
      BY <1>3 DEF SubBack, SubAt
    <2> HIDE DEF r
    <2> QED
      BY <1>1, <1>3, <2>1
  <1>4. ASSUME sub[s].pc \notin {"idle", "closed"}, NEW ret, SubReturn(s, ret)
        PROVE  Proceeds(s)
    <2> DEFINE r == [SubAt("idle", "none", sub[s].id) EXCEPT !.ret = ret]
    <2>1. SetSub(s, r) /\ r.op = "none" /\ r.pc = "idle"
      BY <1>4 DEF SubReturn, SubAt
    <2> HIDE DEF r
    <2> QED
      BY <1>1, <1>4, <2>1
  <1>5. CASE RegisterStep(s)
    <2>1. CASE LoadSlotCount(s)
      <3>1. SetSub(s, [sub[s] EXCEPT !.pc = "cas", !.num = num_readers]) => Proceeds(s)
        <4> DEFINE r == [sub[s] EXCEPT !.pc = "cas", !.num = num_readers]
        <4>1. r.op = sub[s].op /\ r.pc = "cas"
          BY <1>0 DEF Subscriber
        <4> HIDE DEF r
        <4>2. SetSub(s, r) => Proceeds(s)
          BY <1>1, <2>1, <4>1 DEF LoadSlotCount
        <4> QED
          BY <4>2 DEF r
      <3> QED
        BY <1>2, <2>1, <3>1 DEF LoadSlotCount
    <2>2. CASE EvictAll(s) \/ EvictValid(s)
      BY <1>2, <1>3, <2>2 DEF EvictAll, EvictValid
    <2>3. CASE EvictLoadUid(s)
      <3> DEFINE r == [sub[s] EXCEPT !.pc = "evict_uid", !.old = read_uids[sub[s].i]]
      <3>1. SetSub(s, r) /\ r.op = sub[s].op /\ r.pc = "evict_uid" /\ sub[s].pc = "evict_load"
        BY <1>0, <2>3 DEF Subscriber, EvictLoadUid
      <3> HIDE DEF r
      <3> QED
        BY <1>1, <3>1
    <2>4. CASE EvictUid(s)
      <3> DEFINE r == [SubAt("evict_valid", sub[s].op, sub[s].id) EXCEPT !.i = sub[s].i + 1]
      <3>1. r.op = sub[s].op /\ r.pc = "evict_valid" /\ sub[s].pc = "evict_uid"
        BY <2>4 DEF SubAt, EvictUid
      <3>2. SetSub(s, r) \/ SubBack(s, "load_num")
        BY <2>4 DEF EvictUid
      <3> HIDE DEF r
      <3> QED
        BY <1>1, <1>3, <3>1, <3>2
    <2>5. CASE ClaimSlot(s)
      <3> DEFINE r == SubAt("init_valid", sub[s].op, sub[s].num)
      <3>1. r.op = sub[s].op /\ r.pc = "init_valid" /\ sub[s].pc = "cas"
        BY <2>5 DEF SubAt, ClaimSlot
      <3>2. SetSub(s, r) \/ SubBack(s, "load_num")
        BY <2>5 DEF ClaimSlot
      <3> HIDE DEF r
      <3> QED
        BY <1>1, <1>3, <3>1, <3>2
    <2>6. CASE InitValid(s) \/ InitReadPointer(s) \/ InitUid(s)
      BY <1>2, <2>6 DEF InitValid, InitReadPointer, InitUid
    <2> QED
      BY <1>5, <2>1, <2>2, <2>3, <2>4, <2>5, <2>6 DEF RegisterStep
  <1>6. CASE ResetStep(s)
    <2>1. CASE ResetValid(s)
      BY <1>2, <2>1 DEF ResetValid
    <2>2. CASE ResetLoad(s)
      <3> DEFINE r == [sub[s] EXCEPT !.pc = "reset_store", !.wp = write_pointer]
      <3>1. SetSub(s, r) /\ r.op = sub[s].op /\ r.pc = "reset_store" /\ sub[s].pc = "reset_load"
        BY <1>0, <2>2 DEF Subscriber, ResetLoad
      <3> HIDE DEF r
      <3> QED
        BY <1>1, <3>1
    <2>3. CASE ResetStore(s)
      BY <1>3, <1>4, <2>3 DEF ResetStore, Restart
    <2> QED
      BY <1>6, <2>1, <2>2, <2>3 DEF ResetStep
  <1>7. CASE RecvStep(s)
    <2>1. CASE CheckReadUid(s) \/ CheckValid(s) \/ StoreReadPointer(s)
      BY <1>2, <2>1 DEF CheckReadUid, CheckValid, StoreReadPointer
    <2>2. CASE WrapRead(s) \/ SkipMessage(s)
      BY <1>3, <2>2 DEF WrapRead, SkipMessage, Restart
    <2>3. CASE CheckData(s)
      BY <1>3, <1>4, <2>3 DEF CheckData
    <2>4. CASE CheckSize(s)
      <3>0. sub[s].pc = "check_size"
        BY <2>4 DEF CheckSize
      <3>1. ASSUME NEW word \in Words, NEW pc \in {"skip", "copy"},
                   SetSub(s, [sub[s] EXCEPT !.word = word, !.pc = pc])
            PROVE  Proceeds(s)
        <4> DEFINE r == [sub[s] EXCEPT !.word = word, !.pc = pc]
        <4>1. r.op = sub[s].op /\ r.pc = pc
          BY <1>0 DEF Subscriber
        <4> HIDE DEF r
        <4>2. SetSub(s, r)
          BY <3>1 DEF r
        <4> QED
          BY <1>1, <3>0, <4>1, <4>2
      <3>2. ASSUME NEW pc \in {"wrap", "aborted"}, SubGoto(s, pc)
            PROVE  Proceeds(s)
        BY <1>2, <3>0, <3>2
      <3>3. ASSUME NEW n \in SizeIn(sub[s].word), TakeSize(s, n)
            PROVE  Proceeds(s)
        <4>1. CASE \E pc \in {"wrap", "aborted"} : Stops(s, n, pc)
          <5>1. PICK pc \in {"wrap", "aborted"} : SubGoto(s, pc)
            BY <4>1 DEF Stops
          <5> QED
            BY <3>2, <5>1
        <4>2. CASE /\ Passes(n)
                   /\ \E word \in Words, pc \in {"skip", "copy"} :
                        /\ word.kind = sub[s].word.kind /\ word.size = n
                        /\ n = sub[s].word.size => word = sub[s].word
                        /\ SetSub(s, [sub[s] EXCEPT !.word = word, !.pc = pc])
          BY <3>1, <4>2
        <4> QED
          BY <3>3, <4>1, <4>2, TakeSizeCases
      <3> QED
        BY <1>3, <2>4, <3>0, <3>3 DEF CheckSize
    <2>5. CASE LoadReadPointer(s)
      <3> DEFINE r == [sub[s] EXCEPT !.pc = "load_wp", !.rp = read_pointers[sub[s].id]]
      <3>1. SetSub(s, r) /\ r.op = sub[s].op /\ r.pc = "load_wp" /\ sub[s].pc = "load_rp"
        BY <1>0, <2>5 DEF Subscriber, LoadReadPointer
      <3> HIDE DEF r
      <3> QED
        BY <1>1, <3>1
    <2>6. CASE CheckNewMessage(s)
      <3> DEFINE r == [sub[s] EXCEPT !.pc = "load_size", !.wp = write_pointer]
      <3>1. r.op = sub[s].op /\ r.pc = "load_size" /\ sub[s].pc = "load_wp"
        BY <1>0, <2>6 DEF Subscriber, CheckNewMessage
      <3>2. SetSub(s, r) \/ SubReturn(s, "empty") \/ SubReturn(s, "ready")
        BY <2>6 DEF CheckNewMessage
      <3> HIDE DEF r
      <3> QED
        BY <1>1, <1>4, <3>1, <3>2
    <2>7. CASE LoadSize(s)
      <3> DEFINE a == WordAt(sub[s].rp.ptr)
                 r == [sub[s] EXCEPT !.pc = "check_size", !.word = Loaded(a)]
      <3>1. SetSub(s, r) \/ SubGoto(s, "aborted")
        BY <2>7 DEF LoadSize, Faults
      <3>2. r.op = sub[s].op /\ r.pc = "check_size" /\ sub[s].pc = "load_size"
        BY <1>0, <2>7 DEF Subscriber, LoadSize
      <3> HIDE DEF r
      <3> QED
        BY <1>1, <1>2, <3>1, <3>2
    <2>8. CASE CopyWord(s)
      <3> DEFINE k == Len(sub[s].buf) + 1
                 buf == Append(sub[s].buf, Loaded(WordAt(sub[s].rp.ptr) + k))
                 pc == IF k < Parts(sub[s].word.size) THEN "copy" ELSE "store_rp"
                 r == [sub[s] EXCEPT !.buf = buf, !.pc = pc]
      <3>1. (SetSub(s, r) \/ SubGoto(s, "aborted")) /\ sub[s].pc = "copy"
        BY <2>8 DEF CopyWord, Faults
      <3>2. pc # "closed"
        OBVIOUS
      <3> HIDE DEF k, buf, pc
      <3>3. r.op = sub[s].op /\ r.pc = pc
        BY <1>0 DEF Subscriber
      <3> HIDE DEF r
      <3> QED
        BY <1>1, <1>2, <3>1, <3>2, <3>3
    <2> QED
      BY <1>7, <2>1, <2>2, <2>3, <2>4, <2>5, <2>6, <2>7, <2>8 DEF RecvStep
  <1> QED
    BY <1>5, <1>6, <1>7 DEF SubscriberStep

-----------------------------------------------------------------------------
(* What the sockets do to the queue is what module Msgq lets them do.      *)
LEMMA SocketMoves == [SocketNext]_sockVars => [Next]_vars
  <1> SUFFICES ASSUME [SocketNext]_sockVars PROVE Next \/ UNCHANGED vars
    OBVIOUS
  <1>1. ASSUME NEW p \in Publishers, PublisherSignals(p) PROVE Next
    BY <1>1 DEF PublisherSignals, Next
  <1>2. ASSUME NEW s \in Subscribers, SocketConnect(s) \/ SubscriberSignals(s) PROVE Next
    BY <1>2 DEF SocketConnect, SubscriberSignals, SubscriberNext, Next
  <1>3. ASSUME NEW s \in Subscribers, BeginReady(s) \/ BeginRecv(s) PROVE Next
    BY <1>3 DEF SubscriberNext, Next
  <1>4. ASSUME NEW s \in Subscribers, NEW n, PollReturn(s, n) PROVE Next \/ UNCHANGED vars
    BY <1>3, <1>4 DEF PollReturn
  <1>5. ASSUME NEW s \in Subscribers, Received(s) \/ NotReceived(s) \/ Checked(s) \/ CheckedAgain(s)
        PROVE  Next \/ UNCHANGED vars
    BY <1>3, <1>4, <1>5 DEF Received, NotReceived, Checked, CheckedAgain, StartPoll, Sleep
  <1>6. ASSUME NEW s \in Subscribers, Tick(s) \/ SleepEnds(s) \/ Interrupted(s)
        PROVE  Next \/ UNCHANGED vars
    BY <1>3, <1>6 DEF Tick, SleepEnds, Interrupted
  <1>7. ASSUME NEW s \in Subscribers, SocketCall(s) PROVE Next \/ UNCHANGED vars
    BY <1>3, <1>7 DEF SocketCall, SetTimeout, Poll, StartPoll, Receive
  <1>8. CASE UNCHANGED sockVars
    BY <1>8 DEF sockVars
  <1> QED
    BY <1>1, <1>2, <1>5, <1>6, <1>7, <1>8 DEF SocketNext, SocketStep

(* One socket's locals become r.                                           *)
LEMMA SockStep ==
  ASSUME SocketInv, IInv', NEW s \in Subscribers, NEW r \in SockRecord, SetSock(s, r),
         \A t \in Subscribers : t # s => sub'[t] = sub[t],
         InStep(r, sub'[s]), LocalsOK(r), r.limit # -1 => TimeOK(r)
  PROVE  SocketInv' /\ sock'[s] = r /\ \A t \in Subscribers : t # s => sock'[t] = sock[t]
  <1>1. /\ DOMAIN sock' = Subscribers /\ sock'[s] = r
        /\ \A t \in Subscribers : t # s => sock'[t] = sock[t]
    BY DEF SocketInv, SetSock
  <1>2. ASSUME NEW t \in Subscribers PROVE SockInv(t)'
    <2>1. CASE t = s
      BY <1>1, <2>1 DEF SockInv
    <2>2. CASE t # s
      BY <1>1, <2>2 DEF SocketInv, SockInv
    <2> QED
      BY <2>1, <2>2
  <1> QED
    BY <1>1, <1>2 DEF SocketInv

(* The locals between two calls.                                           *)
LEMMA RestFacts ==
  ASSUME NEW timeout \in Timeouts \cup {-1}, NEW ret \in {"none", "msg", "readable"}
  PROVE  LET r == AtRest(timeout, ret) IN
           /\ r \in SockRecord /\ r.pc = "idle" /\ r.ret = ret /\ r.timeout = timeout
           /\ r.slept = 0 /\ r.seen = FALSE /\ r.n = -1 /\ r.ts = 0 /\ r.left = 0
           /\ LocalsOK(r) /\ TimeOK(r) /\ \A q : InStep(r, q)
  <1> DEFINE r == AtRest(timeout, ret)
  <1>1. r = [pc |-> "idle", op |-> "none", timeout |-> timeout, limit |-> 0, n |-> -1,
             ts |-> 0, left |-> 0, full |-> FALSE, slept |-> 0, seen |-> FALSE, ret |-> ret]
    BY DEF AtRest
  <1> HIDE DEF r
  <1>2. r \in SockRecord
    BY <1>1 DEF SockRecord, SockPC
  <1>3. /\ r.pc = "idle" /\ r.op = "none" /\ r.ret = ret /\ r.timeout = timeout /\ r.limit = 0
        /\ r.slept = 0 /\ r.seen = FALSE /\ r.n = -1 /\ r.ts = 0 /\ r.left = 0
    BY <1>1
  <1>4. LocalsOK(r) /\ TimeOK(r) /\ \A q : InStep(r, q)
    BY <1>3 DEF LocalsOK, TimeOK, InStep
  <1> QED
    BY <1>2, <1>3, <1>4 DEF r

(* A call of the socket returns.                                           *)
LEMMA RestInv ==
  ASSUME SocketInv, IInv', NEW s \in Subscribers, NEW timeout \in Timeouts \cup {-1},
         NEW ret \in {"none", "msg", "readable"}, SetSock(s, AtRest(timeout, ret)), UNCHANGED sub
  PROVE  SocketInv' /\ sock'[s].ret = ret /\ \A t \in Subscribers : t # s => sock'[t] = sock[t]
  <1> DEFINE r == AtRest(timeout, ret)
  <1>1. r \in SockRecord /\ LocalsOK(r) /\ TimeOK(r) /\ r.ret = ret /\ InStep(r, sub'[s])
    BY RestFacts
  <1> HIDE DEF r
  <1>2. SetSock(s, r)
    BY DEF r
  <1> QED
    BY <1>1, <1>2, SockStep

(* A call into msgq.cc begins.                                             *)
LEMMA CallFacts ==
  ASSUME SocketInv, NEW s \in Subscribers, NEW op, Call(s, op)
  PROVE  /\ sub'[s].pc = "check_uid" /\ sub'[s].op = op
         /\ \A t \in Subscribers : t # s => sub'[t] = sub[t]
  <1>1. sub \in [Subscribers -> Subscriber]
    BY DEF SocketInv, IInv, TypeOK
  <1>2. sub'[s] = SubAt("check_uid", op, sub[s].id)
    BY <1>1 DEF Call, SetSub
  <1>3. \A t \in Subscribers : t # s => sub'[t] = sub[t]
    BY <1>1 DEF Call, SetSub
  <1> QED
    BY <1>2, <1>3 DEF SubAt

(* The arithmetic of a socket's locals.                                    *)
LEMMA RecordFacts ==
  ASSUME NEW r \in SockRecord
  PROVE  /\ r.limit \in Int /\ r.ts \in Nat /\ r.left \in Nat /\ r.slept \in Nat
         /\ r.limit # -1 => r.limit \in Nat /\ (r.limit \in Timeouts => r.limit < SleptBound)
         /\ r.n \in {-1, 0, 1} /\ r.seen \in BOOLEAN /\ r.full \in BOOLEAN
         /\ r.timeout \in Timeouts \cup {-1}
  <1>1. /\ r.limit \in Timeouts \cup {-1, 0} /\ r.ts \in Nat /\ r.left \in Nat /\ r.slept \in Nat
        /\ r.n \in {-1, 0, 1} /\ r.seen \in BOOLEAN /\ r.full \in BOOLEAN
        /\ r.timeout \in Timeouts \cup {-1}
    BY DEF SockRecord
  <1>2. r.limit \in Nat \cup {-1}
    <2>1. \A t \in Timeouts : t \in Nat \cup {-1}
      BY TimeoutsAssumption
    <2>2. r.limit \in Timeouts \/ r.limit = -1 \/ r.limit = 0
      BY <1>1
    <2>3. 0 \in Nat
      OBVIOUS
    <2> QED
      BY <2>1, <2>2, <2>3
  <1>3. r.limit \in Timeouts => r.limit < SleptBound
    BY BoundFacts
  <1> QED
    BY <1>1, <1>2, <1>3

(* msgq_poll begins.                                                       *)
LEMMA StartPollInv ==
  ASSUME SocketInv, IInv', NEW s \in Subscribers, NEW r \in SockRecord, StartPoll(s, r),
         r.op \in {"poll", "blocking"}, r.limit \in Timeouts \cup {-1},
         r.left <= Longest(r), r.limit = -1 \/ r.seen \/ r.slept = 0
  PROVE  SocketInv' /\ sock'[s].pc = "check" /\ \A t \in Subscribers : t # s => sock'[t] = sock[t]
  <1> DEFINE ts == Longest(r)
             q == [r EXCEPT !.pc = "check", !.n = 0, !.ts = ts]
  <1>1. BeginReady(s) /\ SetSock(s, q)
    BY DEF StartPoll, Longest
  <1>2. ts \in Nat /\ (r.limit # -1 => ts = r.limit)
    BY RecordFacts, TimeoutsAssumption DEF Longest
  <1>3. r.left <= ts
    OBVIOUS
  <1> HIDE DEF ts
  <1>4. q \in SockRecord
    BY <1>2 DEF SockRecord, SockPC
  <1>5. /\ q.pc = "check" /\ q.n = 0 /\ q.ts = ts /\ q.op = r.op /\ q.limit = r.limit
        /\ q.left = r.left /\ q.slept = r.slept /\ q.seen = r.seen
    BY DEF SockRecord
  <1> HIDE DEF q
  <1>6. /\ sub'[s].pc = "check_uid" /\ sub'[s].op = "ready"
        /\ \A t \in Subscribers : t # s => sub'[t] = sub[t]
    BY <1>1, CallFacts DEF BeginReady
  <1>7. InStep(q, sub'[s])
    BY <1>5, <1>6 DEF InStep
  <1>8. LocalsOK(q)
    <2>1. Longest(q) = ts
      BY <1>5 DEF Longest, ts
    <2>2. ts <= ts
      BY <1>2
    <2> QED
      BY <1>3, <1>5, <2>1, <2>2 DEF LocalsOK
  <1>9. q.limit # -1 => TimeOK(q)
    BY <1>2, <1>5 DEF TimeOK
  <1> QED
    BY <1>1, <1>4, <1>5, <1>6, <1>7, <1>8, <1>9, SockStep

(* A call of the socket.                                                   *)
LEMMA CallInv ==
  ASSUME SocketInv, IInv', NEW s \in Subscribers, SocketCall(s)
  PROVE  /\ SocketInv' /\ sock[s].op = "none"
         /\ \A t \in Subscribers : t # s => sock'[t] = sock[t]
  <1> DEFINE old == sock[s]
             rest == AtRest(old.timeout, "none")
  <1>0. old \in SockRecord /\ LocalsOK(old)
    BY DEF SocketInv, SockInv
  <1>1. old.timeout \in Timeouts \cup {-1} /\ -1 \in Timeouts \cup {-1}
    BY <1>0, RecordFacts
  <1>2. /\ rest \in SockRecord /\ rest.slept = 0 /\ rest.seen = FALSE /\ rest.n = -1 /\ rest.ts = 0
        /\ rest.left = 0
    BY <1>1, RestFacts
  <1>3. old.pc = "idle" /\ old.op = "none"
    BY <1>0 DEF SocketCall, SetTimeout, Poll, Receive, LocalsOK
  <1> HIDE DEF rest
  <1>4. ASSUME NEW t \in Timeouts, SetTimeout(s, t)
        PROVE  SocketInv' /\ \A u \in Subscribers : u # s => sock'[u] = sock[u]
    <2>1. SetSock(s, AtRest(t, "none")) /\ UNCHANGED sub
      BY <1>4 DEF SetTimeout, vars
    <2> QED
      BY <2>1, RestInv
  <1>5. ASSUME NEW t \in Timeouts, Poll(s, t)
        PROVE  SocketInv' /\ \A u \in Subscribers : u # s => sock'[u] = sock[u]
    <2> DEFINE r == [rest EXCEPT !.op = "poll", !.limit = t]
    <2>1. StartPoll(s, r)
      BY <1>5 DEF Poll, rest
    <2>2. /\ r \in SockRecord /\ r.op = "poll" /\ r.limit = t /\ r.left = 0 /\ r.slept = 0
      BY <1>2 DEF SockRecord
    <2> HIDE DEF r
    <2>3. r.left <= Longest(r)
      BY <2>2, TimeoutsAssumption DEF Longest
    <2> QED
      BY <2>1, <2>2, <2>3, StartPollInv
  <1>6. ASSUME NEW op \in {"blocking", "non_blocking"}, Receive(s, op)
        PROVE  SocketInv' /\ \A u \in Subscribers : u # s => sock'[u] = sock[u]
    <2> DEFINE r == [rest EXCEPT !.pc = "recv", !.op = op, !.limit = old.timeout]
    <2>1. BeginRecv(s) /\ SetSock(s, r)
      BY <1>6 DEF Receive, rest
    <2>2. /\ r \in SockRecord /\ r.pc = "recv" /\ r.op = op /\ r.limit = old.timeout
          /\ r.ts = 0 /\ r.left = 0 /\ r.n = -1 /\ r.slept = 0
      BY <1>1, <1>2 DEF SockRecord, SockPC
    <2> HIDE DEF r
    <2>3. /\ sub'[s].pc = "check_uid" /\ sub'[s].op = "recv"
          /\ \A u \in Subscribers : u # s => sub'[u] = sub[u]
      BY <2>1, CallFacts DEF BeginRecv
    <2>4. 0 <= Longest(r)
      BY <2>2, RecordFacts, TimeoutsAssumption DEF Longest
    <2>5. LocalsOK(r) /\ TimeOK(r) /\ InStep(r, sub'[s])
      BY <1>1, <2>2, <2>3, <2>4 DEF LocalsOK, TimeOK, InStep
    <2> QED
      BY <2>1, <2>2, <2>3, <2>5, SockStep
  <1> QED
    BY <1>3, <1>4, <1>5, <1>6 DEF SocketCall

(* A poll or a receive gives up at a step, as NotBeforeTimeout allows.     *)
GivesUp(s) ==
  sock[s].op \in {"blocking", "poll"} /\ sock'[s].pc = "idle" /\ sock'[s].ret = "none" =>
    sock[s].limit # -1 /\ sock[s].slept >= sock[s].limit

(* msgq_poll returns n.                                                    *)
LEMMA PollReturnInv ==
  ASSUME SocketInv, IInv', NEW s \in Subscribers, NEW n \in {0, 1}, PollReturn(s, n),
         sock[s].pc \in {"check", "again"},
         n = 0 => (sock[s].limit # -1 => Adds(sock[s], 0)),
         n = 0 => (sock[s].op = "poll" => sock[s].limit # -1)
  PROVE  /\ SocketInv' /\ GivesUp(s)
         /\ \A t \in Subscribers : t # s => sock'[t] = sock[t]
  <1> DEFINE old == sock[s]
  <1>0. old \in SockRecord /\ LocalsOK(old) /\ (old.limit # -1 => TimeOK(old))
    BY DEF SocketInv, SockInv
  <1>1. /\ old.timeout \in Timeouts \cup {-1} /\ old.op \in {"poll", "blocking"} /\ old.slept \in Nat
        /\ old.limit \in Int /\ old.seen \in BOOLEAN
    BY <1>0, RecordFacts DEF LocalsOK
  <1>2. CASE old.op = "poll"
    <2> DEFINE ret == IF n = 1 THEN "readable" ELSE "none"
    <2>1. SetSock(s, AtRest(old.timeout, ret)) /\ UNCHANGED sub
      BY <1>2 DEF PollReturn, Return, vars
    <2>2. ret \in {"none", "msg", "readable"} /\ (n = 1 => ret # "none")
      OBVIOUS
    <2> HIDE DEF ret
    <2>3. SocketInv' /\ sock'[s].ret = ret /\ \A t \in Subscribers : t # s => sock'[t] = sock[t]
      BY <1>1, <2>1, <2>2, RestInv
    <2>4. n = 0 => old.limit # -1 /\ old.slept >= old.limit
      BY <1>1, <1>2 DEF Adds
    <2> QED
      BY <2>2, <2>3, <2>4 DEF GivesUp
  <1>3. CASE old.op = "blocking"
    <2> DEFINE seen == old.seen \/ n = 1
               r == [old EXCEPT !.pc = "recv", !.n = n, !.seen = seen]
    <2>1. BeginRecv(s) /\ SetSock(s, r)
      BY <1>3 DEF PollReturn
    <2>2. seen \in BOOLEAN /\ (n = 1 => seen) /\ (n = 0 => seen = old.seen)
      BY <1>1
    <2> HIDE DEF seen
    <2>3. /\ r \in SockRecord /\ r.pc = "recv" /\ r.op = old.op /\ r.limit = old.limit
          /\ r.ts = old.ts /\ r.left = old.left /\ r.n = n /\ r.slept = old.slept /\ r.seen = seen
      BY <1>0, <2>2 DEF SockRecord, SockPC
    <2> HIDE DEF r
    <2>4. /\ sub'[s].pc = "check_uid" /\ sub'[s].op = "recv"
          /\ \A u \in Subscribers : u # s => sub'[u] = sub[u]
      BY <2>1, CallFacts DEF BeginRecv
    <2>5. Longest(r) = Longest(old)
      BY <2>3 DEF Longest
    <2>6. LocalsOK(r) /\ InStep(r, sub'[s])
      BY <1>0, <1>3, <2>3, <2>4, <2>5 DEF LocalsOK, InStep
    <2>7. r.limit # -1 => TimeOK(r)
      BY <1>1, <2>2, <2>3 DEF TimeOK, Adds
    <2>8. SocketInv' /\ sock'[s] = r /\ \A t \in Subscribers : t # s => sock'[t] = sock[t]
      BY <2>1, <2>3, <2>4, <2>6, <2>7, SockStep
    <2> QED
      BY <2>3, <2>8 DEF GivesUp
  <1> QED
    BY <1>1, <1>2, <1>3

(* nanosleep begins.                                                       *)
LEMMA SleepInv ==
  ASSUME SocketInv, IInv', NEW s \in Subscribers, Sleep(s), sub[s].pc = "idle",
         sock[s].pc \in {"check", "again"}, sock[s].limit # -1 => Adds(sock[s], sock[s].ts)
  PROVE  /\ SocketInv' /\ sock'[s].pc = "sleep"
         /\ \A t \in Subscribers : t # s => sock'[t] = sock[t]
  <1> DEFINE old == sock[s]
             r == [old EXCEPT !.pc = "sleep", !.left = old.ts]
  <1>0. old \in SockRecord /\ LocalsOK(old)
    BY DEF SocketInv, SockInv
  <1>1. SetSock(s, r) /\ UNCHANGED sub
    BY DEF Sleep, vars
  <1>2. old.ts \in Nat
    BY <1>0, RecordFacts
  <1>3. /\ r \in SockRecord /\ r.pc = "sleep" /\ r.op = old.op /\ r.limit = old.limit
        /\ r.ts = old.ts /\ r.left = old.ts /\ r.slept = old.slept /\ r.seen = old.seen
    BY <1>0, <1>2 DEF SockRecord, SockPC
  <1> HIDE DEF r
  <1>4. Longest(r) = Longest(old)
    BY <1>3 DEF Longest
  <1>5. LocalsOK(r) /\ InStep(r, sub'[s])
    BY <1>0, <1>1, <1>2, <1>3, <1>4 DEF LocalsOK, InStep
  <1>6. r.limit # -1 => TimeOK(r)
    BY <1>3 DEF TimeOK, Adds
  <1> QED
    BY <1>1, <1>3, <1>5, <1>6, SockStep

(* The call into msgq.cc has returned, and the socket goes on.             *)
LEMMA ReturnedInv ==
  ASSUME SocketInv, IInv', NEW s \in Subscribers,
         Received(s) \/ NotReceived(s) \/ Checked(s) \/ CheckedAgain(s)
  PROVE  /\ SocketInv' /\ GivesUp(s)
         /\ \A t \in Subscribers : t # s => sock'[t] = sock[t]
  <1> DEFINE old == sock[s]
  <1>0. old \in SockRecord /\ LocalsOK(old) /\ (old.limit # -1 => TimeOK(old))
    BY DEF SocketInv, SockInv
  <1>1. /\ old.limit \in Int /\ old.ts \in Nat /\ old.left \in Nat /\ old.slept \in Nat
        /\ old.n \in {-1, 0, 1} /\ old.seen \in BOOLEAN /\ old.timeout \in Timeouts \cup {-1}
        /\ old.full \in BOOLEAN /\ (old.limit # -1 => old.limit \in Nat)
    BY <1>0, RecordFacts
  <1>2. CASE Received(s)
    <2>1. SetSock(s, AtRest(old.timeout, "msg")) /\ UNCHANGED sub
      BY <1>2 DEF Received, Return, vars
    <2> QED
      BY <1>1, <2>1, RestInv DEF GivesUp
  <1>3. CASE NotReceived(s)
    <2>0. old.pc = "recv"
      BY <1>3 DEF NotReceived, Returned
    <2>1. CASE old.op = "blocking" /\ (old.limit = -1 \/ old.n # 0)
      <3>1. StartPoll(s, old)
        BY <1>3, <2>1 DEF NotReceived
      <3>2. old.limit \in Timeouts \cup {-1} /\ old.left <= Longest(old)
        <4>1. old.limit \in Timeouts \cup {-1} /\ old.left <= old.ts /\ old.ts <= Longest(old)
          BY <1>0, <2>0 DEF LocalsOK
        <4>2. Longest(old) \in Int
          BY <1>1, TimeoutsAssumption DEF Longest
        <4> QED
          BY <1>1, <4>1, <4>2
      <3>3. old.limit = -1 \/ old.seen \/ old.slept = 0
        BY <1>0, <1>1, <2>0, <2>1 DEF TimeOK
      <3> QED
        BY <1>0, <2>1, <3>1, <3>2, <3>3, StartPollInv DEF GivesUp
    <2>2. CASE ~(old.op = "blocking" /\ (old.limit = -1 \/ old.n # 0))
      <3>1. SetSock(s, AtRest(old.timeout, "none")) /\ UNCHANGED sub
        BY <1>3, <2>2 DEF NotReceived, Return, vars
      <3>2. old.op = "blocking" => old.limit # -1 /\ old.slept >= old.limit
        BY <1>0, <1>1, <2>0, <2>2 DEF TimeOK, Adds
      <3>3. old.op # "poll"
        BY <1>0, <2>0 DEF LocalsOK
      <3> QED
        BY <1>1, <3>1, <3>2, <3>3, RestInv DEF GivesUp
    <2> QED
      BY <2>1, <2>2
  <1>4. CASE Checked(s)
    <2>0. old.pc = "check" /\ sub[s].pc = "idle"
      BY <1>4 DEF Checked, Returned
    <2>1. CASE PollReturn(s, 1)
      BY <2>0, <2>1, PollReturnInv
    <2>2. CASE Sleep(s)
      <3>1. old.limit # -1 => Adds(old, old.ts)
        BY <1>0, <1>1, <2>0 DEF TimeOK, Adds
      <3> QED
        BY <2>0, <2>2, <3>1, SleepInv DEF GivesUp
    <2> QED
      BY <1>4, <2>1, <2>2 DEF Checked
  <1>5. CASE CheckedAgain(s)
    <2>0. old.pc = "again" /\ sub[s].pc = "idle"
      BY <1>5 DEF CheckedAgain, Returned
    <2>1. CASE PollReturn(s, 1)
      BY <2>0, <2>1, PollReturnInv
    <2>2. CASE old.full /\ ~(old.op = "poll" /\ old.limit = -1) /\ PollReturn(s, 0)
      <3>1. old.limit # -1 => Adds(old, 0)
        BY <1>0, <2>0, <2>2 DEF TimeOK
      <3> QED
        BY <2>0, <2>2, <3>1, PollReturnInv
    <2>3. CASE ~(old.full /\ ~(old.op = "poll" /\ old.limit = -1)) /\ Sleep(s)
      <3>1. old.limit # -1 => Adds(old, old.ts)
        BY <1>0, <1>1, <2>0, <2>3 DEF TimeOK
      <3> QED
        BY <2>0, <2>3, <3>1, SleepInv DEF GivesUp
    <2> QED
      BY <1>5, <2>1, <2>2, <2>3 DEF CheckedAgain
  <1> QED
    BY <1>2, <1>3, <1>4, <1>5

(* The sleep goes on, or ends.                                             *)
LEMMA SleptInv ==
  ASSUME SocketInv, IInv', NEW s \in Subscribers, Tick(s) \/ SleepEnds(s) \/ Interrupted(s)
  PROVE  /\ SocketInv' /\ GivesUp(s)
         /\ \A t \in Subscribers : t # s => sock'[t] = sock[t]
  <1> DEFINE old == sock[s]
  <1>0. old \in SockRecord /\ LocalsOK(old) /\ InStep(old, sub[s]) /\ (old.limit # -1 => TimeOK(old))
    BY DEF SocketInv, SockInv
  <1>1. /\ old.limit \in Int /\ old.ts \in Nat /\ old.left \in Nat /\ old.slept \in Nat
        /\ old.seen \in BOOLEAN /\ (old.limit # -1 => old.limit \in Nat)
    BY <1>0, RecordFacts
  <1>2. CASE Tick(s)
    <2> DEFINE left == old.left - 1
               slept == IF old.slept < SleptBound THEN old.slept + 1 ELSE old.slept
               r == [old EXCEPT !.left = left, !.slept = slept]
    <2>1. SetSock(s, r) /\ UNCHANGED sub /\ old.pc = "sleep" /\ old.left > 0
      BY <1>2 DEF Tick, vars
    <2>2. left \in Nat /\ left + 1 = old.left /\ slept \in Nat
      BY <1>1, <2>1
    <2>3. old.limit # -1 => old.limit < SleptBound /\ SleptBound \in Int
      BY <1>0, <2>1, BoundFacts DEF LocalsOK
    <2>4. (slept = old.slept + 1 \/ (slept = old.slept /\ old.slept >= SleptBound)) /\ slept >= old.slept
      BY <1>1, BoundFacts
    <2> HIDE DEF left, slept
    <2>5. /\ r \in SockRecord /\ r.pc = "sleep" /\ r.op = old.op /\ r.limit = old.limit
          /\ r.ts = old.ts /\ r.left = left /\ r.slept = slept /\ r.seen = old.seen
      BY <1>0, <2>1, <2>2 DEF SockRecord
    <2> HIDE DEF r
    <2>6. Longest(r) = Longest(old)
      BY <2>5 DEF Longest
    <2>7. left <= old.ts
      <3>1. old.left <= old.ts
        BY <1>0 DEF LocalsOK
      <3> QED
        BY <1>1, <2>2, <3>1
    <2>8. LocalsOK(r) /\ InStep(r, sub'[s])
      BY <1>0, <2>1, <2>5, <2>6, <2>7 DEF LocalsOK, InStep
    <2>9. ASSUME r.limit # -1 PROVE TimeOK(r)
      <3>1. Adds(old, old.left) /\ old.limit \in Nat
        BY <1>0, <1>1, <2>1, <2>5, <2>9 DEF TimeOK
      <3>2. slept + left >= old.limit
        BY <1>1, <2>2, <2>3, <2>4, <2>5, <2>9, <3>1 DEF Adds
      <3>3. ~old.seen => slept + left <= old.limit
        BY <1>1, <2>2, <2>3, <2>4, <2>5, <2>9, <3>1 DEF Adds
      <3> QED
        BY <2>5, <3>2, <3>3 DEF TimeOK, Adds
    <2>10. SocketInv' /\ sock'[s] = r /\ \A t \in Subscribers : t # s => sock'[t] = sock[t]
      BY <2>1, <2>5, <2>8, <2>9, SockStep
    <2> QED
      BY <2>5, <2>10 DEF GivesUp
  <1>3. ASSUME NEW b \in BOOLEAN, BeginReady(s), SetSock(s, [old EXCEPT !.pc = "again", !.full = b]),
               (old.pc = "sleep" /\ old.left = 0 /\ b) \/ (old.pc = "woken" /\ ~b)
        PROVE  /\ SocketInv' /\ GivesUp(s) /\ \A t \in Subscribers : t # s => sock'[t] = sock[t]
    <2> DEFINE r == [old EXCEPT !.pc = "again", !.full = b]
    <2>1. SetSock(s, r)
      BY <1>3
    <2>2. /\ r \in SockRecord /\ r.pc = "again" /\ r.op = old.op /\ r.limit = old.limit /\ r.full = b
          /\ r.ts = old.ts /\ r.left = old.left /\ r.slept = old.slept /\ r.seen = old.seen
      BY <1>0 DEF SockRecord, SockPC
    <2> HIDE DEF r
    <2>3. /\ sub'[s].pc = "check_uid" /\ sub'[s].op = "ready"
          /\ \A u \in Subscribers : u # s => sub'[u] = sub[u]
      BY <1>3, CallFacts DEF BeginReady
    <2>4. Longest(r) = Longest(old)
      BY <2>2 DEF Longest
    <2>5. LocalsOK(r) /\ InStep(r, sub'[s])
      BY <1>0, <1>3, <2>2, <2>3, <2>4 DEF LocalsOK, InStep
    <2>6. ASSUME r.limit # -1 PROVE TimeOK(r)
      <3>1. b => Adds(old, 0)
        BY <1>0, <1>3, <2>2, <2>6 DEF TimeOK
      <3>2. ~b => Adds(old, old.ts)
        BY <1>0, <1>3, <2>2, <2>6 DEF TimeOK
      <3> QED
        BY <2>2, <3>1, <3>2 DEF TimeOK, Adds
    <2>7. SocketInv' /\ sock'[s] = r /\ \A t \in Subscribers : t # s => sock'[t] = sock[t]
      BY <2>1, <2>2, <2>3, <2>5, <2>6, SockStep
    <2> QED
      BY <2>2, <2>7 DEF GivesUp
  <1>4. CASE SleepEnds(s)
    <2>1. BeginReady(s) /\ SetSock(s, [old EXCEPT !.pc = "again", !.full = TRUE])
      BY <1>4 DEF SleepEnds
    <2>2. old.pc = "sleep" /\ old.left = 0
      BY <1>4 DEF SleepEnds
    <2> QED
      BY <1>3, <2>1, <2>2
  <1>5. CASE Interrupted(s)
    <2>1. BeginReady(s) /\ SetSock(s, [old EXCEPT !.pc = "again", !.full = FALSE])
      BY <1>5 DEF Interrupted
    <2>2. old.pc = "woken"
      BY <1>5 DEF Interrupted
    <2> QED
      BY <1>3, <2>1, <2>2
  <1> QED
    BY <1>2, <1>4, <1>5

(* A step of the queue, which may interrupt a sleep.                       *)
LEMMA SignalInv ==
  ASSUME SocketInv, IInv', \A t \in Subscribers : InStep(sock[t], sub'[t]),
         UNCHANGED sock \/ \E u : Signal(u)
  PROVE  SocketInv' /\ \A t \in Subscribers : sock'[t].pc = "idle" => sock'[t] = sock[t]
  <1>0. DOMAIN sock = Subscribers /\ \A t \in Subscribers : SockInv(t)
    BY DEF SocketInv
  <1>1. CASE UNCHANGED sock
    BY <1>0, <1>1 DEF SocketInv, SockInv
  <1>2. ASSUME NEW u, Signal(u)
        PROVE  SocketInv' /\ \A t \in Subscribers : sock'[t].pc = "idle" => sock'[t] = sock[t]
    <2>1. DOMAIN sock' = Subscribers
      BY <1>2 DEF Signal
    <2>2. ASSUME NEW t \in Subscribers
          PROVE  SockInv(t)' /\ (sock'[t].pc = "idle" => sock'[t] = sock[t])
      <3> DEFINE old == sock[t]
                 r == [old EXCEPT !.pc = "woken", !.ts = old.left]
      <3>0. SockInv(t) /\ InStep(old, sub'[t])
        BY <1>0
      <3>1. CASE t = u /\ old.pc = "sleep"
        <4>1. sock'[t] = r
          BY <1>2, <3>1 DEF Signal
        <4>2. old \in SockRecord
          BY <3>0 DEF SockInv
        <4>3. old.left \in Nat /\ old.ts \in Nat /\ old.limit \in Int
          BY <4>2, RecordFacts
        <4>4. /\ r \in SockRecord /\ r.pc = "woken" /\ r.op = old.op /\ r.limit = old.limit
              /\ r.ts = old.left /\ r.left = old.left /\ r.slept = old.slept /\ r.seen = old.seen
          BY <4>2, <4>3 DEF SockRecord, SockPC
        <4> HIDE DEF r
        <4>5. Longest(r) = Longest(old) /\ Longest(old) \in Int
          BY <4>3, <4>4, TimeoutsAssumption DEF Longest
        <4>6. old.left <= old.ts /\ old.ts <= Longest(old)
          BY <3>0, <3>1 DEF SockInv, LocalsOK
        <4>7. old.left <= Longest(old)
          BY <4>3, <4>5, <4>6
        <4>8. LocalsOK(r) /\ InStep(r, sub'[t])
          BY <3>0, <3>1, <4>3, <4>4, <4>5, <4>7 DEF SockInv, LocalsOK, InStep
        <4>9. r.limit # -1 => TimeOK(r)
          BY <3>0, <3>1, <4>4 DEF SockInv, TimeOK, Adds
        <4> QED
          BY <4>1, <4>4, <4>8, <4>9 DEF SockInv
      <3>2. CASE ~(t = u /\ old.pc = "sleep")
        <4>1. sock'[t] = old
          BY <1>2, <3>2 DEF Signal
        <4> QED
          BY <3>0, <4>1 DEF SockInv
      <3> QED
        BY <3>1, <3>2
    <2> QED
      BY <2>1, <2>2 DEF SocketInv
  <1> QED
    BY <1>1, <1>2

(* A step of a subscriber's call leaves its socket in step.                *)
LEMMA ProceedsInStep ==
  ASSUME SocketInv, NEW s \in Subscribers, Proceeds(s)
  PROVE  \A t \in Subscribers : InStep(sock[t], sub'[t])
  <1>1. PICK r \in Subscriber :
          sub' = [sub EXCEPT ![s] = r] /\ r.op \in {sub[s].op, "none"} /\ r.pc # "closed"
    BY DEF Proceeds
  <1>2. sub \in [Subscribers -> Subscriber] /\ sub[s].pc # "idle"
    BY DEF SocketInv, IInv, TypeOK, Proceeds
  <1>3. sub'[s] = r /\ \A t \in Subscribers : t # s => sub'[t] = sub[t]
    BY <1>1, <1>2
  <1>4. ASSUME NEW t \in Subscribers PROVE InStep(sock[t], sub'[t])
    <2>1. InStep(sock[t], sub[t])
      BY DEF SocketInv, SockInv
    <2>2. CASE t = s
      BY <1>1, <1>2, <1>3, <2>1, <2>2 DEF InStep
    <2>3. CASE t # s
      BY <1>3, <2>1, <2>3
    <2> QED
      BY <2>2, <2>3
  <1> QED
    BY <1>4

(* Publishers leave the locals of subscribers alone.                       *)
LEMMA PublisherKeepsSub ==
  ASSUME NEW p \in Publishers, PublisherNext(p)
  PROVE  UNCHANGED sub
  <1>1. InitPublisher(p) => UNCHANGED sub
    BY DEF InitPublisher, StoreWriteUid, ZeroNumReaders, WipeValid, WipeUid
  <1>2. (\E n \in MsgSizes : BeginSend(p, n)) => UNCHANGED sub
    BY DEF BeginSend
  <1>3. SendStep(p) => UNCHANGED sub
    BY DEF SendStep, CheckWriteUid, LoadNumReaders, LoadWritePointer, StoreWrapTag, StoreWrap,
           CheckSlot, Invalidate, StoreSize, StorePayload, StoreWritePointer, Notify
  <1>4. BeginUpdated(p) \/ UpdatedStep(p) => UNCHANGED sub
    BY DEF BeginUpdated, UpdatedStep, UpdatedValid, UpdatedWritePointer, UpdatedReadPointer
  <1> QED
    BY <1>1, <1>2, <1>3, <1>4 DEF PublisherNext
-----------------------------------------------------------------------------
(* The invariant holds at first.                                           *)
LEMMA InitSocket == SocketInit => SocketInv
  <1> SUFFICES ASSUME SocketInit PROVE SocketInv
    OBVIOUS
  <1>1. IInv
    BY InitInv DEF SocketInit
  <1>2. DOMAIN sock = Subscribers
    BY DEF SocketInit
  <1>3. ASSUME NEW s \in Subscribers PROVE SockInv(s)
    <2> DEFINE r == AtRest(-1, "none")
    <2>1. sock[s] = r
      BY DEF SocketInit
    <2>2. r \in SockRecord /\ LocalsOK(r) /\ TimeOK(r) /\ InStep(r, sub[s])
      BY RestFacts
    <2> HIDE DEF r
    <2> QED
      BY <2>1, <2>2 DEF SockInv
  <1> QED
    BY <1>1, <1>2, <1>3 DEF SocketInv

(* Every step keeps it, and gives up only when the timeout has passed.     *)
LEMMA NextSocket ==
  ASSUME SocketInv, [SocketNext]_sockVars
  PROVE  SocketInv' /\ \A t \in Subscribers : GivesUp(t)
  <1>0. IInv'
    BY SocketMoves, NextInv DEF SocketInv
  <1>1. \A t \in Subscribers : InStep(sock[t], sub[t]) /\ (sock[t].pc = "idle" => sock[t].op = "none")
    BY DEF SocketInv, SockInv, LocalsOK
  <1>2. ASSUME NEW s \in Subscribers, SocketInv', GivesUp(s),
               \A t \in Subscribers : t # s => sock'[t] = sock[t]
        PROVE  \A t \in Subscribers : GivesUp(t)
    BY <1>1, <1>2 DEF GivesUp
  <1>3. ASSUME NEW s \in Subscribers, SocketCall(s)
        PROVE  SocketInv' /\ \A t \in Subscribers : GivesUp(t)
    <2>1. GivesUp(s)
      BY <1>0, <1>3, CallInv DEF GivesUp
    <2> QED
      BY <1>0, <1>2, <1>3, <2>1, CallInv
  <1>4. ASSUME NEW s \in Subscribers,
               \/ Received(s) \/ NotReceived(s) \/ Checked(s) \/ CheckedAgain(s)
               \/ Tick(s) \/ SleepEnds(s) \/ Interrupted(s)
        PROVE  SocketInv' /\ \A t \in Subscribers : GivesUp(t)
    BY <1>0, <1>2, <1>4, ReturnedInv, SleptInv
  <1>5. ASSUME \A t \in Subscribers : InStep(sock[t], sub'[t]), UNCHANGED sock \/ \E u : Signal(u)
        PROVE  SocketInv' /\ \A t \in Subscribers : GivesUp(t)
    <2>1. SocketInv' /\ \A t \in Subscribers : sock'[t].pc = "idle" => sock'[t] = sock[t]
      BY <1>0, <1>5, SignalInv
    <2> QED
      BY <1>1, <2>1 DEF GivesUp
  <1>6. ASSUME NEW p \in Publishers, PublisherSignals(p)
        PROVE  SocketInv' /\ \A t \in Subscribers : GivesUp(t)
    <2>1. UNCHANGED sub /\ (UNCHANGED sock \/ \E u : Signal(u))
      BY <1>6, PublisherKeepsSub DEF PublisherSignals
    <2> QED
      BY <1>1, <1>5, <2>1
  <1>7. ASSUME NEW s \in Subscribers, SubscriberSignals(s)
        PROVE  SocketInv' /\ \A t \in Subscribers : GivesUp(t)
    <2>1. SubscriberStep(s) /\ (UNCHANGED sock \/ \E u : Signal(u))
      BY <1>7 DEF SubscriberSignals
    <2>2. Proceeds(s)
      BY <1>0, <2>1, StepProceeds DEF SocketInv
    <2> QED
      BY <1>5, <2>1, <2>2, ProceedsInStep
  <1>8. ASSUME NEW s \in Subscribers, SocketConnect(s)
        PROVE  SocketInv' /\ \A t \in Subscribers : GivesUp(t)
    <2>1. sub[s].pc = "closed" /\ UNCHANGED sock
      BY <1>8 DEF SocketConnect, Connect
    <2>2. \A t \in Subscribers : t # s => sub'[t] = sub[t]
      BY <1>8 DEF SocketConnect, Connect, SetSub, SocketInv, IInv, TypeOK
    <2>3. sock[s].pc = "idle"
      BY <1>1, <2>1 DEF InStep
    <2>4. \A t \in Subscribers : InStep(sock[t], sub'[t])
      BY <1>1, <2>2, <2>3 DEF InStep
    <2> QED
      BY <1>5, <2>1, <2>4
  <1>9. CASE UNCHANGED sockVars
    BY <1>1, <1>5, <1>9 DEF sockVars, vars
  <1> QED
    BY <1>3, <1>4, <1>6, <1>7, <1>8, <1>9 DEF SocketNext, SocketStep

(* The inductive invariant, in every behaviour.                            *)
THEOREM AlwaysSocket == SocketSpec => []SocketInv
  <1>1. SocketInv /\ [SocketNext]_sockVars => SocketInv'
    BY NextSocket
  <1> QED
    BY <1>1, InitSocket, PTL DEF SocketSpec

(* SubSocket::receive and Poller::poll use the queue as its specification  *)
(* says, so that what is proved of the queue holds under the sockets too.  *)
THEOREM SocketsUseQueue == SocketSpec => Spec
  <1>1. SocketInit => Init
    BY DEF SocketInit
  <1> QED
    BY <1>1, SocketMoves, PTL DEF SocketSpec, Spec

(* A receive of SubSocket::receive sleeps longer than its timeout only if  *)
(* a poll of it has seen a message, which was gone when it was to be       *)
(* received, and the receive started over.                                 *)
THEOREM LateOnlyIfSeen == SocketSpec => []OverdueOnlyIfSeen
  <1>1. ASSUME SocketInv, NEW s \in Subscribers, sock[s].limit # -1, sock[s].slept > sock[s].limit
        PROVE  sock[s].seen
    <2> DEFINE r == sock[s]
    <2>1. r \in SockRecord /\ LocalsOK(r) /\ TimeOK(r) /\ r.pc \in SockPC
      BY <1>1 DEF SocketInv, SockInv, SockRecord
    <2>2. /\ r.limit \in Nat /\ r.slept \in Nat /\ r.left \in Nat /\ r.ts \in Nat /\ r.n \in {-1, 0, 1}
      BY <1>1, <2>1, RecordFacts
    <2>3. CASE r.pc = "idle"
      BY <1>1, <2>1, <2>2, <2>3 DEF LocalsOK
    <2>4. CASE r.pc \in {"recv", "check"}
      BY <1>1, <2>1, <2>2, <2>4 DEF TimeOK, Adds
    <2>5. CASE r.pc \in {"sleep", "woken", "again"}
      BY <1>1, <2>1, <2>2, <2>5 DEF TimeOK, Adds
    <2> QED
      BY <2>1, <2>3, <2>4, <2>5 DEF SockPC
  <1>2. SocketInv => OverdueOnlyIfSeen
    BY <1>1 DEF OverdueOnlyIfSeen
  <1> QED
    BY <1>2, AlwaysSocket, PTL

(* A receive or a poll gives up only after it has slept its whole timeout, *)
(* whatever signals cut its sleeps, and never without a timeout.           *)
THEOREM NeverGivesUpEarly == SocketSpec => NoEarlyTimeout
  <1>1. SocketInv /\ [SocketNext]_sockVars => [NotBeforeTimeout]_sockVars
    BY NextSocket DEF GivesUp, NotBeforeTimeout
  <1> QED
    BY <1>1, AlwaysSocket, PTL DEF SocketSpec, NoEarlyTimeout
=============================================================================

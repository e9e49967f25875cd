-------------------------- MODULE VisionIpcProofs --------------------------
(***************************************************************************)
(* Clients of the frame server hold what they count, read the frames that  *)
(* were announced, and fail only through their server, for any number of   *)
(* servers, clients, buffers and frames.                                   *)
(***************************************************************************)
EXTENDS VisionIpc, TLAPS

-----------------------------------------------------------------------------
Peers    == Servers \cup Clients
MainPC   == {"new", "created", "running", "writing", "sending", "wake", "hangup", "join",
             "closed", "dead"}
ListenPC == {"none", "bind", "poll", "request", "reply", "close", "unlink", "exited"}
ClientPC == {"idle", "connect", "request", "reply", "poll", "aborted", "dead"}

Content == [server : Servers \cup {NoServer}, turn : Nat]
Buffer  == [server : Servers \cup {NoServer}, idx : Nat]
Packet  == [server : Servers \cup {NoServer}, idx : Nat, turn : Nat]

ServerRecord(s) ==
  [main : MainPC, listener : ListenPC, should_exit : BOOLEAN, cur_idx : Nat, idx : Nat,
   turn : Nat, explicit : Nat, frames : [0 .. NumBuffers[s] - 1 -> Content],
   fd : Peers \cup {NoServer}]
ClientRecord ==
  [pc : ClientPC, op : {"none", "list", "stream"}, blocking : BOOLEAN, connected : BOOLEAN,
   num_buffers : Nat, buffers : [0 .. MaxBuffers - 1 -> Buffer], mapped : SUBSET Buffer,
   evicted : BOOLEAN, pending : Seq(Packet), held : Packet]
ConnRecord ==
  [to : Servers \cup {NoServer}, st : {"none", "open", "closed", "eof", "reset"},
   req : {"none", "list", "stream"}, reply : {"none", "list", "stream"}]

VisionTypeOK ==
  /\ path \in Servers \cup {NoServer} /\ active \in Servers \cup {NoServer}
  /\ DOMAIN server = Servers /\ \A s \in Servers : server[s] \in ServerRecord(s)
  /\ client \in [Clients -> ClientRecord]
  /\ conn \in [Peers -> ConnRecord]
  /\ backlog \in [Servers -> Seq(Peers)]

-----------------------------------------------------------------------------
(* A server writes its buffers in turn, unless it was asked for one: then  *)
(* the frames after that one are in turn.                                  *)
ServerInv(s) ==
  LET r == server[s]
      n == NumBuffers[s] IN
    /\ r.explicit <= r.turn
    /\ Serving(s) => r.cur_idx < n
    /\ r.main \in {"writing", "sending"} =>
         /\ r.idx < n
         /\ r.explicit < r.turn => r.cur_idx = r.idx + 1 \/ r.cur_idx = r.idx + 1 - n
    /\ r.main = "sending" => r.frames[r.idx] = [server |-> s, turn |-> r.turn]

(* The frame of a packet is there, until the server comes round again.     *)
FreshIn(srv, p) ==
  LET r == srv[p.server]
      n == NumBuffers[p.server]
      k == r.turn - p.turn IN
    /\ p.server \in Servers /\ p.idx < n /\ p.turn <= r.turn
    /\ r.main \in {"writing", "sending"} => p.turn < r.turn
    /\ k < n /\ r.explicit < p.turn =>
         /\ r.frames[p.idx] = [server |-> p.server, turn |-> p.turn]
         /\ r.cur_idx = p.idx + 1 + k \/ r.cur_idx = p.idx + 1 + k - n

(* What a client has mapped, and the frame it holds.                       *)
MapInv(c) ==
  LET r == client[c] IN
    /\ r.num_buffers <= MaxBuffers
    /\ r.mapped = {r.buffers[i] : i \in 0 .. r.num_buffers - 1}
    /\ \A i \in 0 .. MaxBuffers - 1 : r.buffers[i].server # NoServer => r.buffers[i].idx = i
HeldInv(c) ==
  LET r == client[c] IN
    /\ r.held # NoFrame => /\ r.op # "stream"
                           /\ r.held.idx < r.num_buffers
                           /\ r.buffers[r.held.idx].server = r.held.server
                           /\ FreshIn(server, r.held)
    /\ \A j \in DOMAIN r.pending : FreshIn(server, r.pending[j])

-----------------------------------------------------------------------------
(* A server has died; a server has died or was told to exit.               *)
Died    == \E s \in Servers : server[s].main = "dead"
Leaving == \E s \in Servers : server[s].should_exit \/ server[s].main = "dead"

(* The connections a listener knows are in its hands only.                 *)
ListenerInv(s) ==
  LET r == server[s]
      q == backlog[s] IN
    /\ \A i \in DOMAIN q : conn[q[i]].to = s /\ conn[q[i]].st \in {"open", "closed"}
    /\ \A i, j \in DOMAIN q : q[i] = q[j] => i = j
    /\ r.fd # NoServer <=> r.listener \in {"request", "reply"}
    /\ r.fd # NoServer => /\ conn[r.fd].to = s /\ conn[r.fd].st \in {"open", "closed"}
                          /\ \A i \in DOMAIN q : q[i] # r.fd
    /\ r.listener = "reply" => conn[r.fd].req # "none"
    /\ r.listener = "close" => r.should_exit
    /\ r.main \in {"new", "created"} => r.listener = "none"
    /\ r.main \in {"new", "created", "running", "writing", "sending", "wake"} => conn[s] = NoConn
    /\ r.main = "hangup" => conn[s].st \in {"open", "eof", "reset"}

(* What a client in a call may find.                                       *)
CallInv(c) ==
  LET r == client[c] IN
    /\ r.pc \in {"idle", "connect", "poll"} => conn[c] = NoConn
    /\ r.pc \in {"connect", "request", "reply"} => r.op # "none"
    /\ r.pc \in {"idle", "poll"} => r.op = "none"
    /\ r.pc \in {"request", "reply"} =>
         /\ conn[c].to \in Servers /\ conn[c].st \in {"open", "eof", "reset"}
         /\ conn[c].st = "reset" => Leaving
    /\ r.pc = "request" => /\ conn[c].req = "none"
                           /\ conn[c].st = "eof" => Died
    /\ r.pc = "reply" =>
         /\ conn[c].req = r.op
         /\ conn[c].st = "eof" => \/ Died \/ conn[c].reply = r.op
                                  \/ \E s \in Servers : ~Serving(s)

VisionInv ==
  /\ VisionTypeOK
  /\ \A s \in Servers : ServerInv(s) /\ ListenerInv(s)
  /\ \A c \in Clients : MapInv(c) /\ HeldInv(c) /\ CallInv(c)
  /\ FailsOnlyWithServer
-----------------------------------------------------------------------------
(* Some server has the most buffers.                                       *)
LEMMA MaxFacts == MaxBuffers \in Nat /\ \A s \in Servers : NumBuffers[s] <= MaxBuffers
  <1> DEFINE n == {NumBuffers[s] : s \in Servers}
  <1>1. PICK m \in Servers : \A s \in Servers : NumBuffers[s] <= NumBuffers[m]
    BY VisionAssumption
  <1>2. NumBuffers[m] \in n /\ \A k \in n : k <= NumBuffers[m]
    BY <1>1
  <1>3. MaxBuffers = CHOOSE x \in n : \A k \in n : k <= x
    BY DEF MaxBuffers
  <1>4. MaxBuffers \in n /\ \A k \in n : k <= MaxBuffers
    BY <1>2, <1>3
  <1>5. n \subseteq Nat
    BY VisionAssumption
  <1> QED
    BY <1>4, <1>5

(* The next buffer, and the buffers of the frames before it.               *)
LEMMA NextIndex ==
  ASSUME NEW n \in Nat, NEW x \in Nat, x < n
  PROVE  (x + 1) % n = IF x + 1 = n THEN 0 ELSE x + 1
  <1> DEFINE q == (x + 1) \div n
             m == (x + 1) % n
  <1>1. q \in Nat /\ m \in Nat /\ m < n /\ x + 1 = n * q + m
    OBVIOUS
  <1> HIDE DEF q, m
  <1>2. q = 0 \/ q = 1 \/ q >= 2
    BY <1>1
  <1>3. q >= 2 => n * q >= 2 * n
    BY <1>1
  <1>4. ~(q >= 2)
    BY <1>1, <1>3
  <1>5. n * 0 = 0 /\ n * 1 = n
    OBVIOUS
  <1>6. q = 0 => m = x + 1
    BY <1>1, <1>5
  <1>7. q = 1 => m = x + 1 - n
    BY <1>1, <1>5
  <1> QED
    BY <1>1, <1>2, <1>4, <1>6, <1>7 DEF m

(* The next index of a ring is not the one that was left fewer than a     *)
(* full turn ago.                                                         *)
LEMMA Ring ==
  ASSUME NEW n \in Nat, NEW x \in Nat, NEW k \in Nat, NEW i \in Nat, NEW j \in Nat,
         x < n, k + 1 < n, i < n, j < n,
         i = x + 1 + k \/ i = x + 1 + k - n, j = i + 1 \/ j = i + 1 - n
  PROVE  i # x /\ (j = x + 1 + (k + 1) \/ j = x + 1 + (k + 1) - n)
  OBVIOUS

(* Nor is the index before it.                                            *)
LEMMA RingApart ==
  ASSUME NEW n \in Nat, NEW x \in Nat, NEW k \in Nat, NEW i \in Nat, NEW j \in Nat,
         x < n, 0 < k, k < n, i < n,
         j = x + 1 + k \/ j = x + 1 + k - n, j = i + 1 \/ j = i + 1 - n
  PROVE  i # x
  OBVIOUS

(* The records that stand for nothing.                                     *)
LEMMA NothingFacts ==
  /\ NoServer \notin Servers /\ NoServer \notin Peers
  /\ Torn \in Content /\ NoFrame \in Packet /\ NoConn \in ConnRecord
  /\ NoFrame.server = NoServer /\ NoConn.to = NoServer /\ NoConn.st = "none"
  /\ NoConn.req = "none"
  /\ \A s \in Servers : NumBuffers[s] \in Nat
  BY VisionAssumption DEF Peers, Torn, Content, NoFrame, Packet, NoConn, ConnRecord

(* One server's record changes, or one client's.                           *)
LEMMA SetServerFacts ==
  ASSUME VisionTypeOK, NEW s \in Servers, NEW r \in ServerRecord(s), SetServer(s, r)
  PROVE  /\ DOMAIN server' = Servers /\ server'[s] = r
         /\ \A t \in Servers : t # s => server'[t] = server[t]
         /\ \A t \in Servers : server'[t] \in ServerRecord(t)
  BY DEF VisionTypeOK, SetServer

(* A step of one client leaves the others alone.                          *)
LEMMA SetClientFacts ==
  ASSUME VisionTypeOK, NEW c \in Clients, NEW r \in ClientRecord, SetClient(c, r)
  PROVE  /\ client' \in [Clients -> ClientRecord] /\ client'[c] = r
         /\ \A d \in Clients : d # c => client'[d] = client[d]
  BY DEF VisionTypeOK, SetClient

(* What a record of a server consists of.                                  *)
LEMMA ServerFields ==
  ASSUME NEW s \in Servers, NEW r \in ServerRecord(s)
  PROVE  /\ r.main \in MainPC /\ r.listener \in ListenPC /\ r.should_exit \in BOOLEAN
         /\ r.cur_idx \in Nat /\ r.idx \in Nat /\ r.turn \in Nat /\ r.explicit \in Nat
         /\ r.frames \in [0 .. NumBuffers[s] - 1 -> Content] /\ r.fd \in Peers \cup {NoServer}
         /\ NumBuffers[s] \in Nat
  BY VisionAssumption DEF ServerRecord

(* The part of a record that the frames are about is the same.             *)
SameFrames(r, q) ==
  /\ r.cur_idx = q.cur_idx /\ r.idx = q.idx /\ r.turn = q.turn /\ r.explicit = q.explicit
  /\ r.frames = q.frames
  /\ r.main = q.main \/ r.main \notin {"writing", "sending"}

(* A server that is gone stays so.                                         *)
GoesOn(r, q) == /\ q.main = "dead" => r.main = "dead"
                /\ q.should_exit => r.should_exit

(* A step that writes no frame keeps what is said about the frames.        *)
LEMMA FramesKept ==
  ASSUME VisionInv, \A s \in Servers : SameFrames(server'[s], server[s])
  PROVE  /\ \A s \in Servers : ServerInv(s)'
         /\ \A p \in Packet : FreshIn(server, p) => FreshIn(server', p)
  <1>1. ASSUME NEW s \in Servers PROVE ServerInv(s)'
    <2>1. ServerInv(s) /\ SameFrames(server'[s], server[s])
      BY DEF VisionInv
    <2> QED
      BY <2>1 DEF ServerInv, SameFrames, Serving
  <1>2. ASSUME NEW p \in Packet, FreshIn(server, p) PROVE FreshIn(server', p)
    <2>1. p.server \in Servers
      BY <1>2 DEF FreshIn
    <2>2. SameFrames(server'[p.server], server[p.server])
      BY <2>1
    <2> QED
      BY <1>2, <2>2 DEF FreshIn, SameFrames
  <1> QED
    BY <1>1, <1>2

(* Clients that do not change keep what is said about them.                *)
LEMMA HeldKept ==
  ASSUME VisionInv, NEW c \in Clients, client'[c] = client[c],
         \A p \in Packet : FreshIn(server, p) => FreshIn(server', p)
  PROVE  MapInv(c)' /\ HeldInv(c)'
  <1>1. MapInv(c) /\ HeldInv(c) /\ client[c] \in ClientRecord
    BY DEF VisionInv, VisionTypeOK
  <1>2. client[c].held \in Packet /\ \A j \in DOMAIN client[c].pending : client[c].pending[j] \in Packet
    BY <1>1 DEF ClientRecord
  <1>3. MapInv(c)'
    BY <1>1 DEF MapInv
  <1>4. HeldInv(c)'
    BY <1>1, <1>2 DEF HeldInv
  <1> QED
    BY <1>3, <1>4

(* Who left, left.                                                         *)
LEMMA LeftKept ==
  ASSUME \A s \in Servers : GoesOn(server'[s], server[s])
  PROVE  (Died => Died') /\ (Leaving => Leaving')
  BY DEF GoesOn, Died, Leaving

(* A client that did not move keeps what is known of its call.            *)
LEMMA CallKept ==
  ASSUME VisionInv, NEW c \in Clients, client'[c].pc = client[c].pc, client'[c].op = client[c].op,
         conn'[c] = conn[c], Died => Died', Leaving => Leaving'
  PROVE  CallInv(c)'
  BY DEF VisionInv, CallInv

(* The last part of the invariant, for one client.                         *)
FailsInv(c) ==
  /\ client[c].pc = "aborted" => Leaving
  /\ client[c].connected /\ client[c].num_buffers = 0 => Died \/ \E s \in Servers : ~Serving(s)

(* The property, client by client.                                        *)
LEMMA FailsFacts == FailsOnlyWithServer <=> \A c \in Clients : FailsInv(c)
  BY DEF FailsOnlyWithServer, FailsInv, Leaving, Died

(* The same in the next state.                                            *)
LEMMA FailsNext == ASSUME \A c \in Clients : FailsInv(c)' PROVE FailsOnlyWithServer'
  BY DEF FailsOnlyWithServer, FailsInv, Leaving, Died

(* A client that neither aborts nor connects in this step goes on keeping *)
(* the property.                                                          *)
LEMMA FailsKept ==
  ASSUME FailsOnlyWithServer, NEW c \in Clients, Died => Died', Leaving => Leaving',
         client'[c].pc = client[c].pc \/ client'[c].pc # "aborted",
         ~client'[c].connected \/ (client'[c].connected = client[c].connected
                                     /\ client'[c].num_buffers = client[c].num_buffers)
  PROVE  FailsInv(c)'
  BY FailsFacts DEF FailsInv

(* A listener whose record, queue and connections do not change.           *)
LEMMA ListenerKept ==
  ASSUME VisionInv, NEW t \in Servers, server'[t] = server[t], backlog'[t] = backlog[t],
         \A y \in Peers : conn[y].to = t => conn'[y] = conn[y],
         conn[t] = NoConn => conn'[t] = NoConn,
         conn'[t].st = conn[t].st \/ conn'[t].st \in {"open", "eof", "reset"}
                                 \/ server[t].main # "hangup"
  PROVE  ListenerInv(t)'
  <1>1. ListenerInv(t) /\ server[t] \in ServerRecord(t) /\ backlog[t] \in Seq(Peers)
    BY DEF VisionInv, VisionTypeOK
  <1>2. server[t].fd \in Peers \cup {NoServer} /\ \A i \in DOMAIN backlog[t] : backlog[t][i] \in Peers
    BY <1>1 DEF ServerRecord
  <1>3. \A i \in DOMAIN backlog[t] : conn'[backlog[t][i]] = conn[backlog[t][i]]
    BY <1>1, <1>2 DEF ListenerInv
  <1>4. server[t].fd # NoServer => conn'[server[t].fd] = conn[server[t].fd]
    BY <1>1, <1>2 DEF ListenerInv
  <1> QED
    BY <1>1, <1>3, <1>4 DEF ListenerInv
-----------------------------------------------------------------------------
(* The server, the thread of the application.                              *)

(* A step of that thread that leaves connections alone.                    *)
LEMMA MainStep ==
  ASSUME VisionInv, NEW s \in Servers, UNCHANGED <<conn, backlog>>,
         \A t \in Servers : t # s => server'[t] = server[t],
         server'[s].listener = server[s].listener, server'[s].fd = server[s].fd,
         GoesOn(server'[s], server[s]),
         server'[s].main \in {"new", "created"} => server[s].main \in {"new", "created"},
         server'[s].main \in {"new", "created", "running", "writing", "sending", "wake"} =>
           server[s].main \in {"new", "created", "running", "writing", "sending", "wake"},
         server'[s].main # "hangup"
  PROVE  /\ \A t \in Servers : ListenerInv(t)'
         /\ Died => Died'
         /\ Leaving => Leaving'
  <1>1. ASSUME NEW t \in Servers, t # s PROVE ListenerInv(t)'
    BY <1>1, ListenerKept
  <1>2. ListenerInv(s)'
    <2>1. ListenerInv(s)
      BY DEF VisionInv
    <2> QED
      BY <2>1 DEF ListenerInv, GoesOn
  <1>3. \A t \in Servers : GoesOn(server'[t], server[t])
    BY DEF GoesOn
  <1> QED
    BY <1>1, <1>2, <1>3, LeftKept

(* Only main changes.                                                      *)
LEMMA MainFacts ==
  ASSUME VisionTypeOK, NEW s \in Servers, NEW pc \in MainPC, Main(s, pc)
  PROVE  LET r == server'[s] IN
           /\ DOMAIN server' = Servers /\ \A t \in Servers : server'[t] \in ServerRecord(t)
           /\ \A t \in Servers : t # s => server'[t] = server[t]
           /\ r.main = pc /\ r.listener = server[s].listener /\ r.fd = server[s].fd
           /\ r.should_exit = server[s].should_exit
           /\ pc \notin {"writing", "sending"} => SameFrames(r, server[s])
  <1> DEFINE r == [server[s] EXCEPT !.main = pc]
  <1>1. server[s] \in ServerRecord(s)
    BY DEF VisionTypeOK
  <1>2. r \in ServerRecord(s) /\ SetServer(s, r)
    BY <1>1 DEF Main, ServerRecord
  <1>3. /\ r.main = pc /\ r.listener = server[s].listener /\ r.fd = server[s].fd
        /\ r.should_exit = server[s].should_exit
        /\ r.cur_idx = server[s].cur_idx /\ r.idx = server[s].idx /\ r.turn = server[s].turn
        /\ r.explicit = server[s].explicit /\ r.frames = server[s].frames
    BY <1>1 DEF ServerRecord
  <1> HIDE DEF r
  <1>4. /\ DOMAIN server' = Servers /\ server'[s] = r
        /\ \A t \in Servers : t # s => server'[t] = server[t]
        /\ \A t \in Servers : server'[t] \in ServerRecord(t)
    BY <1>2, SetServerFacts
  <1> QED
    BY <1>3, <1>4 DEF SameFrames

(* A step that changes only servers, and writes no frame.                  *)
LEMMA QuietStep ==
  ASSUME VisionInv, UNCHANGED <<client, conn, backlog>>,
         DOMAIN server' = Servers, \A t \in Servers : server'[t] \in ServerRecord(t),
         path' \in Servers \cup {NoServer}, active' \in Servers \cup {NoServer},
         \A t \in Servers : SameFrames(server'[t], server[t]),
         \A t \in Servers : GoesOn(server'[t], server[t]),
         \A t \in Servers : ListenerInv(t)'
  PROVE  VisionInv'
  <1>1. VisionTypeOK'
    BY DEF VisionInv, VisionTypeOK
  <1>2. /\ \A s \in Servers : ServerInv(s)'
        /\ \A p \in Packet : FreshIn(server, p) => FreshIn(server', p)
    BY FramesKept
  <1>3. (Died => Died') /\ (Leaving => Leaving')
    BY LeftKept
  <1>4. \A c \in Clients : MapInv(c)' /\ HeldInv(c)'
    BY <1>2, HeldKept
  <1>5. \A c \in Clients : CallInv(c)'
    BY <1>3, CallKept
  <1>6. \A c \in Clients : FailsInv(c)'
    BY <1>3, FailsKept DEF VisionInv
  <1>7. FailsOnlyWithServer'
    BY <1>6, FailsNext
  <1> QED
    BY <1>1, <1>2, <1>4, <1>5, <1>7 DEF VisionInv

(* start_listener, and the two halves of the destructor, keep the         *)
(* invariant.                                                             *)
LEMMA StartInv ==
  ASSUME VisionInv, NEW s \in Servers, StartListener(s) \/ Shutdown(s) \/ Join(s)
  PROVE  VisionInv'
  <1>0. VisionTypeOK /\ server[s] \in ServerRecord(s) /\ ListenerInv(s)
    BY DEF VisionInv, VisionTypeOK
  <1>1. UNCHANGED <<path, active, client, conn, backlog>>
    BY DEF StartListener, Shutdown, Join
  <1>2. path \in Servers \cup {NoServer} /\ active \in Servers \cup {NoServer}
    BY <1>0 DEF VisionTypeOK
  <1>3. CASE StartListener(s)
    <2> DEFINE r == [server[s] EXCEPT !.main = "running", !.listener = "bind"]
    <2>1. server[s].main = "created" /\ SetServer(s, r)
      BY <1>3 DEF StartListener
    <2>2. r \in ServerRecord(s)
      BY <1>0 DEF ServerRecord, MainPC, ListenPC
    <2>3. /\ r.main = "running" /\ r.listener = "bind" /\ r.fd = server[s].fd
          /\ r.should_exit = server[s].should_exit
          /\ r.cur_idx = server[s].cur_idx /\ r.idx = server[s].idx /\ r.turn = server[s].turn
          /\ r.explicit = server[s].explicit /\ r.frames = server[s].frames
      BY <1>0 DEF ServerRecord
    <2> HIDE DEF r
    <2>4. /\ DOMAIN server' = Servers /\ server'[s] = r
          /\ \A t \in Servers : t # s => server'[t] = server[t]
          /\ \A t \in Servers : server'[t] \in ServerRecord(t)
      BY <1>0, <2>1, <2>2, SetServerFacts
    <2>5. \A t \in Servers : SameFrames(server'[t], server[t]) /\ GoesOn(server'[t], server[t])
      BY <2>1, <2>3, <2>4 DEF SameFrames, GoesOn
    <2>6. ASSUME NEW t \in Servers PROVE ListenerInv(t)'
      <3>1. CASE t = s
        BY <1>0, <1>1, <2>1, <2>3, <2>4, <3>1 DEF ListenerInv
      <3>2. CASE t # s
        BY <1>1, <2>4, <3>2, ListenerKept
      <3> QED
        BY <3>1, <3>2
    <2> QED
      BY <1>1, <1>2, <2>4, <2>5, <2>6, QuietStep
  <1>4. CASE Shutdown(s)
    <2> DEFINE r == [server[s] EXCEPT !.main = "wake", !.should_exit = TRUE]
    <2>1. server[s].main = "running" /\ SetServer(s, r)
      BY <1>4 DEF Shutdown
    <2>2. r \in ServerRecord(s)
      BY <1>0 DEF ServerRecord, MainPC
    <2>3. /\ r.main = "wake" /\ r.listener = server[s].listener /\ r.fd = server[s].fd
          /\ r.should_exit = TRUE
          /\ r.cur_idx = server[s].cur_idx /\ r.idx = server[s].idx /\ r.turn = server[s].turn
          /\ r.explicit = server[s].explicit /\ r.frames = server[s].frames
      BY <1>0 DEF ServerRecord
    <2> HIDE DEF r
    <2>4. /\ DOMAIN server' = Servers /\ server'[s] = r
          /\ \A t \in Servers : t # s => server'[t] = server[t]
          /\ \A t \in Servers : server'[t] \in ServerRecord(t)
      BY <1>0, <2>1, <2>2, SetServerFacts
    <2>5. \A t \in Servers : SameFrames(server'[t], server[t]) /\ GoesOn(server'[t], server[t])
      BY <2>1, <2>3, <2>4 DEF SameFrames, GoesOn
    <2>6. \A t \in Servers : ListenerInv(t)'
      BY <1>1, <2>1, <2>3, <2>4, <2>5, MainStep
    <2> QED
      BY <1>1, <1>2, <2>4, <2>5, <2>6, QuietStep
  <1>5. CASE Join(s)
    <2>1. server[s].main = "join" /\ Main(s, "closed")
      BY <1>5 DEF Join
    <2>2. LET r == server'[s] IN
           /\ DOMAIN server' = Servers /\ \A t \in Servers : server'[t] \in ServerRecord(t)
           /\ \A t \in Servers : t # s => server'[t] = server[t]
           /\ r.main = "closed" /\ r.listener = server[s].listener /\ r.fd = server[s].fd
           /\ r.should_exit = server[s].should_exit
           /\ SameFrames(r, server[s])
      BY <1>0, <2>1, MainFacts DEF MainPC
    <2>3. \A t \in Servers : SameFrames(server'[t], server[t]) /\ GoesOn(server'[t], server[t])
      BY <2>1, <2>2 DEF SameFrames, GoesOn
    <2>4. \A t \in Servers : ListenerInv(t)'
      BY <1>1, <2>1, <2>2, <2>3, MainStep
    <2> QED
      BY <1>1, <1>2, <2>2, <2>3, <2>4, QuietStep
  <1> QED
    BY <1>3, <1>4, <1>5
(* A step that changes only the records of servers and, of the clients,    *)
(* the packets on their way; connections stay.                             *)
LEMMA PacketStep ==
  ASSUME VisionInv, UNCHANGED <<path, conn, backlog>>,
         DOMAIN server' = Servers, \A t \in Servers : server'[t] \in ServerRecord(t),
         active' \in Servers \cup {NoServer}, client' \in [Clients -> ClientRecord],
         \A t \in Servers : ServerInv(t)' /\ ListenerInv(t)',
         \A p \in Packet : FreshIn(server, p) => FreshIn(server', p),
         Died => Died', Leaving => Leaving',
         \A c \in Clients :
           LET r == client[c]
               q == client'[c] IN
             /\ q.pc = r.pc /\ q.op = r.op /\ q.connected = r.connected
             /\ q.num_buffers = r.num_buffers /\ q.buffers = r.buffers /\ q.mapped = r.mapped
             /\ q.held = r.held
             /\ \A j \in DOMAIN q.pending :
                  FreshIn(server', q.pending[j]) \/ (j \in DOMAIN r.pending /\ q.pending[j] = r.pending[j])
  PROVE  VisionInv'
  <1>1. VisionTypeOK'
    BY DEF VisionInv, VisionTypeOK
  <1>2. ASSUME NEW c \in Clients PROVE MapInv(c)' /\ HeldInv(c)'
    <2>1. MapInv(c) /\ HeldInv(c) /\ client[c] \in ClientRecord
      BY DEF VisionInv, VisionTypeOK
    <2>2. client[c].held \in Packet /\ \A j \in DOMAIN client[c].pending : client[c].pending[j] \in Packet
      BY <2>1 DEF ClientRecord
    <2>3. MapInv(c)'
      BY <2>1 DEF MapInv
    <2>4. HeldInv(c)'
      BY <2>1, <2>2 DEF HeldInv
    <2> QED
      BY <2>3, <2>4
  <1>3. \A c \in Clients : CallInv(c)'
    BY CallKept
  <1>4. \A c \in Clients : FailsInv(c)'
    BY FailsKept DEF VisionInv
  <1>5. FailsOnlyWithServer'
    BY <1>4, FailsNext
  <1> QED
    BY <1>1, <1>2, <1>3, <1>5 DEF VisionInv

(* A server begins a frame in buffer i: nothing in the other buffers is    *)
(* lost, and i is not one of the last frames' unless i was asked for.      *)
LEMMA TakeInv ==
  ASSUME VisionInv, NEW s \in Servers, NEW i \in 0 .. NumBuffers[s] - 1, NEW r,
         Take(s, i, r),
         \/ i = server[s].cur_idx
              /\ r = [server[s] EXCEPT !.cur_idx = (server[s].cur_idx + 1) % NumBuffers[s]]
         \/ r = [server[s] EXCEPT !.cur_idx = i, !.explicit = server[s].turn + 1]
  PROVE  VisionInv'
  <1> DEFINE old == server[s]
             n == NumBuffers[s]
             new == [r EXCEPT !.main = "writing", !.turn = @ + 1, !.idx = i, !.frames[i] = Torn]
  <1>0. VisionTypeOK /\ old \in ServerRecord(s) /\ ServerInv(s) /\ n \in Nat /\ i \in Nat /\ i < n
    BY VisionAssumption DEF VisionInv, VisionTypeOK
  <1>1. /\ old.main = "running" /\ SetServer(s, new)
        /\ UNCHANGED <<path, active, client, conn, backlog>>
    BY DEF Take
  <1>2. /\ old.turn \in Nat /\ old.explicit \in Nat /\ old.cur_idx \in Nat
        /\ old.frames \in [0 .. n - 1 -> Content] /\ old.idx \in Nat
    BY <1>0, ServerFields
  <1>3. (old.cur_idx + 1) % n = IF old.cur_idx + 1 = n THEN 0 ELSE old.cur_idx + 1
    <2>1. old.cur_idx < n
      BY <1>0 DEF ServerInv, Serving
    <2> QED
      BY <1>0, <1>2, <2>1, NextIndex
  <1>4. PICK ci \in Nat, ex \in Nat :
          /\ r = [old EXCEPT !.cur_idx = ci, !.explicit = ex]
          /\ ci < n
          /\ \/ i = old.cur_idx /\ ex = old.explicit /\ (ci = i + 1 \/ ci = i + 1 - n)
             \/ ex = old.turn + 1
    <2>1. CASE i = old.cur_idx /\ r = [old EXCEPT !.cur_idx = (old.cur_idx + 1) % n]
      <3> DEFINE ci == (old.cur_idx + 1) % n
      <3>1. ci \in Nat /\ ci < n /\ (ci = i + 1 \/ ci = i + 1 - n)
        BY <1>0, <1>2, <1>3, <2>1
      <3>2. r = [old EXCEPT !.cur_idx = ci, !.explicit = old.explicit]
        <4> HIDE DEF ci
        <4> QED
          BY <1>0, <2>1 DEF ServerRecord, ci
      <3> QED
        BY <1>2, <2>1, <3>1, <3>2
    <2>2. CASE r = [old EXCEPT !.cur_idx = i, !.explicit = old.turn + 1]
      <3>1. old.turn + 1 \in Nat
        BY <1>2
      <3> QED
        BY <1>0, <2>2, <3>1
    <2> QED
      BY <2>1, <2>2
  <1> DEFINE turn == old.turn + 1
             frames == [old.frames EXCEPT ![i] = Torn]
  <1>5. turn \in Nat /\ frames \in [0 .. n - 1 -> Content]
    BY <1>0, <1>2, NothingFacts
  <1>6. new = [old EXCEPT !.cur_idx = ci, !.explicit = ex, !.main = "writing", !.turn = turn,
                          !.idx = i, !.frames = frames]
    BY <1>0, <1>4 DEF ServerRecord
  <1> HIDE DEF new
  <1>7. \A j \in 0 .. n - 1 : j # i => frames[j] = old.frames[j]
    BY <1>2
  <1> HIDE DEF frames
  <1>8. /\ new.main = "writing" /\ new.turn = turn /\ new.idx = i /\ new.frames = frames
        /\ new.cur_idx = ci /\ new.explicit = ex
        /\ new.listener = old.listener /\ new.fd = old.fd /\ new.should_exit = old.should_exit
    BY <1>0, <1>6 DEF ServerRecord
  <1>9. new \in ServerRecord(s)
    BY <1>0, <1>4, <1>5, <1>6 DEF ServerRecord, MainPC
  <1>10. /\ DOMAIN server' = Servers /\ server'[s] = new
         /\ \A t \in Servers : t # s => server'[t] = server[t]
         /\ \A t \in Servers : server'[t] \in ServerRecord(t)
    BY <1>0, <1>1, <1>9, SetServerFacts
  <1>11. ASSUME NEW t \in Servers PROVE ServerInv(t)'
    <2>1. CASE t # s
      BY <1>10, <2>1 DEF VisionInv, ServerInv
    <2>2. CASE t = s
      <3>1. ex <= turn /\ ci < n /\ i < n /\ (ex < turn => ci = i + 1 \/ ci = i + 1 - n)
        BY <1>0, <1>2, <1>4 DEF ServerInv
      <3> QED
        BY <1>8, <1>10, <2>2, <3>1 DEF ServerInv
    <2> QED
      BY <2>1, <2>2
  <1>12. ASSUME NEW p \in Packet, FreshIn(server, p) PROVE FreshIn(server', p)
    <2>1. p.server \in Servers
      BY <1>12 DEF FreshIn
    <2>2. CASE p.server # s
      BY <1>10, <1>12, <2>1, <2>2 DEF FreshIn
    <2>3. CASE p.server = s
      <3>1. p.turn \in Nat /\ p.idx \in Nat
        BY DEF Packet
      <3>2. p.idx < n /\ p.turn <= old.turn
        BY <1>12, <2>3 DEF FreshIn
      <3>3. old.turn - p.turn < n /\ old.explicit < p.turn =>
              /\ old.frames[p.idx] = [server |-> s, turn |-> p.turn]
              /\ \/ old.cur_idx = p.idx + 1 + (old.turn - p.turn)
                 \/ old.cur_idx = p.idx + 1 + (old.turn - p.turn) - n
        BY <1>12, <2>3 DEF FreshIn
      <3>4. ASSUME turn - p.turn < n, ex < p.turn
            PROVE  /\ frames[p.idx] = [server |-> s, turn |-> p.turn]
                   /\ ci = p.idx + 1 + (turn - p.turn) \/ ci = p.idx + 1 + (turn - p.turn) - n
        <4>1. i = old.cur_idx /\ ex = old.explicit /\ (ci = i + 1 \/ ci = i + 1 - n)
          BY <1>2, <1>4, <3>1, <3>2, <3>4
        <4>2. old.turn - p.turn < n /\ old.explicit < p.turn
          BY <1>0, <1>2, <3>1, <3>4, <4>1
        <4>3. i = p.idx + 1 + (old.turn - p.turn) \/ i = p.idx + 1 + (old.turn - p.turn) - n
          BY <3>3, <4>1, <4>2
        <4> DEFINE k == old.turn - p.turn
        <4>n. k \in Nat /\ k + 1 < n /\ turn - p.turn = k + 1
          <5>1. n \in Nat /\ old.turn \in Nat /\ p.turn \in Nat /\ p.turn <= old.turn
            BY <1>0, <1>2, <3>1, <3>2
          <5>2. (old.turn + 1) - p.turn < n
            BY <3>4
          <5> QED
            BY <5>1, <5>2
        <4>k. i = p.idx + 1 + k \/ i = p.idx + 1 + k - n
          BY <4>3
        <4> HIDE DEF k
        <4>4. p.idx # i /\ (ci = p.idx + 1 + (k + 1) \/ ci = p.idx + 1 + (k + 1) - n)
          <5>1. n \in Nat /\ p.idx \in Nat /\ i \in Nat /\ ci \in Nat /\ p.idx < n /\ i < n /\ ci < n
            BY <1>0, <1>4, <3>1, <3>2
          <5>2. ci = i + 1 \/ ci = i + 1 - n
            BY <4>1
          <5> QED
            BY <4>n, <4>k, <5>1, <5>2, Ring
        <4>5. frames[p.idx] = [server |-> s, turn |-> p.turn]
          BY <1>0, <1>7, <3>1, <3>2, <3>3, <4>2, <4>4
        <4>6. ci = p.idx + 1 + (turn - p.turn) \/ ci = p.idx + 1 + (turn - p.turn) - n
          BY <4>4, <4>n
        <4> QED
          BY <4>5, <4>6
      <3>5. p.turn < turn
        BY <1>2, <3>1, <3>2
      <3>6. server'[p.server] = new
        BY <1>10, <2>3
      <3> HIDE DEF turn
      <3>7. p.turn <= turn
        BY <1>5, <3>1, <3>5
      <3> QED
        BY <1>8, <2>1, <2>3, <3>2, <3>4, <3>5, <3>6, <3>7 DEF FreshIn
    <2> QED
      BY <2>2, <2>3
  <1>13. GoesOn(server'[s], server[s])
    BY <1>1, <1>8, <1>10 DEF GoesOn
  <1>14. (\A t \in Servers : ListenerInv(t)') /\ (Died => Died') /\ (Leaving => Leaving')
    BY <1>1, <1>8, <1>10, <1>13, MainStep
  <1>15. client' \in [Clients -> ClientRecord] /\ active' \in Servers \cup {NoServer}
    BY <1>0, <1>1 DEF VisionTypeOK
  <1> QED
    BY <1>1, <1>10, <1>11, <1>12, <1>14, <1>15, PacketStep

(* get_buffer, with an index or without one, keeps the invariant.         *)
LEMMA BufferInv ==
  ASSUME VisionInv, NEW s \in Servers,
         GetBuffer(s) \/ \E i \in 0 .. NumBuffers[s] - 1 : GetBufferAt(s, i)
  PROVE  VisionInv'
  <1>1. CASE GetBuffer(s)
    <2>1. /\ NumBuffers[s] \in Nat /\ server[s] \in ServerRecord(s) /\ ServerInv(s) /\ Serving(s)
      BY <1>1, VisionAssumption DEF VisionInv, VisionTypeOK, GetBuffer, Take
    <2>2. server[s].cur_idx \in Nat /\ server[s].cur_idx < NumBuffers[s]
      BY <2>1, ServerFields DEF ServerInv
    <2>3. server[s].cur_idx \in 0 .. NumBuffers[s] - 1
      BY <2>1, <2>2
    <2> QED
      BY <1>1, <2>3, TakeInv DEF GetBuffer
  <1>2. ASSUME NEW i \in 0 .. NumBuffers[s] - 1, GetBufferAt(s, i) PROVE VisionInv'
    BY <1>2, TakeInv DEF GetBufferAt
  <1> QED
    BY <1>1, <1>2
(* A frame is written: the others stay.                                    *)
LEMMA WriteInv ==
  ASSUME VisionInv, NEW s \in Servers, WriteFrame(s)
  PROVE  VisionInv'
  <1> DEFINE old == server[s]
             n == NumBuffers[s]
             frame == [server |-> s, turn |-> old.turn]
             frames == [old.frames EXCEPT ![old.idx] = frame]
             new == [old EXCEPT !.main = "sending", !.frames = frames]
  <1>0. VisionTypeOK /\ old \in ServerRecord(s) /\ ServerInv(s) /\ n \in Nat
    BY VisionAssumption DEF VisionInv, VisionTypeOK
  <1>1. old.main = "writing" /\ UNCHANGED <<path, active, client, conn, backlog>>
    BY DEF WriteFrame
  <1>2. /\ old.turn \in Nat /\ old.explicit \in Nat /\ old.cur_idx \in Nat
        /\ old.frames \in [0 .. n - 1 -> Content] /\ old.idx \in Nat
    BY <1>0, ServerFields
  <1>3. /\ old.idx < n
        /\ old.explicit < old.turn => old.cur_idx = old.idx + 1 \/ old.cur_idx = old.idx + 1 - n
    BY <1>0, <1>1 DEF ServerInv
  <1>4. SetServer(s, new)
    BY <1>0 DEF WriteFrame, ServerRecord
  <1>5. old.idx \in 0 .. n - 1 /\ frame \in Content
    BY <1>0, <1>2, <1>3 DEF Content
  <1>6. /\ frames \in [0 .. n - 1 -> Content] /\ frames[old.idx] = frame
        /\ \A j \in 0 .. n - 1 : j # old.idx => frames[j] = old.frames[j]
    BY <1>2, <1>5
  <1> HIDE DEF frames
  <1>7. /\ new \in ServerRecord(s) /\ new.main = "sending" /\ new.frames = frames
        /\ new.turn = old.turn /\ new.idx = old.idx /\ new.cur_idx = old.cur_idx
        /\ new.explicit = old.explicit
        /\ new.listener = old.listener /\ new.fd = old.fd /\ new.should_exit = old.should_exit
    BY <1>0, <1>6 DEF ServerRecord, MainPC
  <1> HIDE DEF new
  <1>8. /\ DOMAIN server' = Servers /\ server'[s] = new
        /\ \A t \in Servers : t # s => server'[t] = server[t]
        /\ \A t \in Servers : server'[t] \in ServerRecord(t)
    BY <1>0, <1>4, <1>7, SetServerFacts
  <1>9. ASSUME NEW t \in Servers PROVE ServerInv(t)'
    <2>1. CASE t # s
      BY <1>8, <2>1 DEF VisionInv, ServerInv
    <2>2. CASE t = s
      BY <1>0, <1>1, <1>6, <1>7, <1>8, <2>2 DEF ServerInv
    <2> QED
      BY <2>1, <2>2
  <1>10. ASSUME NEW p \in Packet, FreshIn(server, p) PROVE FreshIn(server', p)
    <2>1. p.server \in Servers
      BY <1>10 DEF FreshIn
    <2>2. CASE p.server # s
      BY <1>8, <1>10, <2>1, <2>2 DEF FreshIn
    <2>3. CASE p.server = s
      <3> DEFINE k == old.turn - p.turn
      <3>1. p.turn \in Nat /\ p.idx \in Nat
        BY DEF Packet
      <3>2. p.idx < n /\ p.turn <= old.turn /\ p.turn < old.turn
        BY <1>1, <1>10, <2>3 DEF FreshIn
      <3>3. k < n /\ old.explicit < p.turn =>
              /\ old.frames[p.idx] = [server |-> s, turn |-> p.turn]
              /\ old.cur_idx = p.idx + 1 + k \/ old.cur_idx = p.idx + 1 + k - n
        BY <1>10, <2>3 DEF FreshIn
      <3>n. k \in Nat /\ 0 < k
        BY <1>2, <3>1, <3>2
      <3>4. ASSUME k < n, old.explicit < p.turn
            PROVE  frames[p.idx] = [server |-> s, turn |-> p.turn]
        <4>1. old.explicit < old.turn
          BY <1>2, <3>1, <3>2, <3>4
        <4> HIDE DEF k
        <4>2. old.idx # p.idx
          BY <1>0, <1>2, <1>3, <3>1, <3>2, <3>3, <3>4, <3>n, <4>1, RingApart
        <4>3. p.idx \in 0 .. n - 1
          BY <1>0, <3>1, <3>2
        <4> QED
          BY <1>6, <3>3, <3>4, <4>2, <4>3
      <3>5. server'[p.server] = new
        BY <1>8, <2>3
      <3> QED
        BY <1>7, <2>1, <2>3, <3>2, <3>3, <3>4, <3>5 DEF FreshIn
    <2> QED
      BY <2>2, <2>3
  <1>11. GoesOn(server'[s], server[s])
    BY <1>1, <1>7, <1>8 DEF GoesOn
  <1>12. (\A t \in Servers : ListenerInv(t)') /\ (Died => Died') /\ (Leaving => Leaving')
    BY <1>1, <1>7, <1>8, <1>11, MainStep
  <1>13. client' \in [Clients -> ClientRecord] /\ active' \in Servers \cup {NoServer}
    BY <1>0, <1>1 DEF VisionTypeOK
  <1> QED
    BY <1>1, <1>8, <1>9, <1>10, <1>12, <1>13, PacketStep

(* The new publisher evicts the readers.                                   *)
LEMMA CreateInv ==
  ASSUME VisionInv, NEW s \in Servers, CreateBuffers(s)
  PROVE  VisionInv'
  <1>0. VisionTypeOK /\ client \in [Clients -> ClientRecord]
    BY DEF VisionInv, VisionTypeOK
  <1>1. server[s].main = "new" /\ Main(s, "created") /\ UNCHANGED <<path, conn, backlog>>
    BY DEF CreateBuffers
  <1>2. LET r == server'[s] IN
          /\ DOMAIN server' = Servers /\ \A t \in Servers : server'[t] \in ServerRecord(t)
          /\ \A t \in Servers : t # s => server'[t] = server[t]
          /\ r.main = "created" /\ r.listener = server[s].listener /\ r.fd = server[s].fd
          /\ r.should_exit = server[s].should_exit
          /\ SameFrames(r, server[s])
    BY <1>0, <1>1, MainFacts DEF MainPC
  <1>3. \A t \in Servers : SameFrames(server'[t], server[t]) /\ GoesOn(server'[t], server[t])
    BY <1>1, <1>2 DEF SameFrames, GoesOn
  <1>4. (\A t \in Servers : ListenerInv(t)') /\ (Died => Died') /\ (Leaving => Leaving')
    BY <1>1, <1>2, <1>3, MainStep
  <1>5. /\ \A t \in Servers : ServerInv(t)'
        /\ \A p \in Packet : FreshIn(server, p) => FreshIn(server', p)
    BY <1>3, FramesKept
  <1>6. active' \in Servers \cup {NoServer}
    BY <1>0 DEF CreateBuffers, VisionTypeOK
  <1>7. CASE Serving(s)
    <2>1. client' = [c \in Clients |-> [client[c] EXCEPT !.evicted = TRUE, !.pending = <<>>]]
      BY <1>7 DEF CreateBuffers
    <2>2. ASSUME NEW c \in Clients
          PROVE  LET r == client[c]
                     q == client'[c] IN
                   /\ q \in ClientRecord
                   /\ q.pc = r.pc /\ q.op = r.op /\ q.connected = r.connected
                   /\ q.num_buffers = r.num_buffers /\ q.buffers = r.buffers
                   /\ q.mapped = r.mapped /\ q.held = r.held /\ q.pending = <<>>
      <3>1. client[c] \in ClientRecord
        BY <1>0
      <3> DEFINE e == <<>>
      <3>2. client'[c] = [client[c] EXCEPT !.evicted = TRUE, !.pending = e]
        BY <2>1
      <3>3. e \in Seq(Packet)
        OBVIOUS
      <3>4. client'[c].pending = <<>>
        BY <3>1, <3>2 DEF ClientRecord
      <3> HIDE DEF e
      <3> QED
        BY <3>1, <3>2, <3>3, <3>4 DEF ClientRecord
    <2>3. client' \in [Clients -> ClientRecord]
      BY <2>1, <2>2
    <2> QED
      BY <1>1, <1>2, <1>4, <1>5, <1>6, <2>2, <2>3, PacketStep
  <1>8. CASE ~Serving(s)
    <2>1. client' = client
      BY <1>8 DEF CreateBuffers
    <2> QED
      BY <1>0, <1>1, <1>2, <1>4, <1>5, <1>6, <2>1, PacketStep
  <1> QED
    BY <1>7, <1>8

(* The packet of a frame that was just written is about that frame.        *)
LEMMA SendInv ==
  ASSUME VisionInv, NEW s \in Servers, Send(s)
  PROVE  VisionInv'
  <1> DEFINE p == [server |-> s, idx |-> server[s].idx, turn |-> server[s].turn]
  <1>0. VisionTypeOK /\ client \in [Clients -> ClientRecord] /\ server[s] \in ServerRecord(s)
        /\ ServerInv(s) /\ NumBuffers[s] \in Nat
    BY VisionAssumption DEF VisionInv, VisionTypeOK
  <1>1. /\ server[s].main = "sending" /\ Main(s, "running") /\ UNCHANGED <<path, active, conn, backlog>>
        /\ client' = [c \in Clients |->
             IF active = s /\ ~client[c].evicted
               THEN [client[c] EXCEPT !.pending = Append(client[c].pending, p)]
               ELSE client[c]]
    BY DEF Send
  <1>2. LET r == server'[s] IN
          /\ DOMAIN server' = Servers /\ \A t \in Servers : server'[t] \in ServerRecord(t)
          /\ \A t \in Servers : t # s => server'[t] = server[t]
          /\ r.main = "running" /\ r.listener = server[s].listener /\ r.fd = server[s].fd
          /\ r.should_exit = server[s].should_exit
          /\ SameFrames(r, server[s])
    BY <1>0, <1>1, MainFacts DEF MainPC
  <1>3. \A t \in Servers : SameFrames(server'[t], server[t]) /\ GoesOn(server'[t], server[t])
    BY <1>1, <1>2 DEF SameFrames, GoesOn
  <1>4. (\A t \in Servers : ListenerInv(t)') /\ (Died => Died') /\ (Leaving => Leaving')
    BY <1>1, <1>2, <1>3, MainStep
  <1>5. /\ \A t \in Servers : ServerInv(t)'
        /\ \A x \in Packet : FreshIn(server, x) => FreshIn(server', x)
    BY <1>3, FramesKept
  <1>6. server[s].idx \in Nat /\ server[s].turn \in Nat /\ server[s].explicit \in Nat
    BY <1>0, ServerFields
  <1>7. p \in Packet /\ p.server = s /\ p.idx = server[s].idx /\ p.turn = server[s].turn
    BY <1>6 DEF Packet
  <1> HIDE DEF p
  <1>8. FreshIn(server', p)
    <2> DEFINE r == server'[s]
    <2>1. r.turn = p.turn /\ r.explicit = server[s].explicit /\ r.frames = server[s].frames
          /\ r.cur_idx = server[s].cur_idx /\ r.main = "running"
      BY <1>2, <1>7 DEF SameFrames
    <2>2. p.idx < NumBuffers[s] /\ server[s].frames[p.idx] = [server |-> s, turn |-> p.turn]
      BY <1>0, <1>1, <1>7 DEF ServerInv
    <2>3. server[s].explicit < p.turn =>
            server[s].cur_idx = p.idx + 1 \/ server[s].cur_idx = p.idx + 1 - NumBuffers[s]
      BY <1>0, <1>1, <1>7 DEF ServerInv
    <2>4. server'[p.server] = r /\ p.server \in Servers /\ NumBuffers[p.server] = NumBuffers[s]
      BY <1>7
    <2> HIDE DEF r
    <2>5. p.turn <= r.turn /\ p.idx + 1 + (r.turn - p.turn) = p.idx + 1
      BY <1>6, <1>7, <2>1
    <2>6. r.explicit < p.turn => \/ r.cur_idx = p.idx + 1 + (r.turn - p.turn)
                                \/ r.cur_idx = p.idx + 1 + (r.turn - p.turn) - NumBuffers[p.server]
      <3>1. p.idx \in Nat /\ NumBuffers[s] \in Nat /\ r.turn - p.turn = 0
        BY <1>0, <1>6, <1>7, <2>1
      <3>2. CASE server[s].cur_idx = p.idx + 1
        BY <2>1, <2>5, <3>2
      <3>3. CASE server[s].cur_idx = p.idx + 1 - NumBuffers[s]
        BY <2>1, <2>4, <3>1, <3>3
      <3> QED
        BY <2>1, <2>3, <3>2, <3>3
    <2>7. r.frames[p.idx] = [server |-> p.server, turn |-> p.turn]
      BY <1>7, <2>1, <2>2
    <2> QED
      BY <2>1, <2>2, <2>4, <2>5, <2>6, <2>7 DEF FreshIn
  <1>9. ASSUME NEW c \in Clients
        PROVE  LET r == client[c]
                   q == client'[c] IN
                 /\ q \in ClientRecord
                 /\ q.pc = r.pc /\ q.op = r.op /\ q.connected = r.connected
                 /\ q.num_buffers = r.num_buffers /\ q.buffers = r.buffers
                 /\ q.mapped = r.mapped /\ q.held = r.held
                 /\ \A j \in DOMAIN q.pending :
                      q.pending[j] = p \/ (j \in DOMAIN r.pending /\ q.pending[j] = r.pending[j])
    <2>1. client[c] \in ClientRecord
      BY <1>0
    <2>2. CASE active = s /\ ~client[c].evicted
      <3> DEFINE a == Append(client[c].pending, p)
      <3>1. client'[c] = [client[c] EXCEPT !.pending = a]
        BY <1>1, <2>2
      <3>2. client[c].pending \in Seq(Packet)
        BY <2>1 DEF ClientRecord
      <3>3. a \in Seq(Packet) /\ \A j \in DOMAIN a :
              a[j] = p \/ (j \in DOMAIN client[c].pending /\ a[j] = client[c].pending[j])
        BY <1>7, <3>2
      <3> HIDE DEF a
      <3>4. /\ client'[c] \in ClientRecord /\ client'[c].pending = a
            /\ client'[c].pc = client[c].pc /\ client'[c].op = client[c].op
            /\ client'[c].connected = client[c].connected
            /\ client'[c].num_buffers = client[c].num_buffers
            /\ client'[c].buffers = client[c].buffers /\ client'[c].mapped = client[c].mapped
            /\ client'[c].held = client[c].held
        BY <2>1, <3>1, <3>3 DEF ClientRecord
      <3> QED
        BY <3>3, <3>4
    <2>3. CASE ~(active = s /\ ~client[c].evicted)
      <3>1. client'[c] = client[c]
        BY <1>1, <2>3
      <3> QED
        BY <2>1, <3>1
    <2> QED
      BY <2>2, <2>3
  <1>10. client' \in [Clients -> ClientRecord]
    BY <1>1, <1>9
  <1>11. active' \in Servers \cup {NoServer}
    BY <1>0, <1>1 DEF VisionTypeOK
  <1>12. \A c \in Clients :
           LET r == client[c]
               q == client'[c] IN
             /\ q.pc = r.pc /\ q.op = r.op /\ q.connected = r.connected
             /\ q.num_buffers = r.num_buffers /\ q.buffers = r.buffers /\ q.mapped = r.mapped
             /\ q.held = r.held
             /\ \A j \in DOMAIN q.pending :
                  FreshIn(server', q.pending[j]) \/ (j \in DOMAIN r.pending /\ q.pending[j] = r.pending[j])
    BY <1>8, <1>9
  <1> QED
    BY <1>1, <1>2, <1>4, <1>5, <1>10, <1>11, <1>12, PacketStep
-----------------------------------------------------------------------------
(* The connections.                                                        *)

(* A step of servers that changes connections, and writes no frame.        *)
LEMMA ConnStep ==
  ASSUME VisionInv, UNCHANGED client,
         DOMAIN server' = Servers, \A t \in Servers : server'[t] \in ServerRecord(t),
         path' \in Servers \cup {NoServer}, active' \in Servers \cup {NoServer},
         conn' \in [Peers -> ConnRecord], backlog' \in [Servers -> Seq(Peers)],
         \A t \in Servers : SameFrames(server'[t], server[t]),
         \A t \in Servers : GoesOn(server'[t], server[t]),
         \A t \in Servers : ListenerInv(t)',
         \A c \in Clients : CallInv(c)'
  PROVE  VisionInv'
  <1>1. VisionTypeOK'
    BY DEF VisionInv, VisionTypeOK
  <1>2. /\ \A s \in Servers : ServerInv(s)'
        /\ \A p \in Packet : FreshIn(server, p) => FreshIn(server', p)
    BY FramesKept
  <1>3. (Died => Died') /\ (Leaving => Leaving')
    BY LeftKept
  <1>4. \A c \in Clients : MapInv(c)' /\ HeldInv(c)'
    BY <1>2, HeldKept
  <1>6. \A c \in Clients : FailsInv(c)'
    BY <1>3, FailsKept DEF VisionInv
  <1>7. FailsOnlyWithServer'
    BY <1>6, FailsNext
  <1> QED
    BY <1>1, <1>2, <1>4, <1>7 DEF VisionInv

(* The same part of a record that the listener is about.                   *)
SameListener(r, q) == /\ r.listener = q.listener /\ r.fd = q.fd
                      /\ r.should_exit = q.should_exit

(* A new connection is in the hands of the listener bound to the path.     *)
LEMMA ConnectFacts ==
  ASSUME VisionInv, NEW x \in Peers, conn[x] = NoConn, Listening(path), IpcConnect(x),
         \A t \in Servers : /\ SameListener(server'[t], server[t])
                            /\ server'[t].main = server[t].main
                                 \/ (t = x /\ server'[t].main = "hangup"),
         x \in Servers => server'[x].main = "hangup"
  PROVE  /\ path \in Servers
         /\ conn' \in [Peers -> ConnRecord] /\ backlog' \in [Servers -> Seq(Peers)]
         /\ conn'[x].to = path /\ conn'[x].st = "open" /\ conn'[x].req = "none"
         /\ \A y \in Peers : y # x => conn'[y] = conn[y]
         /\ \A t \in Servers : ListenerInv(t)'
  <1> DEFINE new == [NoConn EXCEPT !.to = path, !.st = "open"]
             q == Append(backlog[path], x)
  <1>0. VisionTypeOK /\ conn \in [Peers -> ConnRecord] /\ backlog \in [Servers -> Seq(Peers)]
    BY DEF VisionInv, VisionTypeOK
  <1>1. path \in Servers
    BY <1>0 DEF Listening, VisionTypeOK
  <1>2. conn' = [conn EXCEPT ![x] = new] /\ backlog' = [backlog EXCEPT ![path] = q]
    BY DEF IpcConnect
  <1>3. new \in ConnRecord /\ new.to = path /\ new.st = "open" /\ new.req = "none"
    BY <1>1 DEF NoConn, ConnRecord
  <1> HIDE DEF new
  <1>4. backlog[path] \in Seq(Peers) /\ q \in Seq(Peers)
    BY <1>0, <1>1
  <1>5. /\ Len(backlog[path]) \in Nat /\ DOMAIN backlog[path] = 1 .. Len(backlog[path])
        /\ DOMAIN q = 1 .. Len(backlog[path]) + 1
        /\ \A i \in DOMAIN q : q[i] = IF i = Len(backlog[path]) + 1 THEN x ELSE backlog[path][i]
    BY <1>4
  <1> HIDE DEF q
  <1>6. /\ conn' \in [Peers -> ConnRecord] /\ backlog' \in [Servers -> Seq(Peers)]
        /\ conn'[x] = new /\ \A y \in Peers : y # x => conn'[y] = conn[y]
        /\ backlog'[path] = q /\ \A t \in Servers : t # path => backlog'[t] = backlog[t]
    BY <1>0, <1>1, <1>2, <1>3, <1>4
  <1>7. \A y \in Peers : conn[y].to \in Servers => y # x
    BY NothingFacts
  <1>8. ASSUME NEW t \in Servers PROVE ListenerInv(t)'
    <2>1. ListenerInv(t) /\ server[t] \in ServerRecord(t) /\ backlog[t] \in Seq(Peers)
      BY <1>0 DEF VisionInv, VisionTypeOK
    <2>2. \A i \in DOMAIN backlog[t] : backlog[t][i] \in Peers /\ backlog[t][i] # x
      BY <1>7, <2>1 DEF ListenerInv
    <2>3. server[t].fd \in Peers \cup {NoServer}
      BY <2>1, ServerFields
    <2>4. server[t].fd # NoServer => server[t].fd # x /\ conn'[server[t].fd] = conn[server[t].fd]
      BY <1>6, <1>7, <2>1, <2>3 DEF ListenerInv
    <2>5. \A i \in DOMAIN backlog[t] : conn'[backlog[t][i]] = conn[backlog[t][i]]
      BY <1>6, <2>2
    <2>6. t \in Peers
      BY DEF Peers
    <2>7. /\ server'[t].main \in {"new", "created", "running", "writing", "sending", "wake"} =>
               conn'[t] = NoConn
          /\ server'[t].main = "hangup" => conn'[t].st \in {"open", "eof", "reset"}
          /\ server'[t].main \in {"new", "created"} => server'[t].listener = "none"
      <3>1. CASE t = x
        BY <1>3, <1>6, <3>1
      <3>2. CASE t # x
        BY <1>6, <2>1, <2>6, <3>2 DEF ListenerInv, SameListener
      <3> QED
        BY <3>1, <3>2
    <2>8. CASE t # path
      <3>1. backlog'[t] = backlog[t]
        BY <1>6, <2>8
      <3> QED
        BY <2>1, <2>4, <2>5, <2>7, <3>1 DEF ListenerInv, SameListener
    <2>9. CASE t = path
      <3>1. backlog'[t] = q
        BY <1>6, <2>9
      <3>2. \A i \in DOMAIN q : conn'[q[i]].to = t /\ conn'[q[i]].st \in {"open", "closed"}
        BY <1>3, <1>5, <1>6, <2>1, <2>5, <2>9 DEF ListenerInv
      <3>3. \A i, j \in DOMAIN q : q[i] = q[j] => i = j
        <4>1. \A i, j \in DOMAIN backlog[path] : backlog[path][i] = backlog[path][j] => i = j
          BY <2>1, <2>9 DEF ListenerInv
        <4>2. \A i \in DOMAIN q : i # Len(backlog[path]) + 1 =>
                i \in DOMAIN backlog[path] /\ q[i] = backlog[path][i] /\ q[i] # x
          BY <1>5, <2>2, <2>9
        <4> QED
          BY <1>5, <4>1, <4>2
      <3>4. server[t].fd # NoServer => \A i \in DOMAIN q : q[i] # server[t].fd
        BY <1>5, <2>1, <2>4, <2>9 DEF ListenerInv
      <3> QED
        BY <2>1, <2>4, <2>7, <3>1, <3>2, <3>3, <3>4 DEF ListenerInv, SameListener
    <2> QED
      BY <2>8, <2>9
  <1> QED
    BY <1>1, <1>3, <1>6, <1>8

(* The destructor connecting to its own path, to wake the listener, keeps *)
(* the invariant.                                                         *)
LEMMA WakeInv ==
  ASSUME VisionInv, NEW s \in Servers, Wake(s)
  PROVE  VisionInv'
  <1>0. VisionTypeOK /\ ListenerInv(s) /\ s \in Peers
    BY DEF VisionInv, Peers
  <1>1. server[s].main = "wake" /\ UNCHANGED <<path, active, client>>
    BY DEF Wake
  <1>2. path \in Servers \cup {NoServer} /\ active \in Servers \cup {NoServer}
    BY <1>0 DEF VisionTypeOK
  <1>3. CASE Listening(path)
    <2>1. Main(s, "hangup") /\ IpcConnect(s)
      BY <1>3 DEF Wake
    <2>2. LET r == server'[s] IN
            /\ DOMAIN server' = Servers /\ \A t \in Servers : server'[t] \in ServerRecord(t)
            /\ \A t \in Servers : t # s => server'[t] = server[t]
            /\ r.main = "hangup" /\ r.listener = server[s].listener /\ r.fd = server[s].fd
            /\ r.should_exit = server[s].should_exit
            /\ SameFrames(r, server[s])
      BY <1>0, <2>1, MainFacts DEF MainPC
    <2>3. \A t \in Servers : SameFrames(server'[t], server[t]) /\ GoesOn(server'[t], server[t])
      BY <1>1, <2>2 DEF SameFrames, GoesOn
    <2>4. \A t \in Servers : /\ SameListener(server'[t], server[t])
                             /\ server'[t].main = server[t].main
                                  \/ (t = s /\ server'[t].main = "hangup")
      BY <2>2 DEF SameListener
    <2>5. conn[s] = NoConn
      BY <1>0, <1>1 DEF ListenerInv
    <2>6. /\ conn' \in [Peers -> ConnRecord] /\ backlog' \in [Servers -> Seq(Peers)]
          /\ \A y \in Peers : y # s => conn'[y] = conn[y]
          /\ \A t \in Servers : ListenerInv(t)'
      BY <1>0, <1>3, <2>1, <2>2, <2>4, <2>5, ConnectFacts
    <2>7. ASSUME NEW c \in Clients PROVE CallInv(c)'
      <3>1. c # s /\ c \in Peers
        BY VisionAssumption DEF Peers
      <3>2. (Died => Died') /\ (Leaving => Leaving')
        BY <2>3, LeftKept
      <3> QED
        BY <1>1, <2>6, <3>1, <3>2, CallKept
    <2> QED
      BY <1>1, <1>2, <2>2, <2>3, <2>6, <2>7, ConnStep
  <1>4. CASE ~Listening(path)
    <2>1. Main(s, "join") /\ UNCHANGED <<conn, backlog>>
      BY <1>4 DEF Wake
    <2>2. LET r == server'[s] IN
            /\ DOMAIN server' = Servers /\ \A t \in Servers : server'[t] \in ServerRecord(t)
            /\ \A t \in Servers : t # s => server'[t] = server[t]
            /\ r.main = "join" /\ r.listener = server[s].listener /\ r.fd = server[s].fd
            /\ r.should_exit = server[s].should_exit
            /\ SameFrames(r, server[s])
      BY <1>0, <2>1, MainFacts DEF MainPC
    <2>3. \A t \in Servers : SameFrames(server'[t], server[t]) /\ GoesOn(server'[t], server[t])
      BY <1>1, <2>2 DEF SameFrames, GoesOn
    <2>4. \A t \in Servers : ListenerInv(t)'
      BY <1>1, <2>1, <2>2, <2>3, MainStep
    <2> QED
      BY <1>1, <1>2, <2>1, <2>2, <2>3, <2>4, QuietStep
  <1> QED
    BY <1>3, <1>4
(* One end of a connection closes.                                         *)
LEMMA EndedFacts ==
  ASSUME VisionTypeOK, NEW x \in Peers, NEW st \in {"closed", "eof", "reset"}
  PROVE  /\ Ended(x, st) \in ConnRecord
         /\ conn[x].st = "open" => /\ Ended(x, st).st = st /\ Ended(x, st).to = conn[x].to
                                   /\ Ended(x, st).req = conn[x].req
                                   /\ Ended(x, st).reply = conn[x].reply
         /\ conn[x].st # "open" => Ended(x, st) = NoConn
  <1>1. conn[x] \in ConnRecord
    BY DEF VisionTypeOK
  <1> QED
    BY <1>1, NothingFacts DEF Ended, ConnRecord

(* A listener that sees the other end of one connection close.             *)
LEMMA ListenerSees ==
  ASSUME VisionInv, NEW t \in Servers, NEW x \in Peers, conn' = [conn EXCEPT ![x] = Ended(x, "closed")],
         conn[x].st # "closed", SameListener(server'[t], server[t]), backlog'[t] = backlog[t],
         server'[t].main \in {"new", "created"} => server[t].main \in {"new", "created"},
         server'[t].main \in {"new", "created", "running", "writing", "sending", "wake"} =>
           server[t].main \in {"new", "created", "running", "writing", "sending", "wake"} /\ t # x,
         server'[t].main = "hangup" => server[t].main = "hangup" /\ t # x
  PROVE  ListenerInv(t)'
  <1>0. VisionTypeOK /\ ListenerInv(t) /\ server[t] \in ServerRecord(t)
        /\ backlog[t] \in Seq(Peers) /\ conn \in [Peers -> ConnRecord] /\ t \in Peers
    BY DEF VisionInv, VisionTypeOK, Peers
  <1>1. \A y \in Peers : conn[y].to = t /\ conn[y].st \in {"open", "closed"} =>
          /\ conn'[y].to = t /\ conn'[y].st \in {"open", "closed"} /\ conn'[y].req = conn[y].req
    <2>1. ASSUME NEW y \in Peers, conn[y].to = t, conn[y].st \in {"open", "closed"}
          PROVE  /\ conn'[y].to = t /\ conn'[y].st \in {"open", "closed"} /\ conn'[y].req = conn[y].req
      <3>1. CASE y = x
        <4>1. conn[x].st = "open" /\ conn'[y] = Ended(x, "closed")
          BY <1>0, <2>1, <3>1
        <4> QED
          BY <1>0, <2>1, <3>1, <4>1, EndedFacts
      <3>2. CASE y # x
        BY <1>0, <2>1, <3>2
      <3> QED
        BY <3>1, <3>2
    <2> QED
      BY <2>1
  <1>2. \A i \in DOMAIN backlog[t] : backlog[t][i] \in Peers
    BY <1>0
  <1>3. server[t].fd \in Peers \cup {NoServer}
    BY <1>0, ServerFields
  <1>4. t # x => conn'[t] = conn[t]
    BY <1>0
  <1> QED
    BY <1>0, <1>1, <1>2, <1>3, <1>4 DEF ListenerInv, SameListener

(* The destructor closing that connection keeps the invariant.            *)
LEMMA HangUpInv ==
  ASSUME VisionInv, NEW s \in Servers, HangUp(s)
  PROVE  VisionInv'
  <1>0. VisionTypeOK /\ ListenerInv(s) /\ s \in Peers /\ conn \in [Peers -> ConnRecord]
    BY DEF VisionInv, Peers, VisionTypeOK
  <1>1. /\ server[s].main = "hangup" /\ UNCHANGED <<path, active, client, backlog>> /\ Main(s, "join")
        /\ conn' = [conn EXCEPT ![s] = Ended(s, "closed")]
    BY DEF HangUp
  <1>2. /\ path \in Servers \cup {NoServer} /\ active \in Servers \cup {NoServer}
        /\ backlog \in [Servers -> Seq(Peers)]
    BY <1>0 DEF VisionTypeOK
  <1>3. LET r == server'[s] IN
          /\ DOMAIN server' = Servers /\ \A t \in Servers : server'[t] \in ServerRecord(t)
          /\ \A t \in Servers : t # s => server'[t] = server[t]
          /\ r.main = "join" /\ r.listener = server[s].listener /\ r.fd = server[s].fd
          /\ r.should_exit = server[s].should_exit
          /\ SameFrames(r, server[s])
    BY <1>0, <1>1, MainFacts DEF MainPC
  <1>4. \A t \in Servers : SameFrames(server'[t], server[t]) /\ GoesOn(server'[t], server[t])
    BY <1>1, <1>3 DEF SameFrames, GoesOn
  <1>5. conn[s].st # "closed"
    BY <1>0, <1>1 DEF ListenerInv
  <1>6. ASSUME NEW t \in Servers PROVE ListenerInv(t)'
    <2>1. SameListener(server'[t], server[t]) /\ backlog'[t] = backlog[t]
      BY <1>1, <1>3 DEF SameListener
    <2>2. (t = s => server'[t].main = "join") /\ (t # s => server'[t].main = server[t].main)
      BY <1>3
    <2> QED
      BY <1>0, <1>1, <1>5, <2>1, <2>2, ListenerSees
  <1>7. conn' \in [Peers -> ConnRecord] /\ \A y \in Peers : y # s => conn'[y] = conn[y]
    BY <1>0, <1>1, EndedFacts
  <1>8. ASSUME NEW c \in Clients PROVE CallInv(c)'
    <2>1. c # s /\ c \in Peers
      BY VisionAssumption DEF Peers
    <2>2. (Died => Died') /\ (Leaving => Leaving')
      BY <1>4, LeftKept
    <2> QED
      BY <1>1, <1>7, <2>1, <2>2, CallKept
  <1> QED
    BY <1>1, <1>2, <1>3, <1>4, <1>6, <1>7, <1>8, ConnStep

(* The process of a server is killed.                                      *)
LEMMA CrashInv ==
  ASSUME VisionInv, NEW s \in Servers, Crash(s)
  PROVE  VisionInv'
  <1> DEFINE r == [server[s] EXCEPT !.main = "dead", !.listener = "exited", !.fd = NoServer]
             old == server[s]
             lost(x) == InBacklog(x, s) \/ (old.fd = x /\ old.listener = "request")
             ended(x) == old.fd = x /\ old.listener = "reply"
  <1>0. /\ VisionTypeOK /\ ListenerInv(s) /\ old \in ServerRecord(s) /\ conn \in [Peers -> ConnRecord]
        /\ backlog \in [Servers -> Seq(Peers)]
    BY DEF VisionInv, VisionTypeOK
  <1>1. /\ SetServer(s, r) /\ UNCHANGED <<path, active, client>>
        /\ old.main # "dead"
        /\ backlog' = [backlog EXCEPT ![s] = <<>>]
        /\ conn' = [x \in DOMAIN conn |->
             CASE lost(x) -> Reset(x)
               [] ended(x) -> Ended(x, "eof")
               [] OTHER -> IF x = s /\ conn[x].st = "open" THEN Ended(x, "closed") ELSE conn[x]]
    BY DEF Crash
  <1>2. /\ path \in Servers \cup {NoServer} /\ active \in Servers \cup {NoServer}
    BY <1>0 DEF VisionTypeOK
  <1>3. r \in ServerRecord(s)
    BY <1>0 DEF ServerRecord, MainPC, ListenPC
  <1>4. /\ r.main = "dead" /\ r.listener = "exited" /\ r.fd = NoServer
        /\ r.should_exit = old.should_exit
        /\ r.cur_idx = old.cur_idx /\ r.idx = old.idx /\ r.turn = old.turn
        /\ r.explicit = old.explicit /\ r.frames = old.frames
    BY <1>0 DEF ServerRecord
  <1> HIDE DEF r
  <1>5. /\ DOMAIN server' = Servers /\ server'[s] = r
        /\ \A t \in Servers : t # s => server'[t] = server[t]
        /\ \A t \in Servers : server'[t] \in ServerRecord(t)
    BY <1>0, <1>1, <1>3, SetServerFacts
  <1>6. \A t \in Servers : SameFrames(server'[t], server[t]) /\ GoesOn(server'[t], server[t])
    BY <1>1, <1>4, <1>5 DEF SameFrames, GoesOn
  <1>7. (Died => Died') /\ (Leaving => Leaving') /\ Died' /\ Leaving'
    BY <1>4, <1>5, <1>6, LeftKept DEF Died, Leaving
  <1>8. /\ backlog' \in [Servers -> Seq(Peers)] /\ backlog'[s] = <<>>
        /\ \A t \in Servers : t # s => backlog'[t] = backlog[t]
    BY <1>0, <1>1
  <1>9. ASSUME NEW x \in Peers, lost(x) \/ ended(x)
        PROVE  conn[x].to = s /\ conn[x].st \in {"open", "closed"}
    <2>1. CASE InBacklog(x, s)
      <3>1. PICK i \in 1 .. Len(backlog[s]) : backlog[s][i] = x
        BY <2>1 DEF InBacklog
      <3>2. i \in DOMAIN backlog[s]
        BY <1>0
      <3> QED
        BY <1>0, <3>1, <3>2 DEF ListenerInv
    <2>2. CASE old.fd = x
      <3>1. x # NoServer
        BY NothingFacts
      <3> QED
        BY <1>0, <2>2, <3>1 DEF ListenerInv
    <2> QED
      BY <1>9, <2>1, <2>2
  <1>10. ASSUME NEW x \in Peers
         PROVE  /\ conn'[x] \in ConnRecord
                /\ lost(x) => conn'[x] = Reset(x)
                /\ ~lost(x) /\ ended(x) => conn'[x] = Ended(x, "eof")
                /\ ~lost(x) /\ ~ended(x) =>
                     conn'[x] = IF x = s /\ conn[x].st = "open" THEN Ended(x, "closed") ELSE conn[x]
    <2> HIDE DEF lost, ended
    <2>1. x \in DOMAIN conn /\ conn[x] \in ConnRecord
      BY <1>0
    <2>2. /\ lost(x) => conn'[x] = Reset(x)
          /\ ~lost(x) /\ ended(x) => conn'[x] = Ended(x, "eof")
          /\ ~lost(x) /\ ~ended(x) =>
               conn'[x] = IF x = s /\ conn[x].st = "open" THEN Ended(x, "closed") ELSE conn[x]
      <3> DEFINE rest == IF x = s /\ conn[x].st = "open" THEN Ended(x, "closed") ELSE conn[x]
      <3>1. conn'[x] = CASE lost(x) -> Reset(x) [] ended(x) -> Ended(x, "eof") [] OTHER -> rest
        BY <1>1, <2>1
      <3> HIDE DEF rest
      <3>2. lost(x) => ~ended(x)
        BY <1>0 DEF lost, ended, InBacklog, ListenerInv
      <3>3. lost(x) => conn'[x] = Reset(x)
        BY <3>1, <3>2
      <3>4. ~lost(x) /\ ended(x) => conn'[x] = Ended(x, "eof")
        BY <3>1
      <3>5. ~lost(x) /\ ~ended(x) => conn'[x] = rest
        BY <3>1
      <3> QED
        BY <3>3, <3>4, <3>5 DEF rest
    <2> QED
      BY <1>0, <2>1, <2>2, EndedFacts DEF Reset
  <1>11. conn' \in [Peers -> ConnRecord]
    <2>1. DOMAIN conn = Peers
      BY <1>0
    <2> HIDE DEF lost, ended
    <2> QED
      BY <1>1, <1>10, <2>1
  <1> HIDE DEF lost, ended
  <1>12. ASSUME NEW x \in Peers, conn[x].to # s
         PROVE  \/ conn'[x] = conn[x]
                \/ /\ x = s /\ conn[x].st = "open" /\ conn'[x].st = "closed"
                   /\ conn'[x].to = conn[x].to /\ conn'[x].req = conn[x].req
    <2>1. ~lost(x) /\ ~ended(x)
      BY <1>9, <1>12
    <2> QED
      BY <1>0, <1>10, <2>1, EndedFacts
  <1>13. ASSUME NEW t \in Servers PROVE ListenerInv(t)'
    <2>1. CASE t = s
      BY <1>4, <1>5, <1>8, <2>1 DEF ListenerInv
    <2>2. CASE t # s
      <3>1. ListenerInv(t) /\ server'[t] = server[t] /\ backlog'[t] = backlog[t]
            /\ server[t] \in ServerRecord(t) /\ t \in Peers
        BY <1>0, <1>5, <1>8, <2>2 DEF VisionInv, VisionTypeOK, Peers
      <3>2. \A i \in DOMAIN backlog[t] : backlog[t][i] \in Peers
        BY <1>0
      <3>3. server[t].fd \in Peers \cup {NoServer}
        BY <3>1, ServerFields
      <3>4. \A y \in Peers : conn[y].to = t /\ conn[y].st \in {"open", "closed"} =>
              /\ conn'[y].to = t /\ conn'[y].st \in {"open", "closed"} /\ conn'[y].req = conn[y].req
        BY <1>12, <2>2
      <3>5. conn[t] = NoConn => conn'[t] = NoConn
        BY <1>12, <2>2, <3>1, NothingFacts
      <3>6. server[t].main = "hangup" => conn'[t].st \in {"open", "eof", "reset"}
        <4> SUFFICES ASSUME server[t].main = "hangup" PROVE conn'[t].st \in {"open", "eof", "reset"}
          OBVIOUS
        <4>1. conn[t].st \in {"open", "eof", "reset"}
          BY <3>1 DEF ListenerInv
        <4>2. CASE lost(t) \/ ended(t)
          BY <1>0, <1>9, <1>10, <3>1, <4>1, <4>2, EndedFacts DEF Reset
        <4>3. CASE ~(lost(t) \/ ended(t))
          BY <1>10, <2>2, <3>1, <4>1, <4>3
        <4> QED
          BY <4>2, <4>3
      <3> QED
        BY <3>1, <3>2, <3>3, <3>4, <3>5, <3>6 DEF ListenerInv
    <2> QED
      BY <2>1, <2>2
  <1>14. ASSUME NEW c \in Clients PROVE CallInv(c)'
    <2>1. CallInv(c) /\ c \in Peers /\ c # s /\ client'[c] = client[c]
      BY <1>1, VisionAssumption DEF VisionInv, Peers
    <2>2. CASE lost(c) \/ ended(c)
      <3>1. conn[c].to = s /\ conn[c].st \in {"open", "closed"}
        BY <1>9, <2>1, <2>2
      <3>2. conn[c] # NoConn
        BY <3>1, NothingFacts
      <3>3. conn[c].st = "open" => /\ conn'[c].to = s /\ conn'[c].st \in {"eof", "reset"}
                                   /\ conn'[c].req = conn[c].req
        BY <1>0, <1>10, <2>1, <2>2, <3>1, EndedFacts DEF Reset
      <3> QED
        BY <1>7, <2>1, <3>1, <3>2, <3>3 DEF CallInv
    <2>3. CASE ~(lost(c) \/ ended(c))
      <3>1. conn'[c] = conn[c]
        BY <1>10, <2>1, <2>3
      <3> QED
        BY <1>7, <2>1, <3>1, CallKept
    <2> QED
      BY <2>2, <2>3
  <1> QED
    BY <1>1, <1>2, <1>5, <1>6, <1>8, <1>11, <1>13, <1>14, ConnStep
-----------------------------------------------------------------------------
(* The listener.                                                           *)

(* Only the record of the listener changes.                                *)
LEMMA SetListener ==
  ASSUME VisionTypeOK, NEW s \in Servers, NEW pc \in ListenPC, NEW fd \in Peers \cup {NoServer},
         SetServer(s, [server[s] EXCEPT !.listener = pc, !.fd = fd])
  PROVE  /\ DOMAIN server' = Servers /\ \A t \in Servers : server'[t] \in ServerRecord(t)
         /\ \A t \in Servers : t # s => server'[t] = server[t]
         /\ server'[s].main = server[s].main /\ server'[s].listener = pc /\ server'[s].fd = fd
         /\ server'[s].should_exit = server[s].should_exit
         /\ \A t \in Servers : SameFrames(server'[t], server[t]) /\ GoesOn(server'[t], server[t])
         /\ Died => Died'
         /\ Leaving => Leaving'
  <1> DEFINE r == [server[s] EXCEPT !.listener = pc, !.fd = fd]
  <1>1. server[s] \in ServerRecord(s)
    BY DEF VisionTypeOK
  <1>2. r \in ServerRecord(s)
    BY <1>1 DEF ServerRecord
  <1>3. /\ r.main = server[s].main /\ r.listener = pc /\ r.fd = fd
        /\ r.should_exit = server[s].should_exit
        /\ r.cur_idx = server[s].cur_idx /\ r.idx = server[s].idx /\ r.turn = server[s].turn
        /\ r.explicit = server[s].explicit /\ r.frames = server[s].frames
    BY <1>1 DEF ServerRecord
  <1> HIDE DEF r
  <1>4. /\ DOMAIN server' = Servers /\ server'[s] = r
        /\ \A t \in Servers : t # s => server'[t] = server[t]
        /\ \A t \in Servers : server'[t] \in ServerRecord(t)
    BY <1>2, SetServerFacts DEF r
  <1>5. \A t \in Servers : SameFrames(server'[t], server[t]) /\ GoesOn(server'[t], server[t])
    BY <1>3, <1>4 DEF SameFrames, GoesOn
  <1> QED
    BY <1>3, <1>4, <1>5, LeftKept

(* The listener moving on keeps the connection it works on.               *)
LEMMA ListenerSame ==
  ASSUME VisionTypeOK, NEW s \in Servers, NEW pc, Listener(s, pc)
  PROVE  SetServer(s, [server[s] EXCEPT !.listener = pc, !.fd = server[s].fd])
         /\ server[s].fd \in Peers \cup {NoServer}
  BY DEF VisionTypeOK, Listener, SetServer, ServerRecord

(* The listener moving on changes nothing but its line.                   *)
LEMMA ListenerFacts ==
  ASSUME VisionTypeOK, NEW s \in Servers, NEW pc \in ListenPC, Listener(s, pc)
  PROVE  /\ DOMAIN server' = Servers /\ \A t \in Servers : server'[t] \in ServerRecord(t)
         /\ \A t \in Servers : t # s => server'[t] = server[t]
         /\ server'[s].main = server[s].main /\ server'[s].listener = pc
         /\ server'[s].fd = server[s].fd /\ server'[s].should_exit = server[s].should_exit
         /\ \A t \in Servers : SameFrames(server'[t], server[t]) /\ GoesOn(server'[t], server[t])
         /\ Died => Died'
         /\ Leaving => Leaving'
  <1> DEFINE fd == server[s].fd
  <1>1. SetServer(s, [server[s] EXCEPT !.listener = pc, !.fd = fd]) /\ fd \in Peers \cup {NoServer}
    BY ListenerSame
  <1> HIDE DEF fd
  <1>2. /\ DOMAIN server' = Servers /\ \A t \in Servers : server'[t] \in ServerRecord(t)
        /\ \A t \in Servers : t # s => server'[t] = server[t]
        /\ server'[s].main = server[s].main /\ server'[s].listener = pc /\ server'[s].fd = fd
        /\ server'[s].should_exit = server[s].should_exit
        /\ \A t \in Servers : SameFrames(server'[t], server[t]) /\ GoesOn(server'[t], server[t])
        /\ Died => Died'
        /\ Leaving => Leaving'
    BY <1>1, SetListener
  <1> QED
    BY <1>2 DEF fd

(* Steps of the listener that leave the connections alone.                 *)
LEMMA BindInv ==
  ASSUME VisionInv, NEW s \in Servers, Bind(s) \/ Unlink(s)
  PROVE  VisionInv'
  <1>0. VisionTypeOK /\ ListenerInv(s)
    BY DEF VisionInv
  <1>1. /\ UNCHANGED <<active, client, conn, backlog>> /\ path' \in Servers \cup {NoServer}
        /\ active \in Servers \cup {NoServer}
    BY <1>0 DEF Bind, Unlink, VisionTypeOK
  <1>2. PICK pc \in {"poll", "exited"} :
          Listener(s, pc) /\ server[s].listener \in {"bind", "unlink"}
    BY DEF Bind, Unlink
  <1>3. pc \in ListenPC
    BY DEF ListenPC
  <1>4. /\ DOMAIN server' = Servers /\ \A t \in Servers : server'[t] \in ServerRecord(t)
        /\ \A t \in Servers : t # s => server'[t] = server[t]
        /\ server'[s].main = server[s].main /\ server'[s].listener = pc
        /\ server'[s].fd = server[s].fd /\ server'[s].should_exit = server[s].should_exit
        /\ \A t \in Servers : SameFrames(server'[t], server[t]) /\ GoesOn(server'[t], server[t])
    BY <1>0, <1>2, <1>3, ListenerFacts
  <1>5. ASSUME NEW t \in Servers PROVE ListenerInv(t)'
    <2>1. CASE t = s
      BY <1>0, <1>1, <1>2, <1>4, <2>1 DEF ListenerInv
    <2>2. CASE t # s
      BY <1>1, <1>4, <2>2, ListenerKept
    <2> QED
      BY <2>1, <2>2
  <1> QED
    BY <1>1, <1>4, <1>5, QuietStep

(* The accept of the next pending connection keeps the invariant.         *)
LEMMA AcceptInv ==
  ASSUME VisionInv, NEW s \in Servers, Accept(s)
  PROVE  VisionInv'
  <1>0. /\ VisionTypeOK /\ ListenerInv(s) /\ backlog \in [Servers -> Seq(Peers)]
        /\ path \in Servers \cup {NoServer} /\ active \in Servers \cup {NoServer}
        /\ conn \in [Peers -> ConnRecord]
    BY DEF VisionInv, VisionTypeOK
  <1>1. server[s].listener = "poll" /\ UNCHANGED <<path, active, client, conn>>
    BY DEF Accept
  <1>2. CASE server[s].should_exit /\ Listener(s, "close") /\ UNCHANGED backlog
    <2>1. /\ DOMAIN server' = Servers /\ \A t \in Servers : server'[t] \in ServerRecord(t)
          /\ \A t \in Servers : t # s => server'[t] = server[t]
          /\ server'[s].main = server[s].main /\ server'[s].listener = "close"
          /\ server'[s].fd = server[s].fd /\ server'[s].should_exit = server[s].should_exit
          /\ \A t \in Servers : SameFrames(server'[t], server[t]) /\ GoesOn(server'[t], server[t])
      <3>1. "close" \in ListenPC
        BY DEF ListenPC
      <3> QED
        BY <1>0, <1>2, <3>1, ListenerFacts
    <2>2. ASSUME NEW t \in Servers PROVE ListenerInv(t)'
      <3>1. CASE t = s
        BY <1>0, <1>1, <1>2, <2>1, <3>1 DEF ListenerInv
      <3>2. CASE t # s
        BY <1>1, <1>2, <2>1, <3>2, ListenerKept
      <3> QED
        BY <3>1, <3>2
    <2> QED
      BY <1>0, <1>1, <1>2, <2>1, <2>2, QuietStep
  <1>3. CASE ~server[s].should_exit /\ backlog[s] # <<>>
             /\ SetServer(s, [server[s] EXCEPT !.listener = "request", !.fd = Head(backlog[s])])
             /\ backlog' = [backlog EXCEPT ![s] = Tail(backlog[s])]
    <2> DEFINE q == backlog[s]
               x == Head(q)
    <2>1. q \in Seq(Peers) /\ q # <<>>
      BY <1>0, <1>3
    <2>2. /\ x \in Peers /\ x = q[1] /\ 1 \in DOMAIN q /\ Tail(q) \in Seq(Peers)
          /\ \A i \in DOMAIN Tail(q) : i + 1 \in DOMAIN q /\ Tail(q)[i] = q[i + 1] /\ i \in Nat /\ i >= 1
      BY <2>1
    <2>3. /\ backlog' \in [Servers -> Seq(Peers)] /\ backlog'[s] = Tail(q)
          /\ \A t \in Servers : t # s => backlog'[t] = backlog[t]
      BY <1>0, <1>3, <2>2
    <2>4. /\ DOMAIN server' = Servers /\ \A t \in Servers : server'[t] \in ServerRecord(t)
          /\ \A t \in Servers : t # s => server'[t] = server[t]
          /\ server'[s].main = server[s].main /\ server'[s].listener = "request"
          /\ server'[s].fd = x /\ server'[s].should_exit = server[s].should_exit
          /\ \A t \in Servers : SameFrames(server'[t], server[t]) /\ GoesOn(server'[t], server[t])
          /\ (Died => Died') /\ (Leaving => Leaving')
      <3>1. "request" \in ListenPC /\ x \in Peers \cup {NoServer}
        BY <2>2 DEF ListenPC
      <3>2. SetServer(s, [server[s] EXCEPT !.listener = "request", !.fd = x])
        BY <1>3
      <3>3. VisionTypeOK
        BY <1>0
      <3> HIDE DEF x
      <3>4. /\ DOMAIN server' = Servers /\ \A t \in Servers : server'[t] \in ServerRecord(t)
            /\ \A t \in Servers : t # s => server'[t] = server[t]
            /\ server'[s].main = server[s].main /\ server'[s].listener = "request"
            /\ server'[s].fd = x /\ server'[s].should_exit = server[s].should_exit
        <4>1. PICK pc \in ListenPC : pc = "request"
          BY <3>1
        <4>2. SetServer(s, [server[s] EXCEPT !.listener = pc, !.fd = x])
          BY <3>2, <4>1
        <4>3. server'[s].listener = pc
          BY <3>1, <3>3, <4>2, SetListener
        <4>4. /\ DOMAIN server' = Servers /\ \A t \in Servers : server'[t] \in ServerRecord(t)
              /\ \A t \in Servers : t # s => server'[t] = server[t]
          BY <3>1, <3>3, <4>2, SetListener
        <4>5. /\ server'[s].main = server[s].main
              /\ server'[s].fd = x /\ server'[s].should_exit = server[s].should_exit
          BY <3>1, <3>3, <4>2, SetListener
        <4> QED
          BY <4>1, <4>3, <4>4, <4>5
      <3>5. \A t \in Servers : SameFrames(server'[t], server[t]) /\ GoesOn(server'[t], server[t])
        BY <3>1, <3>2, <3>3, SetListener
      <3>6. (Died => Died') /\ (Leaving => Leaving')
        BY <3>1, <3>2, <3>3, SetListener
      <3> QED
        BY <3>4, <3>5, <3>6
    <2>5. ASSUME NEW t \in Servers PROVE ListenerInv(t)'
      <3>1. CASE t = s
        <4> DEFINE b == Tail(q)
        <4>1. \A i \in DOMAIN b : \E j \in DOMAIN q : b[i] = q[j] /\ j # 1 /\ j = i + 1
          BY <2>2
        <4>2. /\ \A i \in DOMAIN q : conn[q[i]].to = s /\ conn[q[i]].st \in {"open", "closed"}
              /\ \A i, j \in DOMAIN q : q[i] = q[j] => i = j
          BY <1>0 DEF ListenerInv
        <4>n. \A i \in DOMAIN b : i \in Nat
          BY <2>2
        <4> HIDE DEF b
        <4>3. /\ \A i \in DOMAIN b : conn[b[i]].to = s /\ conn[b[i]].st \in {"open", "closed"}
              /\ \A i \in DOMAIN b : b[i] # x
          BY <2>2, <4>1, <4>2
        <4>4. ASSUME NEW i \in DOMAIN b, NEW j \in DOMAIN b, b[i] = b[j] PROVE i = j
          <5>1. i + 1 = j + 1
            BY <4>1, <4>2, <4>4
          <5> QED
            BY <4>n, <5>1
        <4>5. x # NoServer /\ conn[x].to = s /\ conn[x].st \in {"open", "closed"}
          BY <2>2, <4>2, NothingFacts
        <4>6. backlog'[t] = b
          BY <2>3, <3>1 DEF b
        <4> HIDE DEF x, q
        <4> QED
          BY <1>0, <1>1, <2>4, <3>1, <4>3, <4>4, <4>5, <4>6 DEF ListenerInv
      <3>2. CASE t # s
        BY <1>1, <2>3, <2>4, <3>2, ListenerKept
      <3> QED
        BY <3>1, <3>2
    <2>6. \A c \in Clients : CallInv(c)'
      BY <1>1, <2>4, CallKept
    <2> QED
      BY <1>0, <1>1, <2>3, <2>4, <2>5, <2>6, ConnStep
  <1> QED
    BY <1>2, <1>3 DEF Accept

(* The listener lets go of a connection.                                   *)
LEMMA LetGo ==
  ASSUME VisionInv, NEW s \in Servers, NextPoll(s), server[s].listener \in {"request", "reply"},
         UNCHANGED <<path, active, client, backlog>>,
         NEW new \in ConnRecord, conn' = [conn EXCEPT ![server[s].fd] = new],
         \/ new = NoConn /\ conn[server[s].fd].st = "closed"
         \/ /\ server[s].listener = "reply" /\ conn[server[s].fd].st = "open"
            /\ new.st = "eof" /\ new.to = s /\ new.req = conn[server[s].fd].req
            /\ new.reply = new.req \/ ~Serving(s)
  PROVE  VisionInv'
  <1> DEFINE x == server[s].fd
  <1>0. /\ VisionTypeOK /\ ListenerInv(s) /\ backlog \in [Servers -> Seq(Peers)]
        /\ path \in Servers \cup {NoServer} /\ active \in Servers \cup {NoServer}
        /\ conn \in [Peers -> ConnRecord] /\ server[s] \in ServerRecord(s)
    BY DEF VisionInv, VisionTypeOK
  <1>1. x \in Peers
    BY <1>0, ServerFields DEF ListenerInv
  <1>2. /\ DOMAIN server' = Servers /\ \A t \in Servers : server'[t] \in ServerRecord(t)
        /\ \A t \in Servers : t # s => server'[t] = server[t]
        /\ server'[s].main = server[s].main /\ server'[s].listener = "poll"
        /\ server'[s].fd = NoServer /\ server'[s].should_exit = server[s].should_exit
        /\ \A t \in Servers : SameFrames(server'[t], server[t]) /\ GoesOn(server'[t], server[t])
        /\ (Died => Died') /\ (Leaving => Leaving')
    BY <1>0, SetListener DEF NextPoll, ListenPC
  <1>3. /\ conn[x].to = s /\ conn[x].st \in {"open", "closed"} /\ x # NoServer
        /\ \A i \in DOMAIN backlog[s] : backlog[s][i] # x
    BY <1>0, <1>1, NothingFacts DEF ListenerInv
  <1>4. /\ conn' \in [Peers -> ConnRecord] /\ conn'[x] = new
        /\ \A y \in Peers : y # x => conn'[y] = conn[y]
    BY <1>0, <1>1
  <1>5. conn[x] # NoConn
    BY <1>3, NothingFacts
  <1>r. server[s].listener = "reply" => conn[x].req # "none"
    BY <1>0 DEF ListenerInv
  <1> HIDE DEF x
  <1>6. ASSUME NEW t \in Servers PROVE ListenerInv(t)'
    <2>1. t \in Peers /\ ListenerInv(t)
      BY DEF Peers, VisionInv
    <2>2. (conn[t] = NoConn => conn'[t] = NoConn)
          /\ (conn'[t].st = conn[t].st \/ conn'[t].st \in {"open", "eof", "reset"}
                                       \/ server[t].main # "hangup")
      <3>1. CASE t = x
        BY <1>4, <1>5, <2>1, <3>1 DEF ListenerInv, x
      <3>2. CASE t # x
        BY <1>4, <2>1, <3>2
      <3> QED
        BY <3>1, <3>2
    <2>3. CASE t # s
      <3>1. \A y \in Peers : conn[y].to = t => conn'[y] = conn[y]
        BY <1>3, <1>4, <2>3
      <3> QED
        BY <1>2, <2>2, <2>3, <3>1, ListenerKept
    <2>4. CASE t = s
      <3>1. \A i \in DOMAIN backlog[s] : backlog[s][i] \in Peers
        BY <1>0
      <3>2. \A i \in DOMAIN backlog[s] : conn'[backlog[s][i]] = conn[backlog[s][i]]
        BY <1>3, <1>4, <3>1
      <3> QED
        BY <1>0, <1>2, <2>2, <2>4, <3>2 DEF ListenerInv
    <2> QED
      BY <2>3, <2>4
  <1>7. ASSUME NEW c \in Clients PROVE CallInv(c)'
    <2>1. c \in Peers /\ CallInv(c) /\ client'[c] = client[c]
      BY DEF Peers, VisionInv
    <2>2. CASE c # x
      <3>1. conn'[c] = conn[c]
        BY <1>4, <2>1, <2>2
      <3> QED
        BY <1>2, <2>1, <3>1, CallKept
    <2>3. CASE c = x
      <3>1. CASE conn[x].st = "closed"
        BY <1>5, <2>1, <2>3, <3>1 DEF CallInv
      <3>2. CASE conn[x].st = "open"
        <4>1. /\ server[s].listener = "reply" /\ new.st = "eof" /\ new.to = s /\ new.req = conn[x].req
              /\ new.reply = new.req \/ ~Serving(s)
          BY <3>2 DEF x
        <4> QED
          BY <1>4, <1>5, <1>r, <2>1, <2>3, <3>2, <4>1 DEF CallInv
      <3> QED
        BY <1>3, <3>1, <3>2
    <2> QED
      BY <2>2, <2>3
  <1> QED
    BY <1>0, <1>2, <1>4, <1>6, <1>7, ConnStep
(* Reading a request and answering it, also when the peer is gone, keep   *)
(* the invariant.                                                         *)
LEMMA ReplyInv ==
  ASSUME VisionInv, NEW s \in Servers, ReadRequest(s) \/ Reply(s) \/ ReplyToNobody(s)
  PROVE  VisionInv'
  <1> DEFINE x == server[s].fd
  <1>0. /\ VisionTypeOK /\ ListenerInv(s) /\ server[s] \in ServerRecord(s)
        /\ path \in Servers \cup {NoServer} /\ active \in Servers \cup {NoServer}
        /\ conn \in [Peers -> ConnRecord]
    BY DEF VisionInv, VisionTypeOK
  <1>1. CASE server[s].listener = "request" /\ conn[x].req # "none" /\ Listener(s, "reply")
             /\ UNCHANGED <<path, active, client, conn, backlog>>
    <2>1. "reply" \in ListenPC
      BY DEF ListenPC
    <2>2. /\ DOMAIN server' = Servers /\ \A t \in Servers : server'[t] \in ServerRecord(t)
          /\ \A t \in Servers : t # s => server'[t] = server[t]
          /\ server'[s].main = server[s].main /\ server'[s].listener = "reply"
          /\ server'[s].fd = server[s].fd /\ server'[s].should_exit = server[s].should_exit
          /\ \A t \in Servers : SameFrames(server'[t], server[t]) /\ GoesOn(server'[t], server[t])
      BY <1>0, <1>1, <2>1, ListenerFacts
    <2>3. ASSUME NEW t \in Servers PROVE ListenerInv(t)'
      <3>1. CASE t = s
        BY <1>0, <1>1, <2>2, <3>1 DEF ListenerInv
      <3>2. CASE t # s
        BY <1>1, <2>2, <3>2, ListenerKept
      <3> QED
        BY <3>1, <3>2
    <2> QED
      BY <1>0, <1>1, <2>2, <2>3, QuietStep
  <1>2. CASE server[s].listener \in {"request", "reply"} /\ conn[x].st = "closed" /\ NextPoll(s)
             /\ conn' = [conn EXCEPT ![x] = NoConn] /\ UNCHANGED <<path, active, client, backlog>>
    BY <1>2, LetGo, NothingFacts
  <1>3. CASE Reply(s)
    <2> DEFINE reply == IF conn[x].req = "list" \/ Serving(s) THEN conn[x].req ELSE "none"
               new == [conn[x] EXCEPT !.st = "eof", !.reply = reply]
    <2>1. /\ server[s].listener = "reply" /\ conn[x].st = "open" /\ NextPoll(s)
          /\ UNCHANGED <<path, active, client, backlog>>
          /\ conn' = [conn EXCEPT ![x].st = "eof", ![x].reply = reply]
      BY <1>3 DEF Reply
    <2>2. x \in Peers /\ conn[x].to = s
      BY <1>0, <2>1, ServerFields DEF ListenerInv
    <2>3. conn[x] \in ConnRecord
      BY <1>0, <2>2
    <2>4. reply \in {"none", "list", "stream"} /\ (reply = conn[x].req \/ ~Serving(s))
      BY <2>3 DEF ConnRecord
    <2> HIDE DEF reply, x
    <2>5. conn' = [conn EXCEPT ![x] = new]
      BY <1>0, <2>1, <2>2, <2>3 DEF ConnRecord
    <2>6. new \in ConnRecord /\ new.st = "eof" /\ new.to = s /\ new.req = conn[x].req /\ new.reply = reply
      BY <2>2, <2>3, <2>4 DEF ConnRecord
    <2> HIDE DEF new
    <2>7. server[s].listener \in {"request", "reply"} /\ (new.reply = new.req \/ ~Serving(s))
      BY <2>1, <2>4, <2>6
    <2>8. conn' = [conn EXCEPT ![server[s].fd] = new] /\ conn[server[s].fd].st = "open"
          /\ new.req = conn[server[s].fd].req
      BY <2>1, <2>5, <2>6 DEF x
    <2> QED
      BY <2>1, <2>6, <2>7, <2>8, LetGo
  <1>4. CASE Crash(s)
    BY <1>4, CrashInv
  <1> QED
    BY <1>1, <1>2, <1>3, <1>4 DEF ReadRequest, ReplyToNobody

(* The listener closes its socket, and resets who still waits there.       *)
LEMMA CloseInv ==
  ASSUME VisionInv, NEW s \in Servers, CloseListener(s)
  PROVE  VisionInv'
  <1>0. /\ VisionTypeOK /\ ListenerInv(s) /\ backlog \in [Servers -> Seq(Peers)]
        /\ path \in Servers \cup {NoServer} /\ active \in Servers \cup {NoServer}
        /\ conn \in [Peers -> ConnRecord]
    BY DEF VisionInv, VisionTypeOK
  <1>1. /\ server[s].listener = "close" /\ Listener(s, "unlink") /\ UNCHANGED <<path, active, client>>
        /\ conn' = [x \in DOMAIN conn |-> IF InBacklog(x, s) THEN Reset(x) ELSE conn[x]]
        /\ backlog' = [backlog EXCEPT ![s] = <<>>]
    BY DEF CloseListener
  <1>2. "unlink" \in ListenPC
    BY DEF ListenPC
  <1>3. /\ DOMAIN server' = Servers /\ \A t \in Servers : server'[t] \in ServerRecord(t)
        /\ \A t \in Servers : t # s => server'[t] = server[t]
        /\ server'[s].main = server[s].main /\ server'[s].listener = "unlink"
        /\ server'[s].fd = server[s].fd /\ server'[s].should_exit = server[s].should_exit
        /\ \A t \in Servers : SameFrames(server'[t], server[t]) /\ GoesOn(server'[t], server[t])
        /\ (Died => Died') /\ (Leaving => Leaving')
    BY <1>0, <1>1, <1>2, ListenerFacts
  <1>4. Leaving'
    BY <1>0, <1>1, <1>3 DEF ListenerInv, Leaving
  <1>5. ASSUME NEW x \in Peers, InBacklog(x, s)
        PROVE  conn[x].to = s /\ conn[x].st \in {"open", "closed"}
    <2>1. PICK i \in 1 .. Len(backlog[s]) : backlog[s][i] = x
      BY <1>5 DEF InBacklog
    <2>2. i \in DOMAIN backlog[s]
      BY <1>0
    <2> QED
      BY <1>0, <2>1, <2>2 DEF ListenerInv
  <1>6. /\ DOMAIN conn' = Peers
        /\ \A x \in Peers : conn'[x] = IF InBacklog(x, s) THEN Reset(x) ELSE conn[x]
    BY <1>0, <1>1
  <1>7. ASSUME NEW x \in Peers
        PROVE  /\ conn'[x] \in ConnRecord
               /\ InBacklog(x, s) /\ conn[x].st = "open" =>
                    conn'[x].st = "reset" /\ conn'[x].to = conn[x].to /\ conn'[x].req = conn[x].req
    BY <1>0, <1>6, EndedFacts DEF Reset
  <1>8. conn' \in [Peers -> ConnRecord]
    <2>1. conn' = [x \in Peers |-> conn'[x]]
      BY <1>0, <1>1
    <2> QED
      BY <1>7, <2>1
  <1>9. /\ backlog' \in [Servers -> Seq(Peers)] /\ backlog'[s] = <<>>
        /\ \A t \in Servers : t # s => backlog'[t] = backlog[t]
    BY <1>0, <1>1
  <1>10. \A x \in Peers : conn[x].to # s => conn'[x] = conn[x]
    BY <1>5, <1>6
  <1>11. ASSUME NEW t \in Servers PROVE ListenerInv(t)'
    <2>0. t \in Peers /\ ListenerInv(t)
      BY DEF Peers, VisionInv
    <2>1. conn[t] = NoConn => conn'[t] = NoConn
      BY <1>10, <2>0, NothingFacts
    <2>2. server[t].main = "hangup" => conn'[t].st \in {"open", "eof", "reset"}
      <3>1. CASE InBacklog(t, s)
        BY <1>5, <1>7, <2>0, <3>1 DEF ListenerInv
      <3>2. CASE ~InBacklog(t, s)
        BY <1>6, <2>0, <3>2 DEF ListenerInv
      <3> QED
        BY <3>1, <3>2
    <2>3. CASE t = s
      <3>1. DOMAIN backlog'[s] = {}
        BY <1>9
      <3>2. server[s].fd = NoServer
        BY <1>0, <1>1 DEF ListenerInv
      <3> QED
        BY <1>0, <1>1, <1>3, <2>1, <2>2, <2>3, <3>1, <3>2 DEF ListenerInv
    <2>4. CASE t # s
      <3>1. \A y \in Peers : conn[y].to = t => conn'[y] = conn[y]
        BY <1>10, <2>4
      <3> QED
        BY <1>3, <1>9, <2>1, <2>2, <2>4, <3>1, ListenerKept
    <2> QED
      BY <2>3, <2>4
  <1>12. ASSUME NEW c \in Clients PROVE CallInv(c)'
    <2>1. c \in Peers /\ CallInv(c) /\ client'[c] = client[c]
      BY <1>1 DEF Peers, VisionInv
    <2>2. CASE ~InBacklog(c, s)
      <3>1. conn'[c] = conn[c]
        BY <1>6, <2>1, <2>2
      <3> QED
        BY <1>3, <2>1, <3>1, CallKept
    <2>3. CASE InBacklog(c, s)
      <3>1. conn[c].to = s /\ conn[c].st \in {"open", "closed"} /\ conn[c] # NoConn
        BY <1>5, <2>1, <2>3, NothingFacts
      <3>2. conn[c].st = "open" =>
              conn'[c].st = "reset" /\ conn'[c].to = conn[c].to /\ conn'[c].req = conn[c].req
        BY <1>7, <2>1, <2>3
      <3> QED
        BY <1>4, <2>1, <3>1, <3>2 DEF CallInv
    <2> QED
      BY <2>2, <2>3
  <1> QED
    BY <1>0, <1>1, <1>3, <1>8, <1>9, <1>11, <1>12, ConnStep
-----------------------------------------------------------------------------
(* The clients.                                                            *)

(* A step of one client.                                                   *)
LEMMA ClientInv ==
  ASSUME VisionInv, NEW c \in Clients, UNCHANGED <<path, active, server>>,
         client' \in [Clients -> ClientRecord],
         \A d \in Clients : d # c => client'[d] = client[d] /\ conn'[d] = conn[d],
         conn' \in [Peers -> ConnRecord], backlog' \in [Servers -> Seq(Peers)],
         \A t \in Servers : ListenerInv(t)',
         MapInv(c)', HeldInv(c)', CallInv(c)', FailsInv(c)'
  PROVE  VisionInv'
  <1>1. VisionTypeOK'
    BY DEF VisionInv, VisionTypeOK
  <1>2. \A t \in Servers : SameFrames(server'[t], server[t])
    BY DEF SameFrames
  <1>3. /\ \A s \in Servers : ServerInv(s)'
        /\ \A p \in Packet : FreshIn(server, p) => FreshIn(server', p)
    BY <1>2, FramesKept
  <1>4. (Died => Died') /\ (Leaving => Leaving')
    BY DEF Died, Leaving
  <1>5. ASSUME NEW d \in Clients PROVE MapInv(d)' /\ HeldInv(d)' /\ CallInv(d)' /\ FailsInv(d)'
    <2>1. CASE d = c
      BY <2>1
    <2>2. CASE d # c
      <3>1. MapInv(d)' /\ HeldInv(d)'
        BY <1>3, <2>2, HeldKept
      <3>2. CallInv(d)'
        BY <1>4, <2>2, CallKept
      <3>3. FailsInv(d)'
        BY <1>4, <2>2, FailsKept DEF VisionInv
      <3> QED
        BY <3>1, <3>2, <3>3
    <2> QED
      BY <2>1, <2>2
  <1>6. FailsOnlyWithServer'
    BY <1>5, FailsNext
  <1> QED
    BY <1>1, <1>3, <1>5, <1>6 DEF VisionInv

(* A step of a client without a connection, that maps nothing new.         *)
LEMMA LocalInv ==
  ASSUME VisionInv, NEW c \in Clients, UNCHANGED <<path, active, server, conn, backlog>>,
         NEW r \in ClientRecord, SetClient(c, r),
         r.buffers = client[c].buffers,
         \/ r.num_buffers = client[c].num_buffers /\ r.mapped = client[c].mapped
         \/ r.num_buffers = 0 /\ r.mapped = {} /\ ~r.connected,
         ~r.connected \/ (r.connected = client[c].connected /\ r.num_buffers = client[c].num_buffers),
         \/ r.held = NoFrame
         \/ r.held = client[c].held /\ r.num_buffers = client[c].num_buffers /\ r.op # "stream"
         \/ /\ \E j \in DOMAIN client[c].pending : r.held = client[c].pending[j]
            /\ r.num_buffers = client[c].num_buffers /\ r.op # "stream"
            /\ r.held.idx < r.num_buffers /\ r.buffers[r.held.idx].server = r.held.server,
         \A j \in DOMAIN r.pending :
           \E k \in DOMAIN client[c].pending : r.pending[j] = client[c].pending[k],
         \/ r.pc = client[c].pc /\ r.op = client[c].op
         \/ /\ client[c].pc \in {"idle", "connect", "poll"} /\ r.pc \in {"idle", "connect", "poll"}
            /\ (r.pc = "connect") = (r.op # "none")
  PROVE  VisionInv'
  <1>0. /\ VisionTypeOK /\ MapInv(c) /\ HeldInv(c) /\ CallInv(c) /\ FailsOnlyWithServer
        /\ conn \in [Peers -> ConnRecord] /\ backlog \in [Servers -> Seq(Peers)]
    BY DEF VisionInv, VisionTypeOK
  <1>1. /\ client' \in [Clients -> ClientRecord] /\ client'[c] = r
        /\ \A d \in Clients : d # c => client'[d] = client[d]
    BY <1>0, SetClientFacts
  <1>2. ASSUME NEW t \in Servers PROVE ListenerInv(t)'
    BY ListenerKept
  <1>3. MapInv(c)'
    <2>1. {r.buffers[i] : i \in 0 .. 0 - 1} = {}
      OBVIOUS
    <2>2. CASE r.num_buffers = client[c].num_buffers /\ r.mapped = client[c].mapped
      BY <1>0, <1>1, <2>2 DEF MapInv
    <2>3. CASE r.num_buffers = 0 /\ r.mapped = {}
      BY <1>0, <1>1, <2>1, <2>3, MaxFacts DEF MapInv
    <2> QED
      BY <2>2, <2>3
  <1>4. HeldInv(c)'
    BY <1>0, <1>1 DEF HeldInv
  <1>5. CallInv(c)'
    BY <1>0, <1>1 DEF CallInv, Died, Leaving
  <1>6. FailsInv(c)'
    <2>1. FailsInv(c)
      BY <1>0, FailsFacts
    <2> QED
      BY <1>1, <2>1 DEF FailsInv, Died, Leaving
  <1> QED
    BY <1>0, <1>1, <1>2, <1>3, <1>4, <1>5, <1>6, ClientInv

(* A client beginning a call keeps the invariant.                         *)
LEMMA BeginInv ==
  ASSUME VisionInv, NEW c \in Clients, ClientCall(c)
  PROVE  VisionInv'
  <1>0. client[c] \in ClientRecord /\ NoFrame \in Packet
    BY NothingFacts DEF VisionInv, VisionTypeOK
  <1>1. ASSUME NEW b \in BOOLEAN, Connect(c, b) PROVE VisionInv'
    <2> DEFINE r == [client[c] EXCEPT !.pc = "connect", !.op = "stream", !.blocking = b,
                       !.connected = FALSE, !.mapped = {}, !.num_buffers = 0, !.held = NoFrame]
    <2>1. /\ client[c].pc = "idle" /\ SetClient(c, r)
          /\ UNCHANGED <<path, active, server, conn, backlog>>
      BY <1>1 DEF Connect, Call
    <2>2. r \in ClientRecord
      BY <1>0 DEF ClientRecord, ClientPC
    <2>3. /\ r.pc = "connect" /\ r.op = "stream" /\ r.connected = FALSE /\ r.mapped = {}
          /\ r.num_buffers = 0 /\ r.held = NoFrame /\ r.buffers = client[c].buffers
          /\ r.pending = client[c].pending
      BY <1>0 DEF ClientRecord
    <2> HIDE DEF r
    <2> QED
      BY <2>1, <2>2, <2>3, LocalInv
  <1>2. ASSUME NEW b \in BOOLEAN, GetAvailableStreams(c, b) PROVE VisionInv'
    <2> DEFINE r == [client[c] EXCEPT !.pc = "connect", !.op = "list", !.blocking = b]
    <2>1. /\ client[c].pc = "idle" /\ SetClient(c, r)
          /\ UNCHANGED <<path, active, server, conn, backlog>>
      BY <1>2 DEF GetAvailableStreams, Call
    <2>2. r \in ClientRecord
      BY <1>0 DEF ClientRecord, ClientPC
    <2>3. /\ r.pc = "connect" /\ r.op = "list" /\ r.connected = client[c].connected
          /\ r.mapped = client[c].mapped /\ r.num_buffers = client[c].num_buffers
          /\ r.held = client[c].held /\ r.buffers = client[c].buffers
          /\ r.pending = client[c].pending
      BY <1>0 DEF ClientRecord
    <2> HIDE DEF r
    <2> QED
      BY <2>1, <2>2, <2>3, LocalInv
  <1>3. CASE BeginRecv(c)
    <2> DEFINE r == [client[c] EXCEPT !.pc = "poll", !.held = NoFrame]
    <2>1. /\ client[c].pc = "idle" /\ SetClient(c, r)
          /\ UNCHANGED <<path, active, server, conn, backlog>>
      BY <1>3 DEF BeginRecv, Call
    <2>2. r \in ClientRecord
      BY <1>0 DEF ClientRecord, ClientPC
    <2>3. /\ r.pc = "poll" /\ r.op = client[c].op /\ r.connected = client[c].connected
          /\ r.mapped = client[c].mapped /\ r.num_buffers = client[c].num_buffers
          /\ r.held = NoFrame /\ r.buffers = client[c].buffers
          /\ r.pending = client[c].pending
      BY <1>0 DEF ClientRecord
    <2>4. client[c].op = "none"
      BY <2>1 DEF VisionInv, CallInv
    <2> HIDE DEF r
    <2> QED
      BY <2>1, <2>2, <2>3, <2>4, LocalInv
  <1> QED
    BY <1>1, <1>2, <1>3 DEF ClientCall

(* Steps of a receive.                                                     *)
LEMMA RecvInv ==
  ASSUME VisionInv, NEW c \in Clients, Register(c) \/ Timeout(c) \/ Lap(c) \/ Recv(c)
  PROVE  VisionInv'
  <1> DEFINE old == client[c]
  <1>0. old \in ClientRecord /\ old.pending \in Seq(Packet)
    BY DEF VisionInv, VisionTypeOK, ClientRecord
  <1>1. UNCHANGED <<path, active, server, conn, backlog>>
    BY DEF Register, Timeout, Lap, Recv
  <1>2. CASE Register(c)
    <2> DEFINE r == [old EXCEPT !.evicted = FALSE]
    <2>1. SetClient(c, r)
      BY <1>2 DEF Register
    <2>2. r \in ClientRecord
      BY <1>0 DEF ClientRecord
    <2>3. /\ r.pc = old.pc /\ r.op = old.op /\ r.connected = old.connected
          /\ r.mapped = old.mapped /\ r.num_buffers = old.num_buffers
          /\ r.held = old.held /\ r.buffers = old.buffers /\ r.pending = old.pending
      BY <1>0 DEF ClientRecord
    <2>4. old.pc = "poll" /\ old.op = "none"
      BY <1>2 DEF VisionInv, CallInv, Register
    <2> HIDE DEF r
    <2> QED
      BY <1>1, <2>1, <2>2, <2>3, <2>4, LocalInv
  <1>3. CASE Timeout(c)
    <2> DEFINE r == [old EXCEPT !.pc = "idle"]
    <2>1. SetClient(c, r)
      BY <1>3 DEF Timeout
    <2>2. r \in ClientRecord
      BY <1>0 DEF ClientRecord, ClientPC
    <2>3. /\ r.pc = "idle" /\ r.op = old.op /\ r.connected = old.connected
          /\ r.mapped = old.mapped /\ r.num_buffers = old.num_buffers
          /\ r.held = old.held /\ r.buffers = old.buffers /\ r.pending = old.pending
      BY <1>0 DEF ClientRecord
    <2>4. old.pc = "poll" /\ old.op = "none"
      BY <1>3 DEF VisionInv, CallInv, Timeout
    <2> HIDE DEF r
    <2> QED
      BY <1>1, <2>1, <2>2, <2>3, <2>4, LocalInv
  <1>4. CASE Lap(c)
    <2> DEFINE e == <<>>
               r == [old EXCEPT !.pending = e]
    <2>1. SetClient(c, r)
      BY <1>4 DEF Lap
    <2>2. e \in Seq(Packet) /\ DOMAIN e = {}
      OBVIOUS
    <2> HIDE DEF e
    <2>3. r \in ClientRecord
      BY <1>0, <2>2 DEF ClientRecord
    <2>4. /\ r.pc = old.pc /\ r.op = old.op /\ r.connected = old.connected
          /\ r.mapped = old.mapped /\ r.num_buffers = old.num_buffers
          /\ r.held = old.held /\ r.buffers = old.buffers /\ r.pending = e
      BY <1>0 DEF ClientRecord
    <2>5. old.held = NoFrame \/ old.op # "stream"
      BY DEF VisionInv, HeldInv
    <2> HIDE DEF r
    <2> QED
      BY <1>1, <2>1, <2>2, <2>3, <2>4, <2>5, LocalInv
  <1>5. CASE Recv(c)
    <2> DEFINE q == old.pending
               last == c \in Conflating
               p == IF last THEN q[Len(q)] ELSE Head(q)
               rest == IF last THEN <<>> ELSE Tail(q)
               m == [old EXCEPT !.pc = "idle", !.pending = rest]
               r == IF KnownBuffer(m, p) THEN [m EXCEPT !.held = p] ELSE [m EXCEPT !.connected = FALSE]
    <2>1. old.pc = "poll" /\ q # <<>> /\ SetClient(c, r)
      BY <1>5 DEF Recv
    <2>2. old.op = "none"
      BY <2>1 DEF VisionInv, CallInv
    <2>3. /\ p \in Packet /\ \E j \in DOMAIN q : p = q[j]
          /\ rest \in Seq(Packet) /\ \A j \in DOMAIN rest : \E k \in DOMAIN q : rest[j] = q[k]
      <3>1. Len(q) \in DOMAIN q /\ 1 \in DOMAIN q /\ Head(q) = q[1]
        BY <1>0, <2>1
      <3>2. Tail(q) \in Seq(Packet) /\ \A j \in DOMAIN Tail(q) : j + 1 \in DOMAIN q /\ Tail(q)[j] = q[j + 1]
        BY <1>0, <2>1
      <3>3. q[Len(q)] \in Packet /\ q[1] \in Packet
        BY <1>0, <3>1
      <3>4. CASE last
        BY <3>1, <3>3, <3>4
      <3>5. CASE ~last
        BY <3>1, <3>2, <3>3, <3>5
      <3> QED
        BY <3>4, <3>5
    <2> HIDE DEF p, rest, q, last
    <2>4. /\ m \in ClientRecord /\ m.pc = "idle" /\ m.op = old.op /\ m.connected = old.connected
          /\ m.mapped = old.mapped /\ m.num_buffers = old.num_buffers
          /\ m.held = old.held /\ m.buffers = old.buffers /\ m.pending = rest
      BY <1>0, <2>3 DEF ClientRecord, ClientPC
    <2> HIDE DEF m
    <2>5. CASE KnownBuffer(m, p)
      <3>1. r = [m EXCEPT !.held = p]
        BY <2>5
      <3>2. p.idx < m.num_buffers /\ m.buffers[p.idx].server = p.server
        BY <2>5 DEF KnownBuffer, KnownIndex
      <3> HIDE DEF r
      <3>3. /\ r \in ClientRecord /\ r.pc = "idle" /\ r.op = old.op /\ r.connected = old.connected
            /\ r.mapped = old.mapped /\ r.num_buffers = old.num_buffers
            /\ r.held = p /\ r.buffers = old.buffers /\ r.pending = rest
        BY <2>3, <2>4, <3>1 DEF ClientRecord
      <3>4. r.held.idx < r.num_buffers /\ r.buffers[r.held.idx].server = r.held.server
        BY <2>4, <3>2, <3>3
      <3>5. \E j \in DOMAIN client[c].pending : r.held = client[c].pending[j]
        BY <2>3, <3>3 DEF q
      <3>6. \A j \in DOMAIN r.pending :
              \E k \in DOMAIN client[c].pending : r.pending[j] = client[c].pending[k]
        BY <2>3, <3>3 DEF q
      <3> QED
        BY <1>1, <2>1, <2>2, <3>3, <3>4, <3>5, <3>6, LocalInv
    <2>6. CASE ~KnownBuffer(m, p)
      <3>1. r = [m EXCEPT !.connected = FALSE]
        BY <2>6
      <3> HIDE DEF r
      <3>2. /\ r \in ClientRecord /\ r.pc = "idle" /\ r.op = old.op /\ r.connected = FALSE
            /\ r.mapped = old.mapped /\ r.num_buffers = old.num_buffers
            /\ r.held = old.held /\ r.buffers = old.buffers /\ r.pending = rest
        BY <2>4, <3>1 DEF ClientRecord
      <3>3. \A j \in DOMAIN r.pending :
              \E k \in DOMAIN client[c].pending : r.pending[j] = client[c].pending[k]
        BY <2>3, <3>2 DEF q
      <3> QED
        BY <1>1, <2>1, <2>2, <3>2, <3>3, LocalInv
    <2> QED
      BY <2>5, <2>6
  <1> QED
    BY <1>2, <1>3, <1>4, <1>5

(* A step of a client in a call to its server, that maps nothing new.      *)
LEMMA TalkInv ==
  ASSUME VisionInv, NEW c \in Clients, UNCHANGED <<path, active, server>>,
         NEW r \in ClientRecord, SetClient(c, r),
         LET q == client[c] IN
           /\ r.op = q.op /\ r.connected = q.connected /\ r.num_buffers = q.num_buffers
           /\ r.buffers = q.buffers /\ r.mapped = q.mapped /\ r.held = q.held
           /\ r.pending = q.pending \/ DOMAIN r.pending = {},
         r.pc = "aborted" => Leaving,
         conn' \in [Peers -> ConnRecord], backlog' \in [Servers -> Seq(Peers)],
         \A d \in Clients : d # c => conn'[d] = conn[d],
         \A t \in Servers : ListenerInv(t)', CallInv(c)'
  PROVE  VisionInv'
  <1>0. VisionTypeOK /\ MapInv(c) /\ HeldInv(c) /\ FailsInv(c)
    BY FailsFacts DEF VisionInv
  <1>1. /\ client' \in [Clients -> ClientRecord] /\ client'[c] = r
        /\ \A d \in Clients : d # c => client'[d] = client[d]
    BY <1>0, SetClientFacts
  <1>2. MapInv(c)'
    BY <1>0, <1>1 DEF MapInv
  <1>3. HeldInv(c)'
    BY <1>0, <1>1 DEF HeldInv
  <1>4. FailsInv(c)'
    BY <1>0, <1>1 DEF FailsInv, Died, Leaving
  <1> QED
    BY <1>1, <1>2, <1>3, <1>4, ClientInv

(* connect_to_vipc_server.                                                 *)
LEMMA ConnectInv ==
  ASSUME VisionInv, NEW c \in Clients, ConnectToServer(c)
  PROVE  VisionInv'
  <1> DEFINE old == client[c]
  <1>0. /\ VisionTypeOK /\ old \in ClientRecord /\ CallInv(c) /\ HeldInv(c) /\ c \in Peers
        /\ c \notin Servers
    BY VisionAssumption DEF VisionInv, VisionTypeOK, Peers
  <1>1. old.pc = "connect" /\ UNCHANGED <<path, active, server>>
    BY DEF ConnectToServer
  <1>2. conn[c] = NoConn /\ old.op # "none"
    BY <1>0, <1>1 DEF CallInv
  <1>3. CASE Listening(path) /\ IpcConnect(c) /\ SetClient(c, [old EXCEPT !.pc = "request"])
    <2> DEFINE r == [old EXCEPT !.pc = "request"]
    <2>1. /\ r \in ClientRecord /\ r.pc = "request" /\ r.op = old.op /\ r.connected = old.connected
          /\ r.mapped = old.mapped /\ r.num_buffers = old.num_buffers
          /\ r.held = old.held /\ r.buffers = old.buffers /\ r.pending = old.pending
      BY <1>0 DEF ClientRecord, ClientPC
    <2>2. SetClient(c, r)
      BY <1>3
    <2> HIDE DEF r
    <2>3. \A t \in Servers : SameListener(server'[t], server[t]) /\ server'[t].main = server[t].main
      BY <1>1 DEF SameListener
    <2>4. /\ path \in Servers
          /\ conn' \in [Peers -> ConnRecord] /\ backlog' \in [Servers -> Seq(Peers)]
          /\ conn'[c].to = path /\ conn'[c].st = "open" /\ conn'[c].req = "none"
          /\ \A y \in Peers : y # c => conn'[y] = conn[y]
          /\ \A t \in Servers : ListenerInv(t)'
      BY <1>0, <1>2, <1>3, <2>3, ConnectFacts
    <2>5. client'[c] = r
      BY <1>0, <2>1, <2>2, SetClientFacts
    <2>6. CallInv(c)'
      BY <1>2, <2>1, <2>4, <2>5 DEF CallInv
    <2>7. \A d \in Clients : d # c => conn'[d] = conn[d]
      BY <2>4 DEF Peers
    <2> QED
      BY <1>1, <2>1, <2>2, <2>4, <2>6, <2>7, TalkInv
  <1>4. CASE SetClient(c, Returning(old)) /\ UNCHANGED <<conn, backlog>>
    <2> DEFINE r == Returning(old)
    <2>1. /\ r \in ClientRecord /\ r.pc = "idle" /\ r.op = "none" /\ r.connected = old.connected
          /\ r.mapped = old.mapped /\ r.num_buffers = old.num_buffers
          /\ r.held = old.held /\ r.buffers = old.buffers /\ r.pending = old.pending
      BY <1>0 DEF ClientRecord, ClientPC, Returning
    <2>2. SetClient(c, r)
      BY <1>4
    <2> HIDE DEF r
    <2> QED
      BY <1>1, <1>4, <2>1, <2>2, LocalInv
  <1> QED
    BY <1>3, <1>4 DEF ConnectToServer

(* A request arrives, which takes nothing from a listener.                 *)
LEMMA ListenerAsked ==
  ASSUME VisionInv, NEW t \in Servers, NEW c \in Clients, NEW new \in ConnRecord,
         conn' = [conn EXCEPT ![c] = new], UNCHANGED <<server, backlog>>,
         new.to = conn[c].to, new.st = conn[c].st, new.req # "none"
  PROVE  ListenerInv(t)'
  <1>0. ListenerInv(t) /\ server[t] \in ServerRecord(t) /\ backlog[t] \in Seq(Peers)
        /\ conn \in [Peers -> ConnRecord] /\ t \in Peers /\ t # c
    BY VisionAssumption DEF VisionInv, VisionTypeOK, Peers
  <1>1. \A y \in Peers : /\ conn'[y].to = conn[y].to /\ conn'[y].st = conn[y].st
                         /\ conn[y].req # "none" => conn'[y].req # "none"
    BY <1>0
  <1>2. \A i \in DOMAIN backlog[t] : backlog[t][i] \in Peers
    BY <1>0
  <1>3. server[t].fd \in Peers \cup {NoServer}
    BY <1>0, ServerFields
  <1>4. conn'[t] = conn[t]
    BY <1>0
  <1> QED
    BY <1>0, <1>1, <1>2, <1>3, <1>4 DEF ListenerInv

(* The request is sent, or the assert on it fails.                         *)
LEMMA RequestInv ==
  ASSUME VisionInv, NEW c \in Clients, SendRequest(c)
  PROVE  VisionInv'
  <1> DEFINE old == client[c]
  <1>0. /\ VisionTypeOK /\ old \in ClientRecord /\ CallInv(c) /\ c \in Peers
        /\ conn \in [Peers -> ConnRecord] /\ backlog \in [Servers -> Seq(Peers)]
    BY DEF VisionInv, VisionTypeOK, Peers
  <1>1. old.pc = "request" /\ UNCHANGED <<path, active, server, backlog>>
    BY DEF SendRequest
  <1>2. /\ conn[c].to \in Servers /\ conn[c].st \in {"open", "eof", "reset"}
        /\ old.op # "none" /\ old.op \in {"none", "list", "stream"}
        /\ conn[c].st # "open" => Leaving
    BY <1>0, <1>1 DEF CallInv, ClientRecord, Died, Leaving
  <1>3. CASE conn[c].st = "open"
    <2> DEFINE r == [old EXCEPT !.pc = "reply"]
               new == [conn[c] EXCEPT !.req = old.op]
    <2>1. /\ r \in ClientRecord /\ r.pc = "reply" /\ r.op = old.op /\ r.connected = old.connected
          /\ r.mapped = old.mapped /\ r.num_buffers = old.num_buffers
          /\ r.held = old.held /\ r.buffers = old.buffers /\ r.pending = old.pending
      BY <1>0 DEF ClientRecord, ClientPC
    <2>2. SetClient(c, r)
      BY <1>3 DEF SendRequest
    <2>3. conn' = [conn EXCEPT ![c] = new]
      BY <1>3 DEF SendRequest
    <2>4. new \in ConnRecord /\ new.to = conn[c].to /\ new.st = conn[c].st /\ new.req = old.op
      BY <1>0, <1>2 DEF ConnRecord
    <2> HIDE DEF r, new
    <2>5. client'[c] = r
      BY <1>0, <2>1, <2>2, SetClientFacts
    <2>6. /\ conn' \in [Peers -> ConnRecord] /\ conn'[c] = new
          /\ \A d \in Clients : d # c => conn'[d] = conn[d]
      BY <1>0, <2>3, <2>4 DEF Peers
    <2>7. CallInv(c)'
      BY <1>2, <1>3, <2>1, <2>4, <2>5, <2>6 DEF CallInv
    <2>8. \A t \in Servers : ListenerInv(t)'
      BY <1>1, <1>2, <2>3, <2>4, ListenerAsked
    <2> QED
      BY <1>0, <1>1, <2>1, <2>2, <2>6, <2>7, <2>8, TalkInv
  <1>4. CASE conn[c].st # "open"
    <2> DEFINE r == [old EXCEPT !.pc = "aborted"]
    <2>1. /\ r \in ClientRecord /\ r.pc = "aborted" /\ r.op = old.op /\ r.connected = old.connected
          /\ r.mapped = old.mapped /\ r.num_buffers = old.num_buffers
          /\ r.held = old.held /\ r.buffers = old.buffers /\ r.pending = old.pending
      BY <1>0 DEF ClientRecord, ClientPC
    <2>2. SetClient(c, r) /\ UNCHANGED conn
      BY <1>4 DEF SendRequest
    <2> HIDE DEF r
    <2>3. client'[c] = r
      BY <1>0, <2>1, <2>2, SetClientFacts
    <2>4. CallInv(c)'
      BY <2>1, <2>3 DEF CallInv
    <2>5. \A t \in Servers : ListenerInv(t)'
      BY <1>1, <2>2, ListenerKept
    <2>6. \A d \in Clients : conn'[d] = conn[d]
      BY <2>2
    <2>7. conn' \in [Peers -> ConnRecord] /\ backlog' \in [Servers -> Seq(Peers)]
      BY <1>0, <1>1, <2>2
    <2> QED
      BY <1>1, <1>2, <1>4, <2>1, <2>2, <2>4, <2>5, <2>6, <2>7, TalkInv
  <1> QED
    BY <1>3, <1>4

(* A client is killed in a call.                                           *)
LEMMA KillInv ==
  ASSUME VisionInv, NEW c \in Clients, Kill(c)
  PROVE  VisionInv'
  <1> DEFINE old == client[c]
             e == <<>>
             r == [old EXCEPT !.pc = "dead", !.evicted = TRUE, !.pending = e]
  <1>0. /\ VisionTypeOK /\ old \in ClientRecord /\ CallInv(c) /\ c \in Peers /\ c \notin Servers
        /\ conn \in [Peers -> ConnRecord] /\ backlog \in [Servers -> Seq(Peers)]
    BY VisionAssumption DEF VisionInv, VisionTypeOK, Peers
  <1>1. /\ old.pc \in {"request", "reply"} /\ UNCHANGED <<path, active, server, backlog>>
        /\ SetClient(c, r) /\ conn' = [conn EXCEPT ![c] = Ended(c, "closed")]
    BY DEF Kill
  <1>2. conn[c].st # "closed"
    BY <1>0, <1>1 DEF CallInv
  <1>3. e \in Seq(Packet) /\ DOMAIN e = {}
    OBVIOUS
  <1> HIDE DEF e
  <1>4. /\ r \in ClientRecord /\ r.pc = "dead" /\ r.op = old.op /\ r.connected = old.connected
        /\ r.mapped = old.mapped /\ r.num_buffers = old.num_buffers
        /\ r.held = old.held /\ r.buffers = old.buffers /\ r.pending = e
    BY <1>0, <1>3 DEF ClientRecord, ClientPC
  <1> HIDE DEF r
  <1>5. client'[c] = r
    BY <1>0, <1>1, <1>4, SetClientFacts
  <1>6. CallInv(c)'
    BY <1>4, <1>5 DEF CallInv
  <1>7. conn' \in [Peers -> ConnRecord] /\ \A d \in Clients : d # c => conn'[d] = conn[d]
    BY <1>0, <1>1, EndedFacts DEF Peers
  <1>8. ASSUME NEW t \in Servers PROVE ListenerInv(t)'
    <2>1. SameListener(server'[t], server[t]) /\ backlog'[t] = backlog[t] /\ t # c
          /\ server'[t].main = server[t].main
      BY <1>0, <1>1 DEF SameListener
    <2> QED
      BY <1>0, <1>1, <1>2, <2>1, ListenerSees
  <1> QED
    BY <1>0, <1>1, <1>3, <1>4, <1>6, <1>7, <1>8, TalkInv

(* A connection that the listener has closed is in nobody's hands.         *)
LEMMA ListenerForgets ==
  ASSUME VisionInv, NEW t \in Servers, NEW c \in Clients, conn' = [conn EXCEPT ![c] = NoConn],
         UNCHANGED <<server, backlog>>, conn[c].st \notin {"open", "closed"}
  PROVE  ListenerInv(t)'
  <1>0. ListenerInv(t) /\ server[t] \in ServerRecord(t) /\ backlog[t] \in Seq(Peers)
        /\ conn \in [Peers -> ConnRecord] /\ t \in Peers /\ t # c
    BY VisionAssumption DEF VisionInv, VisionTypeOK, Peers
  <1>1. \A y \in Peers : conn[y].st \in {"open", "closed"} => conn'[y] = conn[y]
    BY <1>0
  <1>2. \A i \in DOMAIN backlog[t] : backlog[t][i] \in Peers
    BY <1>0
  <1>3. server[t].fd \in Peers \cup {NoServer}
    BY <1>0, ServerFields
  <1>4. conn'[t] = conn[t]
    BY <1>0
  <1> QED
    BY <1>0, <1>1, <1>2, <1>3, <1>4 DEF ListenerInv

(* What the buffers of a reply make of a client.                           *)
LEMMA ImportFacts ==
  ASSUME VisionInv, NEW c \in Clients, client[c].pc = "reply", client[c].op = "stream",
         conn[c].st = "eof"
  PROVE  LET r == Import(c, conn[c].to) IN
           /\ r \in ClientRecord /\ r.pending = client[c].pending /\ r.held = client[c].held
           /\ r.num_buffers <= MaxBuffers
           /\ r.mapped = {r.buffers[i] : i \in 0 .. r.num_buffers - 1}
           /\ \A i \in 0 .. MaxBuffers - 1 : r.buffers[i].server # NoServer => r.buffers[i].idx = i
           /\ r.num_buffers = 0 => Died \/ \E s \in Servers : ~Serving(s)
  <1> DEFINE old == client[c]
             s == conn[c].to
             n == IF conn[c].reply = "stream" THEN NumBuffers[s] ELSE 0
             bufs == [i \in 0 .. n - 1 |-> [server |-> s, idx |-> i]]
             mapped == {bufs[i] : i \in DOMAIN bufs}
             buffers == [i \in DOMAIN old.buffers |-> IF i < n THEN bufs[i] ELSE old.buffers[i]]
             r == [old EXCEPT !.connected = TRUE, !.num_buffers = n, !.mapped = mapped,
                              !.buffers = buffers]
  <1>0. old \in ClientRecord /\ CallInv(c) /\ MapInv(c) /\ MaxBuffers \in Nat
    BY MaxFacts DEF VisionInv, VisionTypeOK
  <1>1. Import(c, conn[c].to) = r
    BY DEF Import
  <1>2. s \in Servers
    BY <1>0 DEF CallInv
  <1>3. n \in Nat /\ n <= MaxBuffers
    BY <1>0, <1>2, MaxFacts, NothingFacts
  <1>4. n = 0 => Died \/ \E t \in Servers : ~Serving(t)
    <2>1. Died \/ conn[c].reply = "stream" \/ \E t \in Servers : ~Serving(t)
      BY <1>0 DEF CallInv
    <2>2. conn[c].reply = "stream" /\ n = 0 => ~Serving(s)
      BY <1>2, NothingFacts DEF Serving
    <2> QED
      BY <1>2, <2>1, <2>2
  <1> HIDE DEF n, s
  <1>5. old.buffers \in [0 .. MaxBuffers - 1 -> Buffer]
    BY <1>0 DEF ClientRecord
  <1>6. \A i \in 0 .. n - 1 : /\ i \in Nat /\ i < n /\ i \in 0 .. MaxBuffers - 1
    BY <1>0, <1>3
  <1>7. \A i \in 0 .. n - 1 : bufs[i] \in Buffer /\ bufs[i].server = s /\ bufs[i].idx = i
    BY <1>2, <1>6 DEF Buffer
  <1>8. DOMAIN bufs = 0 .. n - 1
    OBVIOUS
  <1> HIDE DEF bufs
  <1>9. \A i \in 0 .. MaxBuffers - 1 : i < n => i \in 0 .. n - 1
    BY <1>0, <1>3
  <1>10. /\ DOMAIN buffers = 0 .. MaxBuffers - 1
         /\ \A i \in 0 .. MaxBuffers - 1 : buffers[i] = IF i < n THEN bufs[i] ELSE old.buffers[i]
    BY <1>5
  <1>11. \A i \in 0 .. MaxBuffers - 1 : buffers[i] \in Buffer
    BY <1>5, <1>7, <1>9, <1>10
  <1>12. buffers \in [0 .. MaxBuffers - 1 -> Buffer]
    BY <1>5, <1>11
  <1>13. mapped = {buffers[i] : i \in 0 .. n - 1} /\ mapped \in SUBSET Buffer
    <2>1. \A i \in 0 .. n - 1 : buffers[i] = bufs[i]
      BY <1>6, <1>10
    <2>2. mapped = {bufs[i] : i \in 0 .. n - 1}
      BY <1>8
    <2> HIDE DEF buffers, mapped
    <2>3. mapped = {buffers[i] : i \in 0 .. n - 1}
      BY <2>1, <2>2
    <2> QED
      BY <1>7, <2>2, <2>3
  <1>14. \A i \in 0 .. MaxBuffers - 1 : buffers[i].server # NoServer => buffers[i].idx = i
    BY <1>0, <1>7, <1>9, <1>10 DEF MapInv
  <1> HIDE DEF buffers, mapped
  <1>15. /\ r \in ClientRecord /\ r.num_buffers = n /\ r.mapped = mapped /\ r.buffers = buffers
         /\ r.pending = old.pending /\ r.held = old.held
    BY <1>0, <1>3, <1>12, <1>13 DEF ClientRecord
  <1> HIDE DEF r
  <1> QED
    BY <1>1, <1>3, <1>4, <1>13, <1>14, <1>15

(* A client gets the reply, or finds the connection at its end.            *)
LEMMA ReplyReadInv ==
  ASSUME VisionInv, NEW c \in Clients, ReceiveReply(c)
  PROVE  VisionInv'
  <1> DEFINE old == client[c]
             m == IF conn[c].st = "eof" /\ old.op = "stream" THEN Import(c, conn[c].to) ELSE old
             r == Returning(m)
  <1>0. /\ VisionTypeOK /\ old \in ClientRecord /\ CallInv(c) /\ MapInv(c) /\ HeldInv(c) /\ FailsInv(c)
        /\ c \in Peers /\ conn \in [Peers -> ConnRecord] /\ backlog \in [Servers -> Seq(Peers)]
    BY FailsFacts DEF VisionInv, VisionTypeOK, Peers
  <1>1. /\ old.pc = "reply" /\ conn[c].st \in {"eof", "reset"} /\ SetClient(c, r)
        /\ conn' = [conn EXCEPT ![c] = NoConn] /\ UNCHANGED <<path, active, server, backlog>>
    BY DEF ReceiveReply
  <1>2. /\ m \in ClientRecord /\ m.pending = old.pending /\ m.held = old.held
        /\ m.num_buffers <= MaxBuffers
        /\ m.mapped = {m.buffers[i] : i \in 0 .. m.num_buffers - 1}
        /\ \A i \in 0 .. MaxBuffers - 1 : m.buffers[i].server # NoServer => m.buffers[i].idx = i
        /\ m.connected /\ m.num_buffers = 0 => Died \/ \E s \in Servers : ~Serving(s)
        /\ old.held # NoFrame => m = old
    <2>1. CASE conn[c].st = "eof" /\ old.op = "stream"
      <3>1. m = Import(c, conn[c].to)
        BY <2>1
      <3>2. old.held = NoFrame
        BY <1>0, <2>1 DEF HeldInv
      <3> HIDE DEF m
      <3> QED
        BY <1>1, <2>1, <3>1, <3>2, ImportFacts
    <2>2. CASE ~(conn[c].st = "eof" /\ old.op = "stream")
      <3>1. m = old
        BY <2>2
      <3> HIDE DEF m
      <3> QED
        BY <1>0, <3>1 DEF MapInv, FailsInv
    <2> QED
      BY <2>1, <2>2
  <1> HIDE DEF m
  <1>3. /\ r \in ClientRecord /\ r.pc = "idle" /\ r.op = "none" /\ r.connected = m.connected
        /\ r.mapped = m.mapped /\ r.num_buffers = m.num_buffers
        /\ r.held = m.held /\ r.buffers = m.buffers /\ r.pending = m.pending
    BY <1>2 DEF ClientRecord, ClientPC, Returning
  <1> HIDE DEF r
  <1>4. /\ client' \in [Clients -> ClientRecord] /\ client'[c] = r
        /\ \A d \in Clients : d # c => client'[d] = client[d]
    BY <1>0, <1>1, <1>3, SetClientFacts
  <1>5. /\ conn' \in [Peers -> ConnRecord] /\ conn'[c] = NoConn
        /\ \A d \in Clients : d # c => conn'[d] = conn[d]
    BY <1>0, <1>1, NothingFacts DEF Peers
  <1>6. \A t \in Servers : ListenerInv(t)'
    BY <1>1, ListenerForgets
  <1>7. MapInv(c)'
    BY <1>2, <1>3, <1>4 DEF MapInv
  <1>8. HeldInv(c)'
    BY <1>0, <1>1, <1>2, <1>3, <1>4 DEF HeldInv
  <1>9. CallInv(c)'
    BY <1>3, <1>4, <1>5 DEF CallInv
  <1>10. FailsInv(c)'
    BY <1>1, <1>2, <1>3, <1>4 DEF FailsInv, Died, Leaving
  <1> QED
    BY <1>0, <1>1, <1>4, <1>5, <1>6, <1>7, <1>8, <1>9, <1>10, ClientInv
-----------------------------------------------------------------------------
(* The invariant holds at first.                                           *)
LEMMA InitVision == VisionInit => VisionInv
  <1> SUFFICES ASSUME VisionInit PROVE VisionInv
    OBVIOUS
  <1> DEFINE e == <<>>
  <1>0. e \in Seq(Packet) /\ e \in Seq(Peers) /\ DOMAIN e = {}
    OBVIOUS
  <1>1. /\ path = NoServer /\ active = NoServer
        /\ server = [s \in Servers |->
             [main |-> "new", listener |-> "none", should_exit |-> FALSE,
              cur_idx |-> 0, idx |-> 0, turn |-> 0, explicit |-> 0,
              frames |-> [i \in 0 .. NumBuffers[s] - 1 |-> Torn], fd |-> NoServer]]
        /\ client = [c \in Clients |->
             [pc |-> "idle", op |-> "none", blocking |-> FALSE, connected |-> FALSE,
              num_buffers |-> 0, buffers |-> [i \in 0 .. MaxBuffers - 1 |-> NoBuf],
              mapped |-> {}, evicted |-> FALSE, pending |-> e, held |-> NoFrame]]
        /\ conn = [x \in Peers |-> NoConn]
        /\ backlog = [s \in Servers |-> e]
    BY DEF VisionInit, Peers
  <1> HIDE DEF e
  <1>2. NoBuf \in Buffer /\ NoBuf.server = NoServer
    BY DEF NoBuf, Buffer
  <1>3. ASSUME NEW s \in Servers PROVE server[s] \in ServerRecord(s) /\ ServerInv(s) /\ ListenerInv(s)
    <2> DEFINE frames == [i \in 0 .. NumBuffers[s] - 1 |-> Torn]
    <2>1. frames \in [0 .. NumBuffers[s] - 1 -> Content] /\ NumBuffers[s] \in Nat
      BY NothingFacts
    <2>2. server[s] = [main |-> "new", listener |-> "none", should_exit |-> FALSE,
                       cur_idx |-> 0, idx |-> 0, turn |-> 0, explicit |-> 0,
                       frames |-> frames, fd |-> NoServer]
      BY <1>1
    <2> HIDE DEF frames
    <2>3. server[s] \in ServerRecord(s)
      BY <2>1, <2>2 DEF ServerRecord, MainPC, ListenPC
    <2>4. ServerInv(s)
      BY <2>1, <2>2 DEF ServerInv, Serving
    <2>5. conn[s] = NoConn /\ backlog[s] = e
      BY <1>1 DEF Peers
    <2>6. ListenerInv(s)
      BY <1>0, <2>2, <2>5 DEF ListenerInv
    <2> QED
      BY <2>3, <2>4, <2>6
  <1>4. ASSUME NEW c \in Clients
        PROVE  client[c] \in ClientRecord /\ MapInv(c) /\ HeldInv(c) /\ CallInv(c) /\ FailsInv(c)
    <2> DEFINE buffers == [i \in 0 .. MaxBuffers - 1 |-> NoBuf]
    <2>1. buffers \in [0 .. MaxBuffers - 1 -> Buffer]
      BY <1>2
    <2>2. \A i \in 0 .. MaxBuffers - 1 : buffers[i].server = NoServer
      BY <1>2
    <2>3. client[c] = [pc |-> "idle", op |-> "none", blocking |-> FALSE, connected |-> FALSE,
                       num_buffers |-> 0, buffers |-> buffers,
                       mapped |-> {}, evicted |-> FALSE, pending |-> e, held |-> NoFrame]
      BY <1>1
    <2> HIDE DEF buffers
    <2>4. client[c] \in ClientRecord
      BY <1>0, <2>1, <2>3, NothingFacts DEF ClientRecord, ClientPC
    <2>5. /\ client[c].pc = "idle" /\ client[c].op = "none" /\ client[c].connected = FALSE
          /\ client[c].num_buffers = 0 /\ client[c].mapped = {} /\ client[c].buffers = buffers
          /\ client[c].pending = e /\ client[c].held = NoFrame
      BY <2>3
    <2>6. {buffers[i] : i \in 0 .. 0 - 1} = {}
      OBVIOUS
    <2>7. MapInv(c)
      BY <2>2, <2>5, <2>6, MaxFacts DEF MapInv
    <2>8. HeldInv(c)
      BY <1>0, <2>5 DEF HeldInv
    <2>9. conn[c] = NoConn
      BY <1>1 DEF Peers
    <2>10. CallInv(c)
      BY <2>5, <2>9 DEF CallInv
    <2>11. FailsInv(c)
      BY <2>5 DEF FailsInv
    <2> QED
      BY <2>4, <2>7, <2>8, <2>10, <2>11
  <1>5. VisionTypeOK
    BY <1>0, <1>1, <1>3, <1>4, NothingFacts DEF VisionTypeOK
  <1>6. FailsOnlyWithServer
    BY <1>4, FailsFacts
  <1> QED
    BY <1>3, <1>4, <1>5, <1>6 DEF VisionInv

(* Every step keeps it.                                                    *)
LEMMA NextVision == VisionInv /\ [VisionNext]_visionVars => VisionInv'
  <1> SUFFICES ASSUME VisionInv, [VisionNext]_visionVars PROVE VisionInv'
    OBVIOUS
  <1>1. ASSUME NEW s \in Servers, ServerMain(s) PROVE VisionInv'
    BY <1>1, StartInv, BufferInv, WriteInv, CreateInv, SendInv, WakeInv, HangUpInv, CrashInv
       DEF ServerMain
  <1>2. ASSUME NEW s \in Servers, ServerListener(s) PROVE VisionInv'
    BY <1>2, BindInv, AcceptInv, ReplyInv, CloseInv DEF ServerListener
  <1>3. ASSUME NEW c \in Clients, ClientCall(c) \/ ClientStep(c) \/ Lap(c) \/ Kill(c)
        PROVE  VisionInv'
    BY <1>3, BeginInv, RecvInv, ConnectInv, RequestInv, ReplyReadInv, KillInv DEF ClientStep
  <1>4. CASE UNCHANGED visionVars
    <2>1. UNCHANGED <<path, active, client, conn, backlog>> /\ server' = server
      BY <1>4 DEF visionVars
    <2>2. \A t \in Servers : SameFrames(server'[t], server[t]) /\ GoesOn(server'[t], server[t])
      BY <2>1 DEF SameFrames, GoesOn
    <2>3. \A t \in Servers : ListenerInv(t)'
      BY <2>1, ListenerKept
    <2>4. /\ DOMAIN server' = Servers /\ \A t \in Servers : server'[t] \in ServerRecord(t)
          /\ path' \in Servers \cup {NoServer} /\ active' \in Servers \cup {NoServer}
      BY <2>1 DEF VisionInv, VisionTypeOK
    <2> QED
      BY <2>1, <2>2, <2>3, <2>4, QuietStep
  <1> QED
    BY <1>1, <1>2, <1>3, <1>4 DEF VisionNext

(* The inductive invariant, in every behaviour: with servers that overlap, *)
(* clients that are killed, and servers that crash.                        *)
THEOREM AlwaysVision == VisionSpec => []VisionInv
  BY InitVision, NextVision, PTL DEF VisionSpec

(* The buffers a client counts are exactly those it has mapped, whichever  *)
(* of its connects fail and whichever servers come and go                  *)
(* (VisionIpcClient::connect).                                             *)
THEOREM NoMappingLeaks == VisionSpec => []MappedExactly
  <1>1. VisionInv => MappedExactly
    BY DEF VisionInv, MapInv, MappedExactly
  <1> QED
    BY <1>1, AlwaysVision, PTL

(* The frame a client holds after VisionIpcClient::recv is whole and the   *)
(* one that was announced, until the server that wrote it has come round   *)
(* the ring or was asked for a buffer out of turn.                         *)
THEOREM FramesStayWhole == VisionSpec => []FrameIntact
  <1>1. ASSUME VisionInv PROVE FrameIntact
    <2> SUFFICES ASSUME NEW c \in Clients, client[c].held # NoFrame
                 PROVE  LET h == client[c].held
                            b == client[c].buffers[h.idx] IN
                          /\ b.server = h.server /\ b \in client[c].mapped
                          /\ (/\ server[h.server].turn < h.turn + NumBuffers[h.server]
                              /\ server[h.server].explicit < h.turn) =>
                               server[b.server].frames[b.idx] = [server |-> h.server, turn |-> h.turn]
      BY DEF FrameIntact
    <2> DEFINE h == client[c].held
               b == client[c].buffers[h.idx]
    <2>0. MapInv(c) /\ HeldInv(c) /\ client[c] \in ClientRecord /\ MaxBuffers \in Nat
      BY <1>1, MaxFacts DEF VisionInv, VisionTypeOK
    <2>1. h \in Packet /\ client[c].num_buffers \in Nat
      BY <2>0 DEF ClientRecord
    <2>2. h.idx \in Nat /\ h.turn \in Nat
      BY <2>1 DEF Packet
    <2>3. h.idx < client[c].num_buffers /\ b.server = h.server /\ FreshIn(server, h)
      BY <2>0 DEF HeldInv
    <2>4. h.server \in Servers
      BY <2>3 DEF FreshIn
    <2>5. h.idx \in 0 .. client[c].num_buffers - 1 /\ h.idx \in 0 .. MaxBuffers - 1
      BY <2>0, <2>1, <2>2, <2>3 DEF MapInv
    <2>6. b \in client[c].mapped
      BY <2>0, <2>5 DEF MapInv
    <2>7. b.idx = h.idx
      BY <2>0, <2>3, <2>4, <2>5, NothingFacts DEF MapInv
    <2>8. server[h.server] \in ServerRecord(h.server)
      BY <1>1, <2>4 DEF VisionInv, VisionTypeOK
    <2>9. server[h.server].turn \in Nat /\ NumBuffers[h.server] \in Nat
      BY <2>4, <2>8, ServerFields
    <2>10. server[h.server].turn < h.turn + NumBuffers[h.server] =>
             server[h.server].turn - h.turn < NumBuffers[h.server]
      BY <2>2, <2>9
    <2>11. server[h.server].turn < h.turn + NumBuffers[h.server] /\ server[h.server].explicit < h.turn =>
             server[h.server].frames[h.idx] = [server |-> h.server, turn |-> h.turn]
      BY <2>3, <2>10 DEF FreshIn
    <2> HIDE DEF b, h
    <2>12. /\ b.server = h.server /\ b \in client[c].mapped
           /\ (/\ server[h.server].turn < h.turn + NumBuffers[h.server]
               /\ server[h.server].explicit < h.turn) =>
                server[b.server].frames[b.idx] = [server |-> h.server, turn |-> h.turn]
      BY <2>3, <2>6, <2>7, <2>11
    <2> QED
      BY <2>12 DEF b, h
  <1> QED
    BY <1>1, AlwaysVision, PTL

(* The assert on a client's request fails only if a server is shut down or *)
(* has died, and a client is connected without buffers only if a server    *)
(* has died or has none.                                                   *)
THEOREM FailuresExplained == VisionSpec => []FailsOnlyWithServer
  <1>1. VisionInv => FailsOnlyWithServer
    BY DEF VisionInv
  <1> QED
    BY <1>1, AlwaysVision, PTL
=============================================================================

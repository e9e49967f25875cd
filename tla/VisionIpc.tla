------------------------------ MODULE VisionIpc ------------------------------
(***************************************************************************)
(* msgq/visionipc: frames shared between processes.  A server keeps a ring *)
(* of buffers for a stream, hands their descriptors to clients over a unix *)
(* socket, and announces each frame with a packet on a msgq endpoint that  *)
(* names the buffer.  Nothing stops the server from reusing a buffer that  *)
(* a client still reads, and nothing but server_id ties the packets to the *)
(* buffers a client has mapped.                                            *)
(*                                                                         *)
(* A member of Servers is one VisionIpcServer with its listener thread; a  *)
(* restart is another one with the same name.  All clients subscribe to    *)
(* one stream; a server without buffers for it serves other streams.  The  *)
(* msgq endpoint is taken at its word (module Msgq): packets arrive in     *)
(* order, a lapped reader loses what it has not read, a new publisher      *)
(* evicts the readers and shuts out the old one.                           *)
(***************************************************************************)
EXTENDS Naturals, Sequences

CONSTANTS
  Servers, Clients,
  Conflating,    (* the clients with conflate                               *)
  NumBuffers,    (* the buffers of each server for the stream, 0 for none   *)
  NoServer,
  MaxFrames      (* bound of the model: frames each server sends            *)

(* A message to a client has room for VISIONIPC_MAX_FDS descriptors only,  *)
(* so that some server has the most buffers.                               *)
ASSUME VisionAssumption ==
  /\ Conflating \subseteq Clients
  /\ NumBuffers \in [Servers -> Nat]
  /\ \E m \in Servers : \A s \in Servers : NumBuffers[s] <= NumBuffers[m]
  /\ NoServer \notin Servers \cup Clients /\ Servers \cap Clients = {}
  /\ MaxFrames \in [Servers -> Nat]

VARIABLES
  path,      (* the server whose socket is bound to the ipc path            *)
  active,    (* the server that last became the endpoint's publisher        *)
  server, client,
  conn,      (* the connection of each client, and of each destructor       *)
  backlog    (* the connections each server has not accepted                *)

visionVars == <<path, active, server, client, conn, backlog>>

Serving(s) == NumBuffers[s] > 0
MaxBuffers == LET n == {NumBuffers[s] : s \in Servers} IN
                CHOOSE m \in n : \A k \in n : k <= m

Torn    == [server |-> NoServer, turn |-> 0]     (* a frame half written    *)
NoFrame == [server |-> NoServer, idx |-> 0, turn |-> 0]
NoBuf   == [server |-> NoServer, idx |-> 0]
NoConn  == [to |-> NoServer, st |-> "none", req |-> "none", reply |-> "none"]

VisionInit ==
  /\ path = NoServer /\ active = NoServer
  /\ server = [s \in Servers |->
       [main |-> "new", listener |-> "none", should_exit |-> FALSE,
        cur_idx |-> 0, idx |-> 0, turn |-> 0, explicit |-> 0,
        frames |-> [i \in 0 .. NumBuffers[s] - 1 |-> Torn], fd |-> NoServer]]
  /\ client = [c \in Clients |->
       [pc |-> "idle", op |-> "none", blocking |-> FALSE, connected |-> FALSE,
        num_buffers |-> 0, buffers |-> [i \in 0 .. MaxBuffers - 1 |-> NoBuf],
        mapped |-> {}, evicted |-> FALSE, pending |-> <<>>, held |-> NoFrame]]
  /\ conn = [x \in Servers \cup Clients |-> NoConn]
  /\ backlog = [s \in Servers |-> <<>>]

SetServer(s, r) == server' = [server EXCEPT ![s] = r]
SetClient(c, r) == client' = [client EXCEPT ![c] = r]
Main(s, pc)     == SetServer(s, [server[s] EXCEPT !.main = pc])
Listener(s, pc) == SetServer(s, [server[s] EXCEPT !.listener = pc])
NextPoll(s)     == SetServer(s, [server[s] EXCEPT !.listener = "poll", !.fd = NoServer])
Returning(r)    == [r EXCEPT !.pc = "idle", !.op = "none", !.blocking = FALSE]

(* The socket is bound and listening.                                      *)
Listening(s) == s # NoServer /\ server[s].listener \in {"poll", "request", "reply", "close"}

(* One end of connection x closes: the other sees st, if it is still there. *)
Ended(x, st) == IF conn[x].st = "open" THEN [conn[x] EXCEPT !.st = st] ELSE NoConn
Reset(x)     == Ended(x, "reset")

(* ipc_connect of x to whoever is bound to the path.                       *)
IpcConnect(x) ==
  /\ conn'    = [conn EXCEPT ![x] = [NoConn EXCEPT !.to = path, !.st = "open"]]
  /\ backlog' = [backlog EXCEPT ![path] = Append(backlog[path], x)]

-----------------------------------------------------------------------------
(***************************************************************************)
(* Server, the thread of the application.                                  *)
(***************************************************************************)

(* create_buffers: the PubSocket takes the endpoint over.                  *)
CreateBuffers(s) ==
  /\ server[s].main = "new"
  /\ Main(s, "created")
  /\ IF Serving(s)
       THEN /\ active' = s
            /\ client' = [c \in Clients |->
                            [client[c] EXCEPT !.evicted = TRUE, !.pending = <<>>]]
       ELSE UNCHANGED <<active, client>>
  /\ UNCHANGED <<path, conn, backlog>>

StartListener(s) ==
  /\ server[s].main = "created"
  /\ SetServer(s, [server[s] EXCEPT !.main = "running", !.listener = "bind"])
  /\ UNCHANGED <<path, active, client, conn, backlog>>

(* get_buffer, and the application begins to write the next frame, whose   *)
(* number is the turn, to buffer i.                                        *)
Take(s, i, r) ==
  /\ server[s].main = "running" /\ Serving(s) /\ server[s].turn < MaxFrames[s]
  /\ SetServer(s, [r EXCEPT !.main = "writing", !.turn = @ + 1, !.idx = i,
                            !.frames[i] = Torn])
  /\ UNCHANGED <<path, active, client, conn, backlog>>

(* The next buffer, or the one asked for, which is also the next one then. *)
(* cur_idx is kept modulo the number of buffers.                           *)
GetBuffer(s) ==
  Take(s, server[s].cur_idx,
       [server[s] EXCEPT !.cur_idx = (server[s].cur_idx + 1) % NumBuffers[s]])
GetBufferAt(s, i) ==
  Take(s, i, [server[s] EXCEPT !.cur_idx = i, !.explicit = server[s].turn + 1])

WriteFrame(s) ==
  /\ server[s].main = "writing"
  /\ SetServer(s, [server[s] EXCEPT !.main = "sending",
                     !.frames[server[s].idx] = [server |-> s, turn |-> server[s].turn]])
  /\ UNCHANGED <<path, active, client, conn, backlog>>

(* send: the packet of a server that is not the publisher any more is      *)
(* refused, which send ignores.                                            *)
Send(s) ==
  /\ server[s].main = "sending"
  /\ Main(s, "running")
  /\ LET p == [server |-> s, idx |-> server[s].idx, turn |-> server[s].turn] IN
       client' = [c \in Clients |->
         IF active = s /\ ~client[c].evicted
           THEN [client[c] EXCEPT !.pending = Append(client[c].pending, p)]
           ELSE client[c]]
  /\ UNCHANGED <<path, active, conn, backlog>>

(* ~VisionIpcServer: tell the listener to exit, wake it with a connection  *)
(* to the path, close that, and wait for the listener.                     *)
Shutdown(s) ==
  /\ server[s].main = "running"
  /\ SetServer(s, [server[s] EXCEPT !.main = "wake", !.should_exit = TRUE])
  /\ UNCHANGED <<path, active, client, conn, backlog>>

Wake(s) ==
  /\ server[s].main = "wake"
  /\ IF Listening(path) THEN Main(s, "hangup") /\ IpcConnect(s)
                        ELSE Main(s, "join") /\ UNCHANGED <<conn, backlog>>
  /\ UNCHANGED <<path, active, client>>

HangUp(s) ==
  /\ server[s].main = "hangup"
  /\ Main(s, "join")
  /\ conn' = [conn EXCEPT ![s] = Ended(s, "closed")]
  /\ UNCHANGED <<path, active, client, backlog>>

Join(s) ==
  /\ server[s].main = "join" /\ server[s].listener = "exited"
  /\ Main(s, "closed")
  /\ UNCHANGED <<path, active, client, conn, backlog>>

-----------------------------------------------------------------------------
(***************************************************************************)
(* Server, the listener thread.                                            *)
(***************************************************************************)

(* A mutant: a socket file that is left over stays.                        *)
BindOver(s) ==
  /\ server[s].listener = "bind"
  /\ Listener(s, "poll")
  /\ path' = IF path = NoServer THEN s ELSE path
  /\ UNCHANGED <<active, client, conn, backlog>>

(* ipc_bind unlinks what is left at the path.                              *)
Bind(s) ==
  /\ server[s].listener = "bind"
  /\ Listener(s, "poll")
  /\ path' = s
  /\ UNCHANGED <<active, client, conn, backlog>>

(* A mutant: the listener does not look at should_exit.                    *)
AcceptAlways(s) ==
  /\ server[s].listener = "poll"
  /\ backlog[s] # <<>>
  /\ SetServer(s, [server[s] EXCEPT !.listener = "request", !.fd = Head(backlog[s])])
  /\ backlog' = [backlog EXCEPT ![s] = Tail(backlog[s])]
  /\ UNCHANGED <<path, active, client, conn>>

(* The loop: poll, every 100 ms if nobody connects, and accept, or exit.   *)
Accept(s) ==
  /\ server[s].listener = "poll"
  /\ \/ /\ server[s].should_exit
        /\ Listener(s, "close")
        /\ UNCHANGED backlog
     \/ /\ ~server[s].should_exit /\ backlog[s] # <<>>
        /\ SetServer(s, [server[s] EXCEPT !.listener = "request", !.fd = Head(backlog[s])])
        /\ backlog' = [backlog EXCEPT ![s] = Tail(backlog[s])]
  /\ UNCHANGED <<path, active, client, conn>>

(* The request arrives, or the peer has closed.                            *)
ReadRequest(s) ==
  /\ server[s].listener = "request"
  /\ \/ /\ conn[server[s].fd].req # "none"
        /\ Listener(s, "reply")
        /\ UNCHANGED conn
     \/ /\ conn[server[s].fd].req = "none" /\ conn[server[s].fd].st = "closed"
        /\ NextPoll(s)
        /\ conn' = [conn EXCEPT ![server[s].fd] = NoConn]
  /\ UNCHANGED <<path, active, client, backlog>>

InBacklog(x, s) == \E i \in 1 .. Len(backlog[s]) : backlog[s][i] = x

(* A mutant: a listener that is told to exit does not reply any more.      *)
ReplyUnlessExiting(s) ==
  /\ server[s].listener = "reply" /\ conn[server[s].fd].st = "open"
  /\ NextPoll(s)
  /\ LET x == server[s].fd IN
       conn' = [conn EXCEPT ![x].st = "eof", ![x].reply =
                  IF server[s].should_exit THEN "none" ELSE conn[x].req]
  /\ UNCHANGED <<path, active, client, backlog>>

(* Reply with the streams or the buffers, or with nothing if there are     *)
(* none of that stream; and close.                                         *)
Reply(s) ==
  /\ server[s].listener = "reply" /\ conn[server[s].fd].st = "open"
  /\ NextPoll(s)
  /\ LET x == server[s].fd IN
       conn' = [conn EXCEPT ![x].st = "eof", ![x].reply =
                  IF conn[x].req = "list" \/ Serving(s) THEN conn[x].req ELSE "none"]
  /\ UNCHANGED <<path, active, client, backlog>>

(* The socket is closed, and with it the connections in the backlog.       *)
CloseListener(s) ==
  /\ server[s].listener = "close"
  /\ Listener(s, "unlink")
  /\ conn' = [x \in DOMAIN conn |->
                IF InBacklog(x, s) THEN Reset(x) ELSE conn[x]]
  /\ backlog' = [backlog EXCEPT ![s] = <<>>]
  /\ UNCHANGED <<path, active, client>>

(* The path is unlinked, whoever is bound to it by now.                    *)
Unlink(s) ==
  /\ server[s].listener = "unlink"
  /\ Listener(s, "exited")
  /\ path' = NoServer
  /\ UNCHANGED <<active, client, conn, backlog>>

(* The process is killed.  Its socket stays at the path; its connections   *)
(* are reset, or end if the request was read.                              *)
Crash(s) ==
  /\ server[s].main \notin {"new", "closed", "dead"}
  /\ SetServer(s, [server[s] EXCEPT !.main = "dead", !.listener = "exited",
                                      !.fd = NoServer])
  /\ conn' = [x \in DOMAIN conn |->
       CASE InBacklog(x, s) \/ (server[s].fd = x /\ server[s].listener = "request") -> Reset(x)
         [] server[s].fd = x /\ server[s].listener = "reply" -> Ended(x, "eof")
         [] OTHER -> IF x = s /\ conn[x].st = "open" THEN Ended(x, "closed") ELSE conn[x]]
  /\ backlog' = [backlog EXCEPT ![s] = <<>>]
  /\ UNCHANGED <<path, active, client>>

(* A reply to a client that is gone.  The send raises SIGPIPE, which kills *)
(* a C++ server; a Python one ignores the signal, and then the assert on   *)
(* the list of streams fails, while the reply with the buffers is just     *)
(* lost.                                                                   *)
ReplyToNobody(s) ==
  /\ server[s].listener = "reply" /\ conn[server[s].fd].st = "closed"
  /\ \/ Crash(s)
     \/ /\ conn[server[s].fd].req = "stream"
        /\ NextPoll(s)
        /\ conn' = [conn EXCEPT ![server[s].fd] = NoConn]
        /\ UNCHANGED <<path, active, client, backlog>>

-----------------------------------------------------------------------------
(***************************************************************************)
(* Client.                                                                 *)
(***************************************************************************)
Call(c, r) ==
  /\ client[c].pc = "idle"
  /\ SetClient(c, r)
  /\ UNCHANGED <<path, active, server, conn, backlog>>

(* A mutant: the buffers are unmapped, but still counted.                  *)
ConnectUncleared(c, blocking) ==
  Call(c, [client[c] EXCEPT !.pc = "connect", !.op = "stream", !.blocking = blocking,
                            !.connected = FALSE, !.mapped = {}, !.held = NoFrame])

(* connect: unmap the old buffers.                                         *)
Connect(c, blocking) ==
  Call(c, [client[c] EXCEPT !.pc = "connect", !.op = "stream", !.blocking = blocking,
                            !.connected = FALSE, !.mapped = {}, !.num_buffers = 0,
                            !.held = NoFrame])

GetAvailableStreams(c, blocking) ==
  Call(c, [client[c] EXCEPT !.pc = "connect", !.op = "list", !.blocking = blocking])

(* connect_to_vipc_server: a blocking call tries again every 20 ms.        *)
ConnectToServer(c) ==
  /\ client[c].pc = "connect"
  /\ \/ /\ Listening(path)
        /\ IpcConnect(c)
        /\ SetClient(c, [client[c] EXCEPT !.pc = "request"])
     \/ /\ ~Listening(path) /\ ~client[c].blocking
        /\ SetClient(c, Returning(client[c]))
        /\ UNCHANGED <<conn, backlog>>
  /\ UNCHANGED <<path, active, server>>

(* Send the request; the assert on the result fails if the server is gone. *)
SendRequest(c) ==
  /\ client[c].pc = "request"
  /\ IF conn[c].st = "open"
       THEN /\ conn' = [conn EXCEPT ![c].req = client[c].op]
            /\ SetClient(c, [client[c] EXCEPT !.pc = "reply"])
       ELSE /\ SetClient(c, [client[c] EXCEPT !.pc = "aborted"])
            /\ UNCHANGED conn
  /\ UNCHANGED <<path, active, server, backlog>>

(* The buffers that a reply carries are mapped over the old ones.          *)
Import(r, s) ==
  LET n == IF conn[r].reply = "stream" THEN NumBuffers[s] ELSE 0
      bufs == [i \in 0 .. n - 1 |-> [server |-> s, idx |-> i]] IN
    [client[r] EXCEPT !.connected = TRUE, !.num_buffers = n,
       !.mapped = {bufs[i] : i \in DOMAIN bufs},
       !.buffers = [i \in DOMAIN client[r].buffers |->
                      IF i < n THEN bufs[i] ELSE client[r].buffers[i]]]

(* The reply, or nothing before the end, or a reset connection; only the   *)
(* reset is taken for a failure.                                           *)
ReceiveReply(c) ==
  /\ client[c].pc = "reply" /\ conn[c].st \in {"eof", "reset"}
  /\ SetClient(c, Returning(IF conn[c].st = "eof" /\ client[c].op = "stream"
                              THEN Import(c, conn[c].to) ELSE client[c]))
  /\ conn' = [conn EXCEPT ![c] = NoConn]
  /\ UNCHANGED <<path, active, server, backlog>>

(* The process is killed with a connection open.  Killed elsewhere, a      *)
(* client is one that makes no more calls.                                 *)
Kill(c) ==
  /\ client[c].pc \in {"request", "reply"}
  /\ SetClient(c, [client[c] EXCEPT !.pc = "dead", !.evicted = TRUE, !.pending = <<>>])
  /\ conn' = [conn EXCEPT ![c] = Ended(c, "closed")]
  /\ UNCHANGED <<path, active, server, backlog>>

BeginRecv(c) == Call(c, [client[c] EXCEPT !.pc = "poll", !.held = NoFrame])

(* The poll of an evicted reader registers again.                          *)
Register(c) ==
  /\ client[c].pc = "poll" /\ client[c].evicted
  /\ SetClient(c, [client[c] EXCEPT !.evicted = FALSE])
  /\ UNCHANGED <<path, active, server, conn, backlog>>

Timeout(c) ==
  /\ client[c].pc = "poll" /\ ~client[c].evicted /\ client[c].pending = <<>>
  /\ SetClient(c, [client[c] EXCEPT !.pc = "idle"])
  /\ UNCHANGED <<path, active, server, conn, backlog>>

(* The packets are overwritten before the reader gets to them.             *)
Lap(c) ==
  /\ client[c].pending # <<>>
  /\ SetClient(c, [client[c] EXCEPT !.pending = <<>>])
  /\ UNCHANGED <<path, active, server, conn, backlog>>

(* Is the packet about a buffer the client has mapped?                     *)
KnownIndex(r, p)  == p.idx < r.num_buffers
KnownBuffer(r, p) == KnownIndex(r, p) /\ r.buffers[p.idx].server = p.server

(* recv of the next packet, or of the latest one: the buffer it names, or  *)
(* the server has changed.                                                 *)
Recv(c) ==
  /\ client[c].pc = "poll" /\ ~client[c].evicted /\ client[c].pending # <<>>
  /\ LET q    == client[c].pending
         last == c \in Conflating
         p    == IF last THEN q[Len(q)] ELSE Head(q)
         r    == [client[c] EXCEPT !.pc = "idle",
                                   !.pending = IF last THEN <<>> ELSE Tail(q)] IN
       SetClient(c, IF KnownBuffer(r, p) THEN [r EXCEPT !.held = p]
                                         ELSE [r EXCEPT !.connected = FALSE])
  /\ UNCHANGED <<path, active, server, conn, backlog>>

-----------------------------------------------------------------------------
ServerMain(s) ==
  \/ CreateBuffers(s) \/ StartListener(s) \/ WriteFrame(s) \/ Send(s)
  \/ GetBuffer(s) \/ \E i \in 0 .. NumBuffers[s] - 1 : GetBufferAt(s, i)
  \/ Shutdown(s) \/ Wake(s) \/ HangUp(s) \/ Join(s) \/ Crash(s)

ServerListener(s) ==
  \/ Bind(s) \/ Accept(s) \/ ReadRequest(s) \/ Reply(s)
  \/ ReplyToNobody(s) \/ CloseListener(s) \/ Unlink(s)

ClientCall(c) ==
  \/ \E b \in BOOLEAN : Connect(c, b) \/ GetAvailableStreams(c, b)
  \/ BeginRecv(c)

ClientStep(c) ==
  \/ ConnectToServer(c) \/ SendRequest(c) \/ ReceiveReply(c)
  \/ Register(c) \/ Timeout(c) \/ Recv(c)

VisionNext ==
  \/ \E s \in Servers : ServerMain(s) \/ ServerListener(s)
  \/ \E c \in Clients : ClientCall(c) \/ ClientStep(c) \/ Lap(c) \/ Kill(c)

VisionSpec == VisionInit /\ [][VisionNext]_visionVars

(* A server starts only when the one before it is gone.                    *)
Gone(s) == server[s].main \in {"new", "closed", "dead"}
OneAtATime ==
  \A s \in Servers : (server[s].main = "new" /\ server'[s].main # "new") =>
    \A t \in Servers : Gone(t)

(* Threads run: the listener, a destructor, a client in a call.  A client  *)
(* that is not connected keeps calling connect.  Nothing makes a server    *)
(* start, send, or stop.                                                   *)
LiveThreads ==
  /\ \A s \in Servers : /\ WF_visionVars(ServerListener(s))
                        /\ WF_visionVars(Wake(s) \/ HangUp(s) \/ Join(s))
  /\ \A c \in Clients : /\ WF_visionVars(ClientStep(c))
                        /\ SF_visionVars(~client[c].connected /\ Connect(c, TRUE))

(* Clients call connect without blocking, which may fail, and recv.  The   *)
(* list of streams, a blocking connect and a client that is killed leave   *)
(* no buffers that these do not.                                           *)
StreamsOnly ==
  \A c \in Clients : /\ client'[c].op # "list" /\ ~client'[c].blocking
                     /\ client'[c].pc # "dead"

FairVisionSpec  == VisionSpec /\ LiveThreads
RestartSpec     == VisionInit /\ [][VisionNext /\ OneAtATime]_visionVars
FramesSpec      == VisionInit /\ [][VisionNext /\ OneAtATime /\ StreamsOnly]_visionVars
FairRestartSpec == RestartSpec /\ LiveThreads

-----------------------------------------------------------------------------
(* The frame that recv returns is in a buffer the client has mapped, and   *)
(* is the frame the packet announced: of the same server, whole, and not   *)
(* overwritten, as long as the server has begun fewer frames since than it *)
(* has buffers, and took all of them in turn.  server_id and the index     *)
(* check must see to it through restarts, failed reconnects and packets of *)
(* another server.                                                         *)
FrameIntact ==
  \A c \in Clients :
    LET h == client[c].held
        b == client[c].buffers[h.idx] IN
      h # NoFrame =>
        /\ b.server = h.server /\ b \in client[c].mapped
        /\ (/\ server[h.server].turn < h.turn + NumBuffers[h.server]
            /\ server[h.server].explicit < h.turn) =>
             server[b.server].frames[b.idx] = [server |-> h.server, turn |-> h.turn]

(* The buffers a client counts are exactly those it has mapped: no mapping *)
(* leaks, and none is used after it was freed, whichever connect fails.    *)
MappedExactly ==
  \A c \in Clients :
    client[c].mapped = {client[c].buffers[i] : i \in 0 .. client[c].num_buffers - 1}

(* ~VisionIpcServer ends: the listener it joins does not wait for ever for *)
(* a connection or a request.                                              *)
ShutdownEnds == \A s \in Servers : server[s].should_exit ~> Gone(s)

(* After a server crashed or went and another came to stay, a client gets  *)
(* connected again, unless the shutdown aborted it or it was killed.       *)
Reconnects ==
  \A c \in Clients :
    <>[](\E s \in Servers : server[s].main \in {"running", "writing", "sending"}) =>
      []<>(client[c].connected \/ client[c].pc \in {"aborted", "dead"})

(* A client's connect fails, or succeeds without buffers, only through its *)
(* server: the assert on the request only if a server is shut down or has  *)
(* died, and a connection without buffers only if it has died or has none, *)
(* for a listener that exits sends the reply it owes first.                *)
FailsOnlyWithServer ==
  \A c \in Clients :
    /\ client[c].pc = "aborted" =>
         \E s \in Servers : server[s].should_exit \/ server[s].main = "dead"
    /\ client[c].connected /\ client[c].num_buffers = 0 =>
         \E s \in Servers : ~Serving(s) \/ server[s].main = "dead"

(* assert(r == sizeof(type)) in VisionIpcClient::connect and               *)
(* getAvailableStreams: the request of a client is always sent.            *)
RequestSent == \A c \in Clients : client[c].pc # "aborted"

(* "assert client.connect(True)", then "assert buffer_len is not None"     *)
(* (test_visionipc.py): a client that is connected has buffers.            *)
ConnectedHasBuffers == \A c \in Clients : client[c].connected => client[c].num_buffers > 0
=============================================================================

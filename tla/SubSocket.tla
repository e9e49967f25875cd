----------------------------- MODULE SubSocket -----------------------------
(***************************************************************************)
(* msgq/ipc.cc and msgq_poll: SubSocket::receive and Poller::poll on top   *)
(* of the queue of module Msgq.  A thread that finds no message sleeps in  *)
(* nanosleep; the signal a publisher sends when it has published, or a     *)
(* subscriber when it evicts, cuts the sleep short, but only if the thread *)
(* is already asleep: a signal between the check and the sleep is lost.    *)
(*                                                                         *)
(* A SubSocket is used by one thread, and a Poller watches one SubSocket.  *)
(* Time is measured in ticks of sleep.                                     *)
(***************************************************************************)
EXTENDS MsgqProperties

CONSTANTS
  Timeouts,    (* the timeouts in use, in ticks; -1 is for ever             *)
  PollTicks    (* the 100 ms that a wait without timeout sleeps at a time   *)

(* A timeout is an int, so that there is a longest one.                    *)
ASSUME TimeoutsAssumption ==
  /\ Timeouts \subseteq Nat \cup {-1}
  /\ \E t \in Timeouts : \A u \in Timeouts : u <= t
  /\ PollTicks \in Nat

VARIABLE sock  (* locals and program counter of the socket's thread         *)

sockVars == <<vars, sock>>

(***************************************************************************)
(* timeout is the field that setTimeout sets.  Of the call in progress: op *)
(* and its limit; n, the result of the last msgq_poll (-1: none yet); ts,  *)
(* the time that the next nanosleep asks for, and what is left of it; full *)
(* if the last one was not interrupted.  Only the properties read slept,   *)
(* the ticks asleep since the call began, up to SleptBound, and seen, if a *)
(* poll of this call has seen a message.                                   *)
(***************************************************************************)
AtRest(timeout, ret) ==
  [pc |-> "idle", op |-> "none", timeout |-> timeout, limit |-> 0, n |-> -1,
   ts |-> 0, left |-> 0, full |-> FALSE, slept |-> 0, seen |-> FALSE, ret |-> ret]

SleptBound == 1 + CHOOSE t \in Timeouts : \A u \in Timeouts : u <= t

SocketInit == Init /\ sock = [s \in Subscribers |-> AtRest(-1, "none")]

SetSock(s, r)  == sock' = [sock EXCEPT ![s] = r]
Return(s, ret) == SetSock(s, AtRest(sock[s].timeout, ret))

(* The call into msgq.cc has returned to the socket.                       *)
Returned(s, pc, ret) == sock[s].pc = pc /\ sub[s].pc = "idle" /\ sub[s].ret = ret

-----------------------------------------------------------------------------
SetTimeout(s, t) ==
  /\ sock[s].pc = "idle" /\ sub[s].pc = "idle"
  /\ SetSock(s, AtRest(t, "none"))
  /\ UNCHANGED vars

(* SubSocket::receive begins with a msgq_msg_recv.                         *)
Receive(s, op) ==
  /\ sock[s].pc = "idle"
  /\ BeginRecv(s)
  /\ SetSock(s, [AtRest(sock[s].timeout, "none") EXCEPT
                   !.pc = "recv", !.op = op, !.limit = sock[s].timeout])

(* A mutant: without a timeout, sleep until a signal comes.                *)
StartPollForever(s, r) ==
  /\ BeginReady(s)
  /\ SetSock(s, [r EXCEPT !.pc = "check", !.n = 0, !.ts = r.limit])

(* msgq_poll begins with a msgq_msg_ready, and sets ts once.               *)
StartPoll(s, r) ==
  /\ BeginReady(s)
  /\ SetSock(s, [r EXCEPT !.pc = "check", !.n = 0,
                          !.ts = IF r.limit = -1 THEN PollTicks ELSE r.limit])

(* Poller::poll.                                                           *)
Poll(s, t) ==
  /\ sock[s].pc = "idle"
  /\ StartPoll(s, [AtRest(sock[s].timeout, "none") EXCEPT !.op = "poll", !.limit = t])

(* msgq_poll returns n to receive, which tries again, or to the caller.    *)
PollReturn(s, n) ==
  IF sock[s].op = "poll"
    THEN Return(s, IF n = 1 THEN "readable" ELSE "none") /\ UNCHANGED vars
    ELSE /\ BeginRecv(s)
         /\ SetSock(s, [sock[s] EXCEPT !.pc = "recv", !.n = n, !.seen = @ \/ n = 1])

(* The message is returned.                                                *)
Received(s) ==
  /\ Returned(s, "recv", "msg")
  /\ Return(s, "msg")
  /\ UNCHANGED vars

(* A mutant: a poll that timed out does not end the receive.               *)
NotReceivedAgain(s) ==
  /\ Returned(s, "recv", "empty")
  /\ IF sock[s].op = "blocking" THEN StartPoll(s, sock[s])
                                ELSE Return(s, "none") /\ UNCHANGED vars

(* No message: give up if non_blocking, or if the poll timed out.  If the  *)
(* poll saw a message and the receive got none, try again.                 *)
NotReceived(s) ==
  /\ Returned(s, "recv", "empty")
  /\ IF sock[s].op = "blocking" /\ (sock[s].limit = -1 \/ sock[s].n # 0)
       THEN StartPoll(s, sock[s])
       ELSE Return(s, "none") /\ UNCHANGED vars

(* nanosleep(&ts, &ts) begins.                                             *)
Sleep(s) ==
  /\ SetSock(s, [sock[s] EXCEPT !.pc = "sleep", !.left = sock[s].ts])
  /\ UNCHANGED vars

(* The check before the loop of msgq_poll.                                 *)
Checked(s) ==
  \/ Returned(s, "check", "ready") /\ PollReturn(s, 1)
  \/ Returned(s, "check", "empty") /\ Sleep(s)

Tick(s) ==
  /\ sock[s].pc = "sleep" /\ sock[s].left > 0
  /\ SetSock(s, [sock[s] EXCEPT
                   !.left = sock[s].left - 1,
                   !.slept = IF sock[s].slept < SleptBound THEN sock[s].slept + 1
                                                           ELSE sock[s].slept])
  /\ UNCHANGED vars

(* The sleep ends; ts is left as it was.                                   *)
SleepEnds(s) ==
  /\ sock[s].pc = "sleep" /\ sock[s].left = 0
  /\ BeginReady(s)
  /\ SetSock(s, [sock[s] EXCEPT !.pc = "again", !.full = TRUE])

(* The sleep was interrupted; ts has become what was left of it.           *)
Interrupted(s) ==
  /\ sock[s].pc = "woken"
  /\ BeginReady(s)
  /\ SetSock(s, [sock[s] EXCEPT !.pc = "again", !.full = FALSE])

(* A mutant: give up after any wakeup.                                     *)
CheckedAgainOnce(s) ==
  \/ Returned(s, "again", "ready") /\ PollReturn(s, 1)
  \/ Returned(s, "again", "empty") /\ PollReturn(s, 0)

(* The check in the loop: exit if we had a timeout and the sleep finished. *)
CheckedAgain(s) ==
  \/ Returned(s, "again", "ready") /\ PollReturn(s, 1)
  \/ /\ Returned(s, "again", "empty")
     /\ LET forever == sock[s].op = "poll" /\ sock[s].limit = -1 IN
          IF sock[s].full /\ ~forever THEN PollReturn(s, 0) ELSE Sleep(s)

(* thread_signal(u): SIGUSR2 ends the nanosleep of thread u with EINTR.    *)
Signal(u) ==
  sock' = [s \in Subscribers |->
             IF s = u /\ sock[s].pc = "sleep"
               THEN [sock[s] EXCEPT !.pc = "woken", !.ts = sock[s].left]
               ELSE sock[s]]

-----------------------------------------------------------------------------
(* The steps of the queue; two of them signal a thread.                    *)
PublisherSignals(p) ==
  /\ PublisherNext(p)
  /\ IF pub[p].pc = "notify" THEN Signal(Notified(p)) ELSE UNCHANGED sock

SubscriberSignals(s) ==
  /\ SubscriberStep(s)
  /\ IF sub[s].pc = "evict_uid" THEN Signal(sub[s].old) ELSE UNCHANGED sock

SocketConnect(s) == Connect(s) /\ UNCHANGED sock

(* A call in progress goes on; time passes for a thread that sleeps.       *)
SocketStep(s) ==
  \/ SubscriberSignals(s)
  \/ Received(s) \/ NotReceived(s) \/ Checked(s) \/ CheckedAgain(s)
  \/ Tick(s) \/ SleepEnds(s) \/ Interrupted(s)

SocketCall(s) ==
  \/ \E t \in Timeouts : SetTimeout(s, t) \/ Poll(s, t)
  \/ \E op \in {"blocking", "non_blocking"} : Receive(s, op)

SocketNext ==
  \/ \E p \in Publishers : PublisherSignals(p)
  \/ \E s \in Subscribers : SocketConnect(s) \/ SocketStep(s) \/ SocketCall(s)

SocketSpec == SocketInit /\ [][SocketNext]_sockVars

(* The thread of a socket runs, and its sleeps pass; nothing is assumed of *)
(* the publishers, nor that a signal is ever sent.                         *)
FairSocketSpec == SocketSpec /\ \A s \in Subscribers : WF_sockVars(SocketStep(s))

(* The same under the timing assumptions of SteadySpec.                    *)
SteadySocketSpec == SocketInit /\ [][SocketNext /\ Steady]_sockVars

-----------------------------------------------------------------------------
(* A message is waiting for s, and s is in a call that waits for one.      *)
Available(s) == sub[s].id # -1 /\ read_pointers[sub[s].id] # write_pointer
Waiting(s)   == sock[s].pc # "idle" /\ sub[s].pc # "aborted"

(* A wakeup that is lost between the check and the sleep, or never sent    *)
(* because the publisher crashed before its notify loop, only delays a     *)
(* receive or poll: no thread waits for ever while a message is there,     *)
(* unless the reader is whole cycles behind and told that none is          *)
(* (EmptyMeansDrained in MsgqProperties): it sleeps until the next one.    *)
NeverStuck ==
  \A s \in Subscribers : []<>(Waiting(s) /\ Available(s) => CyclesBehind(s))

(* A wait gives up ("A receive timeout returns None", README.md; [] from   *)
(* poll) only after it has slept its whole timeout, however many signals   *)
(* interrupt the sleep, and never if it has no timeout.                    *)
NotBeforeTimeout ==
  \A s \in Subscribers :
    (sock[s].op \in {"blocking", "poll"} /\ sock'[s].pc = "idle" /\ sock'[s].ret = "none")
      => sock[s].limit # -1 /\ sock[s].slept >= sock[s].limit
NoEarlyTimeout == [][NotBeforeTimeout]_sockVars

(* A receive sleeps longer than its timeout only if a poll of it has seen  *)
(* a message that was overwritten before it could be received.             *)
OverdueOnlyIfSeen ==
  \A s \in Subscribers :
    (sock[s].limit # -1 /\ sock[s].slept > sock[s].limit) => sock[s].seen

(* "Wait up to 1000 milliseconds per receive" (README.md): a call with a   *)
(* timeout never sleeps longer than it.                                    *)
WaitBounded ==
  \A s \in Subscribers : sock[s].pc # "idle" /\ sock[s].limit # -1 =>
    sock[s].slept <= sock[s].limit
=============================================================================

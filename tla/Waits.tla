------------------------------- MODULE Waits -------------------------------
(***************************************************************************)
(* The loops in which a thread waits for several things at once:           *)
(*                                                                         *)
(*   linux, macos   msgq_poll under Poller::poll, for the sockets of the   *)
(*                  Poller; macOS cannot interrupt nanosleep and sleeps in *)
(*                  slices instead                                         *)
(*   events         poll_events under Event::wait, Event::peek and         *)
(*                  Event::wait_for_one, for the fifos of fake events      *)
(*   readers        PubSocket.wait_for_readers of the Python binding, for  *)
(*                  the subscribers of an endpoint                         *)
(*                                                                         *)
(* A source is a socket with a message or without, an event that is set or *)
(* not, or a subscriber that has read everything or not; others fill and   *)
(* empty it at any time, and interrupt the thread by signals of which      *)
(* none, or any number, may come.  Time is the time asleep, in ticks.      *)
(***************************************************************************)
EXTENDS Integers, Sequences, SequencesExt, FiniteSetsExt

CONSTANTS
  Sources,
  Kinds,         (* the loops in use: "linux", "macos", "events", "readers" *)
  Timeouts,      (* in milliseconds; -1 is for ever                         *)
  TicksPerMs,    (* ticks of the clock in a millisecond                     *)
  ForeverMs,     (* the 100 ms that msgq_poll sleeps without a timeout      *)
  SliceMs,       (* the 10 ms that macOS sleeps at a time                   *)
  Interval       (* of wait_for_readers, in ticks                           *)

ASSUME WaitsAssumption ==
  /\ Timeouts \subseteq Nat \cup {-1}
  /\ {TicksPerMs, ForeverMs, SliceMs, Interval} \subseteq Nat \ {0}

VARIABLES
  kind,      (* the loop of this thread                                     *)
  fake,      (* the fake mode of a Poller                                   *)
  items,     (* the registered sources, in order                            *)
  ready,     (* the sources that have something                             *)
  fd,        (* of an event: "open", "closed" by its handle, or "none"      *)
  w,         (* program counter and locals of the waiting thread            *)
  some, all  (* read by the properties: the sources ready at some time, and *)
             (* at all times, since the thread last began to look           *)

waitVars == <<kind, fake, items, ready, fd, w, some, all>>
sources  == <<kind, fake, items, ready, fd>>

(***************************************************************************)
(* limit is the timeout and slept the time asleep, both since the call     *)
(* began; i and revents are those of the current pass over the items; ts   *)
(* what the next nanosleep asks for, left what is left of the current      *)
(* sleep, remaining the remaining_ms of macOS in ticks; full if the last   *)
(* sleep was not interrupted; shut are the descriptors that were closed    *)
(* already when poll() was called.  how the last call ended is "ok" with   *)
(* what it found or, if it threw, "timed out" or "failed".                 *)
(***************************************************************************)
Rest(how, found) == [pc |-> "idle", op |-> "none", limit |-> 0, slept |-> 0, i |-> 1,
              revents |-> {}, ts |-> 0, left |-> 0, remaining |-> 0,
              full |-> FALSE, shut |-> {}, how |-> how, found |-> found]

Ticks(ms) == ms * TicksPerMs
Smaller(a, b) == IF a < b THEN a ELSE b

(* A Poller, and not an event or a publisher.                              *)
Polling == kind \in {"linux", "macos"}

WaitsInit ==
  /\ kind \in Kinds
  /\ fake \in IF Polling THEN BOOLEAN ELSE {FALSE}
  /\ items = <<>>
  /\ ready \in SUBSET Sources
  /\ fd \in [Sources -> IF kind = "events" THEN {"open", "none"} ELSE {"open"}]
  /\ w = Rest("none", {})
  /\ some = {} /\ all = {}

Go(r)    == w' = r /\ UNCHANGED <<sources, some, all>>
(* The thread begins to look at its sources.                               *)
Look(r)  == w' = r /\ some' = ready /\ all' = ready /\ UNCHANGED sources

-----------------------------------------------------------------------------
(* Poller::registerSocket, or one more element of a vector of events.      *)
RegisterSocket(s) ==
  /\ w.pc = "idle" /\ s \notin ToSet(items)
  /\ items' = Append(items, s)
  /\ UNCHANGED <<kind, fake, ready, fd, w, some, all>>

(* In fake mode all sockets are returned, to block in receive.             *)
PollFake ==
  /\ Polling /\ fake /\ w.pc = "idle"
  /\ Look(Rest("ok", ToSet(items)))

(* Poller::poll, up to the first pass of msgq_poll.                        *)
Poll(t) ==
  /\ Polling /\ ~fake /\ w.pc = "idle"
  /\ LET ms == Ticks(IF t = -1 THEN ForeverMs ELSE t) IN
       Look([Rest("none", {}) EXCEPT
               !.pc = "pass", !.op = "poll", !.limit = t, !.remaining = ms,
               !.ts = IF kind = "macos" THEN Smaller(ms, Ticks(SliceMs)) ELSE ms])

(* A mutant: look no further than the first socket that is ready.          *)
CheckItemFirst ==
  /\ w.pc = "pass" /\ w.i <= Len(items)
  /\ IF items[w.i] \in ready
       THEN Go([w EXCEPT !.revents = {items[w.i]}, !.i = Len(items) + 1])
       ELSE Go([w EXCEPT !.i = w.i + 1])

(* msgq_msg_ready of one item.                                             *)
CheckItem ==
  /\ w.pc = "pass" /\ w.i <= Len(items)
  /\ Go([w EXCEPT !.i = w.i + 1,
                  !.revents = w.revents \cup ({items[w.i]} \cap ready)])

(* A mutant: macOS gives up after one slice.                               *)
LastSleepSlice == w.full /\ w.limit # -1

(* The sleep that the last pass followed was the last one.                 *)
LastSleep == /\ w.full /\ w.limit # -1
             /\ kind = "macos" => w.remaining - w.ts <= 0

PassDone == w.pc = "pass" /\ w.i > Len(items)

PollReturns ==
  /\ PassDone
  /\ w.revents # {} \/ LastSleep
  /\ Go(Rest("ok", w.revents))

(* A mutant: a new nanosleep asks for the whole timeout again.             *)
PollSleepsWhole ==
  /\ PassDone
  /\ w.revents = {} /\ ~LastSleep
  /\ LET ms == Ticks(IF w.limit = -1 THEN ForeverMs ELSE w.limit)
     IN Go([w EXCEPT !.pc = "sleep", !.ts = ms, !.left = ms])

(* No socket is ready: nanosleep(&ts, &ts).                                *)
PollSleeps ==
  /\ PassDone
  /\ w.revents = {} /\ ~LastSleep
  /\ IF kind = "macos" /\ w.full /\ w.limit # -1
       THEN LET r == w.remaining - w.ts
                ts == Smaller(r, Ticks(SliceMs))
            IN Go([w EXCEPT !.pc = "sleep", !.remaining = r, !.ts = ts, !.left = ts])
       ELSE Go([w EXCEPT !.pc = "sleep", !.left = w.ts])

(* nanosleep returns 0, and leaves ts alone.                               *)
SleepEnds ==
  /\ Polling /\ w.pc = "sleep" /\ w.left = 0
  /\ Look([w EXCEPT !.pc = "pass", !.i = 1, !.revents = {}, !.full = TRUE])

(* nanosleep fails with EINTR, and ts becomes what was left.               *)
SleepInterrupted ==
  /\ kind = "linux" /\ w.pc = "sleep" /\ w.left > 0
  /\ Look([w EXCEPT !.pc = "pass", !.i = 1, !.revents = {}, !.full = FALSE,
                    !.ts = w.left])

(* slept is counted up to an interval past the timeout, and not without    *)
(* one.                                                                    *)
SleptBound == IF w.limit = -1 THEN 0 ELSE Ticks(w.limit) + Interval

Tick ==
  /\ w.pc = "sleep" /\ w.left > 0
  /\ Go([w EXCEPT !.left = w.left - 1,
                  !.slept = Smaller(w.slept + 1, SleptBound)])

-----------------------------------------------------------------------------
(* Event::wait and Event::peek (one event), and Event::wait_for_one.       *)
EventCall(op, t) ==
  /\ kind = "events" /\ w.pc = "idle"
  /\ op \in {"wait", "peek"} => Len(items) = 1
  /\ op = "peek" => t = 0
  /\ IF op # "one" /\ \E s \in ToSet(items) : fd[s] = "none"
       THEN Look(Rest("failed", {}))
       ELSE Look([Rest("none", {}) EXCEPT !.pc = "retry", !.op = op, !.limit = t])

(* The descriptors among the items that are closed.                        *)
Shut == {s \in ToSet(items) : fd[s] = "closed"}

(* A mutant: every retry waits for the whole timeout.                      *)
PollEventsWhole ==
  /\ w.pc = "retry"
  /\ Look([w EXCEPT !.pc = "sleep", !.shut = Shut,
                    !.left = IF w.limit = -1 THEN Ticks(ForeverMs) ELSE Ticks(w.limit)])

(* poll() for the time to the deadline, cut to whole milliseconds; without *)
(* a timeout the kernel waits for ever, and left says nothing.             *)
PollEvents ==
  /\ w.pc = "retry"
  /\ Look([w EXCEPT !.pc = "sleep", !.shut = Shut,
                    !.left = IF w.limit = -1 THEN Ticks(ForeverMs)
                             ELSE Ticks((Ticks(w.limit) - w.slept) \div TicksPerMs)])

Set(s)      == fd[s] = "open" /\ s \in ready
Readable    == {i \in DOMAIN items : Set(items[i])}
Signalled   == {i \in DOMAIN items : Set(items[i]) \/ items[i] \in w.shut}
ClosedSince == {i \in DOMAIN items : items[i] \in Shut \ w.shut}

(* poll() > 0: wait and peek ask no more, and take the POLLNVAL of a       *)
(* closed descriptor for an event; wait_for_one wants POLLIN.              *)
Reported(signalled) ==
  IF w.op # "one" THEN Go(Rest("ok", {items[Min(signalled)]}))
  ELSE IF Readable # {} THEN Go(Rest("ok", {items[Min(Readable)]}))
  ELSE Go(Rest("failed", {}))

EventReturns ==
  /\ kind = "events" /\ w.pc = "sleep" /\ Signalled # {}
  /\ Reported(Signalled)

(* Nothing is promised of a descriptor that is closed during the poll():   *)
(* it may be noticed, now or later, or never.                              *)
EventNotices ==
  /\ kind = "events" /\ w.pc = "sleep" /\ Signalled = {} /\ ClosedSince # {}
  /\ Reported(ClosedSince)

(* poll() = 0: peek answers no, the others throw.                          *)
EventTimesOut ==
  /\ kind = "events" /\ w.pc = "sleep" /\ w.left = 0 /\ w.limit # -1
  /\ Signalled = {}
  /\ Go(Rest(IF w.op = "peek" THEN "ok" ELSE "timed out", {}))

(* poll() fails with EINTR, unless it has something to return.             *)
EventInterrupted ==
  /\ kind = "events" /\ w.pc = "sleep"
  /\ Signalled = {} /\ (w.left > 0 \/ w.limit = -1)
  /\ Go([w EXCEPT !.pc = "retry"])

-----------------------------------------------------------------------------
(* PubSocket.wait_for_readers: up to the deadline, ask all_readers_updated *)
(* and sleep; Python goes on sleeping after a signal.                      *)
WaitForReaders(t) ==
  /\ kind = "readers" /\ w.pc = "idle" /\ t # -1
  /\ Look([Rest("none", {}) EXCEPT !.pc = "check", !.op = "readers", !.limit = t])

(* all_readers_updated; module Msgq has its steps.                         *)
AllUpdated == items # <<>> /\ ToSet(items) \subseteq ready

CheckReaders ==
  /\ w.pc = "check"
  /\ IF w.slept >= Ticks(w.limit) THEN Go(Rest("timed out", {}))
     ELSE IF AllUpdated THEN Go(Rest("ok", ToSet(items)))
     ELSE Go([w EXCEPT !.pc = "sleep", !.left = Interval])

ReadersSlept ==
  /\ kind = "readers" /\ w.pc = "sleep" /\ w.left = 0
  /\ Look([w EXCEPT !.pc = "check"])

-----------------------------------------------------------------------------
(* Others publish and receive, set and clear events, destroy a handle.     *)
Fill(s) ==
  /\ s \notin ready
  /\ ready' = ready \cup {s}
  /\ some' = some \cup {s}
  /\ UNCHANGED <<kind, fake, items, fd, w, all>>

Empty(s) ==
  /\ s \in ready
  /\ ready' = ready \ {s}
  /\ all' = all \ {s}
  /\ UNCHANGED <<kind, fake, items, fd, w, some>>

CloseFd(s) ==
  /\ kind = "events" /\ fd[s] = "open"
  /\ fd' = [fd EXCEPT ![s] = "closed"]
  /\ UNCHANGED <<kind, fake, items, ready, w, some, all>>

Thread == \/ CheckItem \/ PollReturns \/ PollSleeps \/ SleepEnds
          \/ PollEvents \/ EventReturns \/ EventTimesOut
          \/ CheckReaders \/ ReadersSlept

Calls == \/ PollFake
         \/ \E s \in Sources : RegisterSocket(s)
         \/ \E t \in Timeouts : \/ Poll(t) \/ WaitForReaders(t)
                                \/ \E op \in {"wait", "peek", "one"} : EventCall(op, t)

Others == \/ SleepInterrupted \/ EventInterrupted \/ EventNotices
          \/ \E s \in Sources : Fill(s) \/ Empty(s) \/ CloseFd(s)

WaitsNext == Thread \/ Tick \/ Calls \/ Others

(* The thread runs when it can.  Time passes however often signals         *)
(* interrupt the sleep: infinitely many of them take for ever.             *)
WaitsSpec == WaitsInit /\ [][WaitsNext]_waitVars
                       /\ WF_waitVars(Thread) /\ SF_waitVars(Tick)

-----------------------------------------------------------------------------
Returned == w.pc # "idle" /\ w'.pc = "idle"

Justified ==
  Returned =>
    LET there == {s \in all : fd[s] # "none"} \cap ToSet(items) IN
      IF kind # "events"
      THEN /\ w'.found \subseteq some
           /\ w'.how = "timed out" \/ there \subseteq w'.found
      ELSE \A s \in w'.found :
             /\ s \in some \/ (w.op # "one" /\ fd[s] = "closed")
             /\ \A i, j \in DOMAIN items :
                  items[i] = s /\ items[j] \in there /\ fd[items[j]] = "open" => i <= j

NotEarly ==
  Returned /\ w'.how # "failed" /\ w'.found = {} =>
    /\ w.limit # -1
    /\ w.slept > Ticks(w.limit) - (IF kind = "events" THEN TicksPerMs ELSE 1)

(* A result rests on a look at the sources after the last sleep, never on  *)
(* an older one: what is returned was ready since then, and of what was    *)
(* ready throughout a Poller returns everything (so that one socket cannot *)
(* starve another) and wait_for_one nothing behind it.  A descriptor that  *)
(* its handle has closed counts as set, to wait and peek only.  Only       *)
(* wait_for_readers gives up without a look after its last sleep.          *)
ResultJustified == [][Justified]_waitVars

(* A call returns empty-handed only after its timeout, less the fraction   *)
(* of a millisecond that poll_events cuts off, and never without one,      *)
(* whatever signals come: "poll() that retries on EINTR" (event.cc).       *)
TimeoutNotEarly == [][NotEarly]_waitVars

(* "with a monotonic deadline so signal storms don't extend the effective  *)
(* timeout" (event.cc); and of msgq_poll: however its sleep is interrupted *)
(* or sliced, a call never sleeps longer than its timeout in all, and      *)
(* wait_for_readers by less than an interval.                              *)
SleepWithinTimeout ==
  w.pc # "idle" /\ w.limit # -1
    => w.slept < Ticks(w.limit) + (IF kind = "readers" THEN Interval ELSE 1)

(* A call with a timeout ends, and so does one without as soon as one of   *)
(* its sources stays ready and is not closed, whether or not a signal ever *)
(* tells the thread.                                                       *)
WaitEnds ==
  /\ (w.pc # "idle" /\ w.limit # -1) ~> w.pc = "idle"
  /\ \A s \in Sources :
       ~<>[](w.pc # "idle" /\ s \in ToSet(items) /\ s \in ready /\ fd[s] = "open")

(***************************************************************************)
(* Refuted: "On macOS, signals can't interrupt nanosleep, so poll more     *)
(* frequently" (msgq.cc): elsewhere, too, a wait without timeout goes on   *)
(* with what was left of its last interrupted sleep, however little.       *)
(***************************************************************************)
WholePauses ==
  kind = "linux" /\ w.pc = "sleep" /\ w.limit = -1 => w.ts = Ticks(ForeverMs)
=============================================================================

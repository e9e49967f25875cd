----------------------------- MODULE WaitsProofs ----------------------------
(***************************************************************************)
(* The wait loops keep their timeouts and return what they have seen, for  *)
(* any number of sources, any timeouts and any pattern of signals.         *)
(***************************************************************************)
EXTENDS Waits, WellFoundedInduction, TLAPS

-----------------------------------------------------------------------------
WaitRecord ==
  [pc : {"idle", "pass", "sleep", "retry", "check"},
   op : {"none", "poll", "wait", "peek", "one", "readers"},
   limit : Nat \cup {-1}, slept : Nat, i : Nat, revents : SUBSET Sources,
   ts : Nat, left : Nat, remaining : Nat, full : BOOLEAN,
   shut : SUBSET Sources,
   how : {"none", "ok", "timed out", "failed"}, found : SUBSET Sources]

WaitsTypeOK ==
  /\ items \in Seq(Sources)
  /\ ready \subseteq Sources
  /\ w \in WaitRecord

(* Each loop has its own steps, and its sources are different.             *)
LoopInv ==
  /\ w.pc = "pass"  => Polling
  /\ w.pc = "retry" => kind = "events"
  /\ w.pc = "check" => kind = "readers"
  /\ w.pc = "sleep" => Polling \/ kind \in {"events", "readers"}
  /\ w.pc # "idle" /\ kind = "readers" => w.limit # -1
  /\ \A i, j \in DOMAIN items : items[i] = items[j] => i = j

(* The time asleep, the time that the loop still means to sleep, and the   *)
(* timeout.  On Linux ts is what is left of the timeout; on macOS remaining *)
(* is, after the slice that was slept last.  poll_events drops less than a *)
(* millisecond of it at a time, and wait_for_readers overruns it by less   *)
(* than an interval.                                                       *)
LinuxTime(L) ==
  /\ w.pc = "pass"  => w.slept + (IF w.full THEN 0 ELSE w.ts) = L
  /\ w.pc = "sleep" => w.slept + w.left = L
MacTime(L) ==
  /\ w.ts <= w.remaining
  /\ w.pc = "pass"  => w.slept + w.remaining - (IF w.full THEN w.ts ELSE 0) = L
  /\ w.pc = "sleep" => w.slept + (w.remaining - w.ts) + w.left = L
EventTime(L) ==
  /\ w.slept <= L
  /\ w.pc = "sleep" => w.slept + w.left <= L /\ L < w.slept + w.left + TicksPerMs
ReaderTime(L) ==
  /\ w.slept < L + Interval
  /\ w.pc = "sleep" => w.slept + w.left < L + Interval

TimeInv ==
  w.pc # "idle" /\ w.limit # -1 =>
    LET L == Ticks(w.limit) IN
      /\ kind = "linux"   => LinuxTime(L)
      /\ kind = "macos"   => MacTime(L)
      /\ kind = "events"  => EventTime(L)
      /\ kind = "readers" => ReaderTime(L)

(* What a pass has seen, and what it has not missed.                       *)
SeenInv ==
  w.pc # "idle" =>
    /\ all \subseteq ready /\ ready \subseteq some
    /\ w.pc = "pass" => /\ w.revents \subseteq some
                        /\ \A j \in DOMAIN items :
                             j < w.i /\ items[j] \in all => items[j] \in w.revents

(* The inductive invariant.                                                *)
WaitsInv == WaitsTypeOK /\ LoopInv /\ TimeInv /\ SeenInv

-----------------------------------------------------------------------------
(* Every set of natural numbers has a least one.                           *)
LEMMA MinFacts ==
  ASSUME NEW S, S \subseteq Nat, S # {}
  PROVE  Min(S) \in S /\ \A y \in S : Min(S) <= y
  <1> DEFINE R == OpToRel(<, Nat)
  <1>1. IsWellFoundedOn(R, Nat)
    BY NatLessThanWellFounded
  <1>2. \A x, y \in Nat : x < y => <<x, y>> \in R
    BY DEF OpToRel
  <1> HIDE DEF R
  <1>3. PICK x \in S : \A y \in S : ~(<<y, x>> \in R)
    BY <1>1, WFMin
  <1>4. ASSUME NEW y \in S PROVE x <= y
    <2>1. x \in Nat /\ y \in Nat /\ ~(y < x)
      BY <1>2, <1>3
    <2> QED
      BY <2>1
  <1> QED
    BY <1>4 DEF Min

(* Rounding down to whole milliseconds loses less than one of them.        *)
LEMMA WholeMs ==
  ASSUME NEW x \in Nat
  PROVE  LET y == Ticks(x \div TicksPerMs) IN y \in Nat /\ y <= x /\ x < y + TicksPerMs
  <1>1. TicksPerMs \in Nat /\ TicksPerMs > 0
    BY WaitsAssumption
  <1> DEFINE z == x \div TicksPerMs
  <1>2. z \in Nat /\ z * TicksPerMs <= x /\ x < z * TicksPerMs + TicksPerMs
    BY <1>1
  <1> QED
    BY <1>1, <1>2 DEF Ticks

(* Locals between two calls, and after an update.                          *)
LEMMA RestFacts ==
  ASSUME NEW how \in {"none", "ok", "timed out", "failed"}, NEW found \in SUBSET Sources
  PROVE  /\ Rest(how, found) \in WaitRecord /\ Rest(how, found).pc = "idle"
         /\ Rest(how, found).how = how /\ Rest(how, found).found = found
  BY DEF Rest, WaitRecord

(* Times are numbers, and a tick is a positive part of a millisecond.     *)
LEMMA TimeFacts ==
  ASSUME WaitsTypeOK
  PROVE  /\ \A n \in Nat : Ticks(n) \in Nat
         /\ \A a, b \in Nat : Smaller(a, b) \in Nat /\ Smaller(a, b) <= a /\ Smaller(a, b) <= b
         /\ TicksPerMs \in Nat /\ TicksPerMs > 0 /\ Interval \in Nat /\ Interval > 0
         /\ Ticks(ForeverMs) \in Nat /\ Ticks(SliceMs) \in Nat
         /\ w.slept \in Nat /\ w.ts \in Nat /\ w.left \in Nat /\ w.remaining \in Nat
         /\ w.limit # -1 => w.limit \in Nat /\ Ticks(w.limit) \in Nat
         /\ SleptBound \in Nat
  <1>1. /\ \A n \in Nat : Ticks(n) \in Nat
        /\ TicksPerMs \in Nat /\ TicksPerMs > 0 /\ Interval \in Nat /\ Interval > 0
        /\ ForeverMs \in Nat /\ SliceMs \in Nat
    BY WaitsAssumption DEF Ticks
  <1>2. \A a, b \in Nat : Smaller(a, b) \in Nat /\ Smaller(a, b) <= a /\ Smaller(a, b) <= b
    BY DEF Smaller
  <1>3. /\ w.slept \in Nat /\ w.ts \in Nat /\ w.left \in Nat /\ w.remaining \in Nat
        /\ w.limit # -1 => w.limit \in Nat
    BY DEF WaitsTypeOK, WaitRecord
  <1>4. SleptBound \in Nat
    BY <1>1, <1>3 DEF SleptBound
  <1> QED
    BY <1>1, <1>2, <1>3, <1>4

(* A call that ends, or one that fails at once, leaves nothing to show.    *)
LEMMA EndInv ==
  ASSUME WaitsInv, w'.pc = "idle", w' \in WaitRecord, UNCHANGED sources
  PROVE  WaitsInv'
  BY DEF WaitsInv, WaitsTypeOK, LoopInv, TimeInv, SeenInv, sources

(* A look at the sources starts with what is ready now.                    *)
LEMMA LookInv ==
  ASSUME WaitsInv, UNCHANGED sources, some' = ready, all' = ready, w' \in WaitRecord,
         w'.pc = "pass" => w'.revents = {} /\ w'.i = 1,
         LoopInv', TimeInv'
  PROVE  WaitsInv'
  <1>1. WaitsTypeOK'
    BY DEF WaitsInv, WaitsTypeOK, sources
  <1>2. \A j \in DOMAIN items : ~(j < 1)
    BY DEF WaitsInv, WaitsTypeOK
  <1>3. SeenInv'
    BY <1>2 DEF SeenInv, sources
  <1> QED
    BY <1>1, <1>3 DEF WaitsInv

(* A step of the thread that neither looks nor begins a pass.              *)
LEMMA GoInv ==
  ASSUME WaitsInv, UNCHANGED <<sources, some, all>>, w' \in WaitRecord,
         w.pc # "idle", w'.pc # "pass", LoopInv', TimeInv'
  PROVE  WaitsInv'
  BY DEF WaitsInv, WaitsTypeOK, SeenInv, sources

-----------------------------------------------------------------------------
(* The calls begin.                                                        *)
LEMMA CallsInv ==
  ASSUME WaitsInv, Calls
  PROVE  WaitsInv'
  <1>0. WaitsTypeOK /\ LoopInv
    BY DEF WaitsInv
  <1>1. CASE PollFake
    <2>1. ToSet(items) \in SUBSET Sources
      BY <1>0 DEF ToSet, WaitsTypeOK
    <2>2. w' = Rest("ok", ToSet(items)) /\ UNCHANGED sources
      BY <1>1 DEF PollFake, Look
    <2>3. w' \in WaitRecord /\ w'.pc = "idle"
      BY <2>1, <2>2, RestFacts
    <2> QED
      BY <2>2, <2>3, EndInv
  <1>2. ASSUME NEW s \in Sources, RegisterSocket(s) PROVE WaitsInv'
    <2>1. /\ w.pc = "idle" /\ items' = Append(items, s) /\ s \notin ToSet(items)
          /\ UNCHANGED <<kind, ready, w>>
      BY <1>2 DEF RegisterSocket
    <2>2. items \in Seq(Sources)
      BY <1>0 DEF WaitsTypeOK
    <2>3. items' \in Seq(Sources)
      BY <2>1, <2>2
    <2>4. \A i, j \in DOMAIN items' : items'[i] = items'[j] => i = j
      <3>1. \A i \in DOMAIN items : items[i] # s
        BY <2>1 DEF ToSet
      <3>2. Len(items) \in Nat /\ DOMAIN items = 1 .. Len(items) /\ DOMAIN items' = 1 .. Len(items) + 1
        BY <2>1, <2>2
      <3>3. \A i \in 1 .. Len(items) + 1 : items'[i] = IF i = Len(items) + 1 THEN s ELSE items[i]
        BY <2>1, <2>2
      <3> QED
        BY <1>0, <3>1, <3>2, <3>3 DEF LoopInv
    <2> QED
      BY <1>0, <2>1, <2>3, <2>4 DEF WaitsInv, WaitsTypeOK, LoopInv, TimeInv, SeenInv
  <1>3. ASSUME NEW t \in Timeouts, Poll(t) PROVE WaitsInv'
    <2>0. t \in Nat \cup {-1} /\ ForeverMs \in Nat
      BY WaitsAssumption
    <2> DEFINE ms == Ticks(IF t = -1 THEN ForeverMs ELSE t)
               ts == IF kind = "macos" THEN Smaller(ms, Ticks(SliceMs)) ELSE ms
    <2>1. /\ Polling /\ some' = ready /\ all' = ready /\ UNCHANGED sources
          /\ w' = [Rest("none", {}) EXCEPT !.pc = "pass", !.op = "poll", !.limit = t,
                      !.remaining = ms, !.ts = ts]
      BY <1>3 DEF Poll, Look
    <2>2. ms \in Nat /\ ts \in Nat /\ ts <= ms /\ (kind = "linux" => ts = ms)
      <3>1. ms \in Nat /\ Ticks(SliceMs) \in Nat
        BY <1>0, <2>0, TimeFacts
      <3> HIDE DEF ms
      <3> QED
        BY <3>1 DEF Smaller
    <2>3. t # -1 => ms = Ticks(t) /\ Ticks(t) \in Nat
      BY <1>0, <2>0, TimeFacts
    <2> HIDE DEF ms, ts
    <2>4. /\ w' \in WaitRecord /\ w'.pc = "pass" /\ w'.limit = t /\ w'.remaining = ms /\ w'.ts = ts
          /\ w'.slept = 0 /\ w'.full = FALSE /\ w'.revents = {} /\ w'.i = 1
      BY <2>0, <2>1, <2>2 DEF Rest, WaitRecord
    <2>5. LoopInv'
      BY <1>0, <2>1, <2>4 DEF LoopInv, Polling, sources
    <2>6. TimeInv'
      BY <2>1, <2>2, <2>3, <2>4 DEF TimeInv, LinuxTime, MacTime, Polling, sources
    <2> QED
      BY <2>1, <2>4, <2>5, <2>6, LookInv
  <1>4. ASSUME NEW t \in Timeouts, WaitForReaders(t) PROVE WaitsInv'
    <2>0. t \in Nat
      BY <1>4, WaitsAssumption DEF WaitForReaders
    <2>1. /\ kind = "readers" /\ some' = ready /\ all' = ready /\ UNCHANGED sources
          /\ w' = [Rest("none", {}) EXCEPT !.pc = "check", !.op = "readers", !.limit = t]
      BY <1>4 DEF WaitForReaders, Look
    <2>2. w' \in WaitRecord /\ w'.pc = "check" /\ w'.limit = t /\ w'.slept = 0
      BY <2>0, <2>1 DEF Rest, WaitRecord
    <2>3. LoopInv'
      BY <1>0, <2>0, <2>1, <2>2 DEF LoopInv, Polling, sources
    <2>4. Ticks(t) \in Nat /\ Interval \in Nat /\ Interval > 0
      BY <1>0, <2>0, TimeFacts
    <2>5. TimeInv'
      BY <2>1, <2>2, <2>4 DEF TimeInv, ReaderTime, sources
    <2> QED
      BY <2>1, <2>2, <2>3, <2>5, LookInv
  <1>5. ASSUME NEW t \in Timeouts, NEW op \in {"wait", "peek", "one"}, EventCall(op, t)
        PROVE  WaitsInv'
    <2>0. t \in Nat \cup {-1} /\ kind = "events"
      BY <1>5, WaitsAssumption DEF EventCall
    <2>1. CASE Look(Rest("failed", {}))
      <3>1. w' = Rest("failed", {}) /\ UNCHANGED sources
        BY <2>1 DEF Look
      <3> QED
        BY <3>1, RestFacts, EndInv
    <2>2. CASE Look([Rest("none", {}) EXCEPT !.pc = "retry", !.op = op, !.limit = t])
      <3>1. /\ some' = ready /\ all' = ready /\ UNCHANGED sources
            /\ w' = [Rest("none", {}) EXCEPT !.pc = "retry", !.op = op, !.limit = t]
        BY <2>2 DEF Look
      <3>2. w' \in WaitRecord /\ w'.pc = "retry" /\ w'.limit = t /\ w'.slept = 0
        BY <2>0, <3>1 DEF Rest, WaitRecord
      <3>3. LoopInv'
        BY <1>0, <2>0, <3>1, <3>2 DEF LoopInv, Polling, sources
      <3>4. t # -1 => Ticks(t) \in Nat
        BY <1>0, <2>0, TimeFacts
      <3>5. TimeInv'
        BY <2>0, <3>1, <3>2, <3>4 DEF TimeInv, EventTime, sources
      <3> QED
        BY <3>1, <3>2, <3>3, <3>5, LookInv
    <2> QED
      BY <1>5, <2>1, <2>2 DEF EventCall
  <1> QED
    BY <1>1, <1>2, <1>3, <1>4, <1>5 DEF Calls

-----------------------------------------------------------------------------
(* The steps of msgq_poll.                                                 *)
LEMMA PassInv ==
  ASSUME WaitsInv, CheckItem
  PROVE  WaitsInv'
  <1>0. WaitsTypeOK /\ LoopInv /\ TimeInv /\ SeenInv /\ w \in WaitRecord
    BY DEF WaitsInv, WaitsTypeOK
  <1> DEFINE x == w.revents \cup ({items[w.i]} \cap ready)
  <1>1. /\ w.pc = "pass" /\ w.i <= Len(items) /\ UNCHANGED <<sources, some, all>>
        /\ w' = [w EXCEPT !.i = w.i + 1, !.revents = x]
    BY DEF CheckItem, Go
  <1>2. UNCHANGED <<kind, fake, items, ready, fd>>
    BY <1>1 DEF sources
  <1>3. x \subseteq Sources /\ w.i \in Nat
    BY <1>0 DEF WaitsTypeOK, WaitRecord
  <1> HIDE DEF x
  <1> DEFINE k == w.i + 1
  <1>k. w' = [w EXCEPT !.i = k, !.revents = x] /\ k \in Nat /\ x \in SUBSET Sources
    BY <1>1, <1>3
  <1> HIDE DEF k
  <1>r. /\ w'.pc = "pass" /\ w'.i = k /\ w'.revents = x
        /\ w'.limit = w.limit /\ w'.slept = w.slept /\ w'.ts = w.ts /\ w'.left = w.left
        /\ w'.remaining = w.remaining /\ w'.full = w.full
    BY <1>0, <1>1, <1>k DEF WaitRecord
  <1>4. /\ w' \in WaitRecord /\ w'.pc = "pass" /\ w'.i = w.i + 1 /\ w'.revents = x
        /\ w'.limit = w.limit /\ w'.slept = w.slept /\ w'.ts = w.ts /\ w'.left = w.left
        /\ w'.remaining = w.remaining /\ w'.full = w.full
    <2>1. w' \in WaitRecord
      BY <1>0, <1>k DEF WaitRecord
    <2> QED
      BY <1>r, <2>1 DEF k
  <1>5. WaitsTypeOK' /\ LoopInv'
    BY <1>0, <1>1, <1>2, <1>4 DEF WaitsTypeOK, LoopInv, Polling
  <1>6. TimeInv'
    BY <1>0, <1>1, <1>2, <1>4 DEF TimeInv, LinuxTime, MacTime, EventTime, ReaderTime
  <1>7. SeenInv'
    <2>1. all \subseteq ready /\ ready \subseteq some /\ x \subseteq some
      BY <1>0, <1>1 DEF SeenInv, x
    <2>2. ASSUME NEW j \in DOMAIN items, j < w.i + 1, items[j] \in all PROVE items[j] \in x
      <3>1. j \in Nat
        BY <1>0 DEF WaitsTypeOK
      <3>2. CASE j = w.i
        BY <2>1, <2>2, <3>2 DEF x
      <3>3. CASE j < w.i
        BY <1>0, <1>1, <2>2, <3>3 DEF SeenInv, x
      <3> QED
        BY <1>3, <2>2, <3>1, <3>2, <3>3
    <2> QED
      BY <1>1, <1>2, <1>4, <2>1, <2>2 DEF SeenInv
  <1> QED
    BY <1>5, <1>6, <1>7 DEF WaitsInv

(* The poll of the fds, its sleep and the signal that interrupts it keep  *)
(* the invariant.                                                         *)
LEMMA PollInv ==
  ASSUME WaitsInv, PollReturns \/ PollSleeps \/ SleepEnds \/ SleepInterrupted
  PROVE  WaitsInv'
  <1>0. WaitsTypeOK /\ LoopInv /\ TimeInv /\ w \in WaitRecord
    BY DEF WaitsInv, WaitsTypeOK
  <1>1. UNCHANGED <<kind, fake, items, ready, fd>> /\ UNCHANGED sources
    BY DEF PollReturns, PollSleeps, SleepEnds, SleepInterrupted, Look, Go, sources
  <1>2. /\ w.slept \in Nat /\ w.ts \in Nat /\ w.left \in Nat /\ w.remaining \in Nat
        /\ w.limit # -1 => Ticks(w.limit) \in Nat
        /\ Ticks(SliceMs) \in Nat
    BY <1>0, TimeFacts
  <1>3. CASE PollReturns
    <2>1. w' = Rest("ok", w.revents) /\ w.revents \in SUBSET Sources
      BY <1>0, <1>3 DEF PollReturns, Go, WaitRecord
    <2> QED
      BY <1>1, <2>1, RestFacts, EndInv
  <1>4. CASE PollSleeps
    <2>0. w.pc = "pass" /\ UNCHANGED <<some, all>> /\ ~LastSleep /\ Polling
      BY <1>0, <1>4 DEF PollSleeps, PassDone, Go, LoopInv
    <2>1. CASE kind = "macos" /\ w.full /\ w.limit # -1
      <3> DEFINE r == w.remaining - w.ts
                 ts == Smaller(r, Ticks(SliceMs))
      <3>1. w' = [w EXCEPT !.pc = "sleep", !.remaining = r, !.ts = ts, !.left = ts]
        BY <1>4, <2>1 DEF PollSleeps, Go
      <3>2. r \in Nat /\ r > 0
        BY <1>2, <2>0, <2>1 DEF LastSleep
      <3>3. w.slept + r = Ticks(w.limit)
        BY <1>0, <1>2, <2>0, <2>1 DEF TimeInv, MacTime
      <3> HIDE DEF r
      <3>4. ts \in Nat /\ ts <= r
        BY <1>2, <3>2 DEF Smaller
      <3> HIDE DEF ts
      <3>5. /\ w' \in WaitRecord /\ w'.pc = "sleep" /\ w'.remaining = r /\ w'.ts = ts /\ w'.left = ts
            /\ w'.slept = w.slept /\ w'.limit = w.limit
        BY <1>0, <3>1, <3>2, <3>4 DEF WaitRecord
      <3>6. LoopInv'
        BY <1>0, <1>1, <2>1, <3>5 DEF LoopInv, Polling
      <3>7. TimeInv'
        BY <1>1, <1>2, <2>1, <3>2, <3>3, <3>4, <3>5 DEF TimeInv, MacTime
      <3> QED
        BY <1>1, <2>0, <3>5, <3>6, <3>7, GoInv
    <2>2. CASE ~(kind = "macos" /\ w.full /\ w.limit # -1)
      <3>1. w' = [w EXCEPT !.pc = "sleep", !.left = w.ts]
        BY <1>4, <2>2 DEF PollSleeps, Go
      <3>2. /\ w' \in WaitRecord /\ w'.pc = "sleep" /\ w'.remaining = w.remaining /\ w'.ts = w.ts
            /\ w'.left = w.ts /\ w'.slept = w.slept /\ w'.limit = w.limit
        BY <1>0, <3>1 DEF WaitRecord
      <3>3. LoopInv'
        BY <1>0, <1>1, <2>0, <3>2 DEF LoopInv, Polling
      <3>4. kind = "linux" /\ w.limit # -1 => ~w.full
        BY <2>0 DEF LastSleep
      <3>5. TimeInv'
        BY <1>0, <1>1, <1>2, <2>0, <2>2, <3>2, <3>4 DEF TimeInv, LinuxTime, MacTime, Polling
      <3> QED
        BY <1>1, <2>0, <3>2, <3>3, <3>5, GoInv
    <2> QED
      BY <2>1, <2>2
  <1>5. CASE SleepEnds
    <2>1. /\ Polling /\ w.pc = "sleep" /\ w.left = 0 /\ some' = ready /\ all' = ready
          /\ w' = [w EXCEPT !.pc = "pass", !.i = 1, !.revents = {}, !.full = TRUE]
      BY <1>5 DEF SleepEnds, Look
    <2>2. /\ w' \in WaitRecord /\ w'.pc = "pass" /\ w'.remaining = w.remaining /\ w'.ts = w.ts
          /\ w'.slept = w.slept /\ w'.limit = w.limit /\ w'.full = TRUE /\ w'.i = 1 /\ w'.revents = {}
      BY <1>0, <2>1 DEF WaitRecord
    <2>3. LoopInv'
      BY <1>0, <1>1, <2>1, <2>2 DEF LoopInv, Polling
    <2>4. TimeInv'
      BY <1>0, <1>1, <1>2, <2>1, <2>2 DEF TimeInv, LinuxTime, MacTime, Polling
    <2> QED
      BY <1>1, <2>1, <2>2, <2>3, <2>4, LookInv
  <1>6. CASE SleepInterrupted
    <2>1. /\ kind = "linux" /\ w.pc = "sleep" /\ some' = ready /\ all' = ready
          /\ w' = [w EXCEPT !.pc = "pass", !.i = 1, !.revents = {}, !.full = FALSE, !.ts = w.left]
      BY <1>6 DEF SleepInterrupted, Look
    <2>2. /\ w' \in WaitRecord /\ w'.pc = "pass" /\ w'.ts = w.left
          /\ w'.slept = w.slept /\ w'.limit = w.limit /\ w'.full = FALSE /\ w'.i = 1 /\ w'.revents = {}
      BY <1>0, <2>1 DEF WaitRecord
    <2>3. LoopInv'
      BY <1>0, <1>1, <2>1, <2>2 DEF LoopInv, Polling
    <2>4. TimeInv'
      BY <1>0, <1>1, <1>2, <2>1, <2>2 DEF TimeInv, LinuxTime
    <2> QED
      BY <1>1, <2>1, <2>2, <2>3, <2>4, LookInv
  <1> QED
    BY <1>3, <1>4, <1>5, <1>6

(* A tick of the clock.                                                    *)
LEMMA TickInv ==
  ASSUME WaitsInv, Tick
  PROVE  WaitsInv'
  <1>0. WaitsTypeOK /\ LoopInv /\ TimeInv /\ w \in WaitRecord
    BY DEF WaitsInv, WaitsTypeOK
  <1> DEFINE n == Smaller(w.slept + 1, SleptBound)
  <1>1. /\ w.pc = "sleep" /\ w.left > 0 /\ UNCHANGED <<sources, some, all>>
        /\ w' = [w EXCEPT !.left = w.left - 1, !.slept = n]
    BY DEF Tick, Go
  <1>2. /\ w.slept \in Nat /\ w.ts \in Nat /\ w.left \in Nat /\ w.remaining \in Nat
        /\ w.limit # -1 => Ticks(w.limit) \in Nat
        /\ Interval \in Nat /\ Interval > 0 /\ SleptBound \in Nat
        /\ TicksPerMs \in Nat
    BY <1>0, TimeFacts
  <1>3. n \in Nat
    BY <1>2 DEF Smaller
  <1>4. kind \in {"linux", "macos", "events", "readers"}
    BY <1>0, <1>1 DEF LoopInv, Polling
  <1>5. w.limit # -1 => n = w.slept + 1
    <2> SUFFICES ASSUME w.limit # -1 PROVE w.slept + 1 < SleptBound \/ w.slept + 1 = SleptBound
      BY <1>2 DEF Smaller
    <2>1. SleptBound = Ticks(w.limit) + Interval
      BY DEF SleptBound
    <2>2. w.slept + 1 <= Ticks(w.limit) + Interval
      BY <1>0, <1>1, <1>2, <1>4 DEF TimeInv, LinuxTime, MacTime, EventTime, ReaderTime
    <2> QED
      BY <1>2, <2>1, <2>2
  <1> HIDE DEF n
  <1> DEFINE k == w.left - 1
  <1>k. w' = [w EXCEPT !.left = k, !.slept = n] /\ k \in Nat
    BY <1>1, <1>2
  <1> HIDE DEF k
  <1>r. /\ w'.pc = "sleep" /\ w'.left = k /\ w'.slept = n
        /\ w'.limit = w.limit /\ w'.ts = w.ts /\ w'.remaining = w.remaining
    BY <1>0, <1>1, <1>k DEF WaitRecord
  <1>6. /\ w' \in WaitRecord /\ w'.pc = "sleep" /\ w'.left = w.left - 1 /\ w'.slept = n
        /\ w'.limit = w.limit /\ w'.ts = w.ts /\ w'.remaining = w.remaining
    <2>1. w' \in WaitRecord
      BY <1>0, <1>3, <1>k DEF WaitRecord
    <2> QED
      BY <1>r, <2>1 DEF k
  <1>7. UNCHANGED <<kind, items>>
    BY <1>1 DEF sources
  <1>8. LoopInv'
    BY <1>0, <1>1, <1>6, <1>7 DEF LoopInv, Polling
  <1>9. TimeInv'
    BY <1>0, <1>1, <1>2, <1>5, <1>6, <1>7 DEF TimeInv, LinuxTime, MacTime, EventTime, ReaderTime
  <1> QED
    BY <1>1, <1>6, <1>8, <1>9, GoInv

-----------------------------------------------------------------------------
(* What poll() reports is an item, the first of its kind.                  *)
LEMMA FirstItem ==
  ASSUME WaitsTypeOK
  PROVE  /\ ClosedSince # {} => /\ Min(ClosedSince) \in ClosedSince
                                /\ items[Min(ClosedSince)] \in Sources
         /\ Signalled # {} => /\ Min(Signalled) \in Signalled
                              /\ \A j \in Signalled : Min(Signalled) <= j
                              /\ items[Min(Signalled)] \in Sources
         /\ Readable # {} => /\ Min(Readable) \in Readable
                             /\ \A j \in Readable : Min(Readable) <= j
                             /\ items[Min(Readable)] \in Sources
  <1>1. /\ Signalled \subseteq DOMAIN items /\ Readable \subseteq DOMAIN items
        /\ ClosedSince \subseteq DOMAIN items
    BY DEF Signalled, Readable, ClosedSince
  <1>2. DOMAIN items \subseteq Nat /\ \A j \in DOMAIN items : items[j] \in Sources
    BY DEF WaitsTypeOK
  <1>3. Signalled \subseteq Nat /\ Readable \subseteq Nat /\ ClosedSince \subseteq Nat
    BY <1>1, <1>2
  <1>4. Signalled # {} => Min(Signalled) \in Signalled /\ \A j \in Signalled : Min(Signalled) <= j
    BY <1>3, MinFacts
  <1>5. Readable # {} => Min(Readable) \in Readable /\ \A j \in Readable : Min(Readable) <= j
    BY <1>3, MinFacts
  <1>6. ClosedSince # {} => Min(ClosedSince) \in ClosedSince
    BY <1>3, MinFacts
  <1> QED
    BY <1>1, <1>2, <1>4, <1>5, <1>6

(* The steps of poll_events.                                               *)
LEMMA EventInv ==
  ASSUME WaitsInv,
         PollEvents \/ EventReturns \/ EventNotices \/ EventTimesOut \/ EventInterrupted
  PROVE  WaitsInv'
  <1>0. WaitsTypeOK /\ LoopInv /\ TimeInv /\ w \in WaitRecord
    BY DEF WaitsInv, WaitsTypeOK
  <1>1. UNCHANGED <<kind, items>> /\ UNCHANGED sources
    BY DEF PollEvents, EventReturns, EventNotices, EventTimesOut, EventInterrupted, Reported, Look, Go,
           sources
  <1>2. /\ w.slept \in Nat /\ w.left \in Nat
        /\ w.limit # -1 => Ticks(w.limit) \in Nat
        /\ Ticks(ForeverMs) \in Nat /\ TicksPerMs \in Nat
    BY <1>0, TimeFacts
  <1>3. CASE PollEvents
    <2> DEFINE k == IF w.limit = -1 THEN Ticks(ForeverMs)
                    ELSE Ticks((Ticks(w.limit) - w.slept) \div TicksPerMs)
    <2>1. /\ w.pc = "retry" /\ some' = ready /\ all' = ready
          /\ w' = [w EXCEPT !.pc = "sleep", !.shut = Shut, !.left = k]
      BY <1>3 DEF PollEvents, Look
    <2>2. kind = "events"
      BY <1>0, <2>1 DEF LoopInv
    <2>3. w.limit # -1 => k \in Nat /\ w.slept + k <= Ticks(w.limit)
                                    /\ Ticks(w.limit) < w.slept + k + TicksPerMs
      <3> SUFFICES ASSUME w.limit # -1
                   PROVE  k \in Nat /\ w.slept + k <= Ticks(w.limit)
                                    /\ Ticks(w.limit) < w.slept + k + TicksPerMs
        OBVIOUS
      <3> DEFINE x == Ticks(w.limit) - w.slept
      <3>1. w.slept <= Ticks(w.limit)
        BY <1>0, <2>1, <2>2 DEF TimeInv, EventTime
      <3>2. x \in Nat /\ w.slept + x = Ticks(w.limit)
        BY <1>2, <3>1
      <3>3. k = Ticks(x \div TicksPerMs)
        OBVIOUS
      <3> HIDE DEF x, k
      <3>4. k \in Nat /\ k <= x /\ x < k + TicksPerMs
        BY <3>2, <3>3, WholeMs
      <3> QED
        BY <1>2, <3>2, <3>4
    <2>4. k \in Nat
      BY <1>2, <2>3
    <2> HIDE DEF k
    <2>5. /\ w' \in WaitRecord /\ w'.pc = "sleep" /\ w'.left = k
          /\ w'.slept = w.slept /\ w'.limit = w.limit
      <3>1. Shut \in SUBSET Sources
        BY <1>0 DEF Shut, ToSet, WaitsTypeOK
      <3> QED
        BY <1>0, <2>1, <2>4, <3>1 DEF WaitRecord
    <2>6. LoopInv'
      BY <1>0, <1>1, <2>1, <2>2, <2>5 DEF LoopInv, Polling
    <2>7. w.limit # -1 => w.slept <= Ticks(w.limit)
      BY <1>0, <2>1, <2>2 DEF TimeInv, EventTime
    <2>8. TimeInv'
      BY <1>1, <2>2, <2>3, <2>5, <2>7 DEF TimeInv, EventTime
    <2> QED
      BY <1>1, <2>1, <2>5, <2>6, <2>8, LookInv
  <1>4. CASE EventReturns \/ EventNotices
    <2>1. PICK how \in {"ok", "failed"}, found \in SUBSET Sources : w' = Rest(how, found)
      <3>1. PICK signalled \in SUBSET DOMAIN items :
              Reported(signalled) /\ items[Min(signalled)] \in Sources
        <4>1. Signalled \subseteq DOMAIN items /\ ClosedSince \subseteq DOMAIN items
          BY DEF Signalled, ClosedSince
        <4> QED
          BY <1>0, <1>4, <4>1, FirstItem DEF EventReturns, EventNotices
      <3>2. CASE w.op # "one"
        BY <3>1, <3>2 DEF Reported, Go
      <3>3. CASE w.op = "one" /\ Readable # {}
        BY <1>0, <3>1, <3>3, FirstItem DEF Reported, Go
      <3>4. CASE w.op = "one" /\ Readable = {}
        BY <3>1, <3>4 DEF Reported, Go
      <3> QED
        BY <3>2, <3>3, <3>4
    <2>2. w' \in WaitRecord /\ w'.pc = "idle"
      <3>1. how \in {"none", "ok", "timed out", "failed"} /\ found \in SUBSET Sources
        BY <2>1
      <3>2. Rest(how, found) \in WaitRecord /\ Rest(how, found).pc = "idle"
        BY <3>1 DEF Rest, WaitRecord
      <3> QED
        BY <2>1, <3>2
    <2> QED
      BY <1>1, <2>2, EndInv
  <1>5. CASE EventTimesOut
    <2>1. PICK how \in {"ok", "timed out"} : w' = Rest(how, {})
      BY <1>5 DEF EventTimesOut, Go
    <2>2. w' \in WaitRecord /\ w'.pc = "idle"
      <3>1. how \in {"none", "ok", "timed out", "failed"} /\ {} \in SUBSET Sources
        BY <2>1
      <3>2. Rest(how, {}) \in WaitRecord /\ Rest(how, {}).pc = "idle"
        BY <3>1 DEF Rest, WaitRecord
      <3> QED
        BY <2>1, <3>2
    <2> QED
      BY <1>1, <2>2, EndInv
  <1>6. CASE EventInterrupted
    <2>1. /\ kind = "events" /\ w.pc = "sleep" /\ UNCHANGED <<sources, some, all>>
          /\ w' = [w EXCEPT !.pc = "retry"]
      BY <1>6 DEF EventInterrupted, Go
    <2>2. w' \in WaitRecord /\ w'.pc = "retry" /\ w'.slept = w.slept /\ w'.limit = w.limit
      BY <1>0, <2>1 DEF WaitRecord
    <2>3. LoopInv'
      BY <1>0, <1>1, <2>1, <2>2 DEF LoopInv, Polling
    <2>4. TimeInv'
      BY <1>0, <1>1, <2>1, <2>2 DEF TimeInv, EventTime
    <2> QED
      BY <2>1, <2>2, <2>3, <2>4, GoInv
  <1> QED
    BY <1>3, <1>4, <1>5, <1>6

(* The steps of wait_for_readers.                                          *)
LEMMA ReadersInv ==
  ASSUME WaitsInv, CheckReaders \/ ReadersSlept
  PROVE  WaitsInv'
  <1>0. WaitsTypeOK /\ LoopInv /\ TimeInv /\ w \in WaitRecord
    BY DEF WaitsInv, WaitsTypeOK
  <1>1. UNCHANGED <<kind, items>> /\ UNCHANGED sources
    BY DEF CheckReaders, ReadersSlept, Look, Go, sources
  <1>2. /\ w.slept \in Nat /\ w.left \in Nat
        /\ w.limit # -1 => Ticks(w.limit) \in Nat
        /\ Interval \in Nat /\ Interval > 0
    BY <1>0, TimeFacts
  <1>3. CASE CheckReaders
    <2>1. w.pc = "check" /\ UNCHANGED <<sources, some, all>> /\ kind = "readers" /\ w.limit # -1
      BY <1>0, <1>3 DEF CheckReaders, Go, LoopInv
    <2>2. CASE w.slept >= Ticks(w.limit)
      <3>1. w' = Rest("timed out", {})
        BY <1>3, <2>2 DEF CheckReaders, Go
      <3> QED
        BY <1>1, <3>1, RestFacts, EndInv
    <2>3. CASE ~(w.slept >= Ticks(w.limit)) /\ AllUpdated
      <3>1. w' = Rest("ok", ToSet(items))
        BY <1>3, <2>3 DEF CheckReaders, Go
      <3>2. ToSet(items) \in SUBSET Sources
        BY <1>0 DEF ToSet, WaitsTypeOK
      <3> QED
        BY <1>1, <3>1, <3>2, RestFacts, EndInv
    <2>4. CASE ~(w.slept >= Ticks(w.limit)) /\ ~AllUpdated
      <3>1. w' = [w EXCEPT !.pc = "sleep", !.left = Interval]
        BY <1>3, <2>4 DEF CheckReaders, Go
      <3>2. /\ w' \in WaitRecord /\ w'.pc = "sleep" /\ w'.left = Interval
            /\ w'.slept = w.slept /\ w'.limit = w.limit
        BY <1>0, <1>2, <3>1 DEF WaitRecord
      <3>3. LoopInv'
        BY <1>0, <1>1, <2>1, <3>2 DEF LoopInv, Polling
      <3>4. TimeInv'
        BY <1>1, <1>2, <2>1, <2>4, <3>2 DEF TimeInv, ReaderTime
      <3> QED
        BY <2>1, <3>2, <3>3, <3>4, GoInv
    <2> QED
      BY <2>2, <2>3, <2>4
  <1>4. CASE ReadersSlept
    <2>1. /\ kind = "readers" /\ w.pc = "sleep" /\ some' = ready /\ all' = ready
          /\ w' = [w EXCEPT !.pc = "check"]
      BY <1>4 DEF ReadersSlept, Look
    <2>2. w' \in WaitRecord /\ w'.pc = "check" /\ w'.slept = w.slept /\ w'.limit = w.limit
      BY <1>0, <2>1 DEF WaitRecord
    <2>3. LoopInv'
      BY <1>0, <1>1, <2>1, <2>2 DEF LoopInv, Polling
    <2>4. TimeInv'
      BY <1>0, <1>1, <2>1, <2>2 DEF TimeInv, ReaderTime
    <2> QED
      BY <1>1, <2>1, <2>2, <2>3, <2>4, LookInv
  <1> QED
    BY <1>3, <1>4

(* What the others do.                                                     *)
LEMMA OthersInv ==
  ASSUME WaitsInv, NEW s \in Sources, Fill(s) \/ Empty(s) \/ CloseFd(s)
  PROVE  WaitsInv'
  <1>0. WaitsTypeOK /\ LoopInv /\ TimeInv /\ SeenInv
    BY DEF WaitsInv
  <1>1. UNCHANGED <<kind, items, w>>
    BY DEF Fill, Empty, CloseFd
  <1>2. ready' \subseteq Sources
    BY <1>0 DEF WaitsTypeOK, Fill, Empty, CloseFd
  <1>3. WaitsTypeOK' /\ LoopInv' /\ TimeInv'
    BY <1>0, <1>1, <1>2 DEF WaitsTypeOK, LoopInv, TimeInv, LinuxTime, MacTime, EventTime,
                            ReaderTime, Polling
  <1>4. SeenInv'
    BY <1>0, <1>1 DEF SeenInv, Fill, Empty, CloseFd
  <1> QED
    BY <1>3, <1>4 DEF WaitsInv

(* The invariant holds at first and after every step.                      *)
LEMMA InitWaits == WaitsInit => WaitsInv
  <1> SUFFICES ASSUME WaitsInit PROVE WaitsInv
    OBVIOUS
  <1>1. w = Rest("none", {}) /\ items = <<>> /\ ready \subseteq Sources
    BY DEF WaitsInit
  <1>2. w \in WaitRecord /\ w.pc = "idle"
    BY <1>1, RestFacts
  <1>3. items \in Seq(Sources) /\ DOMAIN items = {}
    BY <1>1
  <1> QED
    BY <1>1, <1>2, <1>3 DEF WaitsInv, WaitsTypeOK, LoopInv, TimeInv, SeenInv

(* Every step of a wait keeps the invariant.                              *)
LEMMA NextWaits == WaitsInv /\ [WaitsNext]_waitVars => WaitsInv'
  <1> SUFFICES ASSUME WaitsInv, [WaitsNext]_waitVars PROVE WaitsInv'
    OBVIOUS
  <1>1. CASE UNCHANGED waitVars
    BY <1>1 DEF waitVars, WaitsInv, WaitsTypeOK, LoopInv, TimeInv, LinuxTime, MacTime, EventTime,
                ReaderTime, SeenInv, Polling
  <1>2. CASE Thread
    BY <1>2, PassInv, PollInv, EventInv, ReadersInv DEF Thread
  <1>3. CASE Tick
    BY <1>3, TickInv
  <1>4. CASE Calls
    BY <1>4, CallsInv
  <1>5. CASE Others
    BY <1>5, PollInv, EventInv, OthersInv DEF Others
  <1> QED
    BY <1>1, <1>2, <1>3, <1>4, <1>5 DEF WaitsNext

(* The inductive invariant holds of every behaviour.                       *)
LEMMA AlwaysWaits == WaitsSpec => []WaitsInv
  BY InitWaits, NextWaits, PTL DEF WaitsSpec

(* What was closed when poll() was called is closed while it waits.        *)
ShutInv ==
  /\ fd \in [Sources -> {"open", "closed", "none"}]
  /\ kind = "events" /\ w.pc = "sleep" => \A s \in w.shut : fd[s] = "closed"

(* A descriptor that is closed stays closed, and a poll() starts with what *)
(* is closed then.                                                         *)
LEMMA AlwaysShut == WaitsSpec => []ShutInv
  <1>1. WaitsInit => ShutInv
    BY DEF WaitsInit, ShutInv, Rest
  <1>2. WaitsInv /\ ShutInv /\ [WaitsNext]_waitVars => ShutInv'
    <2> SUFFICES ASSUME WaitsInv, ShutInv, [WaitsNext]_waitVars PROVE ShutInv'
      OBVIOUS
    <2>0. w \in WaitRecord
      BY DEF WaitsInv, WaitsTypeOK
    <2>1. CASE UNCHANGED <<kind, fd, w>>
      BY <2>1 DEF ShutInv
    <2>2. ASSUME NEW s \in Sources, CloseFd(s) PROVE ShutInv'
      <3>1. UNCHANGED <<kind, w>> /\ fd' = [fd EXCEPT ![s] = "closed"]
        BY <2>2 DEF CloseFd
      <3>2. w.shut \subseteq Sources
        BY <2>0 DEF WaitRecord
      <3> QED
        BY <3>1, <3>2 DEF ShutInv
    <2>3. CASE UNCHANGED <<kind, fd>> /\ ~(kind = "events" /\ w'.pc = "sleep")
      BY <2>3 DEF ShutInv
    <2>4. CASE PollEvents
      <3>1. UNCHANGED <<kind, fd>> /\ w'.shut = Shut
        BY <2>0, <2>4 DEF PollEvents, Look, sources, WaitRecord
      <3> QED
        BY <3>1 DEF ShutInv, Shut
    <2>5. CASE Tick
      <3>1. UNCHANGED <<kind, fd>> /\ w'.shut = w.shut /\ w.pc = "sleep"
        BY <2>0, <2>5 DEF Tick, Go, sources, WaitRecord
      <3> QED
        BY <3>1 DEF ShutInv
    <2>6. CASE CheckItem \/ SleepEnds \/ SleepInterrupted \/ ReadersSlept \/ EventInterrupted
      <3>1. UNCHANGED <<kind, fd>>
        BY <2>6 DEF CheckItem, SleepEnds, SleepInterrupted, ReadersSlept, EventInterrupted, Look, Go,
                    sources
      <3>2. w'.pc # "sleep"
        BY <2>0, <2>6 DEF CheckItem, SleepEnds, SleepInterrupted, ReadersSlept, EventInterrupted, Look,
                          Go, WaitRecord
      <3> QED
        BY <2>3, <3>1, <3>2
    <2>7. CASE PollReturns \/ EventReturns \/ EventNotices \/ EventTimesOut
      <3>1. UNCHANGED <<kind, fd>> /\ \E how, found : w' = Rest(how, found)
        BY <2>7 DEF PollReturns, EventReturns, EventNotices, EventTimesOut, Reported, Go, sources
      <3> QED
        BY <2>3, <3>1 DEF Rest
    <2>8. CASE PollSleeps \/ CheckReaders
      <3>1. UNCHANGED <<kind, fd>> /\ kind # "events"
        BY <2>8 DEF PollSleeps, PassDone, CheckReaders, Go, sources, WaitsInv, LoopInv, Polling
      <3> QED
        BY <2>3, <3>1
    <2>9. CASE Calls
      <3>1. UNCHANGED <<kind, fd>> /\ (w' = w \/ w'.pc # "sleep")
        <4>1. CASE PollFake
          BY <4>1 DEF PollFake, Look, sources, Rest
        <4>2. ASSUME NEW s \in Sources, RegisterSocket(s) PROVE UNCHANGED <<kind, fd>> /\ w' = w
          BY <4>2 DEF RegisterSocket
        <4>3. ASSUME NEW t \in Timeouts, Poll(t)
              PROVE  UNCHANGED <<kind, fd>> /\ w'.pc = "pass"
          BY <4>3 DEF Poll, Look, sources, Rest
        <4>4. ASSUME NEW t \in Timeouts, WaitForReaders(t)
              PROVE  UNCHANGED <<kind, fd>> /\ w'.pc = "check"
          BY <4>4 DEF WaitForReaders, Look, sources, Rest
        <4>5. ASSUME NEW t \in Timeouts, NEW op \in {"wait", "peek", "one"}, EventCall(op, t)
              PROVE  UNCHANGED <<kind, fd>> /\ w'.pc \in {"idle", "retry"}
          <5>1. UNCHANGED <<kind, fd>>
            BY <4>5 DEF EventCall, Look, sources
          <5>2. \/ w' = Rest("failed", {})
                \/ w' = [Rest("none", {}) EXCEPT !.pc = "retry", !.op = op, !.limit = t]
            BY <4>5 DEF EventCall, Look
          <5>3. CASE w' = Rest("failed", {})
            BY <5>1, <5>3 DEF Rest
          <5>4. CASE w' = [Rest("none", {}) EXCEPT !.pc = "retry", !.op = op, !.limit = t]
            BY <5>1, <5>4 DEF Rest
          <5> QED
            BY <5>2, <5>3, <5>4
        <4> QED
          BY <2>9, <4>1, <4>2, <4>3, <4>4, <4>5 DEF Calls
      <3> QED
        BY <2>1, <2>3, <3>1
    <2>10. ASSUME NEW s \in Sources, Fill(s) \/ Empty(s) PROVE ShutInv'
      BY <2>1, <2>10 DEF Fill, Empty
    <2> QED
      BY <2>1, <2>2, <2>4, <2>5, <2>6, <2>7, <2>8, <2>9, <2>10 DEF WaitsNext, Thread, Others, waitVars
  <1> QED
    BY <1>1, <1>2, AlwaysWaits, PTL DEF WaitsSpec

-----------------------------------------------------------------------------
(* Whatever signals interrupt it, and however it is sliced, a wait of      *)
(* msgq_poll or of poll_events never sleeps longer than its timeout in     *)
(* all, and one of wait_for_readers by less than an interval.              *)
THEOREM TimeoutKept == WaitsSpec => []SleepWithinTimeout
  <1>1. WaitsInv => SleepWithinTimeout
    <2> SUFFICES ASSUME WaitsInv, w.pc # "idle", w.limit # -1
                 PROVE  w.slept < Ticks(w.limit) + (IF kind = "readers" THEN Interval ELSE 1)
      BY DEF SleepWithinTimeout
    <2>0. WaitsTypeOK /\ LoopInv /\ TimeInv
      BY DEF WaitsInv
    <2>1. /\ w.slept \in Nat /\ w.left \in Nat /\ w.ts \in Nat /\ w.remaining \in Nat
          /\ Ticks(w.limit) \in Nat
      BY <2>0, TimeFacts
    <2>2. w.pc \in {"pass", "sleep", "retry", "check"}
      BY <2>0 DEF WaitsTypeOK, WaitRecord
    <2>3. CASE kind = "linux"
      BY <2>0, <2>1, <2>2, <2>3 DEF TimeInv, LoopInv, LinuxTime
    <2>4. CASE kind = "macos"
      BY <2>0, <2>1, <2>2, <2>4 DEF TimeInv, LoopInv, MacTime
    <2>5. CASE kind = "events"
      BY <2>0, <2>1, <2>5 DEF TimeInv, EventTime
    <2>6. CASE kind = "readers"
      BY <2>0, <2>1, <2>6 DEF TimeInv, ReaderTime
    <2> QED
      BY <2>0, <2>2, <2>3, <2>4, <2>5, <2>6 DEF LoopInv, Polling
  <1> QED
    BY <1>1, AlwaysWaits, PTL

(* The steps with which a call that was waiting returns.                   *)
LEMMA ReturningSteps ==
  ASSUME WaitsInv, [WaitsNext]_waitVars, Returned
  PROVE  PollReturns \/ EventReturns \/ EventNotices \/ EventTimesOut \/ CheckReaders
  <1>0. w \in WaitRecord /\ w.pc # "idle" /\ w'.pc = "idle"
    BY DEF WaitsInv, WaitsTypeOK, Returned
  <1>1. ~Calls
    BY <1>0 DEF Calls, PollFake, RegisterSocket, Poll, WaitForReaders, EventCall
  <1>2. ~UNCHANGED w
    BY <1>0
  <1>3. ~\E s \in Sources : Fill(s) \/ Empty(s) \/ CloseFd(s)
    BY <1>2 DEF Fill, Empty, CloseFd
  <1>4. ~(CheckItem \/ PollSleeps \/ Tick)
    <2>1. ASSUME CheckItem PROVE FALSE
      BY <1>0, <2>1 DEF CheckItem, Go, WaitRecord
    <2>2. ASSUME PollSleeps PROVE w'.pc = "sleep"
      BY <1>0, <2>2 DEF PollSleeps, Go, WaitRecord
    <2>3. ASSUME Tick PROVE FALSE
      BY <1>0, <2>3 DEF Tick, Go, WaitRecord
    <2> QED
      BY <1>0, <2>1, <2>2, <2>3
  <1>5. ~(SleepEnds \/ SleepInterrupted \/ PollEvents \/ EventInterrupted \/ ReadersSlept)
    BY <1>0 DEF SleepEnds, SleepInterrupted, PollEvents, EventInterrupted, ReadersSlept, Look, Go,
                WaitRecord
  <1> QED
    BY <1>1, <1>2, <1>3, <1>4, <1>5 DEF WaitsNext, Thread, Others, waitVars
(* How the returning steps end the call.                                   *)
LEMMA ReturnedWith ==
  ASSUME WaitsInv, Returned
  PROVE  /\ PollReturns => w'.how = "ok" /\ w'.found = w.revents
         /\ EventReturns => \/ w'.how = "failed" /\ w'.found = {}
                            \/ w.op # "one" /\ w'.how = "ok" /\ w'.found = {items[Min(Signalled)]}
                            \/ Readable # {} /\ w'.how = "ok" /\ w'.found = {items[Min(Readable)]}
         /\ EventNotices => \/ w'.how = "failed" /\ w'.found = {}
                            \/ w.op # "one" /\ w'.how = "ok" /\ w'.found = {items[Min(ClosedSince)]}
         /\ EventTimesOut => w'.found = {}
         /\ CheckReaders => \/ w'.how = "timed out" /\ w'.found = {} /\ w.slept >= Ticks(w.limit)
                            \/ AllUpdated /\ w'.how = "ok" /\ w'.found = ToSet(items)
  <1>0. WaitsTypeOK /\ w \in WaitRecord /\ w'.pc = "idle"
    BY DEF WaitsInv, WaitsTypeOK, Returned
  <1>1. ASSUME PollReturns PROVE w'.how = "ok" /\ w'.found = w.revents
    BY <1>1 DEF PollReturns, Go, Rest
  <1>2. ASSUME EventReturns
        PROVE  \/ w'.how = "failed" /\ w'.found = {}
               \/ w.op # "one" /\ w'.how = "ok" /\ w'.found = {items[Min(Signalled)]}
               \/ Readable # {} /\ w'.how = "ok" /\ w'.found = {items[Min(Readable)]}
    BY <1>2 DEF EventReturns, Reported, Go, Rest
  <1>5. ASSUME EventNotices
        PROVE  \/ w'.how = "failed" /\ w'.found = {}
               \/ w.op # "one" /\ w'.how = "ok" /\ w'.found = {items[Min(ClosedSince)]}
    <2>1. Readable = {} /\ Reported(ClosedSince)
      BY <1>5 DEF EventNotices, Readable, Signalled
    <2> QED
      BY <2>1 DEF Reported, Go, Rest
  <1>3. ASSUME EventTimesOut PROVE w'.found = {}
    BY <1>3 DEF EventTimesOut, Go, Rest
  <1>4. ASSUME CheckReaders
        PROVE  \/ w'.how = "timed out" /\ w'.found = {} /\ w.slept >= Ticks(w.limit)
               \/ AllUpdated /\ w'.how = "ok" /\ w'.found = ToSet(items)
    <2>1. w' # [w EXCEPT !.pc = "sleep", !.left = Interval]
      BY <1>0 DEF WaitRecord
    <2>2. CASE w.slept >= Ticks(w.limit)
      <3>1. w' = Rest("timed out", {})
        BY <1>4, <2>2 DEF CheckReaders, Go
      <3> QED
        BY <2>2, <3>1 DEF Rest
    <2>3. CASE ~(w.slept >= Ticks(w.limit))
      <3>1. AllUpdated /\ w' = Rest("ok", ToSet(items))
        BY <1>4, <2>1, <2>3 DEF CheckReaders, Go
      <3> QED
        BY <3>1 DEF Rest
    <2> QED
      BY <2>2, <2>3
  <1> QED
    BY <1>1, <1>2, <1>3, <1>4, <1>5

(* A call returns empty-handed only after its timeout, and never without   *)
(* one; only poll_events may be early, by less than a millisecond.         *)
THEOREM NeverEarly == WaitsSpec => TimeoutNotEarly
  <1>1. WaitsInv /\ [WaitsNext]_waitVars => [NotEarly]_waitVars
    <2> SUFFICES ASSUME WaitsInv, [WaitsNext]_waitVars, Returned,
                        w'.how # "failed", w'.found = {}
                 PROVE  /\ w.limit # -1
                        /\ w.slept > Ticks(w.limit) - (IF kind = "events" THEN TicksPerMs ELSE 1)
      BY DEF NotEarly
    <2>0. WaitsTypeOK /\ LoopInv /\ TimeInv
      BY DEF WaitsInv
    <2>1. /\ w.slept \in Nat /\ w.left \in Nat /\ w.ts \in Nat /\ w.remaining \in Nat
          /\ w.limit # -1 => Ticks(w.limit) \in Nat
          /\ TicksPerMs \in Nat
      BY <2>0, TimeFacts
    <2>2. CASE PollReturns
      <3>1. w.pc = "pass" /\ Polling
        BY <2>0, <2>2 DEF PollReturns, PassDone, LoopInv
      <3>2. w.full /\ w.limit # -1 /\ (kind = "macos" => w.remaining - w.ts <= 0)
        BY <2>2, ReturnedWith DEF PollReturns, LastSleep
      <3> QED
        BY <2>0, <2>1, <3>1, <3>2 DEF TimeInv, LinuxTime, MacTime, Polling
    <2>3. CASE EventReturns \/ EventNotices
      BY <2>3, ReturnedWith
    <2>4. CASE EventTimesOut
      <3>1. kind = "events" /\ w.pc = "sleep" /\ w.left = 0 /\ w.limit # -1
        BY <2>4 DEF EventTimesOut
      <3>2. Ticks(w.limit) < w.slept + w.left + TicksPerMs
        BY <2>0, <3>1 DEF TimeInv, EventTime
      <3> QED
        BY <2>1, <3>1, <3>2
    <2>5. CASE CheckReaders
      <3>1. w.limit # -1 /\ kind = "readers"
        BY <2>0, <2>5 DEF CheckReaders, LoopInv
      <3>2. ~(AllUpdated /\ w'.found = ToSet(items))
        BY <2>0 DEF AllUpdated, ToSet, WaitsTypeOK
      <3>3. w.slept >= Ticks(w.limit)
        BY <2>5, <3>2, ReturnedWith
      <3> QED
        BY <2>1, <3>1, <3>3
    <2> QED
      BY <2>2, <2>3, <2>4, <2>5, ReturningSteps
  <1> QED
    BY <1>1, AlwaysWaits, PTL DEF WaitsSpec, TimeoutNotEarly

(* A result rests on a look after the last sleep: what is returned was     *)
(* ready since then; of what was ready throughout, a Poller returns        *)
(* everything and wait_for_one nothing behind it.                          *)
THEOREM ResultsHold == WaitsSpec => ResultJustified
  <1>1. WaitsInv /\ ShutInv /\ [WaitsNext]_waitVars => [Justified]_waitVars
    <2> SUFFICES ASSUME WaitsInv, ShutInv, [WaitsNext]_waitVars, Returned
                 PROVE  Justified
      BY DEF Justified
    <2>0. WaitsTypeOK /\ LoopInv /\ SeenInv
      BY DEF WaitsInv
    <2>1. all \subseteq ready /\ ready \subseteq some
      BY <2>0 DEF SeenInv, Returned
    <2> DEFINE there == {s \in all : fd[s] # "none"} \cap ToSet(items)
    <2>2. CASE PollReturns
      <3>1. kind # "events" /\ w.pc = "pass" /\ w.i > Len(items)
        BY <2>0, <2>2 DEF PollReturns, PassDone, LoopInv, Polling
      <3>2. w'.found = w.revents /\ w.revents \subseteq some
        BY <2>0, <2>2, <3>1, ReturnedWith DEF SeenInv
      <3>3. ASSUME NEW s \in there PROVE s \in w.revents
        <4>1. PICK j \in DOMAIN items : items[j] = s
          BY DEF ToSet
        <4>2. j < w.i
          <5>1. j \in 1 .. Len(items) /\ Len(items) \in Nat
            BY <2>0 DEF WaitsTypeOK
          <5>2. w.i \in Nat
            BY <2>0 DEF WaitsTypeOK, WaitRecord
          <5> QED
            BY <3>1, <5>1, <5>2
        <4> QED
          BY <2>0, <3>1, <4>1, <4>2 DEF SeenInv
      <3> QED
        BY <3>1, <3>2, <3>3 DEF Justified
    <2>3. CASE EventReturns \/ EventNotices
      <3>1. kind = "events" /\ w.pc = "sleep"
        BY <2>3 DEF EventReturns, EventNotices
      <3>2. ASSUME NEW m \in DOMAIN items, w'.found = {items[m]},
                   \A j \in Readable : m <= j,
                   items[m] \in some \/ (w.op # "one" /\ fd[items[m]] = "closed")
            PROVE  Justified
        <4>1. ASSUME NEW i \in DOMAIN items, NEW j \in DOMAIN items,
                     items[i] = items[m], items[j] \in there, fd[items[j]] = "open"
              PROVE  i <= j
          <5>1. i = m
            BY <2>0, <4>1 DEF LoopInv
          <5>2. j \in Readable
            BY <2>1, <4>1 DEF Readable, Set
          <5> QED
            BY <3>2, <5>1, <5>2
        <4> QED
          BY <3>1, <3>2, <4>1 DEF Justified
      <3>3. CASE w'.found = {}
        BY <3>1, <3>3 DEF Justified
      <3>4. CASE EventReturns /\ w.op # "one" /\ w'.found = {items[Min(Signalled)]}
        <4>1. Min(Signalled) \in Signalled /\ \A j \in Signalled : Min(Signalled) <= j
          BY <2>0, <3>4, FirstItem DEF EventReturns
        <4>2. Readable \subseteq Signalled
          BY DEF Readable, Signalled
        <4>3. /\ Min(Signalled) \in DOMAIN items
              /\ items[Min(Signalled)] \in some \/ fd[items[Min(Signalled)]] = "closed"
          BY <2>1, <3>1, <4>1 DEF Signalled, Set, ShutInv
        <4> QED
          BY <3>2, <3>4, <4>1, <4>2, <4>3
      <3>6. CASE EventNotices /\ w.op # "one" /\ w'.found = {items[Min(ClosedSince)]}
        <4>1. Min(ClosedSince) \in ClosedSince
          BY <2>0, <3>6, FirstItem DEF EventNotices
        <4>2. Readable = {}
          BY <3>6 DEF EventNotices, Readable, Signalled
        <4>3. Min(ClosedSince) \in DOMAIN items /\ fd[items[Min(ClosedSince)]] = "closed"
          BY <4>1 DEF ClosedSince, Shut
        <4> QED
          BY <3>2, <3>6, <4>2, <4>3
      <3>5. CASE Readable # {} /\ w'.found = {items[Min(Readable)]}
        <4>1. Min(Readable) \in Readable /\ \A j \in Readable : Min(Readable) <= j
          BY <2>0, <3>5, FirstItem
        <4>2. Min(Readable) \in DOMAIN items /\ items[Min(Readable)] \in some
          BY <2>1, <4>1 DEF Readable, Set
        <4> QED
          BY <3>2, <3>5, <4>1, <4>2
      <3> QED
        BY <2>3, <3>3, <3>4, <3>5, <3>6, ReturnedWith
    <2>4. CASE EventTimesOut
      BY <2>4, ReturnedWith DEF EventTimesOut, Justified
    <2>5. CASE CheckReaders
      <3>1. kind # "events"
        BY <2>0, <2>5 DEF CheckReaders, LoopInv
      <3>2. CASE w'.how = "timed out" /\ w'.found = {}
        BY <3>1, <3>2 DEF Justified
      <3>3. CASE AllUpdated /\ w'.found = ToSet(items)
        BY <2>1, <3>1, <3>3 DEF AllUpdated, Justified
      <3> QED
        BY <2>5, <3>2, <3>3, ReturnedWith
    <2> QED
      BY <2>2, <2>3, <2>4, <2>5, ReturningSteps
  <1> QED
    BY <1>1, AlwaysWaits, AlwaysShut, PTL DEF WaitsSpec, ResultJustified
=============================================================================

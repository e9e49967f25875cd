------------------------------- MODULE PubSub -------------------------------
(***************************************************************************)
(* What an endpoint promises its subscribers, without segment, pointers or *)
(* flags.  The publisher appends to a log; a reader has a place in it, the *)
(* message it receives next, or is lost.  While a reader has a place it    *)
(* gets every message from there on, in order and once, and is told that   *)
(* there is none only if there is none.  It loses its place only if it is  *)
(* Capacity bytes behind ("Slow subscribers can miss messages when the     *)
(* ring buffer wraps", README.md) or if a new publisher starts.            *)
(***************************************************************************)
EXTENDS Naturals, Sequences

CONSTANTS
  Readers,
  Conflating,   (* the readers that only want the latest message            *)
  Sizes,        (* the bytes messages occupy                                *)
  Capacity      (* bytes a reader may be behind and not miss a message      *)

VARIABLES
  log,        (* for each message, the bytes published up to its end        *)
  phase,      (* what the publisher does: "quiet", "starting", "sending"    *)
  place,      (* the place of each reader, or Lost                          *)
  last,       (* the message each reader received last, 0 for none          *)
  answer,     (* "msg", "empty", "ready", or "none" for no answer yet       *)
  condemned   (* readers the publisher has found too far behind             *)

pubSubVars == <<log, phase, place, last, answer, condemned>>

Lost   == 0
End(i) == IF i = 0 THEN 0 ELSE log[i]
Behind(s) == End(Len(log)) - End(place[s] - 1)

(* The publisher may overwrite what s has not read.                        *)
Overtaken(s) == place[s] = Lost \/ Behind(s) >= Capacity

Init ==
  /\ log = <<>>
  /\ phase = "quiet"
  /\ place  = [s \in Readers |-> Lost]
  /\ last   = [s \in Readers |-> 0]
  /\ answer = [s \in Readers |-> "none"]
  /\ condemned = {}

Publisher(ph) ==
  /\ phase' = ph
  /\ UNCHANGED <<log, place, last, answer, condemned>>

Publish(n) ==
  /\ phase = "sending"
  /\ phase' = "quiet"
  /\ log' = Append(log, End(Len(log)) + n)
  /\ UNCHANGED <<place, last, answer, condemned>>

Condemn(s) ==
  /\ Overtaken(s)
  /\ condemned' = condemned \cup {s}
  /\ UNCHANGED <<log, phase, place, last, answer>>

Lose(s) ==
  /\ s \in condemned \/ Overtaken(s) \/ phase = "starting"
  /\ place' = [place EXCEPT ![s] = Lost]
  /\ condemned' = condemned \ {s}
  /\ UNCHANGED <<log, phase, last, answer>>

(* A lost reader gets a place again, behind what it has received.          *)
Attach(s, i) ==
  /\ place[s] = Lost
  /\ i \in last[s] + 1 .. Len(log) + 1
  /\ place' = [place EXCEPT ![s] = i]
  /\ UNCHANGED <<log, phase, last, answer, condemned>>

Deliver(s, i) ==
  /\ place[s] \in {Lost, i}
  /\ i \in last[s] + 1 .. Len(log)
  /\ last' = [last EXCEPT ![s] = i]
  /\ answer' = [answer EXCEPT ![s] = "msg"]
  /\ \/ place' = [place EXCEPT ![s] = i + 1]
     \/ Overtaken(s) /\ place' = [place EXCEPT ![s] = Lost]
  /\ UNCHANGED <<log, phase, condemned>>

(* Pass over a message for a newer one that is there or on its way.        *)
Skip(s) ==
  /\ s \in Conflating
  /\ \/ place[s] \in 1 .. Len(log) - 1
     \/ place[s] = Len(log) /\ phase = "sending"
  /\ place' = [place EXCEPT ![s] = place[s] + 1]
  /\ UNCHANGED <<log, phase, last, answer, condemned>>

Answer(s, a) ==
  /\ a = "empty" => place[s] = Len(log) + 1 \/ Overtaken(s)
  /\ a = "ready" => place[s] # Len(log) + 1 \/ phase = "sending"
  /\ answer' = [answer EXCEPT ![s] = a]
  /\ UNCHANGED <<log, phase, place, last, condemned>>

Next ==
  \/ \E ph \in {"quiet", "starting", "sending"} : Publisher(ph)
  \/ \E n \in Sizes : Publish(n)
  \/ \E s \in Readers :
       \/ Condemn(s) \/ Lose(s) \/ Skip(s)
       \/ \E i \in 1 .. Len(log) + 1 : Attach(s, i) \/ Deliver(s, i)
       \/ \E a \in {"none", "empty", "ready"} : Answer(s, a)

Spec == Init /\ [][Next]_pubSubVars
=============================================================================

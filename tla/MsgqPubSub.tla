----------------------------- MODULE MsgqPubSub -----------------------------
(***************************************************************************)
(* The queue of module Msgq implements PubSub.  The refinement mapping     *)
(* needs to know what was published, which the segment forgets when it is  *)
(* overwritten: the history variable published records, for each message,  *)
(* its number, its end in bytes and where it was stored.                   *)
(***************************************************************************)
EXTENDS MsgqProperties

VARIABLE published

pubSubVars == <<vars, published>>

BytesUpTo(i) == IF i = 0 THEN 0 ELSE published[i].end

Record ==
  IF \E p \in Publishers : pub[p].pc = "publish" /\ pub'[p].pc # "publish"
  THEN LET p == CHOOSE q \in Publishers : pub[q].pc = "publish" /\ pub'[q].pc # "publish"
       IN published' = Append(published,
            [msg |-> pub[p].msg, pos |-> pub[p].wp,
             end |-> BytesUpTo(Len(published)) + Total(pub[p].size)])
  ELSE UNCHANGED published

RecordedSpec ==
  /\ Init /\ published = <<>>
  /\ [][Next /\ Steady /\ Record]_pubSubVars

-----------------------------------------------------------------------------
(* The message stored at position w is not overwritten yet.                *)
Intact(i) == LET w == data[WordAt(published[i].pos.ptr)] IN
               w.kind = "size" /\ w.msg = published[i].msg

(* The place in the log of position w, if it is one of a message, of the   *)
(* next message, or of a wrap-around tag in front of one of these.         *)
StoredAt(w) == {i \in DOMAIN published : published[i].pos = w}
PlaceOf(w) ==
  IF w = write_pointer THEN Len(published) + 1
  ELSE IF \E i \in StoredAt(w) : Intact(i) THEN CHOOSE i \in StoredAt(w) : Intact(i)
  ELSE 0
Place(w) ==
  IF StoredAt(w) = {} /\ w # write_pointer /\ Loaded(WordAt(w.ptr)) = WrapTag
    THEN PlaceOf(Pos(NextCycle(w.cyc), 0)) ELSE PlaceOf(w)

(* The number in the log of message m, 0 if it was not published.          *)
Index(m) == LET at == {i \in DOMAIN published : published[i].msg = m} IN
              IF at = {} THEN 0 ELSE CHOOSE i \in at : TRUE

InPlace(s) ==
  /\ sub[s].pc \notin {"closed", "reset_valid", "reset_load", "reset_store"}
  /\ sub[s].id # -1
  /\ read_uids[sub[s].id] = s
  /\ read_valids[sub[s].id]

LastReceived(s) == IF out[s] = <<>> THEN 0 ELSE Index(out[s][1].msg)

(* A receive that has stored its new read pointer, and may still discard   *)
(* what it copied, is where it was.  A place behind the last message that  *)
(* was received is none: the reader has been overtaken unnoticed.          *)
ReaderPlace(s) ==
  LET i == IF sub[s].pc # "check_data" THEN Place(read_pointers[sub[s].id])
           ELSE LET k == Index(sub[s].buf[1].msg) IN
                  IF k \in StoredAt(sub[s].rp) THEN k ELSE 0
  IN IF InPlace(s) /\ i > LastReceived(s) THEN i ELSE 0

Sending(p) == pub[p].pc \in {"wrap_tag", "beyond", "beyond_inv", "wrap_wp", "area",
                             "area_inv", "size", "copy", "publish"}
Condemning(p, s) == /\ pub[p].pc \in {"beyond_inv", "area_inv"}
                    /\ pub[p].i = sub[s].id /\ read_uids[sub[s].id] = s

Largest == CHOOSE n \in MsgSizes : \A k \in MsgSizes : k <= n

PubSub == INSTANCE PubSub WITH
  Readers    <- Subscribers,
  Conflating <- Conflated,
  Sizes      <- {Total(n) : n \in MsgSizes},
  Capacity   <- Size - 2 * Total(Largest),
  log        <- [i \in DOMAIN published |-> published[i].end],
  phase      <- IF \E p \in Publishers : Starting(p) THEN "starting"
                ELSE IF \E p \in Publishers : Sending(p) THEN "sending" ELSE "quiet",
  place      <- [s \in Subscribers |-> ReaderPlace(s)],
  last       <- [s \in Subscribers |-> LastReceived(s)],
  answer     <- [s \in Subscribers |->
                   IF sub[s].ret \in {"msg", "empty", "ready"} THEN sub[s].ret ELSE "none"],
  condemned  <- {s \in Subscribers : \E p \in Publishers : Condemning(p, s)}

(* Every step of the queue is a step that PubSub allows, or none: under    *)
(* the timing assumptions of SteadySpec a reader that is not overtaken     *)
(* misses nothing, repeats nothing, and msgq_msg_ready and msgq_msg_recv   *)
(* do not tell it that the queue is empty when it is not.  The capacity is *)
(* the segment less the area about to be written and less what a           *)
(* wrap-around may waste; TLC refutes one that is 8 bytes larger.          *)
ImplementsPubSub == PubSub!Spec
=============================================================================

-------------------------------- MODULE Msgq --------------------------------
(***************************************************************************)
(* msgq/msgq.cc: the lock-free queue that publishers and subscribers of an *)
(* endpoint share through a memory-mapped file.  A step is one access to   *)
(* the shared segment, in program order, together with the local work that *)
(* follows it; header fields are sequentially consistent atomics in the    *)
(* code, and the payload is copied word by word, so a copy and a           *)
(* concurrent overwrite interleave.                                        *)
(*                                                                         *)
(* A publisher or a subscriber is one msgq_queue_t with the thread that    *)
(* uses it.  Its uid (random bits and the thread id) is its own name.      *)
(***************************************************************************)
EXTENDS MsgqLayout, FiniteSets

CONSTANTS
  NumReaders,   (* NUM_READERS: reader slots in the header                  *)
  Publishers,
  Subscribers,
  Conflated,    (* the subscribers with read_conflate                       *)
  NoUid,        (* the uid 0 of an empty slot                               *)
  MaxSends      (* bound of the model: messages sent in a behaviour         *)

ASSUME NumReadersAssumption == NumReaders \in Nat \ {0}
ASSUME ProcessAssumption ==
  /\ Conflated \subseteq Subscribers
  /\ NoUid \notin Publishers \cup Subscribers
ASSUME MaxSendsAssumption == MaxSends \in Nat

Slots == 0 .. NumReaders - 1

VARIABLES
  num_readers, write_pointer, write_uid,      (* msgq_header_t              *)
  read_pointers, read_valids, read_uids,
  data,                                       (* the data area              *)
  pub,          (* locals and program counter of each publisher             *)
  sub,          (* locals and program counter of each subscriber            *)
  sent,         (* messages sent so far: numbers the messages               *)
  out           (* the message each subscriber received last                *)

queue  == <<num_readers, write_pointer, write_uid>>
slots  == <<read_pointers, read_valids, read_uids>>
shared == <<queue, slots, data>>
vars   == <<shared, pub, sub, sent, out>>

(***************************************************************************)
(* Locals of a publisher: its copies of num_readers and write_pointer, the *)
(* loop index, the message being sent, the next payload word, the result   *)
(* of its last call.                                                       *)
(***************************************************************************)
PubAt(pc) == [pc |-> pc, num |-> 0, wp |-> Origin, i |-> 0, msg |-> 0,
              size |-> 0, part |-> 0, ret |-> "none"]

(***************************************************************************)
(* Locals of a subscriber: the call in progress, reader_id, the value for  *)
(* the compare-and-swap, loop index and uid of the eviction loop, its      *)
(* copies of read_pointer, write_pointer and size prefix, the words copied *)
(* so far, the result of its last call.                                    *)
(***************************************************************************)
SubAt(pc, op, id) ==
  [pc |-> pc, op |-> op, id |-> id, num |-> 0, i |-> 0, old |-> NoUid,
   rp |-> Origin, wp |-> Origin, word |-> Zero, buf |-> <<>>, ret |-> "none"]

(* A fresh file: ftruncate fills the header and the data with zeroes.      *)
Init ==
  /\ num_readers   = 0
  /\ write_pointer = Origin
  /\ write_uid     = NoUid
  /\ read_pointers = [i \in Slots |-> Origin]
  /\ read_valids   = [i \in Slots |-> FALSE]
  /\ read_uids     = [i \in Slots |-> NoUid]
  /\ data          = [a \in WordAddrs |-> Zero]
  /\ pub           = [p \in Publishers |-> PubAt("closed")]
  /\ sub           = [s \in Subscribers |-> SubAt("closed", "none", -1)]
  /\ sent          = 0
  /\ out           = [s \in Subscribers |-> <<>>]

(* A step of a publisher, or of a subscriber, replaces its locals: it goes *)
(* on in the call, returns from it, or, for a subscriber, goes back to an  *)
(* earlier point of the call and forgets what it has loaded.               *)
SetPub(p, r) == pub' = [pub EXCEPT ![p] = r]
SetSub(s, r) == sub' = [sub EXCEPT ![s] = r]

PubGoto(p, pc)     == SetPub(p, [pub[p] EXCEPT !.pc = pc])
SubGoto(s, pc)     == SetSub(s, [sub[s] EXCEPT !.pc = pc])
PubReturn(p, ret)  == SetPub(p, [PubAt("idle") EXCEPT !.ret = ret])
SubReturn(s, ret)  == SetSub(s, [SubAt("idle", "none", sub[s].id) EXCEPT !.ret = ret])
SubBack(s, pc)     == SetSub(s, SubAt(pc, sub[s].op, sub[s].id))

(* A publisher with locals r at index i of a loop over num_readers slots.  *)
AtSlot(r, i, body, done) ==
  [r EXCEPT !.i = i, !.pc = IF i < r.num THEN body ELSE done]

-----------------------------------------------------------------------------
(***************************************************************************)
(* Publisher: msgq_init_publisher.                                         *)
(***************************************************************************)
StoreWriteUid(p) ==
  /\ pub[p].pc = "closed"
  /\ write_uid' = p
  /\ SetPub(p, PubAt("zero_num"))
  /\ UNCHANGED <<num_readers, write_pointer, slots, data, sub, sent, out>>

ZeroNumReaders(p) ==
  /\ pub[p].pc = "zero_num"
  /\ num_readers' = 0
  /\ PubGoto(p, "wipe_valid")
  /\ UNCHANGED <<write_pointer, write_uid, slots, data, sub, sent, out>>

WipeValid(p) ==
  /\ pub[p].pc = "wipe_valid"
  /\ read_valids' = [read_valids EXCEPT ![pub[p].i] = FALSE]
  /\ PubGoto(p, "wipe_uid")
  /\ UNCHANGED <<queue, read_pointers, read_uids, data, sub, sent, out>>

WipeUid(p) ==
  /\ pub[p].pc = "wipe_uid"
  /\ read_uids' = [read_uids EXCEPT ![pub[p].i] = NoUid]
  /\ SetPub(p, IF pub[p].i + 1 < NumReaders
                 THEN [pub[p] EXCEPT !.pc = "wipe_valid", !.i = pub[p].i + 1]
                 ELSE PubAt("idle"))
  /\ UNCHANGED <<queue, read_pointers, read_valids, data, sub, sent, out>>

-----------------------------------------------------------------------------
(***************************************************************************)
(* Publisher: msgq_msg_send of a message of n bytes.                       *)
(***************************************************************************)
BeginSend(p, n) ==
  /\ pub[p].pc = "idle"
  /\ sent < MaxSends
  /\ sent' = sent + 1
  /\ SetPub(p, [PubAt("check_uid") EXCEPT !.msg = sent + 1, !.size = n])
  /\ UNCHANGED <<shared, sub, out>>

(* Die if we are no longer the active publisher (EADDRINUSE).              *)
CheckWriteUid(p) ==
  /\ pub[p].pc = "check_uid"
  /\ IF write_uid = p THEN PubGoto(p, "load_num") ELSE PubReturn(p, "in_use")
  /\ UNCHANGED <<shared, sub, sent, out>>

LoadNumReaders(p) ==
  /\ pub[p].pc = "load_num"
  /\ SetPub(p, [pub[p] EXCEPT !.pc = "load_wp", !.num = num_readers])
  /\ UNCHANGED <<shared, sub, sent, out>>

LoadWritePointer(p) ==
  /\ pub[p].pc = "load_wp"
  /\ LET r == [pub[p] EXCEPT !.wp = write_pointer] IN
       SetPub(p, IF MustWrap(write_pointer.ptr, r.size)
                   THEN [r EXCEPT !.pc = "wrap_tag"]
                   ELSE AtSlot(r, 0, "area", "size"))
  /\ UNCHANGED <<shared, sub, sent, out>>

(* Write -1 size tag indicating wraparound.                                *)
StoreWrapTag(p) ==
  /\ pub[p].pc = "wrap_tag"
  /\ data' = [data EXCEPT ![WordAt(pub[p].wp.ptr)] = WrapTag]
  /\ SetPub(p, AtSlot(pub[p], 0, "beyond", "wrap_wp"))
  /\ UNCHANGED <<queue, slots, sub, sent, out>>

(* Update global and local copies of write pointer and write_cycles.       *)
StoreWrap(p) ==
  /\ pub[p].pc = "wrap_wp"
  /\ LET w == Pos(NextCycle(pub[p].wp.cyc), 0) IN
       /\ write_pointer' = w
       /\ SetPub(p, AtSlot([pub[p] EXCEPT !.wp = w], 0, "area", "size"))
  /\ UNCHANGED <<num_readers, write_uid, slots, data, sub, sent, out>>

(* One slot of the two invalidation loops: readers that are beyond the     *)
(* write pointer when it wraps, readers in the area that will be written.  *)
Overrun(p, r) ==
  IF pub[p].pc = "beyond" THEN BeyondWrap(r, pub[p].wp)
                          ELSE InArea(r, pub[p].wp, pub[p].size)

NextSlot(p) ==
  IF pub[p].pc \in {"beyond", "beyond_inv"}
    THEN SetPub(p, AtSlot(pub[p], pub[p].i + 1, "beyond", "wrap_wp"))
    ELSE SetPub(p, AtSlot(pub[p], pub[p].i + 1, "area", "size"))

CheckSlot(p) ==
  /\ pub[p].pc \in {"beyond", "area"}
  /\ IF Overrun(p, read_pointers[pub[p].i])
       THEN PubGoto(p, IF pub[p].pc = "beyond" THEN "beyond_inv" ELSE "area_inv")
       ELSE NextSlot(p)
  /\ UNCHANGED <<shared, sub, sent, out>>

Invalidate(p) ==
  /\ pub[p].pc \in {"beyond_inv", "area_inv"}
  /\ read_valids' = [read_valids EXCEPT ![pub[p].i] = FALSE]
  /\ NextSlot(p)
  /\ UNCHANGED <<queue, read_pointers, read_uids, data, sub, sent, out>>

StoreSize(p) ==
  /\ pub[p].pc = "size"
  /\ data' = [data EXCEPT ![WordAt(pub[p].wp.ptr)] =
                SizeTag(pub[p].size, pub[p].msg)]
  /\ SetPub(p, [pub[p] EXCEPT !.pc = "copy", !.part = 1])
  /\ UNCHANGED <<queue, slots, sub, sent, out>>

(* One word of the memcpy of the payload.                                  *)
StorePayload(p) ==
  /\ pub[p].pc = "copy"
  /\ data' = [data EXCEPT ![WordAt(pub[p].wp.ptr) + pub[p].part] =
                Payload(pub[p].size, pub[p].msg, pub[p].part)]
  /\ IF pub[p].part < Parts(pub[p].size)
       THEN SetPub(p, [pub[p] EXCEPT !.part = pub[p].part + 1])
       ELSE PubGoto(p, "publish")
  /\ UNCHANGED <<queue, slots, sub, sent, out>>

StoreWritePointer(p) ==
  /\ pub[p].pc = "publish"
  /\ write_pointer' = Pos(pub[p].wp.cyc, Align(pub[p].wp.ptr + pub[p].size + 8))
  /\ IF pub[p].num > 0
       THEN SetPub(p, [pub[p] EXCEPT !.pc = "notify", !.i = 0])
       ELSE PubReturn(p, "sent")
  /\ UNCHANGED <<num_readers, write_uid, slots, data, sub, sent, out>>

(* The thread that SIGUSR2 is sent to in the notify loop.                  *)
Notified(p) == read_uids[pub[p].i]

(* Notify readers: load the uid of slot i and signal its thread.  The      *)
(* signal has no effect on a thread that runs; SubSocket.tla adds threads  *)
(* that sleep in msgq_poll.                                                *)
Notify(p) ==
  /\ pub[p].pc = "notify"
  /\ IF pub[p].i + 1 < pub[p].num
       THEN SetPub(p, [pub[p] EXCEPT !.i = pub[p].i + 1])
       ELSE PubReturn(p, "sent")
  /\ UNCHANGED <<shared, sub, sent, out>>

-----------------------------------------------------------------------------
(***************************************************************************)
(* Publisher: msgq_all_readers_updated.  It answers "updated" or "behind". *)
(***************************************************************************)
BeginUpdated(p) ==
  /\ pub[p].pc = "idle"
  /\ IF num_readers > 0
       THEN SetPub(p, [PubAt("upd_valid") EXCEPT !.num = num_readers])
       ELSE PubReturn(p, "behind")
  /\ UNCHANGED <<shared, sub, sent, out>>

(* On to the next slot, or to the end of the loop.                         *)
NextUpdated(p) ==
  IF pub[p].i + 1 < pub[p].num
    THEN SetPub(p, [PubAt("upd_valid") EXCEPT !.num = pub[p].num, !.i = pub[p].i + 1])
    ELSE PubReturn(p, "updated")

UpdatedValid(p) ==
  /\ pub[p].pc = "upd_valid"
  /\ IF read_valids[pub[p].i] THEN PubGoto(p, "upd_wp") ELSE NextUpdated(p)
  /\ UNCHANGED <<shared, sub, sent, out>>

UpdatedWritePointer(p) ==
  /\ pub[p].pc = "upd_wp"
  /\ SetPub(p, [pub[p] EXCEPT !.pc = "upd_rp", !.wp = write_pointer])
  /\ UNCHANGED <<shared, sub, sent, out>>

(* A mutant: only the offsets are compared.                                *)
UpdatedOffsetsOnly(p) ==
  /\ pub[p].pc = "upd_rp"
  /\ IF pub[p].wp.ptr # read_pointers[pub[p].i].ptr THEN PubReturn(p, "behind") ELSE NextUpdated(p)
  /\ UNCHANGED <<shared, sub, sent, out>>

UpdatedReadPointer(p) ==
  /\ pub[p].pc = "upd_rp"
  /\ IF pub[p].wp # read_pointers[pub[p].i] THEN PubReturn(p, "behind") ELSE NextUpdated(p)
  /\ UNCHANGED <<shared, sub, sent, out>>

-----------------------------------------------------------------------------
(***************************************************************************)
(* Subscriber: msgq_init_subscriber, called by msgq's connect and by       *)
(* msgq_msg_ready and msgq_msg_recv when the slot has another owner.       *)
(***************************************************************************)
Connect(s) ==
  /\ sub[s].pc = "closed"
  /\ SetSub(s, SubAt("load_num", "connect", -1))
  /\ UNCHANGED <<shared, pub, sent, out>>

(* A mutant: one reader too many.                                          *)
LoadSlotCountLate(s) ==
  /\ sub[s].pc = "load_num"
  /\ IF num_readers > NumReaders
       THEN SubGoto(s, "evict_num")
       ELSE SetSub(s, [sub[s] EXCEPT !.pc = "cas", !.num = num_readers])
  /\ UNCHANGED <<shared, pub, sent, out>>

(* No more slots available: reset all subscribers.                         *)
LoadSlotCount(s) ==
  /\ sub[s].pc = "load_num"
  /\ IF num_readers + 1 > NumReaders
       THEN SubGoto(s, "evict_num")
       ELSE SetSub(s, [sub[s] EXCEPT !.pc = "cas", !.num = num_readers])
  /\ UNCHANGED <<shared, pub, sent, out>>

EvictAll(s) ==
  /\ sub[s].pc = "evict_num"
  /\ num_readers' = 0
  /\ SubBack(s, "evict_valid")
  /\ UNCHANGED <<write_pointer, write_uid, slots, data, pub, sent, out>>

EvictValid(s) ==
  /\ sub[s].pc = "evict_valid"
  /\ read_valids' = [read_valids EXCEPT ![sub[s].i] = FALSE]
  /\ SubGoto(s, "evict_load")
  /\ UNCHANGED <<queue, read_pointers, read_uids, data, pub, sent, out>>

EvictLoadUid(s) ==
  /\ sub[s].pc = "evict_load"
  /\ SetSub(s, [sub[s] EXCEPT !.pc = "evict_uid", !.old = read_uids[sub[s].i]])
  /\ UNCHANGED <<shared, pub, sent, out>>

(* Clear the uid, and wake up reader old in case they are in a poll.       *)
EvictUid(s) ==
  /\ sub[s].pc = "evict_uid"
  /\ read_uids' = [read_uids EXCEPT ![sub[s].i] = NoUid]
  /\ IF sub[s].i + 1 < NumReaders
       THEN SetSub(s, [SubAt("evict_valid", sub[s].op, sub[s].id) EXCEPT !.i = sub[s].i + 1])
       ELSE SubBack(s, "load_num")
  /\ UNCHANGED <<queue, read_pointers, read_valids, data, pub, sent, out>>

(* A mutant: a plain store for the compare-and-swap.                       *)
ClaimSlotStore(s) ==
  /\ sub[s].pc = "cas"
  /\ num_readers' = sub[s].num + 1
  /\ SetSub(s, SubAt("init_valid", sub[s].op, sub[s].num))
  /\ UNCHANGED <<write_pointer, write_uid, slots, data, pub, sent, out>>

(* The compare-and-swap of num_readers: take the slot, or try again.       *)
ClaimSlot(s) ==
  /\ sub[s].pc = "cas"
  /\ IF num_readers = sub[s].num
       THEN /\ num_readers' = num_readers + 1
            /\ SetSub(s, SubAt("init_valid", sub[s].op, sub[s].num))
       ELSE /\ UNCHANGED num_readers
            /\ SubBack(s, "load_num")
  /\ UNCHANGED <<write_pointer, write_uid, slots, data, pub, sent, out>>

InitValid(s) ==
  /\ sub[s].pc = "init_valid"
  /\ read_valids' = [read_valids EXCEPT ![sub[s].id] = FALSE]
  /\ SubGoto(s, "init_rp")
  /\ UNCHANGED <<queue, read_pointers, read_uids, data, pub, sent, out>>

InitReadPointer(s) ==
  /\ sub[s].pc = "init_rp"
  /\ read_pointers' = [read_pointers EXCEPT ![sub[s].id] = Origin]
  /\ SubGoto(s, "init_uid")
  /\ UNCHANGED <<queue, read_valids, read_uids, data, pub, sent, out>>

InitUid(s) ==
  /\ sub[s].pc = "init_uid"
  /\ read_uids' = [read_uids EXCEPT ![sub[s].id] = s]
  /\ SubGoto(s, "reset_valid")
  /\ UNCHANGED <<queue, read_pointers, read_valids, data, pub, sent, out>>

(***************************************************************************)
(* Subscriber: msgq_reset_reader.  It ends msgq_init_subscriber, and the   *)
(* callers of both in msgq_msg_ready and msgq_msg_recv then start over.    *)
(***************************************************************************)
Restart(s) == SubBack(s, "check_uid")

(* A mutant: the reader stays invalid.                                     *)
ResetValidForgotten(s) ==
  /\ sub[s].pc = "reset_valid"
  /\ SubGoto(s, "reset_load")
  /\ UNCHANGED <<shared, pub, sent, out>>

ResetValid(s) ==
  /\ sub[s].pc = "reset_valid"
  /\ read_valids' = [read_valids EXCEPT ![sub[s].id] = TRUE]
  /\ SubGoto(s, "reset_load")
  /\ UNCHANGED <<queue, read_pointers, read_uids, data, pub, sent, out>>

ResetLoad(s) ==
  /\ sub[s].pc = "reset_load"
  /\ SetSub(s, [sub[s] EXCEPT !.pc = "reset_store", !.wp = write_pointer])
  /\ UNCHANGED <<shared, pub, sent, out>>

ResetStore(s) ==
  /\ sub[s].pc = "reset_store"
  /\ read_pointers' = [read_pointers EXCEPT ![sub[s].id] = sub[s].wp]
  /\ IF sub[s].op = "connect" THEN SubReturn(s, "connected") ELSE Restart(s)
  /\ UNCHANGED <<queue, read_valids, read_uids, data, pub, sent, out>>

-----------------------------------------------------------------------------
(***************************************************************************)
(* Subscriber: msgq_msg_ready and msgq_msg_recv.                           *)
(***************************************************************************)
Call(s, op) ==
  /\ sub[s].pc = "idle"
  /\ SetSub(s, SubAt("check_uid", op, sub[s].id))
  /\ UNCHANGED <<shared, pub, sent, out>>

BeginReady(s) == Call(s, "ready")
BeginRecv(s)  == Call(s, "recv")

(* A mutant: an evicted reader goes on.                                    *)
CheckReadUidNever(s) ==
  /\ sub[s].pc = "check_uid"
  /\ SubGoto(s, "check_valid")
  /\ UNCHANGED <<shared, pub, sent, out>>

(* Reader was evicted, reconnecting.                                       *)
CheckReadUid(s) ==
  /\ sub[s].pc = "check_uid"
  /\ IF read_uids[sub[s].id] = s THEN SubGoto(s, "check_valid") ELSE SubGoto(s, "load_num")
  /\ UNCHANGED <<shared, pub, sent, out>>

CheckValid(s) ==
  /\ sub[s].pc = "check_valid"
  /\ IF read_valids[sub[s].id] THEN SubGoto(s, "load_rp") ELSE SubGoto(s, "reset_valid")
  /\ UNCHANGED <<shared, pub, sent, out>>

LoadReadPointer(s) ==
  /\ sub[s].pc = "load_rp"
  /\ SetSub(s, [sub[s] EXCEPT !.pc = "load_wp", !.rp = read_pointers[sub[s].id]])
  /\ UNCHANGED <<shared, pub, sent, out>>

(* Check if new message is available: only the offsets are compared.       *)
CheckNewMessage(s) ==
  /\ sub[s].pc = "load_wp"
  /\ \/ /\ sub[s].rp.ptr = write_pointer.ptr
        /\ SubReturn(s, "empty")
     \/ /\ sub[s].rp.ptr # write_pointer.ptr /\ sub[s].op = "ready"
        /\ SubReturn(s, "ready")
     \/ /\ sub[s].rp.ptr # write_pointer.ptr /\ sub[s].op = "recv"
        /\ SetSub(s, [sub[s] EXCEPT !.pc = "load_size", !.wp = write_pointer])
  /\ UNCHANGED <<shared, pub, sent, out>>

(* A load at word a: behind the data area it may fault, or find anything.  *)
Loaded(a)   == IF a \in WordAddrs THEN data[a] ELSE Foreign
Faults(s, a) == a \notin WordAddrs /\ SubGoto(s, "aborted")

LoadSize(s) ==
  /\ sub[s].pc = "load_size"
  /\ LET a == WordAt(sub[s].rp.ptr) IN
       \/ SetSub(s, [sub[s] EXCEPT !.pc = "check_size", !.word = Loaded(a)])
       \/ Faults(s, a)
  /\ UNCHANGED <<shared, pub, sent, out>>

(* new_read_pointer, a uint32_t, with the cycle it is packed with.         *)
Beyond(ptr, n) == Align(ptr + 8 + n) % PtrMod
NewReadPointer(s) ==
  Pos(sub[s].rp.cyc, Beyond(sub[s].rp.ptr, sub[s].word.size))

(***************************************************************************)
(* Where the value n, read as the size, leads: -1 is the wrap-around tag;  *)
(* the two assertions; then the message is skipped or copied, whatever the *)
(* word was.  From here on, field size of word is the local variable size. *)
(***************************************************************************)
TakeSize(s, n) ==
  \/ n = -1 /\ SubGoto(s, "wrap")
  \/ n # -1 /\ ~Passes(n) /\ SubGoto(s, "aborted")
  \/ /\ Passes(n)
     /\ LET latest == Beyond(sub[s].rp.ptr, n) = sub[s].wp.ptr IN
          SetSub(s, [sub[s] EXCEPT !.word.size = n,
                       !.pc = IF s \in Conflated /\ ~latest THEN "skip" ELSE "copy"])

(* A mutant: the size is used unchecked.                                   *)
CheckSizeNever(s) ==
  /\ sub[s].pc = "check_size"
  /\ \E n \in SizeIn(sub[s].word) : TakeSize(s, n)
  /\ UNCHANGED <<shared, pub, sent, out>>

(* Check if the size that was read is valid.                               *)
CheckSize(s) ==
  /\ sub[s].pc = "check_size"
  /\ IF read_valids[sub[s].id] THEN \E n \in SizeIn(sub[s].word) : TakeSize(s, n)
                               ELSE SubBack(s, "reset_valid")
  /\ UNCHANGED <<shared, pub, sent, out>>

(* The size is -1: wrap around.                                            *)
WrapRead(s) ==
  /\ sub[s].pc = "wrap"
  /\ read_pointers' = [read_pointers EXCEPT ![sub[s].id] =
                         Pos(NextCycle(sub[s].rp.cyc), 0)]
  /\ Restart(s)
  /\ UNCHANGED <<queue, read_valids, read_uids, data, pub, sent, out>>

(* Conflate: this is not the latest message, start over.                   *)
SkipMessage(s) ==
  /\ sub[s].pc = "skip"
  /\ read_pointers' = [read_pointers EXCEPT ![sub[s].id] = NewReadPointer(s)]
  /\ Restart(s)
  /\ UNCHANGED <<queue, read_valids, read_uids, data, pub, sent, out>>

(* One word of the memcpy to the consumer's message.                       *)
CopyWord(s) ==
  /\ sub[s].pc = "copy"
  /\ LET k == Len(sub[s].buf) + 1
         a == WordAt(sub[s].rp.ptr) + k
     IN \/ SetSub(s, [sub[s] EXCEPT
                        !.buf = Append(sub[s].buf, Loaded(a)),
                        !.pc  = IF k < Parts(sub[s].word.size) THEN "copy" ELSE "store_rp"])
        \/ Faults(s, a)
  /\ UNCHANGED <<shared, pub, sent, out>>

(* A mutant: the read pointer stays.                                       *)
StoreReadPointerForgotten(s) ==
  /\ sub[s].pc = "store_rp"
  /\ SubGoto(s, "check_data")
  /\ UNCHANGED <<shared, pub, sent, out>>

StoreReadPointer(s) ==
  /\ sub[s].pc = "store_rp"
  /\ read_pointers' = [read_pointers EXCEPT ![sub[s].id] = NewReadPointer(s)]
  /\ SubGoto(s, "check_data")
  /\ UNCHANGED <<queue, read_valids, read_uids, data, pub, sent, out>>

(* A mutant: the copy is returned unchecked.                               *)
CheckDataNever(s) ==
  /\ sub[s].pc = "check_data"
  /\ out' = [out EXCEPT ![s] = sub[s].buf]
  /\ SubReturn(s, "msg")
  /\ UNCHANGED <<shared, pub, sent>>

(* Check if the actual data that was copied is valid, and return it.       *)
CheckData(s) ==
  /\ sub[s].pc = "check_data"
  /\ IF read_valids[sub[s].id]
       THEN /\ out' = [out EXCEPT ![s] = sub[s].buf]
            /\ SubReturn(s, "msg")
       ELSE /\ SubBack(s, "reset_valid")
            /\ UNCHANGED out
  /\ UNCHANGED <<shared, pub, sent>>

-----------------------------------------------------------------------------
InitPublisher(p) == StoreWriteUid(p) \/ ZeroNumReaders(p) \/ WipeValid(p) \/ WipeUid(p)

SendStep(p) ==
  \/ CheckWriteUid(p) \/ LoadNumReaders(p) \/ LoadWritePointer(p)
  \/ StoreWrapTag(p) \/ StoreWrap(p) \/ CheckSlot(p) \/ Invalidate(p)
  \/ StoreSize(p) \/ StorePayload(p) \/ StoreWritePointer(p) \/ Notify(p)

UpdatedStep(p) == UpdatedValid(p) \/ UpdatedWritePointer(p) \/ UpdatedReadPointer(p)

PublisherNext(p) ==
  \/ InitPublisher(p)
  \/ \E n \in MsgSizes : BeginSend(p, n)
  \/ SendStep(p)
  \/ BeginUpdated(p) \/ UpdatedStep(p)

RegisterStep(s) ==
  \/ LoadSlotCount(s)
  \/ EvictAll(s) \/ EvictValid(s) \/ EvictLoadUid(s) \/ EvictUid(s)
  \/ ClaimSlot(s) \/ InitValid(s) \/ InitReadPointer(s) \/ InitUid(s)

ResetStep(s) == ResetValid(s) \/ ResetLoad(s) \/ ResetStore(s)

RecvStep(s) ==
  \/ CheckReadUid(s) \/ CheckValid(s) \/ LoadReadPointer(s) \/ CheckNewMessage(s)
  \/ LoadSize(s) \/ CheckSize(s) \/ WrapRead(s) \/ SkipMessage(s)
  \/ CopyWord(s) \/ StoreReadPointer(s) \/ CheckData(s)

(* A call in progress goes on.                                             *)
SubscriberStep(s) == RegisterStep(s) \/ ResetStep(s) \/ RecvStep(s)

SubscriberNext(s) == Connect(s) \/ BeginReady(s) \/ BeginRecv(s) \/ SubscriberStep(s)

Next == \/ \E p \in Publishers : PublisherNext(p)
        \/ \E s \in Subscribers : SubscriberNext(s)

(***************************************************************************)
(* Every process may stop at any step and never go on: a crash.  A restart *)
(* is a publisher or subscriber that connects later.                       *)
(***************************************************************************)
Spec == Init /\ [][Next]_vars

(***************************************************************************)
(* A subscriber that stays alive finishes the call it is in, and its       *)
(* application calls receive again and again.  Nothing is assumed of the   *)
(* publishers: they may crash at any step.                                 *)
(***************************************************************************)
LiveSubscribers == \A s \in Subscribers : /\ WF_vars(Connect(s))
                                          /\ WF_vars(SubscriberStep(s))
                                          /\ SF_vars(BeginRecv(s))
FairSpec == Spec /\ LiveSubscribers

-----------------------------------------------------------------------------
(***************************************************************************)
(* Timing assumptions.  The protocol has windows in which a process must   *)
(* not be overtaken; the runs on Spec that end in a violation show what    *)
(* happens if it is.  SteadySpec excludes exactly these windows:           *)
(*  - a publisher starts only while every other publisher and every        *)
(*    subscriber is between two calls, and no subscriber runs until it has *)
(*    wiped the reader slots;                                              *)
(*  - no subscriber evicts the others;                                     *)
(*  - a publisher does not lap a reader between the load and the store of  *)
(*    msgq_reset_reader: it never passes slot i in its invalidation loops  *)
(*    while the reader of i is about to store a position that they reject. *)
(***************************************************************************)
Starting(p) == pub[p].pc \in {"zero_num", "wipe_valid", "wipe_uid"}
Resting(s)  == sub[s].pc \in {"closed", "idle"}

QuietStart ==
  /\ \A p \in Publishers : (pub[p].pc = "closed" /\ pub'[p].pc # "closed") =>
       /\ \A q \in Publishers : pub[q].pc \in {"closed", "idle"}
       /\ \A s \in Subscribers : Resting(s)
  /\ (\E p \in Publishers : Starting(p)) => UNCHANGED sub

NoEviction == \A s \in Subscribers : sub'[s].pc # "evict_num"

NoLapInReset ==
  \A p \in Publishers, s \in Subscribers :
    (/\ sub[s].pc = "reset_store"
     /\ pub[p].pc \in {"beyond", "area"}
     /\ sub[s].id = pub[p].i
     /\ Overrun(p, sub[s].wp)) => pub'[p] = pub[p]

Steady == QuietStart /\ NoEviction /\ NoLapInReset

SteadySpec == Init /\ [][Next /\ Steady]_vars
QuietSpec  == Init /\ [][Next /\ QuietStart /\ NoEviction]_vars
=============================================================================

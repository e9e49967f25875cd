--------------------------- MODULE MsgqProperties ---------------------------
(***************************************************************************)
(* What the queue of module Msgq promises.                                 *)
(***************************************************************************)
EXTENDS Msgq

PubPC == {"closed", "zero_num", "wipe_valid", "wipe_uid", "idle", "check_uid",
          "load_num", "load_wp", "wrap_tag", "beyond", "beyond_inv", "wrap_wp",
          "area", "area_inv", "size", "copy", "publish", "notify",
          "upd_valid", "upd_wp", "upd_rp"}
SubPC == {"closed", "load_num", "evict_num", "evict_valid", "evict_load",
          "evict_uid", "cas", "init_valid", "init_rp", "init_uid",
          "reset_valid", "reset_load", "reset_store", "idle", "check_uid",
          "check_valid", "load_rp", "load_wp", "load_size", "check_size",
          "wrap", "skip", "copy", "store_rp", "check_data", "aborted"}

Publisher ==
  [pc : PubPC, num : 0 .. NumReaders, wp : Position, i : 0 .. NumReaders,
   msg : 0 .. MaxSends, size : MsgSizes \cup {0}, part : Nat,
   ret : {"none", "sent", "in_use", "updated", "behind"}]

Subscriber ==
  [pc : SubPC, op : {"none", "connect", "ready", "recv"},
   id : Slots \cup {-1}, num : 0 .. NumReaders, i : Slots,
   old : Subscribers \cup {NoUid}, rp : Position, wp : Position,
   word : Words, buf : Seq(Words),
   ret : {"none", "connected", "ready", "empty", "msg"}]

(* Every field of the header, the data area and the locals of the calls in *)
(* progress hold what the code puts there; in particular num_readers never *)
(* exceeds NUM_READERS, and reader_id is a slot of the header.             *)
TypeOK ==
  /\ num_readers   \in 0 .. NumReaders
  /\ write_pointer \in Position
  /\ write_uid     \in Publishers \cup {NoUid}
  /\ read_pointers \in [Slots -> Position]
  /\ read_valids   \in [Slots -> BOOLEAN]
  /\ read_uids     \in [Slots -> Subscribers \cup {NoUid}]
  /\ data          \in [WordAddrs -> Words]
  /\ pub           \in [Publishers -> Publisher]
  /\ sub           \in [Subscribers -> Subscriber]
  /\ sent          \in 0 .. MaxSends
  /\ out           \in [Subscribers -> Seq(Words)]

-----------------------------------------------------------------------------
(* A receive never takes zeroes or payload bytes for the size of a         *)
(* message, nor for the wrap-around tag: the asserts of msgq_msg_recv on   *)
(* the size hold, and no garbage reaches the consumer (README.md, Reading).*)
Clean(r) == /\ r.pc # "aborted"
            /\ r.pc = "wrap" => r.word.kind = "wrap"
            /\ r.pc \in {"skip", "copy", "store_rp"} => r.word.kind = "size"
NoGarbage == \A s \in Subscribers : Clean(sub[s])

(* What msgq_msg_recv returns is, word for word, the payload of one        *)
(* message: never torn between a message and its overwrite.                *)
DeliveredIntact ==
  \A s \in Subscribers : out[s] # <<>> =>
    out[s] = IntactCopy(out[s][1].size, out[s][1].msg)

(* A subscriber that has claimed a slot, or finds its uid in it.           *)
Owns(s) ==
  /\ sub[s].id # -1
  /\ \/ sub[s].pc \in {"init_valid", "init_rp", "init_uid"}
     \/ read_uids[sub[s].id] = s

(* The compare-and-swap of msgq_init_subscriber gives concurrent           *)
(* subscribers different slots, and every owner of a slot is counted in    *)
(* num_readers, so that publishers invalidate and notify it: "A counter to *)
(* the number of readers that are active" (README.md).  A publisher that   *)
(* starts, or a subscriber that evicts, is wiping the slots meanwhile.     *)
Evicting(s) == sub[s].pc \in {"evict_num", "evict_valid", "evict_load", "evict_uid"}
Wiping == \/ \E p \in Publishers : Starting(p)
          \/ \E s \in Subscribers : Evicting(s)
OwnersCounted ==
  Wiping \/ \A s \in Subscribers : Owns(s) =>
    /\ sub[s].id < num_readers
    /\ \A t \in Subscribers \ {s} : Owns(t) => sub[t].id # sub[s].id

(* "Check whether tracked readers have caught up" (README.md): once        *)
(* msgq_all_readers_updated has answered true, and until the publisher     *)
(* sends again, every valid reader is at the write pointer, unless it is   *)
(* being reset to it.                                                      *)
UpdatedMeansCaughtUp ==
  \A p \in Publishers : pub[p].ret = "updated" /\ write_uid = p =>
    \A i \in 0 .. num_readers - 1 :
      \/ ~read_valids[i]
      \/ read_pointers[i] = write_pointer
      \/ \E s \in Subscribers : sub[s].id = i /\ sub[s].pc \in {"reset_load", "reset_store"}

(* No store of a send leaves the data area: "There always needs to be 8    *)
(* bytes of empty space at the end of the buffer" (README.md).  Whatever   *)
(* readers do, and whichever publisher writes: an old one that goes on     *)
(* next to its successor included.                                         *)
StoresInBounds ==
  /\ write_pointer.ptr + 8 <= Size
  /\ \A p \in Publishers :
       /\ pub[p].pc \in {"wrap_tag", "size"} => WordAt(pub[p].wp.ptr) \in WordAddrs
       /\ pub[p].pc = "copy" => WordAt(pub[p].wp.ptr) + pub[p].part \in WordAddrs

(* Nor does a load of a receive, after any size that it accepts, stale or  *)
(* not: "the read could read outside of the buffer" (README.md, Reading)   *)
(* is what the second check of the valid flag is to prevent.               *)
LoadsInBounds ==
  \A s \in Subscribers :
    /\ sub[s].pc = "load_size" => WordAt(sub[s].rp.ptr) \in WordAddrs
    /\ sub[s].pc = "copy" =>
         WordAt(sub[s].rp.ptr) + Len(sub[s].buf) + 1 \in WordAddrs

(***************************************************************************)
(* The inductive invariants behind TypeOK and StoresInBounds, and, as long *)
(* as NoGarbage holds, behind LoadsInBounds.  Every position is aligned    *)
(* and leaves room for a tag; a size prefix in the data area, at whatever  *)
(* age, belongs to a message that fits where it is stored; and each        *)
(* process holds what its program counter says.                            *)
(***************************************************************************)
Fits(ptr, n)  == ptr + Total(n) + 8 <= Size
Sound(w)      == w.ptr % 8 = 0 /\ w.ptr + 8 <= Size
SoundTag(w, ptr) == w.kind = "size" => w.size \in MsgSizes /\ Fits(ptr, w.size)

PubSound(r) ==
  /\ Sound(r.wp)
  /\ r.pc \in {"zero_num", "wipe_valid", "wipe_uid"} => r.i \in Slots
  /\ r.pc \in {"beyond", "beyond_inv", "area", "area_inv", "notify",
               "upd_valid", "upd_wp", "upd_rp"} => r.i < r.num
  /\ r.pc \in {"check_uid", "load_num", "load_wp", "wrap_tag", "beyond",
               "beyond_inv", "wrap_wp"} => r.size \in MsgSizes
  /\ r.pc \in {"area", "area_inv", "size", "copy", "publish"} =>
       r.size \in MsgSizes /\ Fits(r.wp.ptr, r.size)
  /\ r.pc = "copy" => r.part \in 1 .. Parts(r.size)

SubSound(r) ==
  /\ Sound(r.wp)
  /\ r.pc \notin {"closed", "load_num", "evict_num", "evict_valid",
                  "evict_load", "evict_uid", "cas"} => r.id \in Slots
  /\ r.pc = "cas" => r.num < NumReaders

Soundness ==
  /\ Sound(write_pointer)
  /\ \A a \in WordAddrs : SoundTag(data[a], 8 * a)
  /\ \A p \in Publishers : PubSound(pub[p])
  /\ \A s \in Subscribers : SubSound(sub[s])

(* What a receive holds that has taken no garbage for a size.              *)
LoadSound(r) ==
  /\ Sound(r.rp)
  /\ r.pc \in {"check_uid", "check_valid", "load_rp", "load_wp", "load_size",
               "check_size"} => r.buf = <<>>
  /\ r.pc \in {"check_size", "skip", "copy", "store_rp"} => SoundTag(r.word, r.rp.ptr)
  /\ r.pc = "copy" => Len(r.buf) < Parts(r.word.size)

ReadSound ==
  /\ \A i \in Slots : Sound(read_pointers[i])
  /\ \A s \in Subscribers : LoadSound(sub[s])

-----------------------------------------------------------------------------
(* Every call of a subscriber ends, wherever a publisher stops: what it    *)
(* leaves behind, a half-done wrap, wiped slots or an invalid reader, does *)
(* not keep the loops of msgq_msg_recv, msgq_msg_ready and                 *)
(* msgq_init_subscriber going, as long as the slots are enough.  The       *)
(* messages are bounded by MaxSends; a publisher that sends for ever, and  *)
(* laps the reader between each reset and the next check, is not excluded. *)
CallsReturn ==
  \A s \in Subscribers : ~Resting(s) ~> (Resting(s) \/ sub[s].pc = "aborted")

(* The read pointer of s is at the offset of the write pointer, in another *)
(* cycle: s is told that the queue is empty, whatever it has not read.     *)
CyclesBehind(s) ==
  LET r == read_pointers[sub[s].id]
  IN r.ptr = write_pointer.ptr /\ r.cyc # write_pointer.cyc

(* Once the publishers are silent, or dead, a subscriber that goes on      *)
(* receiving is registered and valid again after an eviction by a new      *)
(* publisher, an invalidation or a half-done wrap, and gets to the write   *)
(* pointer and stays there; unless it came to be whole cycles behind,      *)
(* where the code takes it for one that has read all (EmptyMeansDrained),  *)
(* or has taken garbage for a size, which may lead it anywhere.            *)
CatchesUp ==
  <>~NoGarbage \/
  <>[](\A s \in Subscribers :
         /\ sub[s].id # -1
         /\ read_uids[sub[s].id] = s
         /\ read_valids[sub[s].id]
         /\ read_pointers[sub[s].id] = write_pointer \/ CyclesBehind(s))

-----------------------------------------------------------------------------
(***************************************************************************)
(* Statements of the documentation that the code does not keep.            *)
(***************************************************************************)

(* The word at the read pointer of s is the size prefix of a message that  *)
(* s has not received: one it can still read.                              *)
Newest(s) == IF out[s] = <<>> THEN 0 ELSE out[s][1].msg
Unread(s) ==
  LET w == Loaded(WordAt(read_pointers[sub[s].id].ptr)) IN
    w.kind = "size" /\ w.msg > Newest(s)

(* "Receive all message currently available" (msgq/__init__.py, the        *)
(* drain_sock_raw of which stops at the first receive without a message):  *)
(* a receive that answers that no message is available has reached the     *)
(* write pointer, or has no message left to read.                          *)
EmptyMeansDrained ==
  [][\A s \in Subscribers : (sub[s].pc = "load_wp" /\ sub'[s].ret = "empty") =>
       sub[s].rp = write_pointer \/ ~Unread(s)]_vars

(* "Receive only the latest available message" (README.md, conflate): a    *)
(* conflating receive passes over a message only for a later one that is   *)
(* in the queue.                                                           *)
ConflateKeepsLatest ==
  [][\A s \in Conflated : sub[s].pc = "skip" =>
       \E m \in 1 .. MaxSends : m > sub[s].word.msg /\ \E a \in WordAddrs :
         data[a].kind = "size" /\ data[a].msg = m]_vars

(* "In this case step 1 will check there are no read pointers pointing to  *)
(* the remainder of the buffer" (README.md, Writing): when the publisher   *)
(* starts a new cycle, no valid reader of an older one is left at or       *)
(* behind the wrap-around tag, unless it is being reset.                   *)
RemainderInvalidated ==
  [][\A p \in Publishers : (pub[p].pc = "wrap_wp" /\ pub'[p].pc # "wrap_wp") =>
       \A s \in Subscribers :
         LET r == read_pointers[sub[s].id] IN
           (sub[s].id \in 0 .. pub[p].num - 1 /\ r.ptr >= pub[p].wp.ptr
              /\ r.cyc # pub[p].wp.cyc)
             => ~read_valids[sub[s].id] \/ sub[s].pc \in {"reset_load", "reset_store"}]_vars
=============================================================================

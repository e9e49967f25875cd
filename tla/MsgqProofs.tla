----------------------------- MODULE MsgqProofs -----------------------------
(***************************************************************************)
(* Type correctness and memory safety of the queue, for every size of the  *)
(* segment, every number of reader slots, publishers and subscribers.      *)
(***************************************************************************)
EXTENDS MsgqProperties, TLAPS

-----------------------------------------------------------------------------
(* ALIGN rounds up to the next multiple of 8.                              *)
LEMMA AlignFacts ==
  ASSUME NEW n \in Nat
  PROVE  /\ Align(n) \in Nat
         /\ Align(n) % 8 = 0
         /\ n <= Align(n)
         /\ Align(n) < n + 8
  BY DEF Align

(* A message at an aligned offset ends at an aligned offset, Total later,  *)
(* in either order in which the code adds the three terms.                 *)
LEMMA AlignShift ==
  ASSUME NEW ptr \in Nat, ptr % 8 = 0, NEW n \in Nat
  PROVE  /\ Align(ptr + 8 + n) = ptr + Total(n)
         /\ Align(ptr + n + 8) = ptr + Total(n)
  BY DEF Align, Total

(* A message is its prefix and Parts words of payload.                     *)
LEMMA TotalFacts ==
  ASSUME NEW n \in Nat
  PROVE  /\ Total(n) \in Nat
         /\ Parts(n) \in Nat
         /\ Total(n) % 8 = 0
         /\ Total(n) = 8 + 8 * Parts(n)
         /\ n > 0 => Parts(n) > 0
  BY DEF Align, Total, Parts

(* Aligned offsets with room for a word are words of the data area.        *)
LEMMA WordFacts ==
  ASSUME NEW ptr \in Nat, ptr % 8 = 0
  PROVE  /\ WordAt(ptr) \in Nat
         /\ 8 * WordAt(ptr) = ptr
         /\ \A k \in Nat : ptr + 8 * k + 8 <= Size => WordAt(ptr) + k \in WordAddrs
  BY SizeAssumption DEF WordAt, WordAddrs

(* Messages are not empty.                                                 *)
LEMMA MsgSizeFacts == \A n \in MsgSizes : n \in Nat /\ n > 0
  BY MsgSizesAssumption

(* A message fits at ptr if no wrap-around is needed there, and it always  *)
(* fits at the start of the data area, with room for a tag behind it.      *)
LEMMA FitsFacts ==
  ASSUME NEW n \in MsgSizes
  PROVE  /\ Fits(0, n)
         /\ \A ptr \in Nat : ~MustWrap(ptr, n) => Fits(ptr, n)
  <1>1. Total(n) \in Nat /\ 3 * Total(n) <= Size /\ Total(n) >= 8
    BY MsgSizesAssumption, MsgSizeFacts, TotalFacts
  <1> QED
    BY <1>1, SizeAssumption DEF Fits, MustWrap

(* Every word of the payload of a message that fits lies in the data area. *)
LEMMA PartFacts ==
  ASSUME NEW ptr \in Nat, ptr % 8 = 0, NEW n \in Nat, Fits(ptr, n),
         NEW k \in Nat, k <= Parts(n)
  PROVE  WordAt(ptr) + k \in WordAddrs
  <1>1. Total(n) \in Nat /\ Parts(n) \in Nat /\ Total(n) = 8 + 8 * Parts(n)
    BY TotalFacts
  <1>2. ptr + Total(n) + 8 <= Size
    BY DEF Fits
  <1>3. ptr + 8 * k + 8 <= Size
    BY <1>1, <1>2, SizeAssumption
  <1> QED
    BY <1>3, WordFacts

-----------------------------------------------------------------------------
(* The inductive invariant.                                                *)
IInv == TypeOK /\ Soundness

(* The position of a zeroed pointer.                                       *)
LEMMA OriginFacts == Origin \in Position /\ Sound(Origin)
  <1>1. PICK n \in MsgSizes : TRUE
    BY MsgSizesAssumption
  <1>2. n \in Nat /\ Fits(0, n) /\ Total(n) \in Nat
    BY FitsFacts, TotalFacts, MsgSizeFacts
  <1> QED
    BY <1>2, SizeAssumption, CycleModAssumption, PtrModAssumption
       DEF Origin, Pos, Position, Sound, Fits

(* The part of the invariant about the shared segment.                     *)
SharedOK ==
  /\ num_readers   \in 0 .. NumReaders
  /\ write_pointer \in Position /\ Sound(write_pointer)
  /\ write_uid     \in Publishers \cup {NoUid}
  /\ read_pointers \in [Slots -> Position]
  /\ read_valids   \in [Slots -> BOOLEAN]
  /\ read_uids     \in [Slots -> Subscribers \cup {NoUid}]
  /\ data          \in [WordAddrs -> Words]
  /\ \A a \in WordAddrs : SoundTag(data[a], 8 * a)

(* The invariant, split into what the processes share and the locals of    *)
(* each kind of process.                                                   *)
LEMMA IInvParts ==
  IInv <=> /\ SharedOK
           /\ pub  \in [Publishers -> Publisher]
           /\ \A p \in Publishers : PubSound(pub[p])
           /\ sub  \in [Subscribers -> Subscriber]
           /\ \A s \in Subscribers : SubSound(sub[s])
           /\ sent \in 0 .. MaxSends
           /\ out  \in [Subscribers -> Seq(Words)]
  BY DEF IInv, TypeOK, Soundness, SharedOK

(* A step that only loads keeps the shared part.                           *)
LEMMA SharedUnchanged ==
  ASSUME SharedOK, UNCHANGED shared
  PROVE  SharedOK'
  BY DEF SharedOK, shared, queue, slots

-----------------------------------------------------------------------------
(* Publishers.  A step replaces the locals of one of them by a record r.   *)
LEMMA PubStep ==
  ASSUME IInv, SharedOK', NEW p \in Publishers, NEW r \in Publisher, PubSound(r),
         SetPub(p, r), sent' \in 0 .. MaxSends, UNCHANGED <<sub, out>>
  PROVE  IInv'
  <1>1. /\ pub' \in [Publishers -> Publisher]
        /\ \A q \in Publishers : PubSound(pub'[q])
    BY IInvParts DEF SetPub
  <1> QED
    BY <1>1, IInvParts DEF IInv, TypeOK, Soundness, SharedOK

(* The locals of a publisher between two calls or at the start of one.     *)
LEMMA PubAtFacts ==
  ASSUME NEW pc \in {"closed", "zero_num", "idle", "check_uid", "upd_valid"}
  PROVE  PubAt(pc) \in Publisher
  BY OriginFacts, NumReadersAssumption, MaxSendsAssumption DEF PubAt, Publisher, PubPC

(* Returning from a call.                                                  *)
LEMMA PubReturnInv ==
  ASSUME IInv, SharedOK', NEW p \in Publishers,
         NEW ret \in {"none", "sent", "in_use", "updated", "behind"},
         PubReturn(p, ret), UNCHANGED <<sub, sent, out>>
  PROVE  IInv'
  <1>1. LET r == [PubAt("idle") EXCEPT !.ret = ret] IN r \in Publisher /\ PubSound(r)
    BY OriginFacts, NumReadersAssumption, MaxSendsAssumption
       DEF PubAt, Publisher, PubPC, PubSound
  <1>2. sent \in 0 .. MaxSends
    BY IInvParts
  <1> QED
    BY <1>1, <1>2, PubStep DEF PubReturn

(* Replacing one field of the locals by a value of its type.               *)
LEMMA PubSet ==
  ASSUME NEW r \in Publisher
  PROVE  /\ \A x \in PubPC : [r EXCEPT !.pc = x] \in Publisher
         /\ \A x \in 0 .. NumReaders : [r EXCEPT !.num = x] \in Publisher
         /\ \A x \in Position : [r EXCEPT !.wp = x] \in Publisher
         /\ \A x \in 0 .. NumReaders : [r EXCEPT !.i = x] \in Publisher
         /\ \A x \in 0 .. MaxSends : [r EXCEPT !.msg = x] \in Publisher
         /\ \A x \in MsgSizes : [r EXCEPT !.size = x] \in Publisher
         /\ \A x \in Nat : [r EXCEPT !.part = x] \in Publisher
  BY DEF Publisher

(* The two invalidation loops, at slot i.                                   *)
LEMMA BeyondFacts ==
  ASSUME NEW r \in Publisher, NEW i \in 0 .. NumReaders
  PROVE  LET a == AtSlot(r, i, "beyond", "wrap_wp") IN
           /\ a \in Publisher /\ a.i = i /\ a.wp = r.wp /\ a.size = r.size
           /\ a.num = r.num /\ a.pc = IF i < r.num THEN "beyond" ELSE "wrap_wp"
  <1>1. AtSlot(r, i, "beyond", "wrap_wp") \in Publisher
    BY PubSet DEF AtSlot, PubPC
  <1> QED
    BY <1>1 DEF AtSlot, Publisher

(* The loop over the readers in the area to be written, at slot i.         *)
LEMMA AreaFacts ==
  ASSUME NEW r \in Publisher, NEW i \in 0 .. NumReaders
  PROVE  LET a == AtSlot(r, i, "area", "size") IN
           /\ a \in Publisher /\ a.i = i /\ a.wp = r.wp /\ a.size = r.size
           /\ a.num = r.num /\ a.pc = IF i < r.num THEN "area" ELSE "size"
  <1>1. AtSlot(r, i, "area", "size") \in Publisher
    BY PubSet DEF AtSlot, PubPC
  <1> QED
    BY <1>1 DEF AtSlot, Publisher

(* What the proofs about a publisher p start from.                         *)
LEMMA PubFacts ==
  ASSUME IInv, NEW p \in Publishers
  PROVE  pub[p] \in Publisher /\ PubSound(pub[p]) /\ SharedOK /\ sent \in 0 .. MaxSends
  BY IInvParts

(* Going on to pc, which requires what PubSound says of pc.                *)
LEMMA PubGotoInv ==
  ASSUME IInv, SharedOK', NEW p \in Publishers, NEW pc \in PubPC, PubGoto(p, pc),
         PubSound([pub[p] EXCEPT !.pc = pc]), UNCHANGED <<sub, sent, out>>
  PROVE  IInv'
  BY PubFacts, PubSet, PubStep DEF PubGoto

(* msgq_init_publisher: the index of its loop stays a slot.                *)
LEMMA InitPublisherInv ==
  ASSUME IInv, NEW p \in Publishers, InitPublisher(p)
  PROVE  IInv'
  <1> DEFINE r == pub[p]
  <1>0. r \in Publisher /\ PubSound(r) /\ SharedOK /\ sent \in 0 .. MaxSends
    BY PubFacts
  <1>1. CASE StoreWriteUid(p)
    <2>1. PubAt("zero_num") \in Publisher /\ PubSound(PubAt("zero_num"))
      BY PubAtFacts, OriginFacts, NumReadersAssumption DEF PubAt, PubSound, Slots
    <2>2. SharedOK'
      BY <1>0, <1>1 DEF StoreWriteUid, SharedOK, slots
    <2> QED
      BY <1>0, <1>1, <2>1, <2>2, PubStep DEF StoreWriteUid
  <1>2. CASE ZeroNumReaders(p)
    <2>1. PubSound([r EXCEPT !.pc = "wipe_valid"])
      BY <1>0, <1>2 DEF ZeroNumReaders, Publisher, PubSound
    <2>2. SharedOK'
      BY <1>0, <1>2, NumReadersAssumption DEF ZeroNumReaders, SharedOK, slots
    <2> QED
      BY <1>2, <2>1, <2>2, PubGotoInv DEF ZeroNumReaders, PubPC
  <1>3. CASE WipeValid(p)
    <2>1. PubSound([r EXCEPT !.pc = "wipe_uid"])
      BY <1>0, <1>3 DEF WipeValid, Publisher, PubSound
    <2>2. SharedOK'
      BY <1>0, <1>3 DEF WipeValid, SharedOK, queue
    <2> QED
      BY <1>3, <2>1, <2>2, PubGotoInv DEF WipeValid, PubPC
  <1>4. CASE WipeUid(p)
    <2> DEFINE next == [r EXCEPT !.pc = "wipe_valid", !.i = r.i + 1]
    <2>1. SharedOK'
      BY <1>0, <1>4 DEF WipeUid, SharedOK, queue
    <2>2. CASE r.i + 1 < NumReaders
      <3>1. r.i + 1 \in Slots /\ r.i + 1 \in 0 .. NumReaders
        BY <1>0, <1>4, <2>2, NumReadersAssumption DEF WipeUid, PubSound, Slots
      <3>2. next \in Publisher
        BY <1>0, <3>1, PubSet DEF PubPC
      <3>3. PubSound(next)
        BY <1>0, <3>1 DEF Publisher, PubSound
      <3> QED
        BY <1>0, <1>4, <2>1, <2>2, <3>2, <3>3, PubStep DEF WipeUid
    <2>3. CASE ~(r.i + 1 < NumReaders)
      <3>1. PubAt("idle") \in Publisher /\ PubSound(PubAt("idle"))
        BY PubAtFacts, OriginFacts DEF PubAt, PubSound
      <3> QED
        BY <1>0, <1>4, <2>1, <2>3, <3>1, PubStep DEF WipeUid
    <2> QED
      BY <2>2, <2>3
  <1> QED
    BY <1>1, <1>2, <1>3, <1>4 DEF InitPublisher

(* msgq_msg_send, until the message is stored.                             *)
LEMMA BeginSendInv ==
  ASSUME IInv, NEW p \in Publishers, NEW n \in MsgSizes, BeginSend(p, n)
  PROVE  IInv'
  <1> DEFINE r == [PubAt("check_uid") EXCEPT !.msg = sent + 1, !.size = n]
  <1>0. SharedOK /\ sent \in 0 .. MaxSends
    BY PubFacts
  <1>1. sent + 1 \in 0 .. MaxSends
    BY <1>0, MaxSendsAssumption DEF BeginSend
  <1>2. r \in Publisher
    BY <1>1, PubAtFacts, PubSet
  <1>3. PubSound(r)
    BY OriginFacts DEF PubAt, PubSound
  <1>4. SharedOK'
    BY <1>0, SharedUnchanged DEF BeginSend
  <1> QED
    BY <1>1, <1>2, <1>3, <1>4, PubStep DEF BeginSend

(* msgq_msg_send: the loads before the first store, after which the        *)
(* message fits where it will be stored, or the publisher wraps around.    *)
LEMMA SendLoadsInv ==
  ASSUME IInv, NEW p \in Publishers,
         CheckWriteUid(p) \/ LoadNumReaders(p) \/ LoadWritePointer(p)
  PROVE  IInv'
  <1> DEFINE r == pub[p]
  <1>0. r \in Publisher /\ PubSound(r) /\ SharedOK /\ sent \in 0 .. MaxSends
    BY PubFacts
  <1>00. SharedOK' /\ UNCHANGED <<sub, sent, out>>
    BY <1>0, SharedUnchanged DEF CheckWriteUid, LoadNumReaders, LoadWritePointer
  <1>1. CASE CheckWriteUid(p)
    <2>1. PubSound([r EXCEPT !.pc = "load_num"])
      BY <1>0, <1>1 DEF CheckWriteUid, Publisher, PubSound
    <2> QED
      BY <1>00, <1>1, <2>1, PubGotoInv, PubReturnInv DEF CheckWriteUid, PubPC
  <1>2. CASE LoadNumReaders(p)
    <2> DEFINE next == [r EXCEPT !.pc = "load_wp", !.num = num_readers]
    <2>1. next \in Publisher
      BY <1>0, PubSet DEF PubPC, SharedOK
    <2>2. PubSound(next)
      BY <1>0, <1>2 DEF LoadNumReaders, Publisher, PubSound
    <2> QED
      BY <1>0, <1>00, <1>2, <2>1, <2>2, PubStep DEF LoadNumReaders
  <1>3. CASE LoadWritePointer(p)
    <2> DEFINE l == [r EXCEPT !.wp = write_pointer]
    <2>1. /\ l \in Publisher
          /\ l.wp = write_pointer /\ l.size = r.size /\ l.num = r.num
      BY <1>0, PubSet DEF SharedOK, Publisher
    <2>2. r.size \in MsgSizes /\ Sound(write_pointer) /\ write_pointer.ptr \in Nat
      BY <1>0, <1>3 DEF LoadWritePointer, PubSound, SharedOK, Position
    <2>3. SetPub(p, IF MustWrap(write_pointer.ptr, l.size)
                      THEN [l EXCEPT !.pc = "wrap_tag"] ELSE AtSlot(l, 0, "area", "size"))
      BY <1>3 DEF LoadWritePointer
    <2> HIDE DEF l
    <2>4. CASE MustWrap(write_pointer.ptr, r.size)
      <3>1. [l EXCEPT !.pc = "wrap_tag"] \in Publisher
        BY <2>1, PubSet DEF PubPC
      <3>2. PubSound([l EXCEPT !.pc = "wrap_tag"])
        BY <2>1, <2>2 DEF Publisher, PubSound
      <3> QED
        BY <1>0, <1>00, <2>1, <2>3, <2>4, <3>1, <3>2, PubStep
    <2>5. CASE ~MustWrap(write_pointer.ptr, r.size)
      <3> DEFINE a == AtSlot(l, 0, "area", "size")
      <3>1. 0 \in 0 .. NumReaders
        BY NumReadersAssumption
      <3>2. /\ a \in Publisher /\ a.i = 0 /\ a.wp = write_pointer /\ a.size = r.size
            /\ a.num = r.num /\ a.pc = IF 0 < r.num THEN "area" ELSE "size"
        BY <2>1, <3>1, AreaFacts
      <3>3. Fits(write_pointer.ptr, r.size)
        BY <2>2, <2>5, FitsFacts
      <3> HIDE DEF a
      <3>4. PubSound(a)
        BY <2>2, <3>2, <3>3 DEF PubSound
      <3> QED
        BY <1>0, <1>00, <2>1, <2>3, <2>5, <3>2, <3>4, PubStep DEF a
    <2> QED
      BY <2>4, <2>5
  <1> QED
    BY <1>1, <1>2, <1>3

(* The invalidation loops, whose index stays below the copy of num_readers. *)
LEMMA NextSlotInv ==
  ASSUME IInv, SharedOK', NEW p \in Publishers, NextSlot(p),
         pub[p].pc \in {"beyond", "beyond_inv", "area", "area_inv"},
         UNCHANGED <<sub, sent, out>>
  PROVE  IInv'
  <1> DEFINE r == pub[p]
             i == r.i + 1
             b == AtSlot(r, i, "beyond", "wrap_wp")
             a == AtSlot(r, i, "area", "size")
  <1>0. r \in Publisher /\ PubSound(r) /\ sent \in 0 .. MaxSends
    BY PubFacts
  <1>1. i \in 0 .. NumReaders
    BY <1>0, NumReadersAssumption DEF PubSound, Publisher
  <1>3. CASE r.pc \in {"beyond", "beyond_inv"}
    <2>1. /\ b \in Publisher /\ b.i = i /\ b.wp = r.wp /\ b.size = r.size
          /\ b.num = r.num /\ b.pc = IF i < r.num THEN "beyond" ELSE "wrap_wp"
      BY <1>0, <1>1, BeyondFacts
    <2> HIDE DEF b
    <2>2. PubSound(b)
      BY <1>0, <1>3, <2>1 DEF PubSound
    <2> QED
      BY <1>0, <1>3, <2>1, <2>2, PubStep DEF NextSlot, b
  <1>4. CASE r.pc \in {"area", "area_inv"}
    <2>1. /\ a \in Publisher /\ a.i = i /\ a.wp = r.wp /\ a.size = r.size
          /\ a.num = r.num /\ a.pc = IF i < r.num THEN "area" ELSE "size"
      BY <1>0, <1>1, AreaFacts
    <2> HIDE DEF a
    <2>2. PubSound(a)
      BY <1>0, <1>4, <2>1 DEF PubSound
    <2> QED
      BY <1>0, <1>4, <2>1, <2>2, PubStep DEF NextSlot, a
  <1> QED
    BY <1>3, <1>4

(* msgq_msg_send: the loads and stores of the two invalidation loops.      *)
LEMMA InvalidationInv ==
  ASSUME IInv, NEW p \in Publishers, CheckSlot(p) \/ Invalidate(p)
  PROVE  IInv'
  <1> DEFINE r == pub[p]
  <1>0. r \in Publisher /\ PubSound(r) /\ SharedOK /\ sent \in 0 .. MaxSends
    BY PubFacts
  <1>1. CASE CheckSlot(p)
    <2>1. SharedOK'
      BY <1>0, <1>1, SharedUnchanged DEF CheckSlot
    <2>2. CASE NextSlot(p)
      BY <1>1, <2>1, <2>2, NextSlotInv DEF CheckSlot
    <2>3. CASE r.pc = "beyond" /\ PubGoto(p, "beyond_inv")
      <3>1. PubSound([r EXCEPT !.pc = "beyond_inv"])
        BY <1>0, <2>3 DEF Publisher, PubSound
      <3> QED
        BY <1>1, <2>1, <2>3, <3>1, PubGotoInv DEF CheckSlot, PubPC
    <2>4. CASE r.pc = "area" /\ PubGoto(p, "area_inv")
      <3>1. PubSound([r EXCEPT !.pc = "area_inv"])
        BY <1>0, <2>4 DEF Publisher, PubSound
      <3> QED
        BY <1>1, <2>1, <2>4, <3>1, PubGotoInv DEF CheckSlot, PubPC
    <2> QED
      BY <1>1, <2>2, <2>3, <2>4 DEF CheckSlot
  <1>2. CASE Invalidate(p)
    <2>1. SharedOK'
      BY <1>0, <1>2 DEF Invalidate, SharedOK, queue
    <2> QED
      BY <1>2, <2>1, NextSlotInv DEF Invalidate
  <1> QED
    BY <1>1, <1>2

(* The wrap-around: the tag fits, and the message fits at the start.       *)
LEMMA WrapInv ==
  ASSUME IInv, NEW p \in Publishers, StoreWrapTag(p) \/ StoreWrap(p)
  PROVE  IInv'
  <1> DEFINE r == pub[p]
  <1>0. r \in Publisher /\ PubSound(r) /\ SharedOK /\ sent \in 0 .. MaxSends
    BY PubFacts
  <1>00. 0 \in 0 .. NumReaders
    BY NumReadersAssumption
  <1>1. CASE StoreWrapTag(p)
    <2> DEFINE b == AtSlot(r, 0, "beyond", "wrap_wp")
    <2>1. /\ b \in Publisher /\ b.i = 0 /\ b.wp = r.wp /\ b.size = r.size
          /\ b.num = r.num /\ b.pc = IF 0 < r.num THEN "beyond" ELSE "wrap_wp"
      BY <1>0, <1>00, BeyondFacts
    <2> HIDE DEF b
    <2>2. PubSound(b)
      BY <1>0, <1>1, <2>1 DEF PubSound, StoreWrapTag
    <2>3. WrapTag \in Words /\ WrapTag.kind # "size"
      BY DEF WrapTag, Word, Words
    <2>4. SharedOK'
      BY <1>0, <1>1, <2>3 DEF StoreWrapTag, SharedOK, SoundTag, queue, slots
    <2> QED
      BY <1>0, <1>1, <2>1, <2>2, <2>4, PubStep DEF StoreWrapTag, b
  <1>2. CASE StoreWrap(p)
    <2> DEFINE w == Pos(NextCycle(r.wp.cyc), 0)
               l == [r EXCEPT !.wp = w]
    <2>1. r.size \in MsgSizes /\ Fits(0, r.size)
      BY <1>0, <1>2, FitsFacts DEF StoreWrap, PubSound
    <2>2. w \in Position /\ Sound(w) /\ w.ptr = 0
      BY <1>0, OriginFacts, SizeAssumption, CycleModAssumption
         DEF Publisher, Position, Pos, NextCycle, Sound, Origin
    <2>3. SetPub(p, AtSlot(l, 0, "area", "size")) /\ write_pointer' = w
      BY <1>2 DEF StoreWrap
    <2> HIDE DEF w
    <2>4. l \in Publisher /\ l.wp = w /\ l.size = r.size /\ l.num = r.num
      BY <1>0, <2>2, PubSet DEF Publisher
    <2> HIDE DEF l
    <2> DEFINE a == AtSlot(l, 0, "area", "size")
    <2>5. /\ a \in Publisher /\ a.i = 0 /\ a.wp = w /\ a.size = r.size
          /\ a.num = r.num /\ a.pc = IF 0 < r.num THEN "area" ELSE "size"
      BY <1>00, <2>4, AreaFacts
    <2> HIDE DEF a
    <2>6. PubSound(a)
      BY <2>1, <2>2, <2>5 DEF PubSound
    <2>7. SharedOK'
      BY <1>0, <1>2, <2>2, <2>3 DEF StoreWrap, SharedOK, slots
    <2> QED
      BY <1>0, <1>2, <2>3, <2>5, <2>6, <2>7, PubStep DEF StoreWrap, a
  <1> QED
    BY <1>1, <1>2

(* Storing the message and publishing it.                                  *)
LEMMA StoreMessageInv ==
  ASSUME IInv, NEW p \in Publishers,
         StoreSize(p) \/ StorePayload(p) \/ StoreWritePointer(p) \/ Notify(p)
  PROVE  IInv'
  <1> DEFINE r == pub[p]
             n == r.size
  <1>0. r \in Publisher /\ PubSound(r) /\ SharedOK /\ sent \in 0 .. MaxSends
    BY PubFacts
  <1>00. r.wp \in Position /\ r.wp.ptr \in Nat /\ r.wp.ptr % 8 = 0 /\ r.msg \in Nat
         /\ r.wp.cyc \in 0 .. CycleMod - 1 /\ r.part \in Nat
    BY <1>0, MaxSendsAssumption, SizeAssumption DEF Publisher, Position, PubSound, Sound
  <1>1. CASE StoreSize(p)
    <2> DEFINE next == [r EXCEPT !.pc = "copy", !.part = 1]
    <2>1. n \in MsgSizes /\ n \in Nat /\ n > 0 /\ Fits(r.wp.ptr, n)
      BY <1>0, <1>1, MsgSizeFacts DEF StoreSize, PubSound
    <2>2. 1 \in 1 .. Parts(n)
      BY <2>1, TotalFacts
    <2>3. next \in Publisher
      BY <1>0, PubSet DEF PubPC
    <2>4. PubSound(next)
      BY <1>0, <2>1, <2>2 DEF Publisher, PubSound
    <2>5. /\ SizeTag(n, r.msg) \in Words
          /\ SizeTag(n, r.msg).kind = "size" /\ SizeTag(n, r.msg).size = n
      BY <1>00, <2>1 DEF SizeTag, Word, Words
    <2>6. SoundTag(SizeTag(n, r.msg), 8 * WordAt(r.wp.ptr))
      BY <1>00, <2>1, <2>5, WordFacts DEF SoundTag
    <2>7. SharedOK'
      BY <1>0, <1>1, <2>5, <2>6 DEF StoreSize, SharedOK, queue, slots
    <2> QED
      BY <1>0, <1>1, <2>3, <2>4, <2>7, PubStep DEF StoreSize
  <1>2. CASE StorePayload(p)
    <2> DEFINE next == [r EXCEPT !.part = r.part + 1]
    <2>1. n \in MsgSizes /\ n \in Nat /\ r.part \in 1 .. Parts(n) /\ Parts(n) \in Nat
      BY <1>0, <1>2, MsgSizeFacts, TotalFacts DEF StorePayload, PubSound
    <2>2. Payload(n, r.msg, r.part) \in Words /\ Payload(n, r.msg, r.part).kind # "size"
      BY <1>00, <2>1 DEF Payload, Word, Words
    <2>3. SharedOK'
      BY <1>0, <1>2, <2>2 DEF StorePayload, SharedOK, SoundTag, queue, slots
    <2>4. CASE r.part < Parts(n)
      <3>0. r.part + 1 \in Nat
        BY <1>00
      <3>1. next \in Publisher
        BY <1>0, <3>0, PubSet
      <3>2. PubSound(next)
        BY <1>0, <1>2, <2>1, <2>4 DEF StorePayload, Publisher, PubSound
      <3> QED
        BY <1>0, <1>2, <2>3, <2>4, <3>1, <3>2, PubStep DEF StorePayload
    <2>5. CASE ~(r.part < Parts(n))
      <3>1. PubSound([r EXCEPT !.pc = "publish"])
        BY <1>0, <1>2 DEF StorePayload, Publisher, PubSound
      <3> QED
        BY <1>2, <2>3, <2>5, <3>1, PubGotoInv DEF StorePayload, PubPC
    <2> QED
      BY <2>4, <2>5
  <1>3. CASE StoreWritePointer(p)
    <2> DEFINE next == [r EXCEPT !.pc = "notify", !.i = 0]
               end == Align(r.wp.ptr + n + 8)
    <2>1. n \in MsgSizes /\ n \in Nat /\ Fits(r.wp.ptr, n)
      BY <1>0, <1>3, MsgSizeFacts DEF StoreWritePointer, PubSound
    <2>2. end \in Nat /\ end % 8 = 0 /\ end + 8 <= Size
      <3>1. end = r.wp.ptr + Total(n)
        BY <1>00, <2>1, AlignShift
      <3>2. r.wp.ptr + n + 8 \in Nat
        BY <1>00, <2>1
      <3>3. end \in Nat /\ end % 8 = 0
        BY <3>2, AlignFacts
      <3> QED
        BY <2>1, <3>1, <3>3 DEF Fits
    <2>3. Pos(r.wp.cyc, end) \in Position /\ Sound(Pos(r.wp.cyc, end))
      BY <1>00, <2>2, SizeAssumption, PtrModAssumption DEF Pos, Position, Sound
    <2>4. SharedOK'
      BY <1>0, <1>3, <2>3 DEF StoreWritePointer, SharedOK, slots
    <2>5. CASE r.num > 0
      <3>0. 0 \in 0 .. NumReaders /\ "notify" \in PubPC
        BY NumReadersAssumption DEF PubPC
      <3>1. next \in Publisher
        BY <1>0, <3>0, PubSet
      <3>2. PubSound(next)
        BY <1>0, <2>5 DEF Publisher, PubSound
      <3> QED
        BY <1>0, <1>3, <2>4, <2>5, <3>1, <3>2, PubStep DEF StoreWritePointer
    <2>6. CASE ~(r.num > 0)
      BY <1>3, <2>4, <2>6, PubReturnInv DEF StoreWritePointer
    <2> QED
      BY <2>5, <2>6
  <1>4. CASE Notify(p)
    <2> DEFINE next == [r EXCEPT !.i = r.i + 1]
    <2>1. SharedOK'
      BY <1>0, <1>4, SharedUnchanged DEF Notify
    <2>2. CASE r.i + 1 < r.num
      <3>1. r.i + 1 \in 0 .. NumReaders
        BY <1>0, <2>2, NumReadersAssumption DEF Publisher
      <3>2. next \in Publisher
        BY <1>0, <3>1, PubSet
      <3>3. PubSound(next)
        BY <1>0, <1>4, <2>2 DEF Notify, Publisher, PubSound
      <3> QED
        BY <1>0, <1>4, <2>1, <2>2, <3>2, <3>3, PubStep DEF Notify
    <2>3. CASE ~(r.i + 1 < r.num)
      BY <1>4, <2>1, <2>3, PubReturnInv DEF Notify
    <2> QED
      BY <2>2, <2>3
  <1> QED
    BY <1>1, <1>2, <1>3, <1>4

(* msgq_all_readers_updated.                                               *)
LEMMA UpdatedInv ==
  ASSUME IInv, NEW p \in Publishers, BeginUpdated(p) \/ UpdatedStep(p)
  PROVE  IInv'
  <1> DEFINE r == pub[p]
  <1>0. r \in Publisher /\ PubSound(r) /\ SharedOK /\ sent \in 0 .. MaxSends
    BY PubFacts
  <1>00. SharedOK' /\ UNCHANGED <<sub, sent, out>>
    BY <1>0, SharedUnchanged
       DEF BeginUpdated, UpdatedStep, UpdatedValid, UpdatedWritePointer, UpdatedReadPointer
  <1>1. CASE BeginUpdated(p)
    <2> DEFINE next == [PubAt("upd_valid") EXCEPT !.num = num_readers]
    <2>1. CASE num_readers > 0 /\ SetPub(p, next)
      <3>1. next \in Publisher
        BY <1>0, PubAtFacts, PubSet DEF SharedOK
      <3>2. PubSound(next)
        BY <2>1, OriginFacts DEF PubAt, PubSound
      <3> QED
        BY <1>0, <1>00, <2>1, <3>1, <3>2, PubStep
    <2> QED
      BY <1>00, <1>1, <2>1, PubReturnInv DEF BeginUpdated
  <1>2. ASSUME NextUpdated(p), r.pc \in {"upd_valid", "upd_rp"}
        PROVE  IInv'
    <2> DEFINE next == [PubAt("upd_valid") EXCEPT !.num = r.num, !.i = r.i + 1]
    <2>1. CASE r.i + 1 < r.num
      <3>1. r.num \in 0 .. NumReaders /\ r.i + 1 \in 0 .. NumReaders
        BY <1>0, <2>1, NumReadersAssumption DEF Publisher
      <3>2. next \in Publisher
        BY <3>1, PubAtFacts, PubSet
      <3>3. PubSound(next)
        BY <2>1, OriginFacts DEF PubAt, PubSound
      <3> QED
        BY <1>0, <1>00, <1>2, <2>1, <3>2, <3>3, PubStep DEF NextUpdated
    <2> QED
      BY <1>00, <1>2, <2>1, PubReturnInv DEF NextUpdated
  <1>3. CASE UpdatedValid(p)
    <2>1. PubSound([r EXCEPT !.pc = "upd_wp"])
      BY <1>0, <1>3 DEF UpdatedValid, Publisher, PubSound
    <2> QED
      BY <1>00, <1>2, <1>3, <2>1, PubGotoInv DEF UpdatedValid, PubPC
  <1>4. CASE UpdatedWritePointer(p)
    <2> DEFINE next == [r EXCEPT !.pc = "upd_rp", !.wp = write_pointer]
    <2>1. next \in Publisher
      BY <1>0, PubSet DEF PubPC, SharedOK
    <2>2. PubSound(next)
      BY <1>0, <1>4 DEF UpdatedWritePointer, Publisher, PubSound, SharedOK
    <2> QED
      BY <1>0, <1>00, <1>4, <2>1, <2>2, PubStep DEF UpdatedWritePointer
  <1>5. CASE UpdatedReadPointer(p)
    BY <1>00, <1>2, <1>5, PubReturnInv DEF UpdatedReadPointer
  <1> QED
    BY <1>1, <1>3, <1>4, <1>5 DEF UpdatedStep

(* Every step of a publisher.                                              *)
LEMMA PublisherInv ==
  ASSUME IInv, NEW p \in Publishers, PublisherNext(p)
  PROVE  IInv'
  BY InitPublisherInv, BeginSendInv, SendLoadsInv, InvalidationInv, WrapInv,
     StoreMessageInv, UpdatedInv DEF PublisherNext, SendStep

-----------------------------------------------------------------------------
(* Subscribers.  A step replaces the locals of one of them by a record r.  *)
LEMMA SubStep ==
  ASSUME IInv, SharedOK', NEW s \in Subscribers, NEW r \in Subscriber, SubSound(r),
         SetSub(s, r), out' \in [Subscribers -> Seq(Words)], UNCHANGED <<pub, sent>>
  PROVE  IInv'
  <1>1. /\ sub' \in [Subscribers -> Subscriber]
        /\ \A t \in Subscribers : SubSound(sub'[t])
    BY IInvParts DEF SetSub
  <1> QED
    BY <1>1, IInvParts DEF IInv, TypeOK, Soundness, SharedOK

(* What the proofs about a subscriber s start from.                        *)
LEMMA SubFacts ==
  ASSUME IInv, NEW s \in Subscribers
  PROVE  /\ sub[s] \in Subscriber /\ SubSound(sub[s]) /\ SharedOK
         /\ out \in [Subscribers -> Seq(Words)]
  BY IInvParts

(* Replacing one field of the locals by a value of its type.               *)
LEMMA SubSet ==
  ASSUME NEW r \in Subscriber
  PROVE  /\ \A x \in SubPC : [r EXCEPT !.pc = x] \in Subscriber
         /\ \A x \in 0 .. NumReaders : [r EXCEPT !.num = x] \in Subscriber
         /\ \A x \in Slots : [r EXCEPT !.i = x] \in Subscriber
         /\ \A x \in Subscribers \cup {NoUid} : [r EXCEPT !.old = x] \in Subscriber
         /\ \A x \in Position : [r EXCEPT !.rp = x] \in Subscriber
         /\ \A x \in Position : [r EXCEPT !.wp = x] \in Subscriber
         /\ \A x \in Words : [r EXCEPT !.word = x] \in Subscriber
         /\ \A x \in Seq(Words) : [r EXCEPT !.buf = x] \in Subscriber
  BY DEF Subscriber

Ops == {"none", "connect", "ready", "recv"}

(* The locals of a subscriber between two calls or at the start of one.    *)
LEMMA SubAtFacts ==
  ASSUME NEW pc \in SubPC, NEW op \in Ops, NEW id \in Slots \cup {-1}
  PROVE  LET r == SubAt(pc, op, id) IN
           /\ r \in Subscriber /\ r.pc = pc /\ r.id = id /\ Sound(r.wp)
           /\ Sound(r.rp) /\ r.buf = <<>>
  <1>1. Zero \in Words /\ <<>> \in Seq(Words)
    BY DEF Zero, Word, Words
  <1>2. 0 \in Slots /\ 0 \in 0 .. NumReaders
    BY NumReadersAssumption DEF Slots
  <1> QED
    BY <1>1, <1>2, OriginFacts DEF SubAt, Subscriber, Ops

(* Going back to an earlier point of the call.                             *)
LEMMA SubBackInv ==
  ASSUME IInv, SharedOK', NEW s \in Subscribers, NEW pc, SubBack(s, pc),
         \/ pc \in {"evict_valid", "load_num"}
         \/ pc \in {"check_uid", "reset_valid"} /\ sub[s].id \in Slots,
         UNCHANGED <<pub, sent, out>>
  PROVE  IInv'
  <1> DEFINE r == SubAt(pc, sub[s].op, sub[s].id)
  <1>0. sub[s].op \in Ops /\ sub[s].id \in Slots \cup {-1} /\ pc \in SubPC
        /\ out \in [Subscribers -> Seq(Words)]
    BY SubFacts DEF Subscriber, Ops, SubPC
  <1>1. /\ r \in Subscriber /\ r.pc = pc /\ r.id = sub[s].id
        /\ Sound(r.wp)
    BY <1>0, SubAtFacts
  <1>2. SetSub(s, r)
    BY DEF SubBack
  <1> HIDE DEF r
  <1>3. SubSound(r)
    BY <1>1 DEF SubSound
  <1> QED
    BY <1>0, <1>1, <1>2, <1>3, SubStep

(* Going on to pc, which requires what SubSound says of pc.                *)
LEMMA SubGotoInv ==
  ASSUME IInv, SharedOK', NEW s \in Subscribers, NEW pc \in SubPC, SubGoto(s, pc),
         SubSound([sub[s] EXCEPT !.pc = pc]), UNCHANGED <<pub, sent, out>>
  PROVE  IInv'
  BY SubFacts, SubSet, SubStep DEF SubGoto

(* Returning from a call.                                                  *)
LEMMA SubReturnInv ==
  ASSUME IInv, SharedOK', NEW s \in Subscribers,
         NEW ret \in {"none", "connected", "ready", "empty", "msg"},
         SubReturn(s, ret), sub[s].id \in Slots,
         out' \in [Subscribers -> Seq(Words)], UNCHANGED <<pub, sent>>
  PROVE  IInv'
  <1> DEFINE a == SubAt("idle", "none", sub[s].id)
             r == [a EXCEPT !.ret = ret]
  <1>1. a \in Subscriber /\ a.pc = "idle" /\ a.id = sub[s].id /\ Sound(a.wp)
    BY SubAtFacts DEF SubPC, Ops
  <1>2. SetSub(s, r)
    BY DEF SubReturn
  <1> HIDE DEF a
  <1>3. r \in Subscriber
    BY <1>1 DEF Subscriber
  <1>4. SubSound(r)
    BY <1>1 DEF Subscriber, SubSound
  <1> QED
    BY <1>2, <1>3, <1>4, SubStep

(* msgq_init_subscriber: the search for a slot, and the eviction loop.     *)
LEMMA SearchInv ==
  ASSUME IInv, NEW s \in Subscribers,
         \/ Connect(s) \/ LoadSlotCount(s)
         \/ EvictAll(s) \/ EvictValid(s) \/ EvictLoadUid(s) \/ EvictUid(s)
  PROVE  IInv'
  <1> DEFINE r == sub[s]
  <1>0. r \in Subscriber /\ SubSound(r) /\ SharedOK /\ out \in [Subscribers -> Seq(Words)]
    BY SubFacts
  <1>00. r.op \in Ops /\ r.id \in Slots \cup {-1}
    BY <1>0 DEF Subscriber, Ops
  <1>1. CASE Connect(s)
    <2> DEFINE next == SubAt("load_num", "connect", -1)
    <2>1. next \in Subscriber /\ next.pc = "load_num" /\ Sound(next.wp)
      BY SubAtFacts DEF SubPC, Ops
    <2>2. SetSub(s, next)
      BY <1>1 DEF Connect
    <2> HIDE DEF next
    <2>3. SubSound(next)
      BY <2>1 DEF SubSound
    <2>4. SharedOK'
      BY <1>0, <1>1, SharedUnchanged DEF Connect
    <2> QED
      BY <1>0, <1>1, <2>1, <2>2, <2>3, <2>4, SubStep DEF Connect
  <1>2. CASE LoadSlotCount(s)
    <2> DEFINE next == [r EXCEPT !.pc = "cas", !.num = num_readers]
    <2>1. SharedOK'
      BY <1>0, <1>2, SharedUnchanged DEF LoadSlotCount
    <2>2. CASE num_readers + 1 > NumReaders
      <3>1. SubSound([r EXCEPT !.pc = "evict_num"])
        BY <1>0 DEF Subscriber, SubSound
      <3> QED
        BY <1>2, <2>1, <2>2, <3>1, SubGotoInv DEF LoadSlotCount, SubPC
    <2>3. CASE ~(num_readers + 1 > NumReaders)
      <3>1. num_readers \in 0 .. NumReaders /\ num_readers < NumReaders
        BY <1>0, <2>3, NumReadersAssumption DEF SharedOK
      <3>2. next \in Subscriber
        BY <1>0, <3>1, SubSet DEF SubPC
      <3>3. SubSound(next)
        BY <1>0, <3>1 DEF Subscriber, SubSound
      <3> QED
        BY <1>0, <1>2, <2>1, <2>3, <3>2, <3>3, SubStep DEF LoadSlotCount
    <2> QED
      BY <2>2, <2>3
  <1>3. CASE EvictAll(s)
    <2>1. SharedOK'
      BY <1>0, <1>3, NumReadersAssumption DEF EvictAll, SharedOK, slots
    <2> QED
      BY <1>3, <2>1, SubBackInv DEF EvictAll
  <1>4. CASE EvictValid(s)
    <2>1. SharedOK'
      BY <1>0, <1>4 DEF EvictValid, SharedOK, queue
    <2>2. SubSound([r EXCEPT !.pc = "evict_load"])
      BY <1>0 DEF Subscriber, SubSound
    <2> QED
      BY <1>4, <2>1, <2>2, SubGotoInv DEF EvictValid, SubPC
  <1>5. CASE EvictLoadUid(s)
    <2> DEFINE next == [r EXCEPT !.pc = "evict_uid", !.old = read_uids[r.i]]
    <2>1. SharedOK'
      BY <1>0, <1>5, SharedUnchanged DEF EvictLoadUid
    <2>2. read_uids[r.i] \in Subscribers \cup {NoUid}
      BY <1>0 DEF SharedOK, Subscriber
    <2>3. next \in Subscriber
      BY <1>0, <2>2, SubSet DEF SubPC
    <2>4. SubSound(next)
      BY <1>0 DEF Subscriber, SubSound
    <2> QED
      BY <1>0, <1>5, <2>1, <2>3, <2>4, SubStep DEF EvictLoadUid
  <1>6. CASE EvictUid(s)
    <2> DEFINE a == SubAt("evict_valid", r.op, r.id)
               next == [a EXCEPT !.i = r.i + 1]
    <2>1. SharedOK'
      BY <1>0, <1>6 DEF EvictUid, SharedOK, queue
    <2>2. CASE r.i + 1 < NumReaders
      <3>1. r.i + 1 \in Slots
        BY <1>0, <2>2, NumReadersAssumption DEF Subscriber, Slots
      <3>2. a \in Subscriber /\ a.pc = "evict_valid" /\ Sound(a.wp)
        BY <1>00, SubAtFacts DEF SubPC
      <3>3. SetSub(s, next)
        BY <1>6, <2>2 DEF EvictUid
      <3> HIDE DEF a
      <3>4. next \in Subscriber
        BY <3>1, <3>2, SubSet
      <3>5. SubSound(next)
        BY <3>2 DEF Subscriber, SubSound
      <3> QED
        BY <1>0, <1>6, <2>1, <3>3, <3>4, <3>5, SubStep DEF EvictUid
    <2>3. CASE ~(r.i + 1 < NumReaders)
      BY <1>6, <2>1, <2>3, SubBackInv DEF EvictUid
    <2> QED
      BY <2>2, <2>3
  <1> QED
    BY <1>1, <1>2, <1>3, <1>4, <1>5, <1>6

(* msgq_init_subscriber: the slot that is claimed is one of the header.    *)
LEMMA ClaimInv ==
  ASSUME IInv, NEW s \in Subscribers,
         ClaimSlot(s) \/ InitValid(s) \/ InitReadPointer(s) \/ InitUid(s)
  PROVE  IInv'
  <1> DEFINE r == sub[s]
  <1>0. r \in Subscriber /\ SubSound(r) /\ SharedOK /\ out \in [Subscribers -> Seq(Words)]
    BY SubFacts
  <1>00. r.op \in Ops /\ r.id \in Slots \cup {-1}
    BY <1>0 DEF Subscriber, Ops
  <1>1. CASE ClaimSlot(s)
    <2> DEFINE next == SubAt("init_valid", r.op, r.num)
    <2>1. CASE num_readers = r.num
      <3>1. r.num \in Slots /\ r.num + 1 \in 0 .. NumReaders
        BY <1>0, <1>1, NumReadersAssumption DEF ClaimSlot, Subscriber, SubSound, Slots
      <3>2. next \in Subscriber /\ next.pc = "init_valid" /\ next.id = r.num
            /\ Sound(next.wp)
        BY <1>00, <3>1, SubAtFacts DEF SubPC
      <3>3. SetSub(s, next)
        BY <1>1, <2>1 DEF ClaimSlot
      <3> HIDE DEF next
      <3>4. SubSound(next)
        BY <3>1, <3>2 DEF SubSound
      <3>5. SharedOK'
        BY <1>0, <1>1, <2>1, <3>1 DEF ClaimSlot, SharedOK, slots
      <3> QED
        BY <1>0, <1>1, <3>2, <3>3, <3>4, <3>5, SubStep DEF ClaimSlot
    <2>2. CASE num_readers # r.num
      <3>1. SharedOK'
        BY <1>0, <1>1, <2>2 DEF ClaimSlot, SharedOK, slots
      <3> QED
        BY <1>1, <2>2, <3>1, SubBackInv DEF ClaimSlot
    <2> QED
      BY <2>1, <2>2
  <1>2. CASE InitValid(s)
    <2>1. SharedOK'
      BY <1>0, <1>2 DEF InitValid, SharedOK, queue
    <2>2. SubSound([r EXCEPT !.pc = "init_rp"])
      BY <1>0, <1>2 DEF InitValid, Subscriber, SubSound
    <2> QED
      BY <1>2, <2>1, <2>2, SubGotoInv DEF InitValid, SubPC
  <1>3. CASE InitReadPointer(s)
    <2>1. SharedOK'
      BY <1>0, <1>3, OriginFacts DEF InitReadPointer, SharedOK, queue
    <2>2. SubSound([r EXCEPT !.pc = "init_uid"])
      BY <1>0, <1>3 DEF InitReadPointer, Subscriber, SubSound
    <2> QED
      BY <1>3, <2>1, <2>2, SubGotoInv DEF InitReadPointer, SubPC
  <1>4. CASE InitUid(s)
    <2>1. SharedOK'
      BY <1>0, <1>4 DEF InitUid, SharedOK, queue
    <2>2. SubSound([r EXCEPT !.pc = "reset_valid"])
      BY <1>0, <1>4 DEF InitUid, Subscriber, SubSound
    <2> QED
      BY <1>4, <2>1, <2>2, SubGotoInv DEF InitUid, SubPC
  <1> QED
    BY <1>1, <1>2, <1>3, <1>4

(* msgq_reset_reader.                                                      *)
LEMMA ResetInv ==
  ASSUME IInv, NEW s \in Subscribers, ResetStep(s)
  PROVE  IInv'
  <1> DEFINE r == sub[s]
  <1>0. r \in Subscriber /\ SubSound(r) /\ SharedOK /\ out \in [Subscribers -> Seq(Words)]
    BY SubFacts
  <1>1. CASE ResetValid(s)
    <2>1. SharedOK'
      BY <1>0, <1>1 DEF ResetValid, SharedOK, queue
    <2>2. SubSound([r EXCEPT !.pc = "reset_load"])
      BY <1>0, <1>1 DEF ResetValid, Subscriber, SubSound
    <2> QED
      BY <1>1, <2>1, <2>2, SubGotoInv DEF ResetValid, SubPC
  <1>2. CASE ResetLoad(s)
    <2> DEFINE next == [r EXCEPT !.pc = "reset_store", !.wp = write_pointer]
    <2>1. SharedOK'
      BY <1>0, <1>2, SharedUnchanged DEF ResetLoad
    <2>2. next \in Subscriber
      BY <1>0, SubSet DEF SharedOK, SubPC
    <2>3. SubSound(next)
      BY <1>0, <1>2 DEF ResetLoad, SharedOK, Subscriber, SubSound
    <2> QED
      BY <1>0, <1>2, <2>1, <2>2, <2>3, SubStep DEF ResetLoad
  <1>3. CASE ResetStore(s)
    <2>1. r.id \in Slots /\ r.wp \in Position /\ Sound(r.wp)
      BY <1>0, <1>3 DEF ResetStore, Subscriber, SubSound
    <2>2. SharedOK'
      BY <1>0, <1>3, <2>1 DEF ResetStore, SharedOK, queue
    <2>3. CASE SubReturn(s, "connected")
      BY <1>0, <1>3, <2>1, <2>2, <2>3, SubReturnInv DEF ResetStore
    <2>4. CASE Restart(s)
      BY <1>3, <2>1, <2>2, <2>4, SubBackInv DEF ResetStore, Restart
    <2> QED
      BY <1>3, <2>3, <2>4 DEF ResetStore
  <1> QED
    BY <1>1, <1>2, <1>3 DEF ResetStep

(* msgq_msg_ready and msgq_msg_recv, until a new message is found.         *)
LEMMA FindInv ==
  ASSUME IInv, NEW s \in Subscribers,
         \/ BeginReady(s) \/ BeginRecv(s) \/ CheckReadUid(s) \/ CheckValid(s)
         \/ LoadReadPointer(s) \/ CheckNewMessage(s)
  PROVE  IInv'
  <1> DEFINE r == sub[s]
  <1>0. r \in Subscriber /\ SubSound(r) /\ SharedOK /\ out \in [Subscribers -> Seq(Words)]
    BY SubFacts
  <1>00. SharedOK' /\ UNCHANGED <<pub, sent, out>>
    BY <1>0, SharedUnchanged DEF BeginReady, BeginRecv, Call, CheckReadUid,
       CheckValid, LoadReadPointer, CheckNewMessage
  <1>000. r.id \in Slots
    BY <1>0 DEF BeginReady, BeginRecv, Call, CheckReadUid, CheckValid,
       LoadReadPointer, CheckNewMessage, SubSound
  <1>1. ASSUME NEW op \in Ops, Call(s, op)
        PROVE  IInv'
    <2> DEFINE next == SubAt("check_uid", op, r.id)
    <2>1. next \in Subscriber /\ next.pc = "check_uid" /\ next.id = r.id
          /\ Sound(next.wp)
      BY <1>000, SubAtFacts DEF SubPC
    <2>2. SetSub(s, next)
      BY <1>1 DEF Call
    <2> HIDE DEF next
    <2>3. SubSound(next)
      BY <1>000, <2>1 DEF SubSound
    <2> QED
      BY <1>0, <1>00, <2>1, <2>2, <2>3, SubStep
  <1>2. CASE CheckReadUid(s)
    <2>1. /\ SubSound([r EXCEPT !.pc = "check_valid"])
          /\ SubSound([r EXCEPT !.pc = "load_num"])
      BY <1>0, <1>000, <1>2 DEF CheckReadUid, Subscriber, SubSound
    <2> QED
      BY <1>00, <1>2, <2>1, SubGotoInv DEF CheckReadUid, SubPC
  <1>3. CASE CheckValid(s)
    <2>1. /\ SubSound([r EXCEPT !.pc = "load_rp"])
          /\ SubSound([r EXCEPT !.pc = "reset_valid"])
      BY <1>0, <1>000, <1>3 DEF CheckValid, Subscriber, SubSound
    <2> QED
      BY <1>00, <1>3, <2>1, SubGotoInv DEF CheckValid, SubPC
  <1>4. CASE LoadReadPointer(s)
    <2> DEFINE next == [r EXCEPT !.pc = "load_wp", !.rp = read_pointers[r.id]]
    <2>1. read_pointers[r.id] \in Position
      BY <1>0, <1>000 DEF SharedOK
    <2>2. next \in Subscriber
      BY <1>0, <2>1, SubSet DEF SubPC
    <2>3. SubSound(next)
      BY <1>0, <1>000, <1>4, <2>1 DEF LoadReadPointer, Subscriber, SubSound
    <2> QED
      BY <1>0, <1>00, <1>4, <2>2, <2>3, SubStep DEF LoadReadPointer
  <1>5. CASE CheckNewMessage(s)
    <2> DEFINE next == [r EXCEPT !.pc = "load_size", !.wp = write_pointer]
    <2>1. next \in Subscriber
      BY <1>0, SubSet DEF SubPC, SharedOK
    <2>2. SubSound(next)
      BY <1>0, <1>000, <1>5 DEF CheckNewMessage, Subscriber, SubSound, SharedOK
    <2>3. CASE SetSub(s, next)
      BY <1>0, <1>00, <2>1, <2>2, <2>3, SubStep
    <2> QED
      BY <1>0, <1>00, <1>000, <1>5, <2>3, SubReturnInv DEF CheckNewMessage
  <1> QED
    BY <1>1, <1>2, <1>3, <1>4, <1>5 DEF BeginReady, BeginRecv, Ops

(* What a load finds, wherever it reads, and what a word may be taken for. *)
LEMMA LoadedFacts ==
  ASSUME IInv, NEW a
  PROVE  /\ Loaded(a) \in Words
         /\ a \in WordAddrs => Loaded(a) = data[a]
  <1>1. Foreign \in Words
    BY DEF Foreign, Word, Words
  <1> QED
    BY <1>1 DEF Loaded, IInv, TypeOK

(* The size that a receive takes from a word; of a prefix it is the size.  *)
LEMMA SizeInFacts ==
  ASSUME NEW w \in Words
  PROVE  /\ SizeIn(w) \subseteq Int
         /\ w.kind = "size" => SizeIn(w) = {w.size}
         /\ w.kind = "wrap" => SizeIn(w) = {-1}
         /\ w.kind = "zero" => SizeIn(w) = {0}
  <1>1. w.kind \in {"zero", "wrap", "size", "data", "foreign"} /\ w.size \in Nat
    BY DEF Words
  <1>2. AnySize \subseteq Int
    BY SizeAssumption DEF AnySize
  <1> QED
    BY <1>1, <1>2 DEF SizeIn

(* The offset behind a message wraps around at 2^32.                       *)
LEMMA OffsetFacts ==
  ASSUME NEW ptr \in Nat, NEW n \in Nat
  PROVE  Beyond(ptr, n) \in 0 .. PtrMod - 1
  <1>1. Align(ptr + 8 + n) \in Nat /\ PtrMod \in Nat /\ PtrMod > 0
    BY AlignFacts, PtrModAssumption, SizeAssumption
  <1> QED
    BY <1>1 DEF Beyond

(* A value that is the wrap-around tag, or fails an assertion.             *)
Stops(s, n, pc) ==
  /\ SubGoto(s, pc)
  /\ pc = "wrap" => n = -1
  /\ pc = "aborted" => n # -1 /\ ~Passes(n)

(* The local variable size is replaced by a value that passes the          *)
(* assertions; nothing else of what was loaded changes.                    *)
LEMMA TakeSizeCases ==
  ASSUME IInv, NEW s \in Subscribers, NEW n \in SizeIn(sub[s].word), TakeSize(s, n)
  PROVE  \/ \E pc \in {"wrap", "aborted"} : Stops(s, n, pc)
         \/ /\ Passes(n)
            /\ \E word \in Words, pc \in {"skip", "copy"} :
                 /\ word.kind = sub[s].word.kind /\ word.size = n
                 /\ n = sub[s].word.size => word = sub[s].word
                 /\ SetSub(s, [sub[s] EXCEPT !.word = word, !.pc = pc])
  <1> DEFINE r == sub[s]
             word == [r.word EXCEPT !.size = n]
  <1>1. r.word \in Words /\ n \in Int
    BY SubFacts, SizeInFacts DEF Subscriber
  <1>2. CASE Passes(n)
    <2>1. n \in Nat /\ n # -1
      BY <1>1, <1>2 DEF Passes
    <2>2. /\ word \in Words /\ word.kind = r.word.kind /\ word.size = n
          /\ n = r.word.size => word = r.word
      BY <1>1, <2>1 DEF Words
    <2>3. PICK pc \in {"skip", "copy"} : SetSub(s, [r EXCEPT !.word.size = n, !.pc = pc])
      BY <1>2, <2>1, Zenon DEF TakeSize
    <2> QED
      BY <1>2, <2>2, <2>3
  <1>3. CASE ~Passes(n)
    BY <1>3 DEF TakeSize, Stops
  <1> QED
    BY <1>2, <1>3

(* A receive loads a word for the size; a value that passes the assertions *)
(* becomes its local variable size.                                        *)
LEMMA SizeInv ==
  ASSUME IInv, NEW s \in Subscribers, LoadSize(s) \/ CheckSize(s)
  PROVE  IInv'
  <1> DEFINE r == sub[s]
             w == Loaded(WordAt(r.rp.ptr))
  <1>0. r \in Subscriber /\ SubSound(r) /\ SharedOK /\ out \in [Subscribers -> Seq(Words)]
    BY SubFacts
  <1>00. SharedOK' /\ UNCHANGED <<pub, sent, out>>
    BY <1>0, SharedUnchanged DEF LoadSize, CheckSize
  <1>000. r.id \in Slots
    BY <1>0 DEF LoadSize, CheckSize, SubSound
  <1>01. /\ SubSound([r EXCEPT !.pc = "aborted"])
         /\ SubSound([r EXCEPT !.pc = "wrap"])
    BY <1>0, <1>000 DEF Subscriber, SubSound
  <1>1. CASE LoadSize(s)
    <2> DEFINE next == [r EXCEPT !.pc = "check_size", !.word = w]
    <2>1. w \in Words
      BY LoadedFacts
    <2>2. next \in Subscriber
      BY <1>0, <2>1, SubSet DEF SubPC
    <2>3. SubSound(next)
      BY <1>0, <1>000 DEF Subscriber, SubSound
    <2>4. CASE SetSub(s, next)
      BY <1>0, <1>00, <2>2, <2>3, <2>4, SubStep
    <2>5. CASE SubGoto(s, "aborted")
      BY <1>00, <1>01, <2>5, SubGotoInv DEF SubPC
    <2> QED
      BY <1>1, <2>4, <2>5 DEF LoadSize, Faults
  <1>2. CASE CheckSize(s)
    <2>1. ASSUME NEW n \in SizeIn(r.word), TakeSize(s, n)
          PROVE  IInv'
      <3>1. ASSUME NEW word \in Words, NEW pc \in {"skip", "copy"},
                   SetSub(s, [r EXCEPT !.word = word, !.pc = pc])
            PROVE  IInv'
        <4> DEFINE next == [r EXCEPT !.word = word, !.pc = pc]
        <4>1. next \in Subscriber /\ SubSound(next)
          BY <1>0, <1>000 DEF Subscriber, SubPC, SubSound
        <4> HIDE DEF next
        <4>2. SetSub(s, next)
          BY <3>1 DEF next
        <4> QED
          BY <1>0, <1>00, <4>1, <4>2, SubStep
      <3>2. ASSUME NEW pc \in {"wrap", "aborted"}, SubGoto(s, pc)
            PROVE  IInv'
        BY <1>00, <1>01, <3>2, SubGotoInv DEF SubPC
      <3> QED
        BY <2>1, <3>1, <3>2, TakeSizeCases DEF Stops
    <2>2. CASE SubBack(s, "reset_valid")
      BY <1>00, <1>000, <2>2, SubBackInv
    <2> QED
      BY <1>2, <2>1, <2>2 DEF CheckSize
  <1> QED
    BY <1>1, <1>2

(* Whatever was taken for a size, what is stored is a position.            *)
LEMMA NewReadPointerFacts ==
  ASSUME IInv, NEW s \in Subscribers
  PROVE  NewReadPointer(s) \in Position
  <1> DEFINE r == sub[s]
  <1>0. r \in Subscriber
    BY SubFacts
  <1>1. r.rp.ptr \in Nat /\ r.rp.cyc \in 0 .. CycleMod - 1 /\ r.word.size \in Nat
    BY <1>0, PtrModAssumption DEF Subscriber, Position, Words
  <1> QED
    BY <1>1, OffsetFacts DEF NewReadPointer, Pos, Position

(* The three stores of the read pointer in msgq_msg_recv.                  *)
LEMMA AdvanceInv ==
  ASSUME IInv, NEW s \in Subscribers,
         WrapRead(s) \/ SkipMessage(s) \/ StoreReadPointer(s)
  PROVE  IInv'
  <1> DEFINE r == sub[s]
  <1>0. r \in Subscriber /\ SubSound(r) /\ SharedOK /\ out \in [Subscribers -> Seq(Words)]
    BY SubFacts
  <1>00. r.id \in Slots
    BY <1>0 DEF WrapRead, SkipMessage, StoreReadPointer, SubSound
  <1>1. CASE WrapRead(s)
    <2> DEFINE w == Pos(NextCycle(r.rp.cyc), 0)
    <2>1. w \in Position
      BY <1>0, OriginFacts, SizeAssumption, CycleModAssumption
         DEF Subscriber, Position, Pos, NextCycle, Origin
    <2>2. SharedOK'
      BY <1>0, <1>1, <2>1 DEF WrapRead, SharedOK, queue
    <2> QED
      BY <1>00, <1>1, <2>2, SubBackInv DEF WrapRead, Restart
  <1>2. CASE SkipMessage(s)
    <2>1. SharedOK'
      BY <1>0, <1>2, NewReadPointerFacts DEF SkipMessage, SharedOK, queue
    <2> QED
      BY <1>00, <1>2, <2>1, SubBackInv DEF SkipMessage, Restart
  <1>3. CASE StoreReadPointer(s)
    <2>1. SharedOK'
      BY <1>0, <1>3, NewReadPointerFacts DEF StoreReadPointer, SharedOK, queue
    <2>2. SubSound([r EXCEPT !.pc = "check_data"])
      BY <1>0, <1>00 DEF Subscriber, SubSound
    <2> QED
      BY <1>3, <2>1, <2>2, SubGotoInv DEF StoreReadPointer, SubPC
  <1> QED
    BY <1>1, <1>2, <1>3

(* The copy of the payload, and its delivery.                              *)
LEMMA CopyInv ==
  ASSUME IInv, NEW s \in Subscribers, CopyWord(s) \/ CheckData(s)
  PROVE  IInv'
  <1> DEFINE r == sub[s]
             k == Len(r.buf) + 1
  <1>0. r \in Subscriber /\ SubSound(r) /\ SharedOK /\ out \in [Subscribers -> Seq(Words)]
    BY SubFacts
  <1>00. SharedOK' /\ UNCHANGED <<pub, sent>> /\ r.id \in Slots /\ r.buf \in Seq(Words)
    BY <1>0, SharedUnchanged DEF CopyWord, CheckData, SubSound, Subscriber
  <1>1. CASE CopyWord(s)
    <2> DEFINE d == Loaded(WordAt(r.rp.ptr) + k)
               buf == Append(r.buf, d)
               pc == IF k < Parts(r.word.size) THEN "copy" ELSE "store_rp"
               next == [r EXCEPT !.buf = buf, !.pc = pc]
    <2>1. d \in Words
      BY LoadedFacts
    <2>2. buf \in Seq(Words)
      BY <1>00, <2>1
    <2>3. SetSub(s, next) \/ SubGoto(s, "aborted")
      BY <1>1 DEF CopyWord, Faults
    <2>4. pc \in SubPC /\ "aborted" \in SubPC
      BY DEF SubPC
    <2>5. pc \notin {"cas", "closed"}
      OBVIOUS
    <2> HIDE DEF d, buf, pc
    <2>6. next \in Subscriber
      BY <1>0, <2>2, <2>4 DEF Subscriber
    <2>7. SubSound(next) /\ SubSound([r EXCEPT !.pc = "aborted"])
      BY <1>0, <1>00, <2>5 DEF Subscriber, SubSound
    <2> QED
      BY <1>0, <1>00, <1>1, <2>3, <2>4, <2>6, <2>7, SubStep, SubGotoInv DEF CopyWord
  <1>2. CASE CheckData(s)
    <2>1. out' \in [Subscribers -> Seq(Words)]
      BY <1>0, <1>00, <1>2 DEF CheckData
    <2>2. CASE SubReturn(s, "msg")
      BY <1>00, <2>1, <2>2, SubReturnInv
    <2>3. CASE SubBack(s, "reset_valid") /\ UNCHANGED out
      BY <1>00, <2>3, SubBackInv
    <2> QED
      BY <1>2, <2>2, <2>3 DEF CheckData
  <1> QED
    BY <1>1, <1>2

(* Every step of a subscriber.                                             *)
LEMMA SubscriberInv ==
  ASSUME IInv, NEW s \in Subscribers, SubscriberNext(s)
  PROVE  IInv'
  BY SearchInv, ClaimInv, ResetInv, FindInv, SizeInv, AdvanceInv, CopyInv
     DEF SubscriberNext, SubscriberStep, RegisterStep, RecvStep

-----------------------------------------------------------------------------
(* The fresh segment satisfies the invariant.                              *)
LEMMA InitInv == Init => IInv
  <1> SUFFICES ASSUME Init PROVE IInv
    OBVIOUS
  <1>1. SharedOK
    <2>1. Zero \in Words /\ Zero.kind # "size"
      BY DEF Zero, Word, Words
    <2> QED
      BY <2>1, OriginFacts, NumReadersAssumption DEF Init, SharedOK, SoundTag
  <1>2. PubAt("closed") \in Publisher /\ PubSound(PubAt("closed"))
    BY PubAtFacts, OriginFacts DEF PubAt, PubSound
  <1>3. LET r == SubAt("closed", "none", -1) IN r \in Subscriber /\ SubSound(r)
    <2> DEFINE r == SubAt("closed", "none", -1)
    <2>1. r \in Subscriber /\ r.pc = "closed" /\ Sound(r.wp)
      BY SubAtFacts DEF SubPC, Ops
    <2> HIDE DEF r
    <2>2. SubSound(r)
      BY <2>1 DEF SubSound
    <2> QED
      BY <2>1, <2>2 DEF r
  <1>4. sent \in 0 .. MaxSends /\ out \in [Subscribers -> Seq(Words)]
    BY MaxSendsAssumption DEF Init
  <1> QED
    BY <1>1, <1>2, <1>3, <1>4, IInvParts DEF Init

(* Every step, of any process, and stuttering, preserve the invariant.     *)
LEMMA NextInv == IInv /\ [Next]_vars => IInv'
  <1> SUFFICES ASSUME IInv, [Next]_vars PROVE IInv'
    OBVIOUS
  <1>1. CASE Next
    BY <1>1, PublisherInv, SubscriberInv DEF Next
  <1>2. CASE UNCHANGED vars
    BY <1>2 DEF vars, shared, queue, slots, IInv, TypeOK, Soundness
  <1> QED
    BY <1>1, <1>2

(* The invariant bounds every store to the data area.                      *)
LEMMA IInvBounds == IInv => StoresInBounds
  <1> SUFFICES ASSUME IInv PROVE StoresInBounds
    OBVIOUS
  <1>1. write_pointer.ptr + 8 <= Size
    BY IInvParts DEF SharedOK, Sound
  <1>2. ASSUME NEW p \in Publishers
        PROVE  /\ pub[p].pc \in {"wrap_tag", "size"} => WordAt(pub[p].wp.ptr) \in WordAddrs
               /\ pub[p].pc = "copy" => WordAt(pub[p].wp.ptr) + pub[p].part \in WordAddrs
    <2> DEFINE r == pub[p]
    <2>0. r \in Publisher /\ PubSound(r)
      BY PubFacts
    <2>1. r.wp.ptr \in Nat /\ r.wp.ptr % 8 = 0 /\ r.wp.ptr + 8 <= Size
      BY <2>0, PtrModAssumption DEF Publisher, PubSound, Sound, Position
    <2>2. WordAt(r.wp.ptr) \in WordAddrs
      BY <2>1, SizeAssumption DEF WordAt, WordAddrs
    <2>3. CASE r.pc = "copy"
      <3>1. r.size \in MsgSizes /\ r.size \in Nat /\ Fits(r.wp.ptr, r.size)
            /\ r.part \in 1 .. Parts(r.size)
        BY <2>0, <2>3, MsgSizeFacts DEF PubSound
      <3>2. r.part \in Nat /\ r.part <= Parts(r.size)
        BY <3>1, TotalFacts
      <3> QED
        BY <2>1, <2>2, <3>1, <3>2, PartFacts
    <2> QED
      BY <2>2, <2>3
  <1> QED
    BY <1>1, <1>2 DEF StoresInBounds

-----------------------------------------------------------------------------
(* What a receive holds that has taken no garbage for a size.              *)

(* A step that leaves the read pointers alone, and r as the locals of s.   *)
LEMMA ReadStep ==
  ASSUME IInv, ReadSound, NEW s \in Subscribers, NEW r, LoadSound(r), SetSub(s, r),
         UNCHANGED read_pointers
  PROVE  ReadSound'
  <1>1. sub \in [Subscribers -> Subscriber]
    BY IInvParts
  <1> QED
    BY <1>1 DEF ReadSound, SetSub

(* What the proofs about a receive start from.                             *)
LEMMA LoadFacts ==
  ASSUME IInv, ReadSound, NEW s \in Subscribers
  PROVE  /\ sub[s] \in Subscriber /\ SubSound(sub[s]) /\ LoadSound(sub[s])
         /\ sub[s].rp.ptr \in Nat /\ sub[s].rp.ptr % 8 = 0 /\ sub[s].rp.ptr + 8 <= Size
         /\ WordAt(sub[s].rp.ptr) \in WordAddrs
  <1>1. sub[s] \in Subscriber /\ SubSound(sub[s]) /\ LoadSound(sub[s])
    BY SubFacts DEF ReadSound
  <1>2. sub[s].rp.ptr \in Nat /\ sub[s].rp.ptr % 8 = 0 /\ sub[s].rp.ptr + 8 <= Size
    BY <1>1, PtrModAssumption DEF Subscriber, Position, LoadSound, Sound
  <1> QED
    BY <1>1, <1>2, SizeAssumption DEF WordAt, WordAddrs

(* Going on to pc, which requires what LoadSound says of pc.               *)
LEMMA ReadGoto ==
  ASSUME IInv, ReadSound, NEW s \in Subscribers, NEW pc, SubGoto(s, pc),
         pc \notin {"check_uid", "check_valid", "load_rp", "load_wp", "load_size",
                    "check_size", "skip", "copy", "store_rp"},
         UNCHANGED read_pointers
  PROVE  ReadSound'
  <1>1. LoadSound([sub[s] EXCEPT !.pc = pc])
    BY LoadFacts DEF Subscriber, LoadSound
  <1> QED
    BY <1>1, ReadStep DEF SubGoto

(* The locals of a subscriber that starts, or goes back.                   *)
LEMMA ReadAt ==
  ASSUME NEW pc, pc \notin {"check_size", "skip", "copy", "store_rp"}, NEW op, NEW id
  PROVE  /\ LoadSound(SubAt(pc, op, id))
         /\ \A i : LoadSound([SubAt(pc, op, id) EXCEPT !.i = i])
         /\ \A ret : LoadSound([SubAt(pc, op, id) EXCEPT !.ret = ret])
  BY OriginFacts DEF SubAt, LoadSound

(* Going back in a call, or returning from it.                             *)
LEMMA ReadBack ==
  ASSUME IInv, ReadSound, NEW s \in Subscribers, UNCHANGED read_pointers,
         \/ \E pc \in {"evict_valid", "load_num", "check_uid", "reset_valid"} : SubBack(s, pc)
         \/ \E ret : SubReturn(s, ret)
  PROVE  ReadSound'
  BY ReadAt, ReadStep DEF SubBack, SubReturn

(* A position of a receive, once stored, is a position all may load.       *)
LEMMA ReadStore ==
  ASSUME IInv, ReadSound, NEW s \in Subscribers, NEW w, Sound(w),
         read_pointers' = [read_pointers EXCEPT ![sub[s].id] = w],
         NEW r, LoadSound(r), SetSub(s, r)
  PROVE  ReadSound'
  <1>1. sub \in [Subscribers -> Subscriber] /\ read_pointers \in [Slots -> Position]
    BY IInvParts DEF SharedOK
  <1> QED
    BY <1>1 DEF ReadSound, SetSub

(* Registration, reset, and a call until a new message is found.           *)
LEMMA ReadRegister ==
  ASSUME IInv, ReadSound, NEW s \in Subscribers,
         Connect(s) \/ RegisterStep(s) \/ ResetStep(s)
  PROVE  ReadSound'
  <1> DEFINE r == sub[s]
  <1>0. r \in Subscriber /\ SubSound(r) /\ LoadSound(r)
    BY LoadFacts
  <1>1. CASE Connect(s) \/ EvictAll(s) \/ EvictValid(s)
    BY <1>1, ReadBack, ReadGoto, ReadAt, ReadStep
       DEF Connect, EvictAll, EvictValid, slots, shared
  <1>2. CASE LoadSlotCount(s)
    <2>1. LoadSound([r EXCEPT !.pc = "cas", !.num = num_readers])
      BY <1>0 DEF Subscriber, LoadSound
    <2> QED
      BY <1>2, <2>1, ReadGoto, ReadStep DEF LoadSlotCount, slots, shared
  <1>3. CASE EvictLoadUid(s)
    <2>1. LoadSound([r EXCEPT !.pc = "evict_uid", !.old = read_uids[r.i]])
      BY <1>0 DEF Subscriber, LoadSound
    <2> QED
      BY <1>3, <2>1, ReadStep DEF EvictLoadUid, slots, shared
  <1>4. CASE EvictUid(s) \/ ClaimSlot(s)
    BY <1>4, ReadBack, ReadAt, ReadStep DEF EvictUid, ClaimSlot, slots
  <1>5. CASE InitValid(s) \/ InitUid(s) \/ ResetValid(s)
    BY <1>5, ReadGoto DEF InitValid, InitUid, ResetValid
  <1>6. CASE InitReadPointer(s)
    <2>1. LoadSound([r EXCEPT !.pc = "init_uid"])
      BY <1>0 DEF Subscriber, LoadSound
    <2> QED
      BY <1>6, <2>1, OriginFacts, ReadStore DEF InitReadPointer, SubGoto
  <1>7. CASE ResetLoad(s)
    <2>1. LoadSound([r EXCEPT !.pc = "reset_store", !.wp = write_pointer])
      BY <1>0 DEF Subscriber, LoadSound
    <2> QED
      BY <1>7, <2>1, ReadStep DEF ResetLoad, slots, shared
  <1>8. CASE ResetStore(s)
    <2>1. Sound(r.wp)
      BY <1>0 DEF SubSound
    <2> QED
      BY <1>8, <2>1, ReadAt, ReadStore DEF ResetStore, Restart, SubBack, SubReturn
  <1> QED
    BY <1>1, <1>2, <1>3, <1>4, <1>5, <1>6, <1>7, <1>8 DEF RegisterStep, ResetStep

(* msgq_msg_ready and msgq_msg_recv, until a new message is found.         *)
LEMMA ReadFind ==
  ASSUME IInv, ReadSound, NEW s \in Subscribers,
         \/ BeginReady(s) \/ BeginRecv(s) \/ CheckReadUid(s) \/ CheckValid(s)
         \/ LoadReadPointer(s) \/ CheckNewMessage(s)
  PROVE  ReadSound'
  <1> DEFINE r == sub[s]
  <1>0. r \in Subscriber /\ SubSound(r) /\ LoadSound(r) /\ UNCHANGED read_pointers
    BY LoadFacts DEF BeginReady, BeginRecv, Call, CheckReadUid, CheckValid,
       LoadReadPointer, CheckNewMessage, shared, slots
  <1>1. CASE BeginReady(s) \/ BeginRecv(s)
    BY <1>0, <1>1, ReadAt, ReadStep DEF BeginReady, BeginRecv, Call
  <1>2. CASE CheckReadUid(s)
    <2>1. LoadSound([r EXCEPT !.pc = "check_valid"])
      BY <1>0, <1>2 DEF CheckReadUid, Subscriber, LoadSound
    <2> QED
      BY <1>0, <1>2, <2>1, ReadGoto, ReadStep DEF CheckReadUid, SubGoto
  <1>3. CASE CheckValid(s)
    <2>1. LoadSound([r EXCEPT !.pc = "load_rp"])
      BY <1>0, <1>3 DEF CheckValid, Subscriber, LoadSound
    <2> QED
      BY <1>0, <1>3, <2>1, ReadGoto, ReadStep DEF CheckValid, SubGoto
  <1>4. CASE LoadReadPointer(s)
    <2>1. r.id \in Slots /\ Sound(read_pointers[r.id])
      BY <1>0, <1>4 DEF LoadReadPointer, SubSound, ReadSound
    <2>2. LoadSound([r EXCEPT !.pc = "load_wp", !.rp = read_pointers[r.id]])
      BY <1>0, <1>4, <2>1 DEF LoadReadPointer, Subscriber, LoadSound
    <2> QED
      BY <1>0, <1>4, <2>2, ReadStep DEF LoadReadPointer
  <1>5. CASE CheckNewMessage(s)
    <2>1. LoadSound([r EXCEPT !.pc = "load_size", !.wp = write_pointer])
      BY <1>0, <1>5 DEF CheckNewMessage, Subscriber, LoadSound
    <2> QED
      BY <1>0, <1>5, <2>1, ReadBack, ReadStep DEF CheckNewMessage
  <1> QED
    BY <1>1, <1>2, <1>3, <1>4, <1>5

(* The size prefix at an aligned offset with room for it, whatever age it  *)
(* has, is the one of a message that fits there.                           *)
LEMMA ReadSize ==
  ASSUME IInv, ReadSound, NEW s \in Subscribers, LoadSize(s) \/ CheckSize(s), NoGarbage'
  PROVE  ReadSound'
  <1> DEFINE r == sub[s]
             a == WordAt(r.rp.ptr)
  <1>0. /\ r \in Subscriber /\ LoadSound(r) /\ UNCHANGED read_pointers
        /\ r.rp.ptr \in Nat /\ r.rp.ptr % 8 = 0 /\ r.rp.ptr + 8 <= Size /\ a \in WordAddrs
    BY LoadFacts DEF LoadSize, CheckSize, shared, slots
  <1>1. CASE LoadSize(s)
    <2>1. 8 * a = r.rp.ptr
      BY <1>0, WordFacts
    <2>2. Loaded(a) = data[a] /\ SoundTag(data[a], r.rp.ptr)
      BY <1>0, <2>1, LoadedFacts, IInvParts DEF SharedOK
    <2>3. LoadSound([r EXCEPT !.pc = "check_size", !.word = Loaded(a)])
      BY <1>0, <1>1, <2>2 DEF LoadSize, Subscriber, LoadSound
    <2> QED
      BY <1>0, <1>1, <2>3, ReadGoto, ReadStep DEF LoadSize, Faults
  <1>2. CASE CheckSize(s)
    <2>1. ASSUME NEW n \in SizeIn(r.word), NEW word \in Words, NEW pc \in {"skip", "copy"},
                 word.kind = r.word.kind, word.size = n,
                 SetSub(s, [r EXCEPT !.word = word, !.pc = pc])
          PROVE  ReadSound'
      <3> DEFINE x == [r EXCEPT !.word = word, !.pc = pc]
      <3>1. x.pc = pc /\ x.word = word /\ x.rp = r.rp /\ x.buf = r.buf
        BY <1>0 DEF Subscriber
      <3> HIDE DEF x
      <3>2. SetSub(s, x) /\ sub'[s] = x
        BY <2>1, IInvParts DEF SetSub, x
      <3>3. r.word \in Words /\ r.word.kind = "size"
        BY <1>0, <2>1, <3>1, <3>2 DEF NoGarbage, Clean, Subscriber
      <3>4. n = r.word.size
        BY <3>3, SizeInFacts
      <3>5. n \in MsgSizes /\ Fits(r.rp.ptr, n) /\ r.buf = <<>>
        BY <1>0, <1>2, <3>3, <3>4 DEF CheckSize, LoadSound, SoundTag
      <3>6. Parts(n) \in Nat /\ Parts(n) > 0
        BY <3>5, MsgSizeFacts, TotalFacts
      <3>7. LoadSound(x)
        BY <1>0, <2>1, <3>1, <3>5, <3>6 DEF LoadSound, SoundTag
      <3> QED
        BY <1>0, <3>2, <3>7, ReadStep
    <2>2. ASSUME NEW pc \in {"wrap", "aborted"}, SubGoto(s, pc)
          PROVE  ReadSound'
      BY <1>0, <2>2, ReadGoto
    <2>3. CASE SubBack(s, "reset_valid")
      BY <1>0, <2>3, ReadBack
    <2>4. ASSUME NEW n \in SizeIn(r.word), TakeSize(s, n)
          PROVE  ReadSound'
      <3>1. CASE \E pc \in {"wrap", "aborted"} : Stops(s, n, pc)
        <4>1. PICK pc \in {"wrap", "aborted"} : SubGoto(s, pc)
          BY <3>1 DEF Stops
        <4> QED
          BY <2>2, <4>1
      <3>2. CASE /\ Passes(n)
                 /\ \E word \in Words, pc \in {"skip", "copy"} :
                      /\ word.kind = sub[s].word.kind /\ word.size = n
                      /\ n = sub[s].word.size => word = sub[s].word
                      /\ SetSub(s, [sub[s] EXCEPT !.word = word, !.pc = pc])
        BY <2>1, <3>2
      <3> QED
        BY <2>4, <3>1, <3>2, TakeSizeCases
    <2> QED
      BY <1>2, <2>3, <2>4 DEF CheckSize
  <1> QED
    BY <1>1, <1>2

(* The message at a read pointer fits, so that the pointer behind it is a  *)
(* position from which a tag can be read.                                  *)
LEMMA AfterMessageFacts ==
  ASSUME IInv, ReadSound, NEW s \in Subscribers,
         sub[s].pc \in {"skip", "copy", "store_rp"}, sub[s].word.kind = "size"
  PROVE  /\ sub[s].word.size \in MsgSizes /\ Fits(sub[s].rp.ptr, sub[s].word.size)
         /\ NewReadPointer(s) =
              Pos(sub[s].rp.cyc, sub[s].rp.ptr + Total(sub[s].word.size))
         /\ Sound(NewReadPointer(s))
  <1> DEFINE r == sub[s]
             n == r.word.size
             end == r.rp.ptr + Total(n)
  <1>0. LoadSound(r) /\ r.rp.ptr \in Nat /\ r.rp.ptr % 8 = 0
    BY LoadFacts
  <1>1. n \in MsgSizes /\ n \in Nat /\ Fits(r.rp.ptr, n)
    BY <1>0, MsgSizeFacts DEF LoadSound, SoundTag
  <1>2. Align(r.rp.ptr + 8 + n) = end /\ Total(n) \in Nat /\ Total(n) % 8 = 0
    BY <1>0, <1>1, AlignShift, TotalFacts
  <1>3. end \in Nat /\ end % 8 = 0 /\ end + 8 <= Size
    BY <1>0, <1>1, <1>2 DEF Fits
  <1>4. end % PtrMod = end
    <2> DEFINE m == PtrMod
    <2>1. m \in Nat /\ end < m
      BY <1>3, SizeAssumption, PtrModAssumption
    <2> HIDE DEF m, end
    <2>2. end \in Nat => end % m = end
      BY <2>1
    <2> QED
      BY <1>3, <2>2 DEF m
  <1>5. NewReadPointer(s) = Pos(r.rp.cyc, end)
    BY <1>2, <1>4 DEF NewReadPointer, Beyond
  <1> QED
    BY <1>1, <1>3, <1>5 DEF Pos, Sound

(* The three stores of the read pointer in msgq_msg_recv.                  *)
LEMMA ReadAdvance ==
  ASSUME IInv, ReadSound, NoGarbage, NEW s \in Subscribers,
         WrapRead(s) \/ SkipMessage(s) \/ StoreReadPointer(s)
  PROVE  ReadSound'
  <1> DEFINE r == sub[s]
  <1>0. r \in Subscriber /\ LoadSound(r)
    BY LoadFacts
  <1>1. CASE WrapRead(s)
    <2>1. Sound(Pos(NextCycle(r.rp.cyc), 0))
      BY OriginFacts DEF Origin, Pos, Sound
    <2> QED
      BY <1>1, <2>1, ReadAt, ReadStore DEF WrapRead, Restart, SubBack
  <1>2. CASE SkipMessage(s)
    <2>1. Sound(NewReadPointer(s))
      BY <1>2, AfterMessageFacts DEF SkipMessage, NoGarbage, Clean
    <2> QED
      BY <1>2, <2>1, ReadAt, ReadStore DEF SkipMessage, Restart, SubBack
  <1>3. CASE StoreReadPointer(s)
    <2>1. Sound(NewReadPointer(s))
      BY <1>3, AfterMessageFacts DEF StoreReadPointer, NoGarbage, Clean
    <2>2. LoadSound([r EXCEPT !.pc = "check_data"])
      BY <1>0 DEF Subscriber, LoadSound
    <2> QED
      BY <1>3, <2>1, <2>2, ReadStore DEF StoreReadPointer, SubGoto
  <1> QED
    BY <1>1, <1>2, <1>3

(* The copy, and the return of it.                                         *)
LEMMA ReadCopy ==
  ASSUME IInv, ReadSound, NoGarbage, NEW s \in Subscribers, CopyWord(s) \/ CheckData(s)
  PROVE  ReadSound'
  <1> DEFINE r == sub[s]
             k == Len(r.buf) + 1
             buf == Append(r.buf, Loaded(WordAt(r.rp.ptr) + k))
  <1>0. r \in Subscriber /\ LoadSound(r) /\ UNCHANGED read_pointers
    BY LoadFacts DEF CopyWord, CheckData, shared, slots
  <1>1. CASE CopyWord(s)
    <2> DEFINE pc == IF k < Parts(r.word.size) THEN "copy" ELSE "store_rp"
               next == [r EXCEPT !.buf = buf, !.pc = pc]
    <2>1. SetSub(s, next) \/ SubGoto(s, "aborted")
      BY <1>1 DEF CopyWord, Faults
    <2>2. Len(buf) = k
      BY <1>0, LoadedFacts DEF Subscriber
    <2>3. pc \in {"copy", "store_rp"} /\ (pc = "copy" => k < Parts(r.word.size))
      OBVIOUS
    <2> HIDE DEF k, buf, pc
    <2>4. /\ next.pc = pc /\ next.buf = buf /\ next.word = r.word /\ next.rp = r.rp
      BY <1>0 DEF Subscriber
    <2> HIDE DEF next
    <2>5. LoadSound(next)
      BY <1>0, <1>1, <2>2, <2>3, <2>4 DEF CopyWord, LoadSound
    <2> QED
      BY <1>0, <2>1, <2>5, ReadGoto, ReadStep
  <1>2. CASE CheckData(s)
    BY <1>0, <1>2, ReadBack DEF CheckData
  <1> QED
    BY <1>1, <1>2

(* Every step, of any process, after which no garbage was taken for a      *)
(* size, keeps what the receives hold.                                     *)
LEMMA ReadNext ==
  ASSUME IInv, ReadSound, NoGarbage, [Next]_vars, NoGarbage'
  PROVE  ReadSound'
  <1>1. ASSUME NEW p \in Publishers, PublisherNext(p)
        PROVE  ReadSound'
    <2>1. UNCHANGED <<read_pointers, sub>>
      BY <1>1 DEF PublisherNext, InitPublisher, StoreWriteUid, ZeroNumReaders, WipeValid,
         WipeUid, BeginSend, SendStep, CheckWriteUid, LoadNumReaders, LoadWritePointer,
         StoreWrapTag, StoreWrap, CheckSlot, Invalidate, StoreSize, StorePayload,
         StoreWritePointer, Notify, BeginUpdated, UpdatedStep, UpdatedValid,
         UpdatedWritePointer, UpdatedReadPointer, shared, queue, slots
    <2> QED
      BY <2>1 DEF ReadSound
  <1>2. ASSUME NEW s \in Subscribers, SubscriberNext(s)
        PROVE  ReadSound'
    BY <1>2, ReadRegister, ReadFind, ReadSize, ReadAdvance, ReadCopy
       DEF SubscriberNext, SubscriberStep, RecvStep
  <1>3. CASE UNCHANGED vars
    BY <1>3 DEF vars, shared, slots, ReadSound
  <1> QED
    BY <1>1, <1>2, <1>3 DEF Next

(* Nothing has been loaded from a fresh segment.                           *)
LEMMA ReadInit == Init => ReadSound
  <1>1. LoadSound(SubAt("closed", "none", -1))
    BY ReadAt
  <1> QED
    BY <1>1, OriginFacts DEF Init, ReadSound

(* As long as no garbage is taken for a size, the loads are bounded.       *)
LEMMA ReadBounds ==
  ASSUME IInv, ReadSound, NoGarbage
  PROVE  LoadsInBounds
  <1>1. ASSUME NEW s \in Subscribers, sub[s].pc = "copy"
        PROVE  WordAt(sub[s].rp.ptr) + Len(sub[s].buf) + 1 \in WordAddrs
    <2> DEFINE r == sub[s]
               k == Len(r.buf) + 1
    <2>0. r \in Subscriber /\ LoadSound(r) /\ r.rp.ptr \in Nat /\ r.rp.ptr % 8 = 0
      BY LoadFacts
    <2>1. r.word.size \in MsgSizes /\ r.word.size \in Nat /\ Fits(r.rp.ptr, r.word.size)
      BY <1>1, AfterMessageFacts, MsgSizeFacts DEF NoGarbage, Clean
    <2>2. Len(r.buf) \in Nat /\ Len(r.buf) < Parts(r.word.size)
      BY <1>1, <2>0 DEF LoadSound, Subscriber
    <2>3. k \in Nat /\ k <= Parts(r.word.size)
      <3>1. Parts(r.word.size) \in Nat
        BY <2>1, TotalFacts
      <3> QED
        BY <2>2, <3>1
    <2>4. WordAt(r.rp.ptr) + k \in WordAddrs /\ WordAt(r.rp.ptr) \in Nat
      BY <2>0, <2>1, <2>3, PartFacts, WordFacts
    <2> QED
      BY <2>2, <2>4
  <1> QED
    BY <1>1, LoadFacts DEF LoadsInBounds

-----------------------------------------------------------------------------
(* Type correctness of the queue under every interleaving of publishers    *)
(* and subscribers, crashes, restarts and evictions included; and whatever *)
(* a receive takes for a size.                                             *)
THEOREM TypeCorrect == Spec => []TypeOK
  <1>1. IInv => TypeOK
    BY DEF IInv
  <1> QED
    BY <1>1, InitInv, NextInv, PTL DEF Spec

(* No store of msgq_msg_send leaves the data area: for every size of the   *)
(* segment, with any number of slots, publishers and subscribers, in every *)
(* interleaving, takeovers, evictions and garbage in the readers' pointers *)
(* included.                                                               *)
THEOREM StoresSafe == Spec => []StoresInBounds
  BY IInvBounds, InitInv, NextInv, PTL DEF Spec

(* No load of msgq_msg_recv leaves the data area, in any behaviour in      *)
(* which it has not taken zeroes or payload for a size: a stale size       *)
(* prefix, of whatever age, belongs to a message that fits where the       *)
(* receive found it, and needs no second check.                            *)
THEOREM LoadsSafe == Spec /\ []NoGarbage => []LoadsInBounds
  <1>1. Init => IInv /\ ReadSound
    BY InitInv, ReadInit
  <1>2. (IInv /\ ReadSound) /\ NoGarbage /\ [Next]_vars /\ NoGarbage' => (IInv /\ ReadSound)'
    BY NextInv, ReadNext
  <1>3. IInv /\ ReadSound /\ NoGarbage => LoadsInBounds
    BY ReadBounds
  <1> QED
    BY <1>1, <1>2, <1>3, PTL DEF Spec
=============================================================================

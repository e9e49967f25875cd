-------------------------- MODULE MsgqRegistration --------------------------
(***************************************************************************)
(* Registration: the compare-and-swap of msgq_init_subscriber gives every  *)
(* reader a slot of its own, which publishers count, for any number of     *)
(* slots, publishers and subscribers.                                      *)
(***************************************************************************)
EXTENDS MsgqProofs

-----------------------------------------------------------------------------
(* The program counters of a publisher that has found its uid in           *)
(* write_uid, until its message is published.                              *)
InSend == {"load_num", "load_wp", "wrap_tag", "beyond", "beyond_inv", "wrap_wp",
           "area", "area_inv", "size", "copy", "publish"}

(* The program counters of a subscriber whose uid is in no slot, of one    *)
(* that has claimed a slot, and of one that may have lost its slot.        *)
Unregistered == {"closed", "load_num", "cas", "init_valid", "init_rp", "init_uid"}
Claiming     == {"init_valid", "init_rp", "init_uid"}
Unchecked    == {"idle", "check_uid"}

(* Only one publisher sends or starts, the one that write_uid names, and   *)
(* no call of a subscriber is in progress while one starts.                *)
Sole(p) ==
  /\ pub[p].pc \in InSend => write_uid = p
  /\ Starting(p) => write_uid = p /\ \A s \in Subscribers : Resting(s)
  /\ pub[p].pc = "zero_num" => pub[p].i = 0
  /\ pub[p].pc \in {"wipe_valid", "wipe_uid"} =>
       \A j \in Slots : j < pub[p].i => read_uids[j] = NoUid
  /\ pub[p].pc \in InSend \ {"load_num"} => pub[p].num <= num_readers

(* The uid of a subscriber is in its own slot and nowhere else, and there  *)
(* throughout a call, once the call has checked it.                        *)
Registered(s) ==
  /\ ~Evicting(s)
  /\ \A i \in Slots : read_uids[i] = s => sub[s].id = i /\ sub[s].pc \notin Unregistered
  /\ sub[s].pc \notin Unregistered \cup Unchecked => read_uids[sub[s].id] = s

Counted == \A s \in Subscribers : Owns(s) => sub[s].id < num_readers
Apart   == \A s, t \in Subscribers : Owns(s) /\ Owns(t) /\ s # t => sub[s].id # sub[t].id

RegInv ==
  /\ \A p \in Publishers : Sole(p)
  /\ \A s \in Subscribers : Registered(s)
  /\ (\A p \in Publishers : ~Starting(p)) => Counted
  /\ Apart

-----------------------------------------------------------------------------
(* Publishers.  A step replaces the locals of one of them.                 *)
LEMMA PubUpdate ==
  ASSUME IInv, NEW p \in Publishers, NEW c, SetPub(p, c)
  PROVE  pub'[p] = c /\ \A q \in Publishers : q # p => pub'[q] = pub[q]
  BY IInvParts DEF SetPub

(* One iteration of an invalidation loop.                                  *)
LEMMA NextSlotUpdate ==
  ASSUME IInv, NEW p \in Publishers,
         pub[p].pc \in {"beyond", "beyond_inv", "area", "area_inv"}, NextSlot(p)
  PROVE  LET b == pub[p]
             c == pub'[p] IN
           /\ \A q \in Publishers : q # p => pub'[q] = pub[q]
           /\ c.num = b.num /\ c.wp = b.wp /\ c.size = b.size /\ c.msg = b.msg /\ c.i = b.i + 1
           /\ b.pc \in {"beyond", "beyond_inv"} =>
                c.pc = IF b.i + 1 < b.num THEN "beyond" ELSE "wrap_wp"
           /\ b.pc \in {"area", "area_inv"} =>
                c.pc = IF b.i + 1 < b.num THEN "area" ELSE "size"
  <1> DEFINE b == pub[p]
  <1>0. b \in Publisher /\ PubSound(b) /\ b.i + 1 \in 0 .. NumReaders
    <2>1. b \in Publisher /\ PubSound(b)
      BY PubFacts
    <2> QED
      BY <2>1, NumReadersAssumption DEF PubSound, Publisher
  <1>1. CASE b.pc \in {"beyond", "beyond_inv"}
    <2> DEFINE c == AtSlot(b, b.i + 1, "beyond", "wrap_wp")
    <2>1. SetPub(p, c)
      BY <1>1 DEF NextSlot
    <2>2. c.num = b.num /\ c.wp = b.wp /\ c.size = b.size /\ c.msg = b.msg /\ c.i = b.i + 1
          /\ c.pc = IF b.i + 1 < b.num THEN "beyond" ELSE "wrap_wp"
      BY <1>0 DEF AtSlot, Publisher
    <2> HIDE DEF c
    <2> QED
      BY <1>1, <2>1, <2>2, PubUpdate
  <1>2. CASE b.pc \in {"area", "area_inv"}
    <2> DEFINE c == AtSlot(b, b.i + 1, "area", "size")
    <2>1. SetPub(p, c)
      BY <1>2 DEF NextSlot
    <2>2. c.num = b.num /\ c.wp = b.wp /\ c.size = b.size /\ c.msg = b.msg /\ c.i = b.i + 1
          /\ c.pc = IF b.i + 1 < b.num THEN "area" ELSE "size"
      BY <1>0 DEF AtSlot, Publisher
    <2> HIDE DEF c
    <2> QED
      BY <1>2, <2>1, <2>2, PubUpdate
  <1> QED
    BY <1>1, <1>2

(* Publishing, and the last step of a call.                                *)
LEMMA PubReturnUpdate ==
  ASSUME IInv, NEW p \in Publishers, NEW ret, PubReturn(p, ret)
  PROVE  /\ pub'[p].pc = "idle" /\ pub'[p].ret = ret
         /\ \A q \in Publishers : q # p => pub'[q] = pub[q]
  BY PubUpdate DEF PubReturn, PubAt

(* Going on with another program counter.                                  *)
LEMMA PubGotoUpdate ==
  ASSUME IInv, NEW p \in Publishers, NEW pc, PubGoto(p, pc)
  PROVE  LET b == pub[p]
             c == pub'[p] IN
           /\ \A q \in Publishers : q # p => pub'[q] = pub[q]
           /\ c.num = b.num /\ c.wp = b.wp /\ c.size = b.size /\ c.msg = b.msg /\ c.i = b.i
           /\ c.part = b.part /\ c.pc = pc
  <1>1. pub[p] \in Publisher
    BY PubFacts
  <1> QED
    BY <1>1, PubUpdate DEF PubGoto, Publisher

(* What a step leaves true of the subscribers if it changes neither their  *)
(* locals nor the slots.                                                   *)
LEMMA SubsKept ==
  ASSUME RegInv, UNCHANGED <<sub, read_uids>>
  PROVE  /\ \A s \in Subscribers : Registered(s)'
         /\ Apart'
         /\ \A s \in Subscribers : (Resting(s)' <=> Resting(s)) /\ (Owns(s)' <=> Owns(s))
  BY DEF RegInv, Registered, Apart, Owns, Evicting, Resting

(* A step of a publisher that is not starting, does not start, and leaves  *)
(* the header alone.                                                       *)
Quiet(p) ==
  LET b == pub[p]
      c == pub'[p] IN
    /\ \A q \in Publishers : q # p => pub'[q] = pub[q]
    /\ UNCHANGED <<num_readers, write_uid, read_uids, sub>>
    /\ {b.pc, c.pc} \cap {"zero_num", "wipe_valid", "wipe_uid"} = {}
    /\ c.pc \in InSend =>
         \/ b.pc \in InSend \ {"load_num"} /\ c.num = b.num
         \/ b.pc = "load_num" /\ c.num = num_readers
         \/ c.pc = "load_num" /\ write_uid = p

(* A publisher step that leaves the header alone keeps the registration   *)
(* invariant.                                                             *)
LEMMA QuietReg ==
  ASSUME RegInv, NEW p \in Publishers, Quiet(p), num_readers \in Nat
  PROVE  RegInv'
  <1>1. \A q \in Publishers : Sole(q)'
    <2> SUFFICES ASSUME NEW q \in Publishers PROVE Sole(q)'
      OBVIOUS
    <2>1. Sole(q) /\ Sole(p)
      BY DEF RegInv
    <2>2. CASE q = p
      <3>1. ~Starting(p)' /\ pub'[p].pc \notin {"zero_num", "wipe_valid", "wipe_uid"}
        BY DEF Starting, Quiet
      <3>2. pub'[p].pc \in InSend => write_uid' = p
        BY <2>1, <2>2 DEF Sole, Quiet, InSend
      <3>3. pub'[p].pc \in InSend \ {"load_num"} => pub'[p].num <= num_readers'
        BY <2>1, <2>2 DEF Sole, Quiet
      <3> QED
        BY <2>2, <3>1, <3>2, <3>3 DEF Sole
    <2>3. CASE q # p
      BY <2>1, <2>3, SubsKept DEF Sole, Starting, Quiet
    <2> QED
      BY <2>2, <2>3
  <1>2. (\A q \in Publishers : ~Starting(q)') => \A q \in Publishers : ~Starting(q)
    BY DEF Starting, Quiet
  <1>3. Counted => Counted'
    BY SubsKept DEF Counted, Quiet
  <1> QED
    BY <1>1, <1>2, <1>3, SubsKept DEF RegInv, Quiet

(* The steps of msgq_msg_send are such steps.                              *)
LEMMA SendQuiet ==
  ASSUME IInv, NEW p \in Publishers, SendStep(p)
  PROVE  Quiet(p)
  <1> DEFINE b == pub[p]
  <1>0. b \in Publisher /\ pub \in [Publishers -> Publisher]
    BY IInvParts
  <1> USE <1>0
  <1>1. CASE CheckWriteUid(p)
    BY <1>1 DEF CheckWriteUid, PubGoto, PubReturn, SetPub, PubAt, shared, queue, slots,
       Quiet, InSend, Publisher
  <1>2. CASE LoadNumReaders(p)
    BY <1>2 DEF LoadNumReaders, SetPub, shared, queue, slots, Quiet, InSend, Publisher
  <1>3. CASE LoadWritePointer(p)
    BY <1>3 DEF LoadWritePointer, SetPub, AtSlot, shared, queue, slots, Quiet, InSend, Publisher
  <1>4. CASE StoreWrapTag(p)
    BY <1>4 DEF StoreWrapTag, SetPub, AtSlot, queue, slots, Quiet, InSend, Publisher
  <1>5. CASE StoreWrap(p)
    BY <1>5 DEF StoreWrap, SetPub, AtSlot, slots, Quiet, InSend, Publisher
  <1>6. CASE CheckSlot(p)
    <2>1. UNCHANGED <<num_readers, write_uid, read_uids, sub>> /\ b.pc \in {"beyond", "area"}
      BY <1>6 DEF CheckSlot, shared, queue, slots
    <2>2. CASE NextSlot(p)
      BY <2>1, <2>2, NextSlotUpdate DEF Quiet, InSend
    <2>3. CASE PubGoto(p, IF pub[p].pc = "beyond" THEN "beyond_inv" ELSE "area_inv")
      BY <2>1, <2>3, PubGotoUpdate DEF Quiet, InSend
    <2> QED
      BY <1>6, <2>2, <2>3 DEF CheckSlot
  <1>7. CASE Invalidate(p)
    <2>1. /\ UNCHANGED <<num_readers, write_uid, read_uids, sub>>
          /\ b.pc \in {"beyond_inv", "area_inv"} /\ NextSlot(p)
      BY <1>7 DEF Invalidate, queue
    <2> QED
      BY <2>1, NextSlotUpdate DEF Quiet, InSend
  <1>8. CASE StoreSize(p)
    BY <1>8 DEF StoreSize, SetPub, queue, slots, Quiet, InSend, Publisher
  <1>9. CASE StorePayload(p)
    BY <1>9 DEF StorePayload, PubGoto, SetPub, queue, slots, Quiet, InSend, Publisher
  <1>10. CASE StoreWritePointer(p)
    <2>1. UNCHANGED <<num_readers, write_uid, read_uids, sub>> /\ b.pc = "publish"
      BY <1>10 DEF StoreWritePointer, slots
    <2>2. CASE SetPub(p, [pub[p] EXCEPT !.pc = "notify", !.i = 0])
      <3>1. pub'[p].pc = "notify" /\ \A q \in Publishers : q # p => pub'[q] = pub[q]
        BY <2>2 DEF SetPub, Publisher
      <3> QED
        BY <2>1, <3>1 DEF Quiet, InSend
    <2>3. CASE PubReturn(p, "sent")
      BY <2>1, <2>3, PubReturnUpdate DEF Quiet, InSend
    <2> QED
      BY <1>10, <2>2, <2>3 DEF StoreWritePointer
  <1>11. CASE Notify(p)
    BY <1>11 DEF Notify, PubReturn, PubAt, SetPub, shared, queue, slots, Quiet, InSend, Publisher
  <1> QED
    BY <1>1, <1>2, <1>3, <1>4, <1>5, <1>6, <1>7, <1>8, <1>9, <1>10, <1>11 DEF SendStep

(* So are the other calls of a publisher that has started.                 *)
LEMMA CallQuiet ==
  ASSUME IInv, NEW p \in Publishers,
         \/ \E n \in MsgSizes : BeginSend(p, n)
         \/ BeginUpdated(p) \/ UpdatedStep(p)
  PROVE  Quiet(p)
  <1> DEFINE b == pub[p]
  <1>0. b \in Publisher /\ pub \in [Publishers -> Publisher]
    BY IInvParts
  <1> USE <1>0
  <1>1. ASSUME NEW n \in MsgSizes, BeginSend(p, n) PROVE Quiet(p)
    BY <1>1 DEF BeginSend, SetPub, PubAt, shared, queue, slots, Quiet, InSend, Publisher
  <1>2. CASE BeginUpdated(p)
    BY <1>2 DEF BeginUpdated, SetPub, PubAt, PubReturn, shared, queue, slots, Quiet, InSend,
       Publisher
  <1>3. CASE UpdatedStep(p)
    <2>1. /\ UNCHANGED <<num_readers, write_uid, read_uids, sub>>
          /\ b.pc \in {"upd_valid", "upd_wp", "upd_rp"}
      BY <1>3 DEF UpdatedStep, UpdatedValid, UpdatedWritePointer, UpdatedReadPointer,
         shared, queue, slots
    <2>2. CASE NextUpdated(p)
      <3>1. /\ pub'[p].pc \in {"upd_valid", "idle"}
            /\ \A q \in Publishers : q # p => pub'[q] = pub[q]
        BY <2>2, PubReturnUpdate DEF NextUpdated, SetPub, PubAt
      <3> QED
        BY <2>1, <3>1 DEF Quiet, InSend
    <2>3. CASE PubGoto(p, "upd_wp")
      BY <2>1, <2>3, PubGotoUpdate DEF Quiet, InSend
    <2>4. CASE PubReturn(p, "behind")
      BY <2>1, <2>4, PubReturnUpdate DEF Quiet, InSend
    <2>5. CASE UpdatedWritePointer(p)
      BY <2>1, <2>5 DEF UpdatedWritePointer, SetPub, Quiet, InSend, Publisher
    <2> QED
      BY <1>3, <2>2, <2>3, <2>4, <2>5
         DEF UpdatedStep, UpdatedValid, UpdatedReadPointer
  <1> QED
    BY <1>1, <1>2, <1>3

(* msgq_init_publisher.  It starts while no call is in progress, and has   *)
(* emptied all slots when it ends.                                         *)
LEMMA StartReg ==
  ASSUME IInv, RegInv, NEW p \in Publishers, InitPublisher(p), QuietStart
  PROVE  RegInv'
  <1> DEFINE b == pub[p]
             c == pub'[p]
  <1>0. /\ b \in Publisher /\ PubSound(b) /\ pub \in [Publishers -> Publisher]
        /\ read_uids \in [Slots -> Subscribers \cup {NoUid}] /\ num_readers \in 0 .. NumReaders
        /\ \A q \in Publishers : Sole(q)
    BY IInvParts DEF SharedOK, RegInv
  <1>1. /\ UNCHANGED sub
        /\ \A q \in Publishers : q # p => pub'[q] = pub[q]
    BY <1>0 DEF InitPublisher, StoreWriteUid, ZeroNumReaders, WipeValid, WipeUid, PubGoto, SetPub
  <1>2. CASE StoreWriteUid(p)
    <2>1. /\ b.pc = "closed" /\ c.pc = "zero_num" /\ c.i = 0 /\ write_uid' = p
          /\ UNCHANGED read_uids
      BY <1>0, <1>2 DEF StoreWriteUid, SetPub, PubAt, slots
    <2>2. /\ \A q \in Publishers : pub[q].pc \in {"closed", "idle"}
          /\ \A s \in Subscribers : Resting(s)
      BY <2>1 DEF QuietStart
    <2>3. ASSUME NEW q \in Publishers PROVE Sole(q)'
      BY <1>1, <2>1, <2>2, <2>3, SubsKept DEF Sole, Starting, InSend
    <2>4. Starting(p)'
      BY <2>1 DEF Starting
    <2> QED
      BY <2>1, <1>1, <2>3, <2>4, SubsKept DEF RegInv
  <1>3. CASE ZeroNumReaders(p)
    <2>1. /\ b.pc = "zero_num" /\ c.pc = "wipe_valid" /\ c.i = 0 /\ num_readers' = 0
          /\ UNCHANGED <<write_uid, read_uids>>
      BY <1>0, <1>3, PubGotoUpdate DEF ZeroNumReaders, Sole, slots
    <2>2. write_uid = p /\ \A s \in Subscribers : Resting(s)
      BY <1>0, <2>1 DEF Sole, Starting
    <2>3. ASSUME NEW q \in Publishers PROVE Sole(q)'
      <3>1. CASE q = p
        BY <1>1, <2>1, <2>2, <3>1, SubsKept DEF Sole, Starting, InSend, Slots
      <3>2. CASE q # p
        BY <1>0, <1>1, <2>1, <2>2, <3>2, SubsKept DEF Sole, Starting, InSend
      <3> QED
        BY <3>1, <3>2
    <2>4. Starting(p)'
      BY <2>1 DEF Starting
    <2> QED
      BY <2>1, <1>1, <2>3, <2>4, SubsKept DEF RegInv
  <1>4. CASE WipeValid(p)
    <2>1. /\ b.pc = "wipe_valid" /\ c.pc = "wipe_uid" /\ c.i = b.i
          /\ UNCHANGED <<num_readers, write_uid, read_uids>>
      BY <1>0, <1>4, PubGotoUpdate DEF WipeValid, queue
    <2>2. ASSUME NEW q \in Publishers PROVE Sole(q)'
      BY <1>0, <1>1, <2>1, SubsKept DEF Sole, Starting, InSend
    <2>3. Starting(p)'
      BY <2>1 DEF Starting
    <2> QED
      BY <2>1, <1>1, <2>2, <2>3, SubsKept DEF RegInv
  <1>5. CASE WipeUid(p)
    <2>1. /\ b.pc = "wipe_uid" /\ read_uids' = [read_uids EXCEPT ![b.i] = NoUid]
          /\ UNCHANGED <<num_readers, write_uid>>
      BY <1>5 DEF WipeUid, queue
    <2>2. b.i \in Slots /\ write_uid = p /\ \A s \in Subscribers : Resting(s)
      BY <1>0, <2>1 DEF Sole, Starting, PubSound
    <2>3. \A j \in Slots : j <= b.i => read_uids'[j] = NoUid
      BY <1>0, <2>1, <2>2 DEF Sole, Slots
    <2>4. \A j \in Slots : read_uids'[j] \in {NoUid, read_uids[j]}
      BY <1>0, <2>1
    <2>5. \/ c.pc = "wipe_valid" /\ c.i = b.i + 1
          \/ c.pc = "idle" /\ b.i + 1 >= NumReaders
      <3>1. b.i + 1 \in Nat /\ NumReaders \in Nat
        BY <2>2, NumReadersAssumption DEF Slots
      <3> QED
        BY <1>0, <1>5, <3>1 DEF WipeUid, SetPub, PubAt, Publisher
    <2>6. NoUid \notin Subscribers /\ NoUid \notin Publishers
      BY ProcessAssumption
    <2>7. ASSUME NEW s \in Subscribers
          PROVE  Registered(s)' /\ Resting(s)' /\ sub'[s] = sub[s]
      <3>1. Registered(s) /\ sub[s].pc \in {"closed", "idle"} /\ sub'[s] = sub[s]
        BY <1>1, <2>2 DEF RegInv, Resting
      <3> QED
        BY <2>4, <2>6, <3>1 DEF Registered, Evicting, Resting, Unchecked, Unregistered
    <2>8. ASSUME NEW q \in Publishers PROVE Sole(q)'
      <3>1. CASE q = p
        <4>1. CASE c.pc = "wipe_valid" /\ c.i = b.i + 1
          <5>1. \A j \in Slots : j < c.i => read_uids'[j] = NoUid
            BY <2>2, <2>3, <4>1 DEF Slots
          <5> QED
            BY <2>1, <2>2, <2>7, <3>1, <4>1, <5>1 DEF Sole, Starting, InSend
        <4>2. CASE c.pc = "idle"
          BY <3>1, <4>2 DEF Sole, Starting, InSend
        <4> QED
          BY <2>5, <4>1, <4>2
      <3>2. CASE q # p
        BY <1>0, <1>1, <2>1, <2>2, <2>4, <3>2 DEF Sole, Starting, InSend
      <3> QED
        BY <3>1, <3>2
    <2>9. ASSUME NEW s \in Subscribers, Owns(s)' PROVE Owns(s) /\ ~(c.pc = "idle")
      <3>1. sub[s].id \in Slots /\ read_uids'[sub[s].id] = s
        <4>1. sub[s] \in Subscriber
          BY SubFacts
        <4> QED
          BY <4>1, <1>1, <2>2, <2>9 DEF Owns, Resting, Subscriber
      <3>2. c.pc = "idle" => sub[s].id <= b.i
        BY <2>2, <2>5, <3>1, NumReadersAssumption DEF Slots
      <3> QED
        BY <1>1, <2>3, <2>4, <2>6, <3>1, <3>2 DEF Owns, Slots
    <2>10. Apart'
      BY <2>7, <2>9 DEF Apart, RegInv
    <2>11. (\A q \in Publishers : ~Starting(q)') => Counted'
      <3>1. CASE c.pc = "idle"
        BY <2>9, <3>1 DEF Counted
      <3>2. CASE c.pc # "idle"
        BY <2>5, <3>2 DEF Starting
      <3> QED
        BY <3>1, <3>2
    <2> QED
      BY <2>7, <2>8, <2>10, <2>11 DEF RegInv
  <1> QED
    BY <1>2, <1>3, <1>4, <1>5 DEF InitPublisher

(* Every step of a publisher.                                              *)
LEMMA PublisherReg ==
  ASSUME IInv, RegInv, NEW p \in Publishers, PublisherNext(p), QuietStart
  PROVE  RegInv'
  <1>1. num_readers \in Nat
    BY IInvParts, NumReadersAssumption DEF SharedOK
  <1> QED
    BY <1>1, StartReg, SendQuiet, CallQuiet, QuietReg DEF PublisherNext

-----------------------------------------------------------------------------
(* Subscribers.  A step replaces the locals of one of them.                *)
LEMMA SubUpdate ==
  ASSUME IInv, NEW s \in Subscribers, NEW c, SetSub(s, c)
  PROVE  sub'[s] = c /\ \A t \in Subscribers : t # s => sub'[t] = sub[t]
  BY IInvParts DEF SetSub

(* Going on with another program counter.                                  *)
LEMMA SubGotoUpdate ==
  ASSUME IInv, NEW s \in Subscribers, NEW pc, SubGoto(s, pc)
  PROVE  LET q == sub[s]
             c == sub'[s] IN
           /\ \A t \in Subscribers : t # s => sub'[t] = sub[t]
           /\ c.pc = pc /\ c.id = q.id /\ c.op = q.op /\ c.rp = q.rp /\ c.wp = q.wp
           /\ c.word = q.word /\ c.buf = q.buf
  <1>1. sub[s] \in Subscriber
    BY SubFacts
  <1> QED
    BY <1>1, SubUpdate DEF SubGoto, Subscriber

(* The last step of a call, and going back in it.                          *)
LEMMA SubReturnUpdate ==
  ASSUME IInv, NEW s \in Subscribers, NEW ret, SubReturn(s, ret)
  PROVE  /\ sub'[s].pc = "idle" /\ sub'[s].id = sub[s].id /\ sub'[s].buf = <<>>
         /\ \A t \in Subscribers : t # s => sub'[t] = sub[t]
  BY SubUpdate DEF SubReturn, SubAt

(* A call that starts over keeps its slot and forgets its buffer.         *)
LEMMA SubBackUpdate ==
  ASSUME IInv, NEW s \in Subscribers, NEW pc, SubBack(s, pc)
  PROVE  /\ sub'[s].pc = pc /\ sub'[s].id = sub[s].id /\ sub'[s].buf = <<>>
         /\ \A t \in Subscribers : t # s => sub'[t] = sub[t]
  BY SubUpdate DEF SubBack, SubAt

(* Replacing the program counter and one other field.                      *)
LEMMA SubLoadFacts ==
  ASSUME NEW q \in Subscriber, NEW x, NEW y
  PROVE  /\ LET c == [q EXCEPT !.pc = x, !.num = y] IN
              c.pc = x /\ c.id = q.id /\ c.num = y
         /\ LET c == [q EXCEPT !.pc = x, !.wp = y] IN
              c.pc = x /\ c.id = q.id /\ c.op = q.op /\ c.wp = y /\ c.rp = q.rp /\ c.buf = q.buf
         /\ LET c == [q EXCEPT !.pc = x, !.rp = y] IN
              c.pc = x /\ c.id = q.id /\ c.op = q.op /\ c.rp = y /\ c.buf = q.buf
         /\ LET c == [q EXCEPT !.pc = x, !.word = y] IN
              /\ c.pc = x /\ c.id = q.id /\ c.op = q.op /\ c.word = y
              /\ c.rp = q.rp /\ c.wp = q.wp /\ c.buf = q.buf
         /\ LET c == [q EXCEPT !.buf = y, !.pc = x] IN
              /\ c.pc = x /\ c.id = q.id /\ c.op = q.op /\ c.buf = y
              /\ c.rp = q.rp /\ c.wp = q.wp /\ c.word = q.word
  BY DEF Subscriber

(* The steps that load a field of the segment into a local.                *)
LEMMA SubLoadUpdate ==
  ASSUME IInv, NEW s \in Subscribers
  PROVE  LET q == sub[s]
             c == sub'[s]
             Others == \A t \in Subscribers : t # s => sub'[t] = sub[t] IN
           /\ LoadSlotCount(s) /\ c.pc # "evict_num" =>
                c.pc = "cas" /\ c.id = q.id /\ Others
           /\ ResetLoad(s) =>
                c.pc = "reset_store" /\ c.id = q.id /\ c.wp = write_pointer /\ Others
           /\ LoadReadPointer(s) =>
                /\ c.pc = "load_wp" /\ c.id = q.id /\ c.rp = read_pointers[q.id]
                /\ c.buf = q.buf /\ Others
           /\ CheckNewMessage(s) =>
                /\ c.id = q.id /\ Others
                /\ \/ c.pc = "idle"
                   \/ /\ c.pc = "load_size" /\ c.rp = q.rp /\ c.buf = q.buf
                      /\ q.rp.ptr # write_pointer.ptr
           /\ LoadSize(s) =>
                LET a == WordAt(q.rp.ptr) IN
                  /\ c.id = q.id /\ Others
                  /\ \/ c.pc = "aborted" /\ a \notin WordAddrs
                     \/ /\ c.pc = "check_size" /\ c.rp = q.rp /\ c.buf = q.buf
                        /\ c.word = Loaded(a)
           /\ CopyWord(s) =>
                LET k == Len(q.buf) + 1
                    a == WordAt(q.rp.ptr) + k IN
                  /\ c.id = q.id /\ Others
                  /\ \/ c.pc = "aborted" /\ a \notin WordAddrs
                     \/ /\ c.pc = IF k < Parts(q.word.size) THEN "copy" ELSE "store_rp"
                        /\ c.rp = q.rp /\ c.word = q.word
                        /\ c.buf = Append(q.buf, Loaded(a))
  <1> DEFINE q == sub[s]
             c == sub'[s]
  <1>0. q \in Subscriber
    BY SubFacts
  <1>1. ASSUME LoadSlotCount(s), c.pc # "evict_num"
        PROVE  SetSub(s, [q EXCEPT !.pc = "cas", !.num = num_readers])
    BY <1>1, SubGotoUpdate DEF LoadSlotCount
  <1>2. CheckNewMessage(s) =>
          \/ SubReturn(s, "empty") \/ SubReturn(s, "ready")
          \/ /\ SetSub(s, [q EXCEPT !.pc = "load_size", !.wp = write_pointer])
             /\ q.rp.ptr # write_pointer.ptr
    BY DEF CheckNewMessage
  <1>3. CopyWord(s) =>
          LET k == Len(q.buf) + 1
              a == WordAt(q.rp.ptr) + k IN
            \/ SetSub(s, [q EXCEPT !.buf = Append(q.buf, Loaded(a)),
                                   !.pc = IF k < Parts(q.word.size) THEN "copy" ELSE "store_rp"])
            \/ Faults(s, a)
    BY DEF CopyWord
  <1>4. ResetLoad(s) => SetSub(s, [q EXCEPT !.pc = "reset_store", !.wp = write_pointer])
    BY DEF ResetLoad
  <1>5. LoadReadPointer(s) =>
          SetSub(s, [q EXCEPT !.pc = "load_wp", !.rp = read_pointers[q.id]])
    BY DEF LoadReadPointer
  <1>6. LoadSize(s) =>
          LET a == WordAt(q.rp.ptr) IN
            \/ SetSub(s, [q EXCEPT !.pc = "check_size", !.word = Loaded(a)])
            \/ Faults(s, a)
    BY DEF LoadSize
  <1>7. LoadSlotCount(s) /\ c.pc # "evict_num" =>
          c.pc = "cas" /\ c.id = q.id /\ \A t \in Subscribers : t # s => sub'[t] = sub[t]
    <2> HAVE LoadSlotCount(s) /\ c.pc # "evict_num"
    <2> DEFINE y == num_readers
    <2>1. SetSub(s, [q EXCEPT !.pc = "cas", !.num = y])
      BY <1>1
    <2> HIDE DEF y
    <2>2. c = [q EXCEPT !.pc = "cas", !.num = y] /\ \A t \in Subscribers : t # s => sub'[t] = sub[t]
      BY <2>1, SubUpdate
    <2> QED
      BY <1>0, <2>2, SubLoadFacts DEF y
  <1>8. ResetLoad(s) =>
          /\ c.pc = "reset_store" /\ c.id = q.id /\ c.wp = write_pointer
          /\ \A t \in Subscribers : t # s => sub'[t] = sub[t]
    <2> HAVE ResetLoad(s)
    <2> DEFINE y == write_pointer
    <2>1. SetSub(s, [q EXCEPT !.pc = "reset_store", !.wp = y])
      BY <1>4
    <2> HIDE DEF y
    <2>2. c = [q EXCEPT !.pc = "reset_store", !.wp = y] /\ \A t \in Subscribers : t # s => sub'[t] = sub[t]
      BY <2>1, SubUpdate
    <2> QED
      BY <1>0, <2>2, SubLoadFacts DEF y
  <1>9. LoadReadPointer(s) =>
          /\ c.pc = "load_wp" /\ c.id = q.id /\ c.rp = read_pointers[q.id] /\ c.buf = q.buf
          /\ \A t \in Subscribers : t # s => sub'[t] = sub[t]
    <2> HAVE LoadReadPointer(s)
    <2> DEFINE y == read_pointers[q.id]
    <2>1. SetSub(s, [q EXCEPT !.pc = "load_wp", !.rp = y])
      BY <1>5
    <2> HIDE DEF y
    <2>2. c = [q EXCEPT !.pc = "load_wp", !.rp = y] /\ \A t \in Subscribers : t # s => sub'[t] = sub[t]
      BY <2>1, SubUpdate
    <2> QED
      BY <1>0, <2>2, SubLoadFacts DEF y
  <1>10. CheckNewMessage(s) =>
           /\ c.id = q.id /\ \A t \in Subscribers : t # s => sub'[t] = sub[t]
           /\ \/ c.pc = "idle"
              \/ /\ c.pc = "load_size" /\ c.rp = q.rp /\ c.buf = q.buf
                 /\ q.rp.ptr # write_pointer.ptr
    <2>1. ASSUME SetSub(s, [q EXCEPT !.pc = "load_size", !.wp = write_pointer])
          PROVE  /\ c.id = q.id /\ \A t \in Subscribers : t # s => sub'[t] = sub[t]
                 /\ c.pc = "load_size" /\ c.rp = q.rp /\ c.buf = q.buf
      <3>1. /\ c = [q EXCEPT !.pc = "load_size", !.wp = write_pointer]
            /\ \A t \in Subscribers : t # s => sub'[t] = sub[t]
        BY <2>1, SubUpdate
      <3> QED
        BY <1>0, <3>1, SubLoadFacts
    <2>2. ASSUME NEW ret, SubReturn(s, ret)
          PROVE  /\ c.id = q.id /\ \A t \in Subscribers : t # s => sub'[t] = sub[t]
                 /\ c.pc = "idle"
      BY <2>2, SubReturnUpdate
    <2> QED
      BY <1>2, <2>1, <2>2
  <1>11. LoadSize(s) =>
           LET a == WordAt(q.rp.ptr) IN
             /\ c.id = q.id /\ \A t \in Subscribers : t # s => sub'[t] = sub[t]
             /\ \/ c.pc = "aborted" /\ a \notin WordAddrs
                \/ /\ c.pc = "check_size" /\ c.rp = q.rp /\ c.buf = q.buf
                   /\ c.word = Loaded(a)
    <2> HAVE LoadSize(s)
    <2> DEFINE a == WordAt(q.rp.ptr)
               y == Loaded(a)
    <2>1. SetSub(s, [q EXCEPT !.pc = "check_size", !.word = y]) \/ Faults(s, a)
      BY <1>6
    <2> HIDE DEF a, y
    <2>2. CASE SetSub(s, [q EXCEPT !.pc = "check_size", !.word = y])
      <3>1. c = [q EXCEPT !.pc = "check_size", !.word = y]
            /\ \A t \in Subscribers : t # s => sub'[t] = sub[t]
        BY <2>2, SubUpdate
      <3> QED
        BY <1>0, <3>1, SubLoadFacts DEF a, y
    <2>3. CASE Faults(s, a)
      BY <2>3, SubGotoUpdate DEF Faults, a
    <2> QED
      BY <2>1, <2>2, <2>3
  <1>12. CopyWord(s) =>
           LET k == Len(q.buf) + 1
               a == WordAt(q.rp.ptr) + k IN
             /\ c.id = q.id /\ \A t \in Subscribers : t # s => sub'[t] = sub[t]
             /\ \/ c.pc = "aborted" /\ a \notin WordAddrs
                \/ /\ c.pc = IF k < Parts(q.word.size) THEN "copy" ELSE "store_rp"
                   /\ c.rp = q.rp /\ c.word = q.word
                   /\ c.buf = Append(q.buf, Loaded(a))
    <2> HAVE CopyWord(s)
    <2> DEFINE k == Len(q.buf) + 1
               a == WordAt(q.rp.ptr) + k
               y == Append(q.buf, Loaded(a))
               x == IF k < Parts(q.word.size) THEN "copy" ELSE "store_rp"
    <2>1. SetSub(s, [q EXCEPT !.buf = y, !.pc = x]) \/ Faults(s, a)
      BY <1>3
    <2> HIDE DEF y, x, a
    <2>2. CASE SetSub(s, [q EXCEPT !.buf = y, !.pc = x])
      <3>1. LET r == [q EXCEPT !.buf = y, !.pc = x] IN
              r.pc = x /\ r.id = q.id /\ r.buf = y /\ r.rp = q.rp /\ r.word = q.word
        BY <1>0, SubLoadFacts
      <3>2. c.pc = x /\ c.id = q.id /\ c.buf = y /\ c.rp = q.rp /\ c.word = q.word
            /\ \A t \in Subscribers : t # s => sub'[t] = sub[t]
        BY <2>2, <3>1, SubUpdate
      <3> QED
        BY <3>2 DEF x, y, a
    <2>3. CASE Faults(s, a)
      BY <2>3, SubGotoUpdate DEF Faults, a
    <2> QED
      BY <2>1, <2>2, <2>3
  <1> QED
    BY <1>7, <1>8, <1>9, <1>10, <1>11, <1>12

(* Taking a word for the size, and going on with it.                       *)
LEMMA TakeSizeUpdate ==
  ASSUME IInv, NEW s \in Subscribers, NEW n \in SizeIn(sub[s].word), TakeSize(s, n)
  PROVE  LET q == sub[s]
             c == sub'[s] IN
           /\ c.id = q.id /\ c.op = q.op /\ \A t \in Subscribers : t # s => sub'[t] = sub[t]
           /\ c.rp = q.rp /\ c.wp = q.wp /\ c.buf = q.buf
           /\ \/ c.pc = "aborted" /\ n # -1 /\ ~Passes(n)
              \/ c.pc = "wrap" /\ n = -1
              \/ c.pc \in {"skip", "copy"} /\ Passes(n)
           /\ c.word \in Words /\ c.word.kind = q.word.kind
           /\ c.pc \in {"skip", "copy"} => c.word.size = n
           /\ ~Passes(n) \/ n = q.word.size => c.word = q.word
  <1> DEFINE q == sub[s]
             c == sub'[s]
  <1>0. q \in Subscriber /\ q.word \in Words
    BY SubFacts DEF Subscriber
  <1>1. ASSUME NEW word \in Words, NEW pc \in {"skip", "copy"}, word.kind = q.word.kind,
               word.size = n, SetSub(s, [q EXCEPT !.word = word, !.pc = pc])
        PROVE  /\ c.id = q.id /\ c.op = q.op /\ \A t \in Subscribers : t # s => sub'[t] = sub[t]
               /\ c.rp = q.rp /\ c.wp = q.wp /\ c.buf = q.buf
               /\ c.pc = pc /\ c.word = word
    <2>1. c = [q EXCEPT !.word = word, !.pc = pc] /\ \A t \in Subscribers : t # s => sub'[t] = sub[t]
      BY <1>1, SubUpdate
    <2> QED
      BY <1>0, <2>1 DEF Subscriber
  <1>2. ASSUME NEW pc \in {"wrap", "aborted"}, SubGoto(s, pc)
        PROVE  /\ c.id = q.id /\ c.op = q.op /\ \A t \in Subscribers : t # s => sub'[t] = sub[t]
               /\ c.rp = q.rp /\ c.wp = q.wp /\ c.buf = q.buf
               /\ c.pc = pc /\ c.word = q.word
    BY <1>2, SubGotoUpdate
  <1>3. CASE \E pc \in {"wrap", "aborted"} : Stops(s, n, pc)
    <2>1. PICK pc \in {"wrap", "aborted"} : Stops(s, n, pc)
      BY <1>3
    <2>2. /\ c.id = q.id /\ c.op = q.op /\ \A t \in Subscribers : t # s => sub'[t] = sub[t]
          /\ c.rp = q.rp /\ c.wp = q.wp /\ c.buf = q.buf
          /\ c.pc = pc /\ c.word = q.word
      BY <1>2, <2>1 DEF Stops
    <2>3. (pc = "aborted" /\ n # -1 /\ ~Passes(n)) \/ (pc = "wrap" /\ n = -1)
      BY <2>1 DEF Stops
    <2> HIDE DEF q, c
    <2> QED
      BY <1>0, <2>2, <2>3 DEF q, c
  <1>4. CASE /\ Passes(n)
             /\ \E word \in Words, pc \in {"skip", "copy"} :
                  /\ word.kind = sub[s].word.kind /\ word.size = n
                  /\ n = sub[s].word.size => word = sub[s].word
                  /\ SetSub(s, [sub[s] EXCEPT !.word = word, !.pc = pc])
    <2>1. PICK word \in Words, pc \in {"skip", "copy"} :
            /\ word.kind = q.word.kind /\ word.size = n
            /\ n = q.word.size => word = q.word
            /\ SetSub(s, [q EXCEPT !.word = word, !.pc = pc])
      BY <1>4
    <2>2. /\ c.id = q.id /\ c.op = q.op /\ \A t \in Subscribers : t # s => sub'[t] = sub[t]
          /\ c.rp = q.rp /\ c.wp = q.wp /\ c.buf = q.buf
          /\ c.pc = pc /\ c.word = word
      BY <1>1, <2>1
    <2> HIDE DEF q, c
    <2> QED
      BY <1>4, <2>1, <2>2 DEF q, c
  <1> QED
    BY <1>3, <1>4, TakeSizeCases

(* A step of a subscriber that keeps its slot, or its lack of one: it      *)
(* leaves the count and the uids alone, gives its uid up only if it was    *)
(* evicted, and goes on in a call only if its uid is in the slot.          *)
Keeps(s) ==
  LET q == sub[s]
      c == sub'[s] IN
    /\ \A t \in Subscribers : t # s => sub'[t] = sub[t]
    /\ UNCHANGED <<num_readers, write_uid, read_uids, pub>>
    /\ c.id = q.id
    /\ c.pc \in Claiming <=> q.pc \in Claiming
    /\ c.pc \notin {"evict_num", "evict_valid", "evict_load", "evict_uid"}
    /\ c.pc \in Unregistered => q.pc \in Unregistered \/ read_uids[q.id] # s
    /\ c.pc \notin Unregistered \cup Unchecked => read_uids[q.id] = s

(* What any step of a subscriber does to the registrations: at most it     *)
(* enters its uid, and takes a slot that is counted and that nobody owns.  *)
Moves(s) ==
  LET c == sub'[s] IN
    /\ \A t \in Subscribers : t # s => sub'[t] = sub[t]
    /\ UNCHANGED <<write_uid, pub>>
    /\ num_readers' \in Nat /\ num_readers <= num_readers'
    /\ \A i \in Slots, t \in Subscribers : t # s => (read_uids'[i] = t <=> read_uids[i] = t)
    /\ Registered(s)'
    /\ Owns(s)' => c.id < num_readers' /\ \A t \in Subscribers : t # s /\ Owns(t) => sub[t].id # c.id

(* A subscriber takes no step while a publisher starts.                    *)
LEMMA NobodyStarts ==
  ASSUME IInv, RegInv, NEW s \in Subscribers, SubscriberNext(s), QuietStart
  PROVE  \A p \in Publishers : ~Starting(p)
  <1> SUFFICES ASSUME NEW p \in Publishers, Starting(p) PROVE FALSE
    OBVIOUS
  <1>1. sub' = sub
    BY DEF QuietStart
  <1>2. sub[s].pc \in {"closed", "idle"}
    BY DEF RegInv, Sole, Resting
  <1>3. sub \in [Subscribers -> Subscriber]
    BY IInvParts
  <1>4. CASE Connect(s)
    BY <1>1, <1>2, <1>3, <1>4 DEF Connect, SetSub, SubAt
  <1>5. CASE BeginReady(s) \/ BeginRecv(s)
    BY <1>1, <1>2, <1>3, <1>5 DEF BeginReady, BeginRecv, Call, SetSub, SubAt
  <1>6. CASE SubscriberStep(s)
    BY <1>2, <1>6 DEF SubscriberStep, RegisterStep, ResetStep, RecvStep, LoadSlotCount, EvictAll,
       EvictValid, EvictLoadUid, EvictUid, ClaimSlot, InitValid, InitReadPointer, InitUid,
       ResetValid, ResetLoad, ResetStore, CheckReadUid, CheckValid, LoadReadPointer,
       CheckNewMessage, LoadSize, CheckSize, WrapRead, SkipMessage, CopyWord, StoreReadPointer,
       CheckData
  <1> QED
    BY <1>4, <1>5, <1>6 DEF SubscriberNext

(* Such a step preserves the invariant.                                    *)
LEMMA MovesReg ==
  ASSUME IInv, RegInv, NEW s \in Subscribers, Moves(s), \A p \in Publishers : ~Starting(p)
  PROVE  RegInv'
  <1>0. \A t \in Subscribers : sub[t] \in Subscriber /\ SubSound(sub[t])
    BY IInvParts
  <1>1. ASSUME NEW t \in Subscribers, t # s
        PROVE  Registered(t)' /\ (Owns(t)' <=> Owns(t)) /\ sub'[t] = sub[t]
    <2>1. Registered(t) /\ sub'[t] = sub[t] /\ sub[t].id \in Slots \cup {-1}
      BY <1>0, <1>1 DEF RegInv, Moves, Subscriber
    <2>2. \A i \in Slots : read_uids'[i] = t <=> read_uids[i] = t
      BY <1>1 DEF Moves
    <2>3. Owns(t)' <=> Owns(t)
      BY <2>1, <2>2 DEF Owns
    <2>4. sub[t].pc \notin Unregistered \cup Unchecked => sub[t].id \in Slots
      BY <1>0, <2>1 DEF SubSound, Registered, Evicting, Unregistered
    <2> QED
      BY <2>1, <2>2, <2>3, <2>4 DEF Registered, Evicting
  <1>2. \A t \in Subscribers : Registered(t)'
    BY <1>1 DEF Moves
  <1>3. \A p \in Publishers : Sole(p)'
    <2> SUFFICES ASSUME NEW p \in Publishers PROVE Sole(p)'
      OBVIOUS
    <2>1. Sole(p) /\ ~Starting(p) /\ pub'[p] = pub[p] /\ write_uid' = write_uid
      BY DEF RegInv, Moves
    <2>2. pub[p].num \in Nat /\ num_readers \in Nat /\ num_readers' \in Nat
          /\ num_readers <= num_readers'
      BY PubFacts, NumReadersAssumption DEF Publisher, SharedOK, Moves
    <2> QED
      BY <2>1, <2>2 DEF Sole, Starting
  <1>4. Counted'
    <2> SUFFICES ASSUME NEW t \in Subscribers, Owns(t)' PROVE sub'[t].id < num_readers'
      BY DEF Counted
    <2>1. CASE t = s
      BY <2>1 DEF Moves
    <2>2. CASE t # s
      <3>1. sub[t].id < num_readers /\ sub'[t] = sub[t]
        BY <1>1, <2>2 DEF RegInv, Counted
      <3>2. sub[t].id \in Int /\ num_readers \in Nat /\ num_readers' \in Nat
            /\ num_readers <= num_readers'
        BY <1>0, IInvParts, NumReadersAssumption DEF Subscriber, Slots, SharedOK, Moves
      <3> QED
        BY <3>1, <3>2
    <2> QED
      BY <2>1, <2>2
  <1>5. Apart'
    <2> SUFFICES ASSUME NEW t \in Subscribers, NEW u \in Subscribers, Owns(t)', Owns(u)', t # u
                 PROVE  sub'[t].id # sub'[u].id
      BY DEF Apart
    <2>1. CASE t # s /\ u # s
      BY <1>1, <2>1 DEF RegInv, Apart
    <2>2. CASE t = s \/ u = s
      BY <1>1, <2>2 DEF Moves
    <2> QED
      BY <2>1, <2>2
  <1> QED
    BY <1>2, <1>3, <1>4, <1>5 DEF RegInv

(* A subscriber step that keeps its slot is one of the moves the          *)
(* invariant allows.                                                      *)
LEMMA KeepsMoves ==
  ASSUME IInv, RegInv, NEW s \in Subscribers, Keeps(s), \A p \in Publishers : ~Starting(p)
  PROVE  Moves(s)
  <1>1. sub[s] \in Subscriber /\ SubSound(sub[s]) /\ Registered(s)
    BY SubFacts DEF RegInv
  <1>2. Owns(s)' <=> Owns(s)
    BY DEF Keeps, Owns, Claiming
  <1>3. Registered(s)'
    BY <1>1 DEF Registered, Evicting, Keeps
  <1>4. num_readers \in Nat /\ num_readers' = num_readers
    BY IInvParts, NumReadersAssumption DEF SharedOK, Keeps
  <1>5. Counted /\ Apart
    BY DEF RegInv
  <1> QED
    BY <1>2, <1>3, <1>4, <1>5 DEF Moves, Keeps, Counted, Apart

(* All steps but those of msgq_init_subscriber that claim a slot or enter  *)
(* the uid are such steps.                                                 *)
LEMMA StepKeeps ==
  ASSUME IInv, RegInv, NEW s \in Subscribers, SubscriberNext(s), NoEviction,
         ~Connect(s), ~ClaimSlot(s), ~InitUid(s)
  PROVE  Keeps(s)
  <1> DEFINE q == sub[s]
             c == sub'[s]
  <1>0. q \in Subscriber /\ Registered(s) /\ c.pc # "evict_num"
    BY SubFacts DEF RegInv, NoEviction
  <1> USE DEF Keeps, Unregistered, Claiming, Unchecked, Registered, Evicting
  <1>1. CASE BeginReady(s) \/ BeginRecv(s)
    BY <1>0, <1>1, SubUpdate DEF BeginReady, BeginRecv, Call, SubAt, shared, queue, slots
  <1>2. CASE LoadSlotCount(s)
    BY <1>0, <1>2, SubLoadUpdate DEF LoadSlotCount, shared, queue, slots
  <1>3. CASE EvictAll(s) \/ EvictValid(s) \/ EvictLoadUid(s) \/ EvictUid(s)
    BY <1>0, <1>3 DEF EvictAll, EvictValid, EvictLoadUid, EvictUid
  <1>4. CASE InitValid(s)
    BY <1>0, <1>4, SubGotoUpdate DEF InitValid, queue
  <1>5. CASE InitReadPointer(s)
    BY <1>0, <1>5, SubGotoUpdate DEF InitReadPointer, queue
  <1>6. CASE ResetValid(s)
    BY <1>0, <1>6, SubGotoUpdate DEF ResetValid, queue
  <1>7. CASE ResetLoad(s)
    BY <1>0, <1>7, SubLoadUpdate DEF ResetLoad, shared, queue, slots
  <1>8. CASE ResetStore(s)
    BY <1>0, <1>8, SubReturnUpdate, SubBackUpdate DEF ResetStore, Restart, queue
  <1>9. CASE CheckReadUid(s)
    BY <1>0, <1>9, SubGotoUpdate DEF CheckReadUid, shared, queue, slots
  <1>10. CASE CheckValid(s)
    BY <1>0, <1>10, SubGotoUpdate DEF CheckValid, shared, queue, slots
  <1>11. CASE LoadReadPointer(s)
    BY <1>0, <1>11, SubLoadUpdate DEF LoadReadPointer, shared, queue, slots
  <1>12. CASE CheckNewMessage(s)
    BY <1>0, <1>12, SubLoadUpdate DEF CheckNewMessage, shared, queue, slots
  <1>13. CASE LoadSize(s)
    BY <1>0, <1>13, SubLoadUpdate DEF LoadSize, shared, queue, slots
  <1>14. CASE CheckSize(s)
    <2>1. CASE \E n \in SizeIn(q.word) : TakeSize(s, n)
      BY <1>0, <1>14, <2>1, TakeSizeUpdate DEF CheckSize, shared, queue, slots
    <2> QED
      BY <1>0, <1>14, <2>1, SubBackUpdate DEF CheckSize, shared, queue, slots
  <1>15. CASE WrapRead(s)
    BY <1>0, <1>15, SubBackUpdate DEF WrapRead, Restart, queue
  <1>16. CASE SkipMessage(s)
    BY <1>0, <1>16, SubBackUpdate DEF SkipMessage, Restart, queue
  <1>17. CASE CopyWord(s)
    BY <1>0, <1>17, SubLoadUpdate DEF CopyWord, shared, queue, slots
  <1>18. CASE StoreReadPointer(s)
    BY <1>0, <1>18, SubGotoUpdate DEF StoreReadPointer, queue
  <1>19. CASE CheckData(s)
    BY <1>0, <1>19, SubReturnUpdate, SubBackUpdate DEF CheckData, shared, queue, slots
  <1> QED
    BY <1>1, <1>2, <1>3, <1>4, <1>5, <1>6, <1>7, <1>8, <1>9, <1>10, <1>11, <1>12, <1>13, <1>14,
       <1>15, <1>16, <1>17, <1>18, <1>19
       DEF SubscriberNext, SubscriberStep, RegisterStep, ResetStep, RecvStep

(* msgq_init_subscriber: the subscriber whose compare-and-swap succeeds    *)
(* takes the first slot that is not counted, so one that nobody owns.      *)
LEMMA ClaimMoves ==
  ASSUME IInv, RegInv, NEW s \in Subscribers, Connect(s) \/ ClaimSlot(s) \/ InitUid(s),
         \A p \in Publishers : ~Starting(p)
  PROVE  Moves(s)
  <1> DEFINE q == sub[s]
             c == sub'[s]
  <1>0. /\ q \in Subscriber /\ SubSound(q) /\ Registered(s)
        /\ read_uids \in [Slots -> Subscribers \cup {NoUid}]
        /\ num_readers \in Nat /\ Counted /\ Apart
    BY IInvParts, NumReadersAssumption DEF SharedOK, RegInv
  <1>1. CASE Connect(s)
    <2>1. /\ c.pc = "load_num" /\ c.id = -1 /\ q.pc = "closed"
          /\ \A t \in Subscribers : t # s => sub'[t] = sub[t]
      BY <1>1, SubUpdate DEF Connect, SubAt
    <2>2. UNCHANGED <<write_uid, pub, num_readers, read_uids>>
      BY <1>1 DEF Connect, shared, queue, slots
    <2>3. Registered(s)' /\ ~Owns(s)'
      BY <1>0, <2>1, <2>2 DEF Registered, Owns, Unregistered, Evicting
    <2> QED
      BY <1>0, <2>1, <2>2, <2>3 DEF Moves
  <1>2. CASE ClaimSlot(s)
    <2>1. UNCHANGED <<write_uid, pub, read_uids>> /\ q.pc = "cas"
      BY <1>2 DEF ClaimSlot, slots
    <2>2. \A i \in Slots : read_uids[i] # s
      BY <1>0, <2>1 DEF Registered, Unregistered
    <2>3. CASE num_readers = q.num
      <3>1. /\ num_readers' = num_readers + 1 /\ c.pc = "init_valid" /\ c.id = q.num
            /\ \A t \in Subscribers : t # s => sub'[t] = sub[t]
        BY <1>2, <2>3, SubUpdate DEF ClaimSlot, SubAt
      <3>2. Registered(s)'
        BY <2>1, <2>2, <3>1 DEF Registered, Unregistered, Evicting
      <3>3. \A t \in Subscribers : Owns(t) => sub[t].id # c.id
        BY <1>0, <2>3, <3>1 DEF Counted
      <3>4. num_readers' \in Nat /\ num_readers <= num_readers' /\ c.id < num_readers'
        BY <1>0, <2>3, <3>1
      <3> QED
        BY <2>1, <3>1, <3>2, <3>3, <3>4 DEF Moves
    <2>4. CASE num_readers # q.num
      <3>1. /\ num_readers' = num_readers /\ c.pc = "load_num" /\ c.id = q.id
            /\ \A t \in Subscribers : t # s => sub'[t] = sub[t]
        BY <1>2, <2>4, SubBackUpdate DEF ClaimSlot
      <3>2. Registered(s)' /\ ~Owns(s)'
        BY <1>0, <2>1, <2>2, <3>1 DEF Registered, Unregistered, Evicting, Owns, Subscriber
      <3> QED
        BY <1>0, <2>1, <3>1, <3>2 DEF Moves
    <2> QED
      BY <2>3, <2>4
  <1>3. CASE InitUid(s)
    <2>1. /\ UNCHANGED <<write_uid, pub, num_readers>> /\ q.pc = "init_uid"
          /\ read_uids' = [read_uids EXCEPT ![q.id] = s]
      BY <1>3 DEF InitUid, queue
    <2>2. /\ c.pc = "reset_valid" /\ c.id = q.id
          /\ \A t \in Subscribers : t # s => sub'[t] = sub[t]
      BY <1>3, SubGotoUpdate DEF InitUid
    <2>3. q.id \in Slots /\ Owns(s) /\ q.id # -1
      BY <1>0, <2>1 DEF SubSound, Owns, Slots
    <2>4. \A i \in Slots : read_uids[i] # s
      BY <1>0, <2>1 DEF Registered, Unregistered
    <2>5. ASSUME NEW t \in Subscribers, t # s PROVE read_uids[q.id] # t
      <3>1. Registered(t)
        BY DEF RegInv
      <3>2. read_uids[q.id] = t => sub[t].id = q.id /\ Owns(t)
        BY <2>3, <3>1 DEF Registered, Owns
      <3> QED
        BY <1>0, <2>3, <2>5, <3>2 DEF Apart
    <2>6. \A i \in Slots, t \in Subscribers : t # s => (read_uids'[i] = t <=> read_uids[i] = t)
      BY <1>0, <2>1, <2>5
    <2>7. read_uids'[q.id] = s /\ \A i \in Slots : read_uids'[i] = s => i = q.id
      BY <1>0, <2>1, <2>3, <2>4
    <2>8. Registered(s)'
      BY <2>2, <2>7 DEF Registered, Evicting, Unregistered
    <2>9. q.id < num_readers /\ \A t \in Subscribers : t # s /\ Owns(t) => sub[t].id # q.id
      BY <1>0, <2>3 DEF Counted, Apart
    <2> QED
      BY <1>0, <2>1, <2>2, <2>6, <2>8, <2>9 DEF Moves
  <1> QED
    BY <1>1, <1>2, <1>3

(* Every step of a subscriber.                                             *)
LEMMA SubscriberReg ==
  ASSUME IInv, RegInv, NEW s \in Subscribers, SubscriberNext(s), QuietStart, NoEviction
  PROVE  RegInv'
  <1>1. \A p \in Publishers : ~Starting(p)
    BY NobodyStarts
  <1>2. CASE Connect(s) \/ ClaimSlot(s) \/ InitUid(s)
    BY <1>1, <1>2, ClaimMoves, MovesReg
  <1>3. CASE ~Connect(s) /\ ~ClaimSlot(s) /\ ~InitUid(s)
    BY <1>1, <1>3, StepKeeps, KeepsMoves, MovesReg
  <1> QED
    BY <1>2, <1>3

-----------------------------------------------------------------------------
(* The invariant holds of a fresh segment, and every step preserves it.    *)
LEMMA InitReg == Init => RegInv
  <1> SUFFICES ASSUME Init PROVE RegInv
    OBVIOUS
  <1>1. \A s \in Subscribers : sub[s].pc = "closed" /\ sub[s].id = -1
    BY DEF Init, SubAt
  <1>2. \A p \in Publishers : pub[p].pc = "closed"
    BY DEF Init, PubAt
  <1>3. \A i \in Slots : read_uids[i] = NoUid
    BY DEF Init
  <1>4. NoUid \notin Subscribers
    BY ProcessAssumption
  <1>5. \A s \in Subscribers : Registered(s) /\ ~Owns(s)
    BY <1>1, <1>3, <1>4 DEF Registered, Evicting, Unregistered, Owns
  <1>6. \A p \in Publishers : Sole(p)
    BY <1>2 DEF Sole, Starting, InSend
  <1> QED
    BY <1>5, <1>6 DEF RegInv, Counted, Apart

(* Every step keeps the registration invariant, in runs without takeover  *)
(* under a live subscriber and without eviction.                          *)
LEMMA NextReg ==
  IInv /\ RegInv /\ [Next /\ QuietStart /\ NoEviction]_vars => RegInv'
  <1> SUFFICES ASSUME IInv, RegInv, [Next /\ QuietStart /\ NoEviction]_vars PROVE RegInv'
    OBVIOUS
  <1>1. CASE Next /\ QuietStart /\ NoEviction
    BY <1>1, PublisherReg, SubscriberReg DEF Next
  <1>2. CASE UNCHANGED vars
    BY <1>2 DEF vars, shared, queue, slots, RegInv, Sole, Registered, Counted, Apart, Owns,
       Starting, Resting, Evicting
  <1> QED
    BY <1>1, <1>2

(* The registration invariant says more than the property.                *)
LEMMA RegOwners == RegInv => OwnersCounted
  BY DEF RegInv, OwnersCounted, Wiping, Counted, Apart

(* Every subscriber that owns a slot is counted by the publishers, and no  *)
(* two own the same, for any number of slots and processes, in every       *)
(* interleaving of their calls: the compare-and-swap of                    *)
(* msgq_init_subscriber needs no lock, as long as publishers start while   *)
(* no call is in progress and no subscriber finds all slots taken.         *)
THEOREM SlotsExclusive == QuietSpec => []OwnersCounted
  <1>1. QuietSpec => [](IInv /\ RegInv)
    <2>1. Init => IInv /\ RegInv
      BY InitInv, InitReg
    <2>2. IInv /\ RegInv /\ [Next /\ QuietStart /\ NoEviction]_vars => (IInv /\ RegInv)'
      BY NextInv, NextReg
    <2> QED
      BY <2>1, <2>2, PTL DEF QuietSpec
  <1> QED
    BY <1>1, RegOwners, PTL
=============================================================================

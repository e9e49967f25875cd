---------------------------- MODULE MsgqDelivery ----------------------------
(***************************************************************************)
(* Delivery: a receive never takes a wrong word for a size prefix, and     *)
(* returns one message whole, for every size of the segment, any number of *)
(* slots, publishers and subscribers, and in every interleaving that the   *)
(* timing assumptions of SteadySpec leave.                                 *)
(*                                                                         *)
(* The argument.  The data area is a chain of messages: behind each one    *)
(* follows the tag of the next, or the write position.  The publisher cuts *)
(* the chain at the write position, and first invalidates every reader     *)
(* whose position, or whose next message, would be in the area cut out.    *)
(* So a reader that is still valid after it has loaded a size, or copied a *)
(* payload, has loaded them from the chain.                                *)
(*                                                                         *)
(* The last part is about msgq_all_readers_updated: see there.             *)
(***************************************************************************)
EXTENDS MsgqRegistration

-----------------------------------------------------------------------------
(* The program counters of msgq_msg_send from the load of num_readers to   *)
(* the wrap-around, and from the invalidation of the area to the end.      *)
BeforeWrap == {"load_wp", "wrap_tag", "beyond", "beyond_inv", "wrap_wp"}
Writing    == {"area", "area_inv", "size", "copy", "publish"}

(* No send has more cycles behind it than messages: the cycle counter does *)
(* not overflow before MaxSends messages.                                  *)
CycleBound ==
  /\ write_pointer.cyc <= sent
  /\ \A p \in Publishers :
       pub[p].pc \in {"check_uid", "load_num"} \cup BeforeWrap /\ write_uid = p =>
         write_pointer.cyc < pub[p].msg /\ pub[p].msg <= sent

(* A word that a reader may take for a tag; the words of the payload of a  *)
(* message at word a, up to the len-th; the word behind the message.       *)
Start(w) == w.kind \in {"size", "wrap"}
MessageIn(d, a, n, m, len) == \A k \in 1 .. len : d[a + k] = Payload(n, m, k)
Behind(a, n) == a + 1 + Parts(n)

(* What the publisher with locals b has written so far.                    *)
WriterOK(b, W, d) ==
  LET h == WordAt(W.ptr) IN
    /\ b.pc \in InSend \ {"load_num", "load_wp"} => b.wp = W
    /\ b.pc \in BeforeWrap \ {"load_wp"} => MustWrap(b.wp.ptr, b.size)
    /\ b.pc \in {"beyond", "beyond_inv", "wrap_wp"} => d[h] = WrapTag
    /\ b.pc \in {"copy", "publish"} => d[h] = SizeTag(b.size, b.msg)
    /\ b.pc = "copy" => MessageIn(d, h, b.size, b.msg, b.part - 1)
    /\ b.pc = "publish" => MessageIn(d, h, b.size, b.msg, Parts(b.size))

(* The chain of messages in data d, cut at word h.  If open, the message   *)
(* at h is being written.                                                  *)
Linked(d, h, a) ==
  /\ MessageIn(d, a, d[a].size, d[a].msg, Parts(d[a].size))
  /\ Behind(a, d[a].size) = h \/ Start(d[Behind(a, d[a].size)])

Chain(d, h, open) ==
  /\ \A a \in WordAddrs : d[a].kind = "size" /\ ~(open /\ a = h) => Linked(d, h, a)
  /\ \A a \in WordAddrs : d[a].kind = "size" /\ a < h => Behind(a, d[a].size) <= h
  /\ \A a \in WordAddrs : a < h => d[a].kind # "wrap"
  /\ (\E a \in WordAddrs : d[a].kind = "wrap") \/ h > 0 => Start(d[0])

Open == \E p \in Publishers : pub[p].pc \in {"copy", "publish"}

(* A position on the chain.                                                *)
GoodPos(r, W, d) ==
  /\ r.cyc <= W.cyc
  /\ r.cyc = W.cyc => r.ptr <= W.ptr
  /\ r.ptr = W.ptr \/ Start(d[WordAt(r.ptr)])

(* The publisher has passed slot i in its loop over the area, or does not  *)
(* count it.  A position then is not inside the area, and one that is held *)
(* to read from is not in it at all.                                       *)
Passed(b, i)  == i >= b.num \/ b.pc \in {"size", "copy", "publish"} \/ i < b.i
Inside(b, r)  == InArea(r, b.wp, b.size) /\ r.ptr # b.wp.ptr

Clear(b, W, i, r) ==
  /\ b.pc \in BeforeWrap /\ i >= b.num => r = W
  /\ b.pc \in Writing /\ Passed(b, i) => ~Inside(b, r)
ClearReset(b, W, i, r) ==
  /\ Clear(b, W, i, r)
  /\ b.pc = "area_inv" /\ i = b.i => ~Inside(b, r)
Outside(b, i, r) == b.pc \in Writing /\ Passed(b, i) => ~InArea(r, b.wp, b.size)

(* The program counters of a subscriber that reads, or may begin to, from  *)
(* the position in its slot; that holds the position in a local; and that  *)
(* holds a size prefix too.                                                *)
Sized  == {"check_size", "wrap", "skip", "copy", "store_rp"}
Holds  == {"load_size"} \cup Sized
Reads  == {"idle", "check_uid", "check_valid", "load_rp", "load_wp", "check_data"} \cup Holds

(* The message at the position held is whole, and the next position is on  *)
(* the chain.                                                              *)
NextPos(q) == Pos(q.rp.cyc, q.rp.ptr + Total(q.word.size))
HoldsSize(q, W, d) ==
  /\ MessageIn(d, WordAt(q.rp.ptr), q.word.size, q.word.msg, Parts(q.word.size))
  /\ GoodPos(NextPos(q), W, d)
  /\ q.rp.ptr < W.ptr => NextPos(q).ptr <= W.ptr
HoldsWrap(q, W, d) == q.rp.cyc < W.cyc /\ Start(d[0])

Held(q, W, d) ==
  /\ q.pc = "load_size" => /\ Start(d[WordAt(q.rp.ptr)])
                           /\ q.rp.cyc = W.cyc => q.rp.ptr < W.ptr
  /\ q.pc \in Sized => /\ Start(q.word)
                       /\ q.word.kind = "size" => HoldsSize(q, W, d)
                       /\ q.word.kind = "wrap" => HoldsWrap(q, W, d)

(* The words copied so far are those of the message.                       *)
Copied(q) ==
  /\ q.pc = "wrap" => q.word.kind = "wrap"
  /\ q.pc \in {"copy", "store_rp", "check_data"} =>
       \A k \in 1 .. Len(q.buf) : q.buf[k] = Payload(q.word.size, q.word.msg, k)
  /\ q.pc \in {"store_rp", "check_data"} =>
       q.word.size \in MsgSizes /\ Len(q.buf) = Parts(q.word.size)

(* What a reader with locals q and position r knows if it is valid, and    *)
(* where a publisher with locals b lets it be.                             *)
Knows(q, r, W, d) ==
  /\ GoodPos(r, W, d)
  /\ q.pc \in {"load_wp"} \cup Holds => q.rp = r
  /\ q.pc \in Holds => Held(q, W, d)
  /\ Copied(q)
Allows(b, q, r, W) ==
  /\ Clear(b, W, q.id, r)
  /\ q.pc \in Holds => Outside(b, q.id, q.rp)

Valid(s) == sub[s].pc \in Reads /\ read_uids[sub[s].id] = s /\ read_valids[sub[s].id]

ReaderOK(s) ==
  LET q == sub[s]
      r == read_pointers[q.id] IN
    Valid(s) => /\ Knows(q, r, write_pointer, data)
                /\ \A p \in Publishers : Allows(pub[p], q, r, write_pointer)
ResetOK(s) ==
  LET q == sub[s] IN
    q.pc = "reset_store" =>
      /\ GoodPos(q.wp, write_pointer, data)
      /\ \A p \in Publishers : ClearReset(pub[p], write_pointer, q.id, q.wp)

WriteInv ==
  /\ CycleBound
  /\ \A p \in Publishers : WriterOK(pub[p], write_pointer, data)
  /\ Chain(data, WordAt(write_pointer.ptr), Open)
ReadInv ==
  /\ \A s \in Subscribers : ReaderOK(s) /\ ResetOK(s)
  /\ NoGarbage
  /\ DeliveredIntact

(* The inductive invariant, with IInv and RegInv.                          *)
DeliveryInv == WriteInv /\ ReadInv

-----------------------------------------------------------------------------
(* Words.  A tag is one, a payload word is not.                            *)
LEMMA KindFacts ==
  /\ Start(WrapTag) /\ WrapTag.kind = "wrap" /\ WrapTag \in Words
  /\ \A n, m \in Nat : /\ Start(SizeTag(n, m)) /\ SizeTag(n, m).kind = "size"
                       /\ SizeTag(n, m).size = n /\ SizeTag(n, m).msg = m
                       /\ SizeTag(n, m) \in Words
  /\ \A n, m, k \in Nat : /\ ~Start(Payload(n, m, k)) /\ Payload(n, m, k).kind = "data"
                          /\ Payload(n, m, k).size = n /\ Payload(n, m, k).msg = m
                          /\ Payload(n, m, k) \in Words
  BY DEF Start, WrapTag, SizeTag, Payload, Word, Words

(* The words of the data area are numbered from 0 on without a gap.        *)
LEMMA Between ==
  ASSUME NEW a \in WordAddrs, NEW b \in WordAddrs, NEW x \in Int, a <= x, x <= b
  PROVE  x \in WordAddrs
  <1>1. Size \div 8 \in Nat
    BY SizeAssumption
  <1> QED
    BY <1>1 DEF WordAddrs

(* The data area is never empty, and its addresses are numbers.           *)
LEMMA ZeroAddr ==
  ASSUME NEW a \in WordAddrs
  PROVE  0 \in WordAddrs /\ a \in Nat
  <1>1. Size \div 8 \in Nat
    BY SizeAssumption
  <1> QED
    BY <1>1 DEF WordAddrs

(* The tags of the data area belong to messages that fit.                  *)
TagsFit(d) == \A a \in WordAddrs : d[a].kind = "size" =>
                d[a].size \in MsgSizes /\ Behind(a, d[a].size) \in WordAddrs

(* A message that fits ends before the last word.                          *)
LEMMA BehindFacts ==
  ASSUME NEW a \in Nat, NEW n \in MsgSizes, Fits(8 * a, n)
  PROVE  /\ Behind(a, n) \in WordAddrs /\ 8 * Behind(a, n) = 8 * a + Total(n)
         /\ Parts(n) \in Nat /\ Parts(n) > 0 /\ Behind(a, n) > a + 1
         /\ \A k \in 1 .. Parts(n) : a + k \in WordAddrs /\ a + k < Behind(a, n)
  <1>1. /\ Total(n) \in Nat /\ Parts(n) \in Nat /\ Total(n) = 8 + 8 * Parts(n)
        /\ Parts(n) > 0
    BY MsgSizeFacts, TotalFacts
  <1>2. 8 * a + Total(n) + 8 <= Size
    BY DEF Fits
  <1>3. 8 * (a + 1 + Parts(n)) + 8 <= Size
    BY <1>1, <1>2
  <1>4. a + 1 + Parts(n) <= (Size \div 8) - 1
    BY <1>1, <1>3, SizeAssumption
  <1>5. Behind(a, n) = a + 1 + Parts(n)
    BY DEF Behind
  <1> QED
    BY <1>1, <1>4, <1>5, SizeAssumption DEF WordAddrs

(* Soundness, read as a fact about the data area: behind every size       *)
(* prefix there is room for its message.                                  *)
LEMMA TagsFitFacts ==
  ASSUME SharedOK
  PROVE  TagsFit(data)
  <1> SUFFICES ASSUME NEW a \in WordAddrs, data[a].kind = "size"
               PROVE  data[a].size \in MsgSizes /\ Behind(a, data[a].size) \in WordAddrs
    BY DEF TagsFit
  <1>1. data[a].size \in MsgSizes /\ Fits(8 * a, data[a].size) /\ a \in Nat
    BY DEF SharedOK, SoundTag, WordAddrs
  <1> QED
    BY <1>1, BehindFacts

-----------------------------------------------------------------------------
(* The chain.  Storing a tag at the write position keeps it.               *)
LEMMA ChainTag ==
  ASSUME NEW d \in [WordAddrs -> Words], TagsFit(d), NEW h \in WordAddrs, Chain(d, h, FALSE),
         NEW w \in Words, Start(w), w.kind = "wrap" => h > 0
  PROVE  Chain([d EXCEPT ![h] = w], h, w.kind = "size")
  <1> DEFINE e == [d EXCEPT ![h] = w]
  <1>0. /\ e[h] = w /\ \A a \in WordAddrs : a # h => e[a] = d[a]
        /\ \A a \in WordAddrs : a \in Int
        /\ h \in Nat
    BY DEF WordAddrs
  <1> HIDE DEF e
  <1>1. ASSUME NEW a \in WordAddrs, e[a].kind = "size", ~(w.kind = "size" /\ a = h)
        PROVE  Linked(e, h, a)
    <2>1. a # h /\ e[a] = d[a] /\ Linked(d, h, a) /\ a \in Int
      BY <1>0, <1>1 DEF Chain
    <2> DEFINE n == d[a].size
    <2>2. /\ n \in MsgSizes /\ Behind(a, n) \in WordAddrs /\ Parts(n) \in Nat
          /\ Behind(a, n) = a + 1 + Parts(n)
      BY <1>1, <2>1, MsgSizeFacts, TotalFacts DEF TagsFit, Behind
    <2>3. a < h => Behind(a, n) <= h
      BY <1>1, <2>1 DEF Chain
    <2>4. ASSUME NEW k \in 1 .. Parts(n) PROVE a + k # h /\ a + k \in WordAddrs
      <3>1. a + k \in Int /\ a + k < Behind(a, n) /\ a < a + k
        BY <2>1, <2>2
      <3>2. Behind(a, n) \in Int /\ a + k # h /\ a + k <= Behind(a, n) /\ a <= a + k
        BY <1>0, <2>1, <2>2, <2>3, <3>1
      <3> QED
        BY <2>2, <3>1, <3>2, Between
    <2>5. MessageIn(e, a, n, d[a].msg, Parts(n))
      BY <1>0, <2>1, <2>4 DEF Linked, MessageIn
    <2>6. Behind(a, n) = h \/ Start(e[Behind(a, n)])
      BY <1>0, <2>1, <2>2 DEF Linked
    <2> QED
      BY <2>1, <2>5, <2>6 DEF Linked
  <1>2. ASSUME NEW a \in WordAddrs, a < h
        PROVE  /\ e[a].kind # "wrap"
               /\ e[a].kind = "size" => Behind(a, e[a].size) <= h
    <2>1. a \in Int /\ a # h /\ e[a] = d[a]
      BY <1>0, <1>2
    <2> QED
      BY <1>2, <2>1 DEF Chain
  <1>3. ASSUME (\E a \in WordAddrs : e[a].kind = "wrap") \/ h > 0 PROVE Start(e[0])
    <2>1. 0 \in WordAddrs
      BY ZeroAddr
    <2>2. CASE h = 0
      BY <1>0, <2>2
    <2>3. CASE h > 0
      BY <1>0, <2>1, <2>3 DEF Chain
    <2> QED
      BY <1>0, <2>2, <2>3
  <1> QED
    BY <1>1, <1>2, <1>3 DEF Chain, e

(* Starting a new cycle cuts the chain at the first word instead of at the *)
(* wrap-around tag.                                                        *)
LEMMA ChainWrap ==
  ASSUME NEW d \in [WordAddrs -> Words], NEW h \in WordAddrs, Chain(d, h, FALSE), Start(d[h])
  PROVE  Chain(d, 0, FALSE)
  <1>1. \A a \in WordAddrs : ~(a < 0)
    BY ZeroAddr
  <1>2. ASSUME NEW a \in WordAddrs, d[a].kind = "size" PROVE Linked(d, 0, a)
    BY <1>2 DEF Chain, Linked
  <1> QED
    BY <1>1, <1>2 DEF Chain

(* The payload is stored behind the tag, word by word: no tag is left      *)
(* between the two.                                                        *)
LEMMA ChainPayload ==
  ASSUME NEW d \in [WordAddrs -> Words], TagsFit(d), NEW h \in WordAddrs, Chain(d, h, TRUE),
         NEW n \in Nat, NEW m \in Nat, NEW k \in Nat \ {0}, h + k \in WordAddrs,
         MessageIn(d, h, n, m, k - 1)
  PROVE  Chain([d EXCEPT ![h + k] = Payload(n, m, k)], h, TRUE)
  <1> DEFINE x == h + k
             e == [d EXCEPT ![x] = Payload(n, m, k)]
  <1>0. /\ e[x] = Payload(n, m, k) /\ \A a \in WordAddrs : a # x => e[a] = d[a]
        /\ h \in Nat /\ x \in Nat /\ h < x /\ x = h + k
    BY ZeroAddr
  <1>1. e[x].kind = "data"
    BY <1>0, KindFacts
  <1>2. ASSUME NEW a \in WordAddrs, h < a, a < x PROVE d[a].kind = "data"
    <2>1. a \in Nat /\ a - h \in 1 .. k - 1 /\ h + (a - h) = a
      BY <1>0, <1>2, ZeroAddr
    <2>2. d[a] = Payload(n, m, a - h) /\ a - h \in Nat
      BY <2>1 DEF MessageIn
    <2> QED
      BY <2>2, KindFacts
  <1> HIDE DEF x, e
  <1>3. ASSUME NEW a \in WordAddrs, e[a].kind = "size", a # h PROVE Linked(e, h, a)
    <2>1. a # x /\ e[a] = d[a] /\ Linked(d, h, a) /\ a \in Nat
      BY <1>0, <1>1, <1>3, ZeroAddr DEF Chain
    <2> DEFINE l == d[a].size
    <2>2. /\ l \in MsgSizes /\ Behind(a, l) \in WordAddrs /\ Parts(l) \in Nat
          /\ Behind(a, l) = a + 1 + Parts(l)
      BY <1>3, <2>1, MsgSizeFacts, TotalFacts DEF TagsFit, Behind
    <2>3. a < h => Behind(a, l) <= h
      BY <1>3, <2>1 DEF Chain
    <2>4. a < h \/ x < a
      BY <1>0, <1>2, <1>3, <2>1
    <2>5. Behind(a, l) # x /\ Behind(a, l) \in Nat
      BY <1>0, <2>1, <2>2, <2>3, <2>4
    <2>6. ASSUME NEW i \in 1 .. Parts(l) PROVE a + i # x /\ a + i \in WordAddrs
      <3>1. a + i \in Int /\ a + i <= Behind(a, l) /\ a <= a + i
        BY <2>1, <2>2
      <3>2. a + i # x
        BY <1>0, <2>1, <2>2, <2>3, <2>4
      <3> QED
        BY <2>2, <3>1, <3>2, Between
    <2>7. MessageIn(e, a, l, d[a].msg, Parts(l))
      BY <1>0, <2>1, <2>6 DEF Linked, MessageIn
    <2>8. Behind(a, l) = h \/ Start(e[Behind(a, l)])
      BY <1>0, <2>1, <2>2, <2>5 DEF Linked
    <2> QED
      BY <2>1, <2>7, <2>8 DEF Linked
  <1>4. ASSUME NEW a \in WordAddrs, a < h
        PROVE  /\ e[a].kind # "wrap"
               /\ e[a].kind = "size" => Behind(a, e[a].size) <= h
    <2>1. a \in Nat /\ a # x
      BY <1>0, <1>4, ZeroAddr
    <2> QED
      BY <1>0, <1>4, <2>1 DEF Chain
  <1>5. ASSUME (\E a \in WordAddrs : e[a].kind = "wrap") \/ h > 0 PROVE Start(e[0])
    <2>1. 0 \in WordAddrs /\ x # 0
      BY <1>0, ZeroAddr
    <2>2. (\E a \in WordAddrs : d[a].kind = "wrap") \/ h > 0
      BY <1>0, <1>1, <1>5
    <2> QED
      BY <1>0, <2>1, <2>2 DEF Chain
  <1> QED
    BY <1>3, <1>4, <1>5 DEF Chain, e, x

(* A message that has been stored whole is a link of the chain.            *)
LEMMA ChainPublish ==
  ASSUME NEW d \in [WordAddrs -> Words], TagsFit(d), NEW h \in WordAddrs, Chain(d, h, TRUE),
         NEW n \in MsgSizes, NEW m \in Nat, d[h] = SizeTag(n, m),
         MessageIn(d, h, n, m, Parts(n))
  PROVE  Chain(d, Behind(h, n), FALSE)
  <1> DEFINE g == Behind(h, n)
  <1>0. /\ n \in Nat /\ h \in Nat /\ Parts(n) \in Nat /\ g = h + 1 + Parts(n)
        /\ d[h].kind = "size" /\ d[h].size = n /\ d[h].msg = m /\ Start(d[h])
    <2>1. n \in Nat
      BY MsgSizeFacts
    <2>2. h \in Nat /\ Parts(n) \in Nat
      BY <2>1, TotalFacts, ZeroAddr
    <2>3. d[h].kind = "size" /\ d[h].size = n /\ d[h].msg = m /\ Start(d[h])
      BY <2>1, KindFacts
    <2> QED
      BY <2>1, <2>2, <2>3 DEF Behind
  <1>2. ASSUME NEW a \in WordAddrs, h < a, a < g PROVE d[a].kind = "data"
    <2>1. a \in Nat /\ a - h \in 1 .. Parts(n) /\ h + (a - h) = a
      BY <1>0, <1>2, ZeroAddr
    <2>2. d[a] = Payload(n, m, a - h) /\ a - h \in Nat
      BY <2>1 DEF MessageIn
    <2>3. n \in Nat
      BY <1>0
    <2> QED
      BY <2>2, <2>3, KindFacts
  <1> HIDE DEF g
  <1>3. ASSUME NEW a \in WordAddrs, d[a].kind = "size" PROVE Linked(d, g, a)
    <2>1. CASE a = h
      BY <1>0, <2>1 DEF Linked, g
    <2>2. CASE a # h
      BY <1>0, <1>3, <2>2 DEF Linked, Chain
    <2> QED
      BY <2>1, <2>2
  <1>4. ASSUME NEW a \in WordAddrs, a < g
        PROVE  /\ d[a].kind # "wrap"
               /\ d[a].kind = "size" => Behind(a, d[a].size) <= g
    <2>0. a \in Nat
      BY ZeroAddr
    <2>1. CASE a < h
      <3>1. d[a].kind # "wrap" /\ (d[a].kind = "size" => Behind(a, d[a].size) <= h)
        BY <2>1 DEF Chain
      <3>2. d[a].kind = "size" => Behind(a, d[a].size) \in Nat
        BY ZeroAddr DEF TagsFit
      <3> QED
        BY <1>0, <3>1, <3>2
    <2>2. CASE a = h
      BY <1>0, <2>2 DEF g
    <2>3. CASE a > h
      BY <1>2, <1>4, <2>3
    <2> QED
      BY <1>0, <2>0, <2>1, <2>2, <2>3
  <1>5. Start(d[0])
    BY <1>0 DEF Chain
  <1> QED
    BY <1>3, <1>4, <1>5 DEF Chain, g

-----------------------------------------------------------------------------
(* Readers.  Their positions are words of the data area.                   *)
LEMMA PosFacts ==
  ASSUME NEW r \in Position, Sound(r)
  PROVE  /\ r.ptr \in Nat /\ r.cyc \in Nat /\ r.ptr % 8 = 0
         /\ WordAt(r.ptr) \in WordAddrs /\ WordAt(r.ptr) \in Nat /\ 8 * WordAt(r.ptr) = r.ptr
  <1>1. r.ptr \in Nat /\ r.cyc \in Nat /\ r.ptr % 8 = 0 /\ r.ptr + 8 <= Size
    BY DEF Position, Sound
  <1>2. /\ WordAt(r.ptr) \in Nat /\ 8 * WordAt(r.ptr) = r.ptr
        /\ \A k \in Nat : r.ptr + 8 * k + 8 <= Size => WordAt(r.ptr) + k \in WordAddrs
    BY <1>1, WordFacts
  <1>3. WordAt(r.ptr) + 0 \in WordAddrs
    BY <1>1, <1>2
  <1> QED
    BY <1>1, <1>2, <1>3

(* So is the next position of a reader that holds a size prefix.           *)
LEMMA NextFacts ==
  ASSUME NEW q \in Subscriber, SubSound(q), LoadSound(q), q.pc \in Sized, Copied(q), q.word.kind = "size"
  PROVE  LET a == WordAt(q.rp.ptr)
             n == q.word.size IN
           /\ n \in MsgSizes /\ Parts(n) \in Nat
           /\ a \in WordAddrs /\ a \in Nat /\ 8 * a = q.rp.ptr /\ q.rp.ptr \in Nat
           /\ q.rp.cyc \in Nat /\ NextPos(q).cyc = q.rp.cyc
           /\ NextPos(q).ptr \in Nat /\ NextPos(q).ptr = 8 * Behind(a, n)
           /\ NextPos(q).ptr = q.rp.ptr + Total(n)
           /\ NextPos(q).ptr > q.rp.ptr
           /\ WordAt(NextPos(q).ptr) = Behind(a, n) /\ Behind(a, n) \in WordAddrs
           /\ Behind(a, n) \in Nat /\ Behind(a, n) > a + 1
           /\ \A k \in 1 .. Parts(n) : a + k \in WordAddrs /\ a + k < Behind(a, n)
  <1> DEFINE a == WordAt(q.rp.ptr)
             n == q.word.size
  <1>1. n \in MsgSizes /\ Fits(q.rp.ptr, n) /\ q.rp \in Position /\ Sound(q.rp)
    BY DEF LoadSound, Subscriber, SoundTag, Copied, Sized
  <1>2. a \in WordAddrs /\ a \in Nat /\ 8 * a = q.rp.ptr /\ q.rp.ptr \in Nat /\ q.rp.cyc \in Nat
    BY <1>1, PosFacts
  <1>3. /\ Behind(a, n) \in WordAddrs /\ 8 * Behind(a, n) = 8 * a + Total(n)
        /\ Parts(n) \in Nat /\ Behind(a, n) > a + 1
        /\ \A k \in 1 .. Parts(n) : a + k \in WordAddrs /\ a + k < Behind(a, n)
    BY <1>1, <1>2, BehindFacts
  <1>4. NextPos(q).ptr = q.rp.ptr + Total(n) /\ NextPos(q).cyc = q.rp.cyc
    BY DEF NextPos, Pos
  <1>5. Behind(a, n) \in Nat
    BY <1>3, ZeroAddr
  <1> DEFINE x == Behind(a, n)
  <1>6. NextPos(q).ptr = 8 * x /\ x \in Nat /\ x > a
    BY <1>2, <1>3, <1>4, <1>5
  <1> HIDE DEF x
  <1>7. WordAt(NextPos(q).ptr) = x /\ NextPos(q).ptr \in Nat /\ NextPos(q).ptr > 8 * a
    BY <1>2, <1>6 DEF WordAt
  <1> QED
    BY <1>1, <1>2, <1>3, <1>4, <1>5, <1>6, <1>7 DEF x

(* What a reader knows survives the store of a tag at the write position.  *)
LEMMA KnowsTag ==
  ASSUME NEW d \in [WordAddrs -> Words], NEW W \in Position, Sound(W),
         NEW w \in Words, Start(w),
         NEW q \in Subscriber, SubSound(q), LoadSound(q), NEW r \in Position, Sound(r)
  PROVE  LET e == [d EXCEPT ![WordAt(W.ptr)] = w] IN
           /\ GoodPos(r, W, d) => GoodPos(r, W, e)
           /\ Knows(q, r, W, d) => Knows(q, r, W, e)
  <1> DEFINE h == WordAt(W.ptr)
             e == [d EXCEPT ![h] = w]
  <1>0. h \in WordAddrs /\ h \in Nat /\ 8 * h = W.ptr
    BY PosFacts
  <1>1. /\ \A a \in WordAddrs : a # h => e[a] = d[a]
        /\ \A a \in WordAddrs : Start(d[a]) => Start(e[a])
    BY <1>0
  <1> HIDE DEF e
  <1>2. ASSUME NEW v, WordAt(v.ptr) \in WordAddrs, GoodPos(v, W, d) PROVE GoodPos(v, W, e)
    BY <1>1, <1>2 DEF GoodPos
  <1>3. WordAt(r.ptr) \in WordAddrs
    BY PosFacts
  <1>4. ASSUME Knows(q, r, W, d) PROVE Knows(q, r, W, e)
    <2>1. GoodPos(r, W, e)
      BY <1>2, <1>3, <1>4 DEF Knows
    <2>2. ASSUME q.pc \in Holds PROVE Held(q, W, e)
      <3>1. Held(q, W, d) /\ q.rp = r /\ Copied(q)
        BY <1>4, <2>2 DEF Knows
      <3>2. q.pc = "load_size" => Start(e[WordAt(q.rp.ptr)])
        BY <1>1, <1>3, <3>1 DEF Held
      <3>3. ASSUME q.pc \in Sized, q.word.kind = "size" PROVE HoldsSize(q, W, e)
        <4>0. HoldsSize(q, W, d)
          BY <3>1, <3>3 DEF Held
        <4> DEFINE a == WordAt(q.rp.ptr)
                   n == q.word.size
        <4>1. /\ a \in Nat /\ 8 * a = q.rp.ptr /\ NextPos(q).ptr = 8 * Behind(a, n)
              /\ WordAt(NextPos(q).ptr) = Behind(a, n) /\ Behind(a, n) \in WordAddrs
              /\ Behind(a, n) \in Nat /\ Parts(n) \in Nat
              /\ \A k \in 1 .. Parts(n) : a + k \in WordAddrs /\ a + k < Behind(a, n)
          BY <3>1, <3>3, NextFacts
        <4>2. GoodPos(NextPos(q), W, e)
          BY <1>2, <4>0, <4>1 DEF HoldsSize
        <4>3. a < h => Behind(a, n) <= h
          BY <1>0, <4>0, <4>1 DEF HoldsSize
        <4>4. ASSUME NEW k \in 1 .. Parts(n) PROVE a + k # h
          BY <1>0, <4>1, <4>3
        <4>5. MessageIn(e, a, n, q.word.msg, Parts(n))
          BY <1>1, <4>0, <4>1, <4>4 DEF HoldsSize, MessageIn
        <4> QED
          BY <4>0, <4>2, <4>5 DEF HoldsSize
      <3>4. ASSUME q.pc \in Sized, q.word.kind = "wrap" PROVE HoldsWrap(q, W, e)
        BY <1>0, <1>1, <3>1, <3>4, ZeroAddr DEF Held, HoldsWrap
      <3> QED
        BY <3>1, <3>2, <3>3, <3>4 DEF Held
    <2> QED
      BY <1>4, <2>1, <2>2 DEF Knows
  <1> QED
    BY <1>2, <1>3, <1>4 DEF e

(* It survives the store of a payload word if the reader's position is not *)
(* inside the area, and the one it holds not in it at all.                 *)
LEMMA KnowsPayload ==
  ASSUME NEW d \in [WordAddrs -> Words], NEW W \in Position, Sound(W),
         NEW n \in MsgSizes, NEW w \in Words,
         NEW x \in WordAddrs, WordAt(W.ptr) < x, x < Behind(WordAt(W.ptr), n),
         NEW q \in Subscriber, SubSound(q), LoadSound(q), NEW r \in Position, Sound(r),
         ~(InArea(r, W, n) /\ r.ptr # W.ptr)
  PROVE  LET e == [d EXCEPT ![x] = w] IN
           /\ GoodPos(r, W, d) => GoodPos(r, W, e)
           /\ Knows(q, r, W, d) /\ (q.pc \in Holds => ~InArea(q.rp, W, n)) => Knows(q, r, W, e)
  <1> DEFINE h == WordAt(W.ptr)
             e == [d EXCEPT ![x] = w]
             g == Behind(h, n)
  <1>0. /\ h \in Nat /\ 8 * h = W.ptr /\ W.ptr \in Nat /\ W.cyc \in Nat /\ x \in Nat
        /\ W.ptr % 8 = 0
    BY PosFacts, ZeroAddr
  <1>1. g \in Nat /\ AreaEnd(W, n) = 8 * g /\ x < g /\ h < x
    <2>1. n \in Nat
      BY MsgSizeFacts
    <2>2. Parts(n) \in Nat /\ Total(n) = 8 + 8 * Parts(n) /\ g = h + 1 + Parts(n)
      BY <2>1, TotalFacts DEF Behind
    <2>3. AreaEnd(W, n) = W.ptr + Total(n)
      BY <1>0, <2>1, AlignShift DEF AreaEnd
    <2> QED
      BY <1>0, <2>2, <2>3
  <1>2. \A a \in WordAddrs : a # x => e[a] = d[a]
    OBVIOUS
  <1> HIDE DEF e, g
  <1>3. ASSUME NEW v, WordAt(v.ptr) \in WordAddrs, WordAt(v.ptr) # x, GoodPos(v, W, d)
        PROVE  GoodPos(v, W, e)
    BY <1>2, <1>3 DEF GoodPos
  <1>4. WordAt(r.ptr) \in WordAddrs /\ WordAt(r.ptr) \in Nat /\ 8 * WordAt(r.ptr) = r.ptr
    BY PosFacts
  <1>5. GoodPos(r, W, d) => WordAt(r.ptr) # x
    BY <1>0, <1>1, <1>4 DEF GoodPos, InArea
  <1>6. ASSUME Knows(q, r, W, d), q.pc \in Holds => ~InArea(q.rp, W, n)
        PROVE  Knows(q, r, W, e)
    <2>1. GoodPos(r, W, d) /\ GoodPos(r, W, e)
      BY <1>3, <1>4, <1>5, <1>6 DEF Knows
    <2>2. ASSUME q.pc \in Holds PROVE Held(q, W, e)
      <3>1. Held(q, W, d) /\ q.rp = r /\ Copied(q) /\ ~InArea(r, W, n)
        BY <1>6, <2>2 DEF Knows
      <3>2. q.pc = "load_size" => Start(e[WordAt(q.rp.ptr)])
        BY <1>2, <1>4, <1>5, <2>1, <3>1 DEF Held
      <3>3. ASSUME q.pc \in Sized, q.word.kind = "size" PROVE HoldsSize(q, W, e)
        <4>0. HoldsSize(q, W, d)
          BY <3>1, <3>3 DEF Held
        <4> DEFINE a == WordAt(q.rp.ptr)
                   l == q.word.size
                   b == Behind(a, l)
        <4>1. /\ a \in Nat /\ 8 * a = q.rp.ptr /\ NextPos(q).ptr = 8 * b
              /\ WordAt(NextPos(q).ptr) = b /\ b \in WordAddrs
              /\ b \in Nat /\ Parts(l) \in Nat /\ b > a + 1
              /\ NextPos(q).cyc = q.rp.cyc
              /\ \A k \in 1 .. Parts(l) : a + k \in WordAddrs /\ a + k < b
          BY <3>1, <3>3, NextFacts
        <4> HIDE DEF a, l, b
        <4>2. (a < h /\ b <= h) \/ g <= a
          <5>1. CASE q.rp.cyc = W.cyc
            BY <1>0, <4>0, <4>1, <5>1 DEF HoldsSize, GoodPos
          <5>2. CASE q.rp.cyc # W.cyc
            BY <1>0, <1>1, <3>1, <4>0, <4>1, <5>2 DEF HoldsSize, InArea
          <5> QED
            BY <5>1, <5>2
        <4>3. b # x
          BY <1>0, <1>1, <4>1, <4>2
        <4>4. ASSUME NEW k \in 1 .. Parts(l) PROVE a + k # x
          BY <1>0, <1>1, <4>1, <4>2
        <4>5. MessageIn(e, a, l, q.word.msg, Parts(l))
          BY <1>2, <4>0, <4>1, <4>4 DEF HoldsSize, MessageIn, a, l
        <4>6. GoodPos(NextPos(q), W, e)
          BY <1>3, <4>0, <4>1, <4>3 DEF HoldsSize
        <4> QED
          BY <4>0, <4>5, <4>6 DEF HoldsSize, a, l
      <3>4. ASSUME q.pc \in Sized, q.word.kind = "wrap" PROVE HoldsWrap(q, W, e)
        <4>1. 0 \in WordAddrs /\ 0 # x
          BY <1>0, <1>1, ZeroAddr
        <4> QED
          BY <1>2, <3>1, <3>4, <4>1 DEF Held, HoldsWrap
      <3> QED
        BY <3>1, <3>2, <3>3, <3>4 DEF Held
    <2> QED
      BY <1>6, <2>1, <2>2 DEF Knows
  <1> QED
    BY <1>3, <1>4, <1>5, <1>6 DEF e

(* It survives the moves of the write pointer, to the start of the next    *)
(* cycle and behind the message that was stored.                           *)
LEMMA KnowsMove ==
  ASSUME NEW d, NEW W, NEW V,
         NEW q \in Subscriber, SubSound(q), LoadSound(q), NEW r \in Position, Sound(r),
         \A v : v.cyc \in Nat /\ v.ptr \in Nat /\ GoodPos(v, W, d) => GoodPos(v, V, d),
         q.rp.cyc = V.cyc => q.rp.cyc = W.cyc /\ (q.rp.ptr < W.ptr => q.rp.ptr < V.ptr),
         q.rp.cyc < W.cyc => q.rp.cyc < V.cyc,
         Knows(q, r, W, d),
         ASSUME q.pc \in Sized, q.word.kind = "size", HoldsSize(q, W, d), Copied(q),
                q.rp = r, q.rp.ptr < V.ptr
         PROVE  NextPos(q).ptr <= V.ptr
  PROVE  Knows(q, r, V, d)
  <1>1. GoodPos(r, V, d)
    BY PosFacts DEF Knows
  <1>2. ASSUME q.pc \in Holds PROVE Held(q, V, d)
    <2>1. Held(q, W, d) /\ q.rp = r /\ Copied(q)
      BY <1>2 DEF Knows
    <2>2. ASSUME q.pc = "load_size", q.rp.cyc = V.cyc PROVE q.rp.ptr < V.ptr
      BY <2>1, <2>2 DEF Held
    <2>3. ASSUME q.pc \in Sized, q.word.kind = "size" PROVE HoldsSize(q, V, d)
      <3>1. HoldsSize(q, W, d)
        BY <2>1, <2>3 DEF Held
      <3>2. q.rp.ptr < V.ptr => NextPos(q).ptr <= V.ptr
        BY <2>1, <2>3, <3>1
      <3>3. GoodPos(NextPos(q), V, d)
        BY <2>1, <2>3, <3>1, NextFacts DEF HoldsSize
      <3> QED
        BY <3>1, <3>2, <3>3 DEF HoldsSize
    <2>4. ASSUME q.pc \in Sized, q.word.kind = "wrap" PROVE HoldsWrap(q, V, d)
      BY <2>1, <2>4 DEF Held, HoldsWrap
    <2> QED
      BY <2>1, <2>2, <2>3, <2>4 DEF Held
  <1> QED
    BY <1>1, <1>2 DEF Knows

(* What a reader knows of its position stays true when the writer starts  *)
(* the next cycle at offset 0.                                            *)
LEMMA KnowsWrap ==
  ASSUME NEW d, NEW W \in Position, Sound(W), Start(d[WordAt(W.ptr)]),
         NEW q \in Subscriber, SubSound(q), LoadSound(q), NEW r \in Position, Sound(r)
  PROVE  LET V == Pos(W.cyc + 1, 0) IN
           /\ GoodPos(r, W, d) => GoodPos(r, V, d)
           /\ Knows(q, r, W, d) => Knows(q, r, V, d)
  <1> DEFINE V == Pos(W.cyc + 1, 0)
  <1>0. V.cyc = W.cyc + 1 /\ V.ptr = 0 /\ W.cyc \in Nat /\ W.ptr \in Nat
    BY PosFacts DEF Pos
  <1> HIDE DEF V
  <1>1. ASSUME NEW v, v.cyc \in Nat, v.ptr \in Nat, GoodPos(v, W, d) PROVE GoodPos(v, V, d)
    BY <1>0, <1>1 DEF GoodPos
  <1>2. r.cyc \in Nat /\ r.ptr \in Nat
    BY PosFacts
  <1>3. q.rp.cyc \in Nat /\ q.rp.ptr \in Nat
    BY PosFacts DEF Subscriber, LoadSound
  <1>4. ASSUME Knows(q, r, W, d) PROVE Knows(q, r, V, d)
    <2>1. CASE q.pc \in Holds
      <3>1. r.cyc <= W.cyc /\ q.rp = r
        BY <1>4, <2>1 DEF Knows, GoodPos
      <3>2. q.rp.cyc # V.cyc /\ q.rp.cyc < V.cyc /\ ~(q.rp.ptr < V.ptr)
        BY <1>0, <1>2, <3>1
      <3> QED
        BY <1>1, <1>4, <3>2, KnowsMove
    <2>2. CASE q.pc \notin Holds
      BY <1>1, <1>2, <1>4, <2>2 DEF Knows
    <2> QED
      BY <2>1, <2>2
  <1> QED
    BY <1>1, <1>2, <1>4 DEF V

(* What a reader knows of its position stays true when the writer         *)
(* publishes the message it has just written.                             *)
LEMMA KnowsPublish ==
  ASSUME NEW d, NEW W \in Position, Sound(W), Start(d[WordAt(W.ptr)]), NEW n \in MsgSizes,
         NEW q \in Subscriber, SubSound(q), LoadSound(q), NEW r \in Position, Sound(r)
  PROVE  LET V == Pos(W.cyc, W.ptr + Total(n)) IN
           /\ GoodPos(r, W, d) => GoodPos(r, V, d)
           /\ Knows(q, r, W, d) /\ (q.pc \in Holds => ~InArea(q.rp, W, n)) => Knows(q, r, V, d)
  <1> DEFINE V == Pos(W.cyc, W.ptr + Total(n))
  <1>0. /\ V.cyc = W.cyc /\ V.ptr = W.ptr + Total(n) /\ W.cyc \in Nat /\ W.ptr \in Nat
        /\ W.ptr % 8 = 0
    BY PosFacts DEF Pos
  <1> HIDE DEF V
  <1>00. Total(n) \in Nat /\ AreaEnd(W, n) = V.ptr
    <2>1. n \in Nat
      BY MsgSizeFacts
    <2> QED
      BY <1>0, <2>1, AlignShift, TotalFacts DEF AreaEnd
  <1>1. ASSUME NEW v, v.cyc \in Nat, v.ptr \in Nat, GoodPos(v, W, d) PROVE GoodPos(v, V, d)
    BY <1>0, <1>00, <1>1 DEF GoodPos
  <1>2. r.cyc \in Nat /\ r.ptr \in Nat
    BY PosFacts
  <1>3. q.rp.cyc \in Nat /\ q.rp.ptr \in Nat
    BY PosFacts DEF Subscriber, LoadSound
  <1>4. ASSUME Knows(q, r, W, d), q.pc \in Holds => ~InArea(q.rp, W, n)
        PROVE  Knows(q, r, V, d)
    <2>1. ASSUME q.pc \in Sized, q.word.kind = "size", HoldsSize(q, W, d), Copied(q),
                 q.rp = r, q.rp.ptr < V.ptr
          PROVE  NextPos(q).ptr <= V.ptr
      <3>1. NextPos(q).ptr \in Nat /\ NextPos(q).cyc = q.rp.cyc
        BY <2>1, NextFacts
      <3>2. ~InArea(q.rp, W, n)
        BY <1>4, <2>1 DEF Holds
      <3>3. q.rp.ptr < W.ptr \/ q.rp.cyc = W.cyc
        BY <1>0, <1>00, <1>3, <2>1, <3>2 DEF InArea
      <3>4. NextPos(q).ptr <= W.ptr
        BY <2>1, <3>1, <3>3 DEF HoldsSize, GoodPos
      <3> QED
        BY <1>0, <1>00, <3>1, <3>4
    <2>2. q.rp.ptr < W.ptr => q.rp.ptr < V.ptr
      BY <1>0, <1>00, <1>3
    <2> QED
      BY <1>0, <1>1, <1>4, <2>1, <2>2, KnowsMove
  <1> QED
    BY <1>1, <1>2, <1>4 DEF V

-----------------------------------------------------------------------------
(* Publishers.  One that is not sending constrains nobody.                 *)
LEMMA OffDuty ==
  ASSUME NEW b, b.pc \notin InSend
  PROVE  /\ \A W, d : WriterOK(b, W, d)
         /\ \A q, r, W : Allows(b, q, r, W)
         /\ \A W, i, r : ClearReset(b, W, i, r)
         /\ b.pc \notin {"copy", "publish"}
  BY DEF InSend, BeforeWrap, Writing, WriterOK, Allows, Clear, ClearReset, Outside

(* While one sends, the others do not.                                     *)
LEMMA Alone ==
  ASSUME RegInv, NEW p \in Publishers, pub[p].pc \in InSend
  PROVE  write_uid = p /\ \A q \in Publishers : q # p => pub[q].pc \notin InSend
  BY DEF RegInv, Sole

(* A valid reader has a slot, and is counted.                              *)
LEMMA ReaderSlot ==
  ASSUME IInv, ReadSound, RegInv, NEW s \in Subscribers, Valid(s) \/ sub[s].pc = "reset_store"
  PROVE  /\ sub[s].id \in Slots /\ sub[s].id \in Nat /\ Owns(s)
         /\ (\A p \in Publishers : ~Starting(p)) => sub[s].id < num_readers
         /\ sub[s] \in Subscriber /\ SubSound(sub[s]) /\ LoadSound(sub[s])
         /\ read_pointers[sub[s].id] \in Position /\ Sound(read_pointers[sub[s].id])
         /\ sub[s].wp \in Position /\ Sound(sub[s].wp)
  <1>1. /\ sub[s] \in Subscriber /\ SubSound(sub[s]) /\ LoadSound(sub[s]) /\ SharedOK /\ Registered(s)
    BY SubFacts, LoadFacts DEF RegInv
  <1>2. sub[s].id \in Slots
    BY <1>1 DEF SubSound, Valid, Reads, Holds, Sized
  <1>3. read_uids[sub[s].id] = s
    BY <1>1 DEF Registered, Valid, Unregistered, Unchecked
  <1>4. sub[s].id # -1 /\ sub[s].id \in Nat
    BY <1>2, NumReadersAssumption DEF Slots
  <1>5. Owns(s)
    BY <1>3, <1>4 DEF Owns
  <1> QED
    BY <1>1, <1>2, <1>4, <1>5 DEF RegInv, Counted, SharedOK, SubSound, Subscriber, ReadSound

(* A step that leaves the write pointer and the data alone keeps the       *)
(* invariant if the locals of the publisher still fit.                     *)
LEMMA PubStill ==
  ASSUME DeliveryInv, NEW p \in Publishers,
         \A q \in Publishers : q # p => pub'[q] = pub[q],
         UNCHANGED <<write_pointer, data, read_pointers, sub, out>>,
         \A s \in Subscribers : Valid(s)' => Valid(s),
         pub'[p].pc \in {"copy", "publish"} <=> pub[p].pc \in {"copy", "publish"},
         WriterOK(pub'[p], write_pointer, data), CycleBound',
         \A s \in Subscribers : Valid(s)' =>
           Allows(pub'[p], sub[s], read_pointers[sub[s].id], write_pointer),
         \A s \in Subscribers : sub[s].pc = "reset_store" =>
           ClearReset(pub'[p], write_pointer, sub[s].id, sub[s].wp)
  PROVE  DeliveryInv'
  <1>1. Open' <=> Open
    BY DEF Open
  <1>2. WriteInv'
    BY <1>1 DEF DeliveryInv, WriteInv
  <1>3. ASSUME NEW s \in Subscribers PROVE ReaderOK(s)'
    <2>1. SUFFICES ASSUME Valid(s)'
                   PROVE  /\ Knows(sub[s], read_pointers[sub[s].id], write_pointer, data)
                          /\ \A q \in Publishers :
                               Allows(pub'[q], sub[s], read_pointers[sub[s].id], write_pointer)
      BY DEF ReaderOK
    <2>2. Valid(s) /\ ReaderOK(s)
      BY <2>1 DEF DeliveryInv, ReadInv
    <2> QED
      BY <2>1, <2>2 DEF ReaderOK
  <1>4. ASSUME NEW s \in Subscribers PROVE ResetOK(s)'
    BY DEF DeliveryInv, ReadInv, ResetOK
  <1>5. NoGarbage' /\ DeliveredIntact'
    BY DEF DeliveryInv, ReadInv, NoGarbage, DeliveredIntact
  <1> QED
    BY <1>2, <1>3, <1>4, <1>5 DEF DeliveryInv, ReadInv

(* A step that stores a word or moves the write pointer.                   *)
LEMMA PubStore ==
  ASSUME DeliveryInv, NEW p \in Publishers,
         \A q \in Publishers : q # p => pub'[q] = pub[q] /\ pub[q].pc \notin InSend,
         UNCHANGED <<slots, sub, out>>,
         WriterOK(pub'[p], write_pointer', data'), CycleBound',
         Chain(data', WordAt(write_pointer'.ptr), pub'[p].pc \in {"copy", "publish"}),
         \A s \in Subscribers : Valid(s) =>
           /\ Knows(sub[s], read_pointers[sub[s].id], write_pointer', data')
           /\ Allows(pub'[p], sub[s], read_pointers[sub[s].id], write_pointer'),
         \A s \in Subscribers : sub[s].pc = "reset_store" =>
           /\ GoodPos(sub[s].wp, write_pointer', data')
           /\ ClearReset(pub'[p], write_pointer', sub[s].id, sub[s].wp)
  PROVE  DeliveryInv'
  <1>1. Open' <=> pub'[p].pc \in {"copy", "publish"}
    BY OffDuty DEF Open
  <1>2. \A q \in Publishers : WriterOK(pub'[q], write_pointer', data')
    BY OffDuty
  <1>3. WriteInv'
    <2>1. Chain(data', WordAt(write_pointer'.ptr), Open')
      <3>1. Open' \in BOOLEAN /\ (pub'[p].pc \in {"copy", "publish"}) \in BOOLEAN
        BY DEF Open
      <3>2. CASE Open'
        BY <1>1, <3>2 DEF Chain
      <3>3. CASE ~Open'
        BY <1>1, <3>3 DEF Chain
      <3> QED
        BY <3>2, <3>3
    <2> QED
      BY <1>2, <2>1 DEF WriteInv
  <1>4. ASSUME NEW s \in Subscribers PROVE ReaderOK(s)'
    <2>1. UNCHANGED <<read_pointers, read_valids, read_uids, sub>> /\ (Valid(s)' => Valid(s))
      BY DEF Valid, slots
    <2> QED
      BY <2>1, OffDuty DEF ReaderOK
  <1>5. ASSUME NEW s \in Subscribers PROVE ResetOK(s)'
    BY OffDuty DEF ResetOK
  <1>6. NoGarbage' /\ DeliveredIntact'
    BY DEF DeliveryInv, ReadInv, NoGarbage, DeliveredIntact
  <1> QED
    BY <1>3, <1>4, <1>5, <1>6 DEF DeliveryInv, ReadInv

(* Clearing slots makes no reader valid.                                   *)
LEMMA ValidFalls ==
  ASSUME IInv, ReadSound, UNCHANGED sub,
         \A i \in Slots : read_valids'[i] => read_valids[i],
         \A i \in Slots : read_uids'[i] \in {read_uids[i], NoUid}
  PROVE  \A s \in Subscribers : Valid(s)' => Valid(s)
  <1> SUFFICES ASSUME NEW s \in Subscribers, Valid(s)' PROVE Valid(s)
    OBVIOUS
  <1>1. sub[s].id \in Slots /\ sub'[s] = sub[s]
    BY SubFacts, LoadFacts DEF SubSound, Valid, Reads, Holds, Sized
  <1>2. s # NoUid
    BY ProcessAssumption
  <1> QED
    BY <1>1, <1>2 DEF Valid

(* Steps of a publisher after which it is not sending.                     *)
LEMMA OffStep ==
  ASSUME IInv, ReadSound, DeliveryInv, NEW p \in Publishers,
         \A q \in Publishers : q # p => pub'[q] = pub[q],
         UNCHANGED <<write_pointer, data, read_pointers, sub, out, sent>>,
         \A s \in Subscribers : Valid(s)' => Valid(s),
         pub'[p].pc \notin InSend \cup {"check_uid"},
         pub[p].pc \notin {"copy", "publish"},
         \/ write_uid' = write_uid
         \/ \A q \in Publishers : pub[q].pc \in {"closed", "idle"}
  PROVE  DeliveryInv'
  <1>1. /\ WriterOK(pub'[p], write_pointer, data) /\ pub'[p].pc \notin {"copy", "publish"}
        /\ \A q, r, W : Allows(pub'[p], q, r, W)
        /\ \A W, i, r : ClearReset(pub'[p], W, i, r)
    BY OffDuty
  <1>2. CycleBound'
    <2>1. CycleBound
      BY DEF DeliveryInv, WriteInv
    <2>2. ASSUME NEW q \in Publishers,
                 pub'[q].pc \in {"check_uid", "load_num"} \cup BeforeWrap, write_uid' = q
          PROVE  write_pointer.cyc < pub'[q].msg /\ pub'[q].msg <= sent
      <3>1. q # p /\ pub'[q] = pub[q]
        BY <2>2 DEF BeforeWrap, InSend
      <3>2. write_uid' = write_uid
        BY <2>2, <3>1 DEF BeforeWrap
      <3> QED
        BY <2>1, <2>2, <3>1, <3>2 DEF CycleBound
    <2> QED
      BY <2>1, <2>2 DEF CycleBound
  <1> QED
    BY <1>1, <1>2, PubStill

(* msgq_init_publisher, msgq_all_readers_updated and the notification of   *)
(* the readers are such steps.                                             *)
LEMMA OffDelivery ==
  ASSUME IInv, ReadSound, RegInv, DeliveryInv, NEW p \in Publishers, QuietStart,
         InitPublisher(p) \/ BeginUpdated(p) \/ UpdatedStep(p) \/ Notify(p)
  PROVE  DeliveryInv'
  <1> DEFINE b == pub[p]
             c == pub'[p]
  <1>0. /\ b \in Publisher /\ PubSound(b) /\ read_valids \in [Slots -> BOOLEAN]
        /\ read_uids \in [Slots -> Subscribers \cup {NoUid}]
    BY IInvParts DEF SharedOK
  <1>1. ASSUME UNCHANGED <<read_valids, read_uids, sub>>
        PROVE  \A s \in Subscribers : Valid(s)' => Valid(s)
    BY <1>1 DEF Valid
  <1>2. CASE StoreWriteUid(p)
    <2>1. /\ UNCHANGED <<write_pointer, slots, data, sub, out, sent>> /\ b.pc = "closed"
          /\ c.pc = "zero_num" /\ \A q \in Publishers : q # p => pub'[q] = pub[q]
      BY <1>2, PubUpdate DEF StoreWriteUid, PubAt
    <2>2. \A q \in Publishers : pub[q].pc \in {"closed", "idle"}
      BY <2>1 DEF QuietStart
    <2> QED
      BY <1>1, <2>1, <2>2, OffStep DEF slots, InSend
  <1>3. CASE ZeroNumReaders(p)
    <2>1. /\ UNCHANGED <<write_pointer, write_uid, slots, data, sub, out, sent>>
          /\ b.pc = "zero_num"
          /\ c.pc = "wipe_valid" /\ \A q \in Publishers : q # p => pub'[q] = pub[q]
      BY <1>3, PubGotoUpdate DEF ZeroNumReaders
    <2> QED
      BY <1>1, <2>1, OffStep DEF slots, InSend
  <1>4. CASE WipeValid(p)
    <2>1. /\ UNCHANGED <<write_pointer, write_uid, read_pointers, read_uids, data, sub, out, sent>>
          /\ b.pc = "wipe_valid" /\ read_valids' = [read_valids EXCEPT ![b.i] = FALSE]
          /\ c.pc = "wipe_uid" /\ \A q \in Publishers : q # p => pub'[q] = pub[q]
      BY <1>4, PubGotoUpdate DEF WipeValid, queue
    <2>2. \A s \in Subscribers : Valid(s)' => Valid(s)
      <3>1. \A i \in Slots : read_valids'[i] => read_valids[i]
        BY <1>0, <2>1
      <3> QED
        BY <2>1, <3>1, ValidFalls
    <2> QED
      BY <2>1, <2>2, OffStep DEF InSend
  <1>5. CASE WipeUid(p)
    <2>1. /\ UNCHANGED <<write_pointer, write_uid, read_pointers, read_valids, data, sub, out,
                         sent>>
          /\ b.pc = "wipe_uid" /\ read_uids' = [read_uids EXCEPT ![b.i] = NoUid]
      BY <1>5 DEF WipeUid, queue
    <2>2. c.pc \in {"wipe_valid", "idle"} /\ \A q \in Publishers : q # p => pub'[q] = pub[q]
      <3>1. CASE SetPub(p, [b EXCEPT !.pc = "wipe_valid", !.i = b.i + 1])
        <4>1. /\ c = [b EXCEPT !.pc = "wipe_valid", !.i = b.i + 1]
              /\ \A q \in Publishers : q # p => pub'[q] = pub[q]
          BY <3>1, PubUpdate
        <4> QED
          BY <1>0, <4>1 DEF Publisher
      <3>2. CASE SetPub(p, PubAt("idle"))
        BY <3>2, PubUpdate DEF PubAt
      <3> QED
        BY <1>5, <3>1, <3>2 DEF WipeUid
    <2>3. \A s \in Subscribers : Valid(s)' => Valid(s)
      <3>1. \A i \in Slots : read_uids'[i] \in {read_uids[i], NoUid}
        BY <1>0, <2>1
      <3> QED
        BY <2>1, <3>1, ValidFalls
    <2> QED
      BY <2>1, <2>2, <2>3, OffStep DEF InSend
  <1>6. CASE BeginUpdated(p) \/ UpdatedStep(p) \/ Notify(p)
    <2>1. /\ UNCHANGED <<write_pointer, write_uid, slots, data, sub, out, sent>>
          /\ b.pc \in {"idle", "upd_valid", "upd_wp", "upd_rp", "notify"}
      BY <1>6 DEF BeginUpdated, UpdatedStep, UpdatedValid, UpdatedWritePointer,
         UpdatedReadPointer, Notify, shared, queue
    <2>2. /\ c.pc \in {"idle", "upd_valid", "upd_wp", "upd_rp", "notify"}
          /\ \A q \in Publishers : q # p => pub'[q] = pub[q]
      <3>1. ASSUME NEW ret, PubReturn(p, ret)
            PROVE  c.pc = "idle" /\ \A q \in Publishers : q # p => pub'[q] = pub[q]
        BY <3>1, PubReturnUpdate
      <3>2. CASE BeginUpdated(p)
        <4>1. CASE SetPub(p, [PubAt("upd_valid") EXCEPT !.num = num_readers])
          BY <4>1, PubUpdate DEF PubAt
        <4> QED
          BY <3>1, <3>2, <4>1 DEF BeginUpdated
      <3>3. CASE NextUpdated(p)
        <4>1. CASE SetPub(p, [PubAt("upd_valid") EXCEPT !.num = pub[p].num, !.i = pub[p].i + 1])
          BY <4>1, PubUpdate DEF PubAt
        <4> QED
          BY <3>1, <3>3, <4>1 DEF NextUpdated
      <3>4. CASE UpdatedStep(p)
        <4>1. CASE UpdatedWritePointer(p)
          <5>1. SetPub(p, [b EXCEPT !.pc = "upd_rp", !.wp = write_pointer])
            BY <4>1 DEF UpdatedWritePointer
          <5>2. /\ c = [b EXCEPT !.pc = "upd_rp", !.wp = write_pointer]
                /\ \A q \in Publishers : q # p => pub'[q] = pub[q]
            BY <5>1, PubUpdate
          <5> QED
            BY <1>0, <5>2 DEF Publisher
        <4>2. CASE PubGoto(p, "upd_wp")
          BY <4>2, PubGotoUpdate
        <4> QED
          BY <3>1, <3>3, <3>4, <4>1, <4>2 DEF UpdatedStep, UpdatedValid, UpdatedReadPointer
      <3>5. CASE Notify(p)
        <4>1. CASE SetPub(p, [b EXCEPT !.i = b.i + 1])
          <5>1. b.pc = "notify"
            BY <3>5 DEF Notify
          <5> QED
            BY <1>0, <4>1, <5>1, PubUpdate DEF Publisher
        <4> QED
          BY <3>1, <3>5, <4>1 DEF Notify
      <3> QED
        BY <1>6, <3>2, <3>4, <3>5
    <2> QED
      BY <1>1, <2>1, <2>2, OffStep DEF slots, InSend
  <1> QED
    BY <1>2, <1>3, <1>4, <1>5, <1>6 DEF InitPublisher

(* What the steps of msgq_msg_send do to the locals of the publisher.      *)
LEMMA SendUpdate ==
  ASSUME IInv, ReadSound, NEW p \in Publishers
  PROVE  LET b == pub[p]
             c == pub'[p]
             Others == \A q \in Publishers : q # p => pub'[q] = pub[q]
             Same == c.num = b.num /\ c.size = b.size /\ c.msg = b.msg IN
           /\ LoadNumReaders(p) =>
                /\ Others /\ c.pc = "load_wp" /\ c.num = num_readers
                /\ c.size = b.size /\ c.msg = b.msg
           /\ LoadWritePointer(p) =>
                /\ Others /\ Same /\ c.wp = write_pointer
                /\ \/ c.pc = "wrap_tag" /\ MustWrap(write_pointer.ptr, b.size)
                   \/ /\ c.pc = IF 0 < b.num THEN "area" ELSE "size"
                      /\ c.i = 0
           /\ StoreWrapTag(p) =>
                /\ Others /\ Same /\ c.wp = b.wp
                /\ c.pc = IF 0 < b.num THEN "beyond" ELSE "wrap_wp"
           /\ StoreWrap(p) =>
                /\ Others /\ Same /\ c.wp = Pos(NextCycle(b.wp.cyc), 0) /\ c.i = 0
                /\ c.pc = IF 0 < b.num THEN "area" ELSE "size"
           /\ StoreSize(p) =>
                /\ Others /\ Same /\ c.wp = b.wp /\ c.pc = "copy" /\ c.part = 1
           /\ StorePayload(p) =>
                /\ Others /\ Same /\ c.wp = b.wp
                /\ \/ c.pc = "copy" /\ b.part < Parts(b.size) /\ c.part = b.part + 1
                   \/ c.pc = "publish" /\ ~(b.part < Parts(b.size))
           /\ StoreWritePointer(p) => Others /\ c.pc \notin InSend \cup {"check_uid"}
  <1> DEFINE b == pub[p]
             c == pub'[p]
             Others == \A q \in Publishers : q # p => pub'[q] = pub[q]
             Same == c.num = b.num /\ c.size = b.size /\ c.msg = b.msg
  <1>0. b \in Publisher
    BY PubFacts
  <1>1. ASSUME NEW r, SetPub(p, r) PROVE c = r /\ Others
    BY <1>1, PubUpdate
  <1>2. ASSUME LoadNumReaders(p)
        PROVE  Others /\ c.pc = "load_wp" /\ c.num = num_readers /\ c.size = b.size /\ c.msg = b.msg
    <2>1. c = [b EXCEPT !.pc = "load_wp", !.num = num_readers] /\ Others
      BY <1>1, <1>2 DEF LoadNumReaders
    <2> QED
      BY <1>0, <2>1 DEF Publisher
  <1>3. ASSUME LoadWritePointer(p)
        PROVE  /\ Others /\ Same /\ c.wp = write_pointer
               /\ \/ c.pc = "wrap_tag" /\ MustWrap(write_pointer.ptr, b.size)
                  \/ /\ c.pc = IF 0 < b.num THEN "area" ELSE "size"
                     /\ c.i = 0
    <2> DEFINE r == [b EXCEPT !.wp = write_pointer]
    <2>0. r.num = b.num /\ r.size = b.size /\ r.msg = b.msg /\ r.wp = write_pointer
      BY <1>0 DEF Publisher
    <2>1. CASE MustWrap(write_pointer.ptr, b.size)
      <3>1. c = [r EXCEPT !.pc = "wrap_tag"] /\ Others
        BY <1>1, <1>3, <2>0, <2>1 DEF LoadWritePointer
      <3> QED
        BY <1>0, <2>1, <3>1 DEF Publisher
    <2>2. CASE ~MustWrap(write_pointer.ptr, b.size)
      <3>1. c = AtSlot(r, 0, "area", "size") /\ Others
        BY <1>1, <1>3, <2>0, <2>2 DEF LoadWritePointer
      <3> QED
        BY <1>0, <3>1 DEF Publisher, AtSlot
    <2> QED
      BY <2>1, <2>2
  <1>4. ASSUME StoreWrapTag(p)
        PROVE  /\ Others /\ Same /\ c.wp = b.wp
               /\ c.pc = IF 0 < b.num THEN "beyond" ELSE "wrap_wp"
    <2>1. c = AtSlot(b, 0, "beyond", "wrap_wp") /\ Others
      BY <1>1, <1>4 DEF StoreWrapTag
    <2> QED
      BY <1>0, <2>1 DEF Publisher, AtSlot
  <1>5. ASSUME StoreWrap(p)
        PROVE  /\ Others /\ Same /\ c.wp = Pos(NextCycle(b.wp.cyc), 0) /\ c.i = 0
               /\ c.pc = IF 0 < b.num THEN "area" ELSE "size"
    <2> DEFINE w == Pos(NextCycle(b.wp.cyc), 0)
    <2>1. c = AtSlot([b EXCEPT !.wp = w], 0, "area", "size") /\ Others
      BY <1>1, <1>5 DEF StoreWrap
    <2> HIDE DEF w
    <2>2. Same /\ c.wp = w /\ c.i = 0 /\ c.pc = IF 0 < b.num THEN "area" ELSE "size"
      BY <1>0, <2>1 DEF Publisher, AtSlot
    <2> QED
      BY <2>1, <2>2 DEF w
  <1>6. ASSUME StoreSize(p)
        PROVE  Others /\ Same /\ c.wp = b.wp /\ c.pc = "copy" /\ c.part = 1
    <2>1. c = [b EXCEPT !.pc = "copy", !.part = 1] /\ Others
      BY <1>1, <1>6 DEF StoreSize
    <2> QED
      BY <1>0, <2>1 DEF Publisher
  <1>7. ASSUME StorePayload(p)
        PROVE  /\ Others /\ Same /\ c.wp = b.wp
               /\ \/ c.pc = "copy" /\ b.part < Parts(b.size) /\ c.part = b.part + 1
                  \/ c.pc = "publish" /\ ~(b.part < Parts(b.size))
    <2>1. CASE b.part < Parts(b.size)
      <3>1. c = [b EXCEPT !.part = b.part + 1] /\ Others /\ b.pc = "copy"
        BY <1>1, <1>7, <2>1 DEF StorePayload
      <3> QED
        BY <1>0, <2>1, <3>1 DEF Publisher
    <2>2. CASE ~(b.part < Parts(b.size))
      <3>1. PubGoto(p, "publish")
        BY <1>7, <2>2 DEF StorePayload
      <3> QED
        BY <2>2, <3>1, PubGotoUpdate
    <2> QED
      BY <2>1, <2>2
  <1>8. ASSUME StoreWritePointer(p) PROVE Others /\ c.pc \notin InSend \cup {"check_uid"}
    <2>1. CASE SetPub(p, [b EXCEPT !.pc = "notify", !.i = 0])
      <3>1. c = [b EXCEPT !.pc = "notify", !.i = 0] /\ Others
        BY <1>1, <2>1
      <3> QED
        BY <1>0, <3>1 DEF Publisher, InSend
    <2>2. CASE PubReturn(p, "sent")
      BY <2>2, PubReturnUpdate DEF InSend
    <2> QED
      BY <1>8, <2>1, <2>2 DEF StoreWritePointer
  <1> QED
    BY <1>2, <1>3, <1>4, <1>5, <1>6, <1>7, <1>8

(* The loop over the area passes one slot at a time, from none on.         *)
LEMMA PassedFirst ==
  ASSUME NEW c, NEW i \in Nat, c.i = 0, c.num \in Nat,
         c.pc = IF 0 < c.num THEN "area" ELSE "size", Passed(c, i)
  PROVE  i >= c.num
  BY DEF Passed

(* The readers a send has dealt with remain so when it goes on to the     *)
(* next slot.                                                             *)
LEMMA PassedNext ==
  ASSUME NEW b, NEW c, NEW i \in Nat, b.i \in Nat, b.num \in Nat, c.i = b.i + 1, c.num = b.num,
         c.pc = IF b.i + 1 < b.num THEN "area" ELSE "size",
         b.pc \in {"area", "area_inv"}, Passed(c, i)
  PROVE  Passed(b, i) \/ i = b.i
  BY DEF Passed

(* A step that moves neither the write pointer nor the sent counter.       *)
LEMMA CycleStep ==
  ASSUME CycleBound, NEW p \in Publishers,
         \A q \in Publishers : q # p => pub'[q] = pub[q],
         UNCHANGED <<write_pointer, write_uid, sent>>,
         pub'[p].pc \in {"check_uid", "load_num"} \cup BeforeWrap =>
           /\ pub[p].pc \in {"check_uid", "load_num"} \cup BeforeWrap
           /\ pub'[p].msg = pub[p].msg
  PROVE  CycleBound'
  BY DEF CycleBound

(* The loads of msgq_msg_send.                                             *)
LEMMA BeginDelivery ==
  ASSUME IInv, ReadSound, RegInv, DeliveryInv, NEW p \in Publishers, NEW n \in MsgSizes, BeginSend(p, n)
  PROVE  DeliveryInv'
  <1> DEFINE b == pub[p]
             c == pub'[p]
  <1>1. /\ UNCHANGED <<write_pointer, write_uid, slots, data, sub, out>> /\ sent' = sent + 1
        /\ b.pc = "idle" /\ c.pc = "check_uid" /\ c.msg = sent + 1
        /\ \A q \in Publishers : q # p => pub'[q] = pub[q]
    BY PubUpdate DEF BeginSend, PubAt, shared, queue
  <1>2. CycleBound'
    <2>1. CycleBound /\ write_pointer.cyc \in Nat /\ sent \in Nat
      BY IInvParts DEF DeliveryInv, WriteInv, SharedOK, Position
    <2>2. \A q \in Publishers : pub[q].msg \in Nat
      BY IInvParts DEF Publisher
    <2> QED
      BY <1>1, <2>1, <2>2 DEF CycleBound
  <1>3. /\ WriterOK(c, write_pointer, data) /\ c.pc \notin {"copy", "publish"}
        /\ \A q, r, W : Allows(c, q, r, W)
        /\ \A W, i, r : ClearReset(c, W, i, r)
    BY <1>1, OffDuty DEF InSend
  <1>4. \A s \in Subscribers : Valid(s)' => Valid(s)
    BY <1>1 DEF Valid, slots
  <1> QED
    BY <1>1, <1>2, <1>3, <1>4, PubStill DEF slots

(* The loads with which a send begins (write_uid, num_readers,            *)
(* write_pointer) keep the delivery invariant.                            *)
LEMMA LoadsDelivery ==
  ASSUME IInv, ReadSound, RegInv, DeliveryInv, NEW p \in Publishers,
         CheckWriteUid(p) \/ LoadNumReaders(p) \/ LoadWritePointer(p)
  PROVE  DeliveryInv'
  <1> DEFINE b == pub[p]
             c == pub'[p]
             W == write_pointer
  <1>0. /\ b \in Publisher /\ W \in Position /\ Sound(W) /\ num_readers \in Nat
        /\ CycleBound /\ WriterOK(b, W, data)
    BY IInvParts, NumReadersAssumption DEF SharedOK, DeliveryInv, WriteInv
  <1>1. UNCHANGED <<write_pointer, write_uid, slots, data, sub, out, sent>>
    BY DEF CheckWriteUid, LoadNumReaders, LoadWritePointer, shared, queue
  <1>2. \A s \in Subscribers : Valid(s)' => Valid(s)
    BY <1>1 DEF Valid, slots
  <1>3. CASE CheckWriteUid(p)
    <2>1. b.pc = "check_uid"
      BY <1>3 DEF CheckWriteUid
    <2>2. CASE PubReturn(p, "in_use")
      <3>1. c.pc = "idle" /\ \A q \in Publishers : q # p => pub'[q] = pub[q]
        BY <2>2, PubReturnUpdate
      <3> QED
        BY <1>1, <1>2, <2>1, <3>1, OffStep DEF slots, InSend
    <2>3. CASE PubGoto(p, "load_num")
      <3>1. c.pc = "load_num" /\ c.msg = b.msg /\ \A q \in Publishers : q # p => pub'[q] = pub[q]
        BY <2>3, PubGotoUpdate
      <3>2. CycleBound'
        BY <1>0, <1>1, <2>1, <3>1, CycleStep
      <3>3. /\ WriterOK(c, W, data) /\ c.pc \notin {"copy", "publish"}
            /\ \A q, r : Allows(c, q, r, W)
            /\ \A i, r : ClearReset(c, W, i, r)
        BY <3>1 DEF WriterOK, Allows, Clear, ClearReset, Outside, BeforeWrap, Writing
      <3> QED
        BY <1>1, <1>2, <2>1, <3>1, <3>2, <3>3, PubStill DEF slots
    <2> QED
      BY <1>3, <2>2, <2>3 DEF CheckWriteUid
  <1>4. CASE LoadNumReaders(p)
    <2>1. /\ b.pc = "load_num" /\ c.pc = "load_wp" /\ c.num = num_readers /\ c.msg = b.msg
          /\ \A q \in Publishers : q # p => pub'[q] = pub[q]
      BY <1>4, SendUpdate DEF LoadNumReaders
    <2>2. CycleBound'
      BY <1>0, <1>1, <2>1, CycleStep
    <2>3. WriterOK(c, W, data)
      BY <2>1 DEF WriterOK, BeforeWrap
    <2>4. \A q \in Publishers : ~Starting(q)
      <3>1. write_uid = p
        BY <2>1, Alone DEF InSend
      <3> QED
        BY <2>1, <3>1 DEF RegInv, Sole, Starting
    <2>5. ASSUME NEW s \in Subscribers, Valid(s)
          PROVE  Allows(c, sub[s], read_pointers[sub[s].id], W)
      <3>1. sub[s].id < num_readers /\ sub[s].id \in Nat
        BY <2>4, <2>5, ReaderSlot
      <3>2. ~(sub[s].id >= c.num)
        BY <1>0, <2>1, <3>1
      <3> QED
        BY <2>1, <3>2 DEF Allows, Clear, Outside, Writing
    <2>6. ASSUME NEW s \in Subscribers, sub[s].pc = "reset_store"
          PROVE  ClearReset(c, W, sub[s].id, sub[s].wp)
      <3>1. sub[s].id < num_readers /\ sub[s].id \in Nat
        BY <2>4, <2>6, ReaderSlot
      <3>2. ~(sub[s].id >= c.num)
        BY <1>0, <2>1, <3>1
      <3> QED
        BY <2>1, <3>2 DEF ClearReset, Clear, Writing
    <2> QED
      BY <1>1, <1>2, <2>1, <2>2, <2>3, <2>5, <2>6, PubStill DEF slots
  <1>5. CASE LoadWritePointer(p)
    <2>1. /\ b.pc = "load_wp" /\ c.num = b.num /\ c.size = b.size /\ c.msg = b.msg /\ c.wp = W
          /\ \A q \in Publishers : q # p => pub'[q] = pub[q]
          /\ \/ c.pc = "wrap_tag" /\ MustWrap(W.ptr, b.size)
             \/ /\ c.pc = IF 0 < b.num THEN "area" ELSE "size"
                /\ c.i = 0
      BY <1>5, SendUpdate DEF LoadWritePointer
    <2>2. CycleBound'
      BY <1>0, <1>1, <2>1, CycleStep DEF BeforeWrap
    <2>3. WriterOK(c, W, data) /\ c.pc \notin {"copy", "publish"}
      BY <2>1 DEF WriterOK, BeforeWrap
    <2>4. ASSUME NEW i \in Nat, NEW r, i >= b.num => r = W
          PROVE  ClearReset(c, W, i, r) /\ (i >= b.num => Outside(c, i, r))
      <3>1. CASE c.pc = "wrap_tag"
        BY <2>1, <2>4, <3>1 DEF ClearReset, Clear, Outside, Writing
      <3>2. CASE c.pc # "wrap_tag"
        <4>1. c.num \in Nat /\ c.pc \in {"area", "size"}
          BY <1>0, <2>1, <3>2 DEF Publisher
        <4>2. Passed(c, i) => i >= b.num
          BY <2>1, <3>2, <4>1, PassedFirst
        <4>3. ~Inside(c, W) /\ ~InArea(W, c.wp, c.size)
          BY <2>1 DEF Inside, InArea
        <4> QED
          BY <2>4, <4>1, <4>2, <4>3 DEF ClearReset, Clear, Outside, BeforeWrap
      <3> QED
        BY <3>1, <3>2
    <2>5. ASSUME NEW s \in Subscribers, Valid(s)
          PROVE  Allows(c, sub[s], read_pointers[sub[s].id], W)
      <3> DEFINE q == sub[s]
                 r == read_pointers[q.id]
      <3>1. Knows(q, r, W, data) /\ Allows(b, q, r, W)
        BY <2>5 DEF DeliveryInv, ReadInv, ReaderOK
      <3>2. q.id \in Nat /\ (q.id >= b.num => r = W)
        BY <2>1, <2>5, <3>1, ReaderSlot DEF Allows, Clear, BeforeWrap
      <3>3. q.pc \in Holds => q.rp = r
        BY <3>1 DEF Knows
      <3>4. ~(q.id >= b.num) => Outside(c, q.id, r)
        <4>1. CASE c.pc = "wrap_tag"
          BY <4>1 DEF Outside, Writing
        <4>2. CASE c.pc # "wrap_tag"
          <5>1. c.num \in Nat
            BY <1>0, <2>1 DEF Publisher
          <5>2. Passed(c, q.id) => q.id >= b.num
            BY <2>1, <3>2, <4>2, <5>1, PassedFirst
          <5> QED
            BY <5>2 DEF Outside
        <4> QED
          BY <4>1, <4>2
      <3> QED
        BY <2>4, <3>2, <3>3, <3>4 DEF Allows, ClearReset
    <2>6. ASSUME NEW s \in Subscribers, sub[s].pc = "reset_store"
          PROVE  ClearReset(c, W, sub[s].id, sub[s].wp)
      <3>1. ClearReset(b, W, sub[s].id, sub[s].wp)
        BY <2>6 DEF DeliveryInv, ReadInv, ResetOK
      <3>2. sub[s].id \in Nat
        BY <2>6, ReaderSlot
      <3> QED
        BY <2>1, <2>4, <3>1, <3>2 DEF ClearReset, Clear, BeforeWrap
    <2> QED
      BY <1>1, <1>2, <2>1, <2>2, <2>3, <2>5, <2>6, PubStill DEF slots
  <1> QED
    BY <1>3, <1>4, <1>5

(* The invalidation loops.  Between the wrap-around tag and the new cycle  *)
(* no slot matters.                                                        *)
LEMMA BeyondDelivery ==
  ASSUME IInv, ReadSound, RegInv, DeliveryInv, NEW p \in Publishers, CheckSlot(p) \/ Invalidate(p),
         pub[p].pc \in {"beyond", "beyond_inv"}
  PROVE  DeliveryInv'
  <1> DEFINE b == pub[p]
             c == pub'[p]
             W == write_pointer
  <1>0. /\ b \in Publisher /\ read_valids \in [Slots -> BOOLEAN]
        /\ CycleBound /\ WriterOK(b, W, data)
    BY IInvParts DEF SharedOK, DeliveryInv, WriteInv
  <1>1. UNCHANGED <<write_pointer, write_uid, read_pointers, read_uids, data, sub, out, sent>>
    BY DEF CheckSlot, Invalidate, shared, queue, slots
  <1>2. \A s \in Subscribers : Valid(s)' => Valid(s)
    <2>1. \A i \in Slots : read_valids'[i] => read_valids[i]
      BY <1>0 DEF CheckSlot, Invalidate, shared, slots
    <2> QED
      BY <1>1, <2>1, ValidFalls
  <1>3. /\ c.num = b.num /\ c.wp = b.wp /\ c.size = b.size /\ c.msg = b.msg
        /\ c.pc \in {"beyond", "beyond_inv", "wrap_wp"}
        /\ \A q \in Publishers : q # p => pub'[q] = pub[q]
    <2>1. CASE NextSlot(p)
      BY <2>1, NextSlotUpdate
    <2>2. CASE PubGoto(p, "beyond_inv")
      BY <2>2, PubGotoUpdate
    <2> QED
      BY <2>1, <2>2 DEF CheckSlot, Invalidate
  <1>4. CycleBound'
    BY <1>0, <1>1, <1>3, CycleStep DEF BeforeWrap
  <1>5. WriterOK(c, W, data)
    BY <1>0, <1>3 DEF WriterOK, BeforeWrap, InSend
  <1>6. ASSUME NEW s \in Subscribers, Valid(s)
        PROVE  Allows(c, sub[s], read_pointers[sub[s].id], W)
    <2>1. Allows(b, sub[s], read_pointers[sub[s].id], W)
      BY <1>6 DEF DeliveryInv, ReadInv, ReaderOK
    <2> QED
      BY <1>3, <2>1 DEF Allows, Clear, Outside, Writing, BeforeWrap
  <1>7. ASSUME NEW s \in Subscribers, sub[s].pc = "reset_store"
        PROVE  ClearReset(c, W, sub[s].id, sub[s].wp)
    <2>1. ClearReset(b, W, sub[s].id, sub[s].wp)
      BY <1>7 DEF DeliveryInv, ReadInv, ResetOK
    <2> QED
      BY <1>3, <2>1 DEF ClearReset, Clear, Writing, BeforeWrap
  <1> QED
    BY <1>1, <1>2, <1>3, <1>4, <1>5, <1>6, <1>7, PubStill

(* In the loop over the area a slot is passed if its position is outside,  *)
(* or once it is invalid.  No reader is about to store a position that was *)
(* rejected (NoLapInReset).                                                *)
LEMMA AreaDelivery ==
  ASSUME IInv, ReadSound, RegInv, DeliveryInv, NEW p \in Publishers, CheckSlot(p) \/ Invalidate(p),
         pub[p].pc \in {"area", "area_inv"}, NoLapInReset
  PROVE  DeliveryInv'
  <1> DEFINE b == pub[p]
             c == pub'[p]
             W == write_pointer
  <1>0. /\ b \in Publisher /\ PubSound(b) /\ b.i \in Nat /\ b.num \in Nat
        /\ read_valids \in [Slots -> BOOLEAN]
        /\ CycleBound /\ WriterOK(b, W, data)
    BY IInvParts, NumReadersAssumption DEF SharedOK, DeliveryInv, WriteInv, Publisher
  <1>1. UNCHANGED <<write_pointer, write_uid, read_pointers, read_uids, data, sub, out, sent>>
    BY DEF CheckSlot, Invalidate, shared, queue, slots
  <1>2. \A s \in Subscribers : Valid(s)' => Valid(s)
    <2>1. \A i \in Slots : read_valids'[i] => read_valids[i]
      BY <1>0 DEF CheckSlot, Invalidate, shared, slots
    <2> QED
      BY <1>1, <2>1, ValidFalls
  <1>3. ASSUME NEW s \in Subscribers, Valid(s)
        PROVE  /\ sub[s].id \in Nat /\ sub[s].id \in Slots
               /\ Allows(b, sub[s], read_pointers[sub[s].id], W)
               /\ sub[s].pc \in Holds => sub[s].rp = read_pointers[sub[s].id]
    BY <1>3, ReaderSlot DEF DeliveryInv, ReadInv, ReaderOK, Knows
  <1>4. ASSUME NEW s \in Subscribers, sub[s].pc = "reset_store"
        PROVE  sub[s].id \in Nat /\ ClearReset(b, W, sub[s].id, sub[s].wp)
    BY <1>4, ReaderSlot DEF DeliveryInv, ReadInv, ResetOK
  <1>5. CASE CheckSlot(p) /\ Overrun(p, read_pointers[b.i])
    <2>1. PubGoto(p, "area_inv") /\ b.pc = "area"
      BY <1>5 DEF CheckSlot
    <2>2. /\ c.num = b.num /\ c.wp = b.wp /\ c.size = b.size /\ c.msg = b.msg /\ c.i = b.i
          /\ c.pc = "area_inv" /\ \A q \in Publishers : q # p => pub'[q] = pub[q]
      BY <2>1, PubGotoUpdate
    <2>3. CycleBound' /\ WriterOK(c, W, data)
      BY <1>0, <1>1, <2>1, <2>2, CycleStep DEF BeforeWrap, WriterOK, InSend
    <2>4. ASSUME NEW i PROVE Passed(c, i) <=> Passed(b, i)
      BY <2>1, <2>2 DEF Passed
    <2>5. ASSUME NEW r PROVE Inside(c, r) <=> Inside(b, r)
      BY <2>2 DEF Inside
    <2>6. ASSUME NEW s \in Subscribers, Valid(s)
          PROVE  Allows(c, sub[s], read_pointers[sub[s].id], W)
      <3>1. Allows(b, sub[s], read_pointers[sub[s].id], W)
        BY <1>3, <2>6
      <3> QED
        BY <2>1, <2>2, <2>4, <2>5, <3>1 DEF Allows, Clear, Outside, Writing, BeforeWrap
    <2>7. ASSUME NEW s \in Subscribers, sub[s].pc = "reset_store"
          PROVE  ClearReset(c, W, sub[s].id, sub[s].wp)
      <3>1. sub[s].id \in Nat /\ ClearReset(b, W, sub[s].id, sub[s].wp)
        BY <1>4, <2>7
      <3>2. sub[s].id = b.i => ~Inside(b, sub[s].wp)
        <4>1. c # b
          BY <2>1, <2>2
        <4> QED
          BY <2>1, <2>7, <4>1 DEF NoLapInReset, Overrun, Inside
      <3> QED
        BY <2>1, <2>2, <2>4, <2>5, <3>1, <3>2 DEF ClearReset, Clear, Writing, BeforeWrap
    <2> QED
      BY <1>1, <1>2, <2>1, <2>2, <2>3, <2>6, <2>7, PubStill
  <1>6. CASE Invalidate(p) \/ ~Overrun(p, read_pointers[b.i])
    <2>1. NextSlot(p)
      BY <1>6 DEF CheckSlot, Invalidate
    <2>2. /\ c.num = b.num /\ c.wp = b.wp /\ c.size = b.size /\ c.msg = b.msg /\ c.i = b.i + 1
          /\ c.pc = IF b.i + 1 < b.num THEN "area" ELSE "size"
          /\ \A q \in Publishers : q # p => pub'[q] = pub[q]
      BY <2>1, NextSlotUpdate
    <2>3. CycleBound' /\ WriterOK(c, W, data) /\ c.pc \in {"area", "size"}
      BY <1>0, <1>1, <2>2, CycleStep DEF BeforeWrap, WriterOK, InSend
    <2>4. ASSUME NEW i \in Nat, Passed(c, i) PROVE Passed(b, i) \/ i = b.i
      BY <1>0, <2>2, <2>4, PassedNext
    <2>5. ASSUME NEW r PROVE Inside(c, r) <=> Inside(b, r)
      BY <2>2 DEF Inside
    <2>6. ASSUME NEW s \in Subscribers, Valid(s)'
          PROVE  Allows(c, sub[s], read_pointers[sub[s].id], W)
      <3> DEFINE i == sub[s].id
                 r == read_pointers[i]
      <3>1. Valid(s) /\ i \in Nat /\ i \in Slots /\ Allows(b, sub[s], r, W)
            /\ (sub[s].pc \in Holds => sub[s].rp = r)
        BY <1>2, <1>3, <2>6
      <3>2. i = b.i => ~InArea(r, b.wp, b.size)
        <4>1. CASE Invalidate(p)
          BY <1>0, <1>1, <2>6, <3>1, <4>1 DEF Invalidate, Valid
        <4>2. CASE CheckSlot(p) /\ ~Overrun(p, read_pointers[b.i])
          BY <4>2 DEF CheckSlot, Overrun
        <4> QED
          BY <1>6, <4>1, <4>2
      <3>3. Passed(c, i) => ~Inside(c, r)
        BY <2>4, <2>5, <3>1, <3>2 DEF Allows, Clear, Writing, Inside
      <3>4. Passed(c, i) /\ sub[s].pc \in Holds => ~InArea(sub[s].rp, c.wp, c.size)
        BY <2>2, <2>4, <3>1, <3>2 DEF Allows, Outside, Writing
      <3> QED
        BY <2>3, <3>3, <3>4 DEF Allows, Clear, Outside, BeforeWrap
    <2>7. ASSUME NEW s \in Subscribers, sub[s].pc = "reset_store"
          PROVE  ClearReset(c, W, sub[s].id, sub[s].wp)
      <3> DEFINE i == sub[s].id
                 r == sub[s].wp
      <3>1. i \in Nat /\ ClearReset(b, W, i, r)
        BY <1>4, <2>7
      <3>2. i = b.i => ~Inside(b, r)
        <4>1. CASE b.pc = "area_inv"
          BY <3>1, <4>1 DEF ClearReset
        <4>2. CASE b.pc = "area"
          <5>1. c # b
            BY <1>0, <2>2
          <5> QED
            BY <2>7, <4>2, <5>1 DEF NoLapInReset, Overrun, Inside
        <4> QED
          BY <4>1, <4>2
      <3>3. Passed(c, i) => ~Inside(c, r)
        BY <2>4, <2>5, <3>1, <3>2 DEF ClearReset, Clear, Writing
      <3> QED
        BY <2>3, <3>3 DEF ClearReset, Clear, BeforeWrap
    <2> QED
      BY <1>1, <1>2, <2>2, <2>3, <2>6, <2>7, PubStill
  <1> QED
    BY <1>5, <1>6

(* The stores.  What is known when the publisher is about to make one.     *)
LEMMA ChainOpen ==
  ASSUME NEW d, NEW h, NEW x, NEW y, x <=> y, Chain(d, h, x)
  PROVE  Chain(d, h, y)
  BY DEF Chain

(* Where a send is in its copy: it works from the current write_pointer,  *)
(* and no other publisher can move it.                                    *)
LEMMA WriterFacts ==
  ASSUME IInv, ReadSound, RegInv, DeliveryInv, NEW p \in Publishers,
         pub[p].pc \in InSend \ {"load_num", "load_wp"}
  PROVE  LET b == pub[p]
             W == write_pointer
             h == WordAt(W.ptr) IN
           /\ b \in Publisher /\ PubSound(b) /\ b.wp = W
           /\ W \in Position /\ Sound(W) /\ W.ptr \in Nat /\ W.cyc \in Nat /\ W.ptr % 8 = 0
           /\ h \in WordAddrs /\ h \in Nat /\ 8 * h = W.ptr
           /\ b.num \in Nat /\ b.msg \in Nat /\ b.size \in MsgSizes /\ b.size \in Nat
           /\ data \in [WordAddrs -> Words] /\ TagsFit(data)
           /\ Chain(data, h, b.pc \in {"copy", "publish"})
           /\ WriterOK(b, W, data) /\ CycleBound /\ write_uid = p
           /\ \A q \in Publishers : q # p => pub[q].pc \notin InSend
  <1> DEFINE b == pub[p]
             W == write_pointer
             h == WordAt(W.ptr)
  <1>1. /\ b \in Publisher /\ PubSound(b) /\ SharedOK /\ W \in Position /\ Sound(W)
        /\ data \in [WordAddrs -> Words]
    BY PubFacts DEF SharedOK
  <1>2. /\ W.ptr \in Nat /\ W.cyc \in Nat /\ W.ptr % 8 = 0
        /\ h \in WordAddrs /\ h \in Nat /\ 8 * h = W.ptr
    BY <1>1, PosFacts
  <1>3. WriterOK(b, W, data) /\ CycleBound /\ Chain(data, h, Open)
    BY DEF DeliveryInv, WriteInv
  <1>4. b.wp = W
    BY <1>3 DEF WriterOK
  <1>5. b.num \in Nat /\ b.msg \in Nat
    BY <1>1 DEF Publisher
  <1>6. b.size \in MsgSizes /\ b.size \in Nat
    <2>1. b.size \in MsgSizes
      BY <1>1 DEF PubSound, InSend
    <2> QED
      BY <2>1, MsgSizeFacts
  <1>7. write_uid = p /\ \A q \in Publishers : q # p => pub[q].pc \notin InSend
    BY Alone
  <1>8. Open <=> b.pc \in {"copy", "publish"}
    BY <1>7 DEF Open, InSend
  <1>9. Chain(data, h, b.pc \in {"copy", "publish"})
    BY <1>3, <1>8, ChainOpen
  <1>10. TagsFit(data)
    BY <1>1, TagsFitFacts
  <1> QED
    BY <1>1, <1>2, <1>3, <1>4, <1>5, <1>6, <1>7, <1>9, <1>10

(* What is known of a valid reader, and of one about to end its reset.     *)
LEMMA ReaderKnows ==
  ASSUME IInv, ReadSound, RegInv, DeliveryInv, NEW p \in Publishers, NEW s \in Subscribers
  PROVE  /\ Valid(s) =>
              /\ Knows(sub[s], read_pointers[sub[s].id], write_pointer, data)
              /\ Allows(pub[p], sub[s], read_pointers[sub[s].id], write_pointer)
         /\ sub[s].pc = "reset_store" =>
              /\ GoodPos(sub[s].wp, write_pointer, data)
              /\ ClearReset(pub[p], write_pointer, sub[s].id, sub[s].wp)
  BY DEF DeliveryInv, ReadInv, ReaderOK, ResetOK

(* A wrap-around is not needed at the start of the data area, and where it *)
(* is needed, the first message of the new cycle ends before.              *)
LEMMA WrapRoom ==
  ASSUME NEW ptr \in Nat, NEW n \in MsgSizes, MustWrap(ptr, n)
  PROVE  ptr > 0 /\ Total(n) \in Nat /\ ptr >= Total(n) /\ Total(n) > 8
  <1>1. n \in Nat /\ n > 0 /\ 3 * Total(n) <= Size
    BY MsgSizeFacts, MsgSizesAssumption
  <1>2. Total(n) \in Nat /\ Parts(n) \in Nat /\ Parts(n) > 0 /\ Total(n) = 8 + 8 * Parts(n)
    BY <1>1, TotalFacts
  <1> QED
    BY <1>1, <1>2, SizeAssumption DEF MustWrap

(* The wrap-around tag.                                                    *)
LEMMA WrapTagDelivery ==
  ASSUME IInv, ReadSound, RegInv, DeliveryInv, NEW p \in Publishers, StoreWrapTag(p)
  PROVE  DeliveryInv'
  <1> DEFINE b == pub[p]
             c == pub'[p]
             W == write_pointer
             h == WordAt(W.ptr)
  <1>0. b.pc = "wrap_tag" /\ b.pc \in InSend \ {"load_num", "load_wp"}
    BY DEF StoreWrapTag, InSend
  <1>1. /\ b \in Publisher /\ b.wp = W /\ W \in Position /\ Sound(W) /\ W.ptr \in Nat
        /\ h \in WordAddrs /\ h \in Nat /\ 8 * h = W.ptr
        /\ b.size \in MsgSizes /\ data \in [WordAddrs -> Words] /\ TagsFit(data)
        /\ Chain(data, h, b.pc \in {"copy", "publish"}) /\ WriterOK(b, W, data) /\ CycleBound
        /\ \A q \in Publishers : q # p => pub[q].pc \notin InSend
    BY <1>0, WriterFacts
  <1>2. /\ c.num = b.num /\ c.size = b.size /\ c.msg = b.msg /\ c.wp = b.wp
        /\ c.pc \in {"beyond", "wrap_wp"}
        /\ \A q \in Publishers : q # p => pub'[q] = pub[q]
    BY SendUpdate
  <1>3. /\ UNCHANGED <<write_pointer, write_uid, slots, sub, out, sent>>
        /\ data' = [data EXCEPT ![h] = WrapTag]
    BY <1>1 DEF StoreWrapTag, queue
  <1>4. Start(WrapTag) /\ WrapTag.kind = "wrap" /\ WrapTag \in Words
    BY KindFacts
  <1>5. Chain(data', h, c.pc \in {"copy", "publish"})
    <2>1. h > 0
      <3>1. MustWrap(W.ptr, b.size)
        BY <1>0, <1>1 DEF WriterOK, BeforeWrap
      <3> QED
        BY <1>1, <3>1, WrapRoom
    <2>2. Chain(data, h, FALSE)
      BY <1>0, <1>1 DEF Chain
    <2>3. Chain([data EXCEPT ![h] = WrapTag], h, WrapTag.kind = "size")
      BY <1>1, <1>4, <2>1, <2>2, ChainTag
    <2>4. Chain(data', h, WrapTag.kind = "size")
      BY <1>3, <2>3
    <2> QED
      BY <1>2, <1>4, <2>4, ChainOpen
  <1>6. CycleBound'
    BY <1>0, <1>1, <1>2, <1>3, CycleStep DEF BeforeWrap
  <1>7. WriterOK(c, write_pointer', data')
    <2>1. data'[h] = WrapTag
      BY <1>1, <1>3
    <2> QED
      BY <1>0, <1>1, <1>2, <1>3, <2>1 DEF WriterOK, BeforeWrap, InSend
  <1>8. ASSUME NEW s \in Subscribers, Valid(s)
        PROVE  /\ Knows(sub[s], read_pointers[sub[s].id], write_pointer', data')
               /\ Allows(c, sub[s], read_pointers[sub[s].id], write_pointer')
    <2> DEFINE q == sub[s]
               r == read_pointers[q.id]
    <2>1. Knows(q, r, W, data) /\ Allows(b, q, r, W)
      BY <1>8, ReaderKnows
    <2>2. q \in Subscriber /\ SubSound(q) /\ LoadSound(q) /\ r \in Position /\ Sound(r)
      BY <1>8, ReaderSlot
    <2>3. Knows(q, r, W, [data EXCEPT ![h] = WrapTag])
      BY <1>1, <1>4, <2>1, <2>2, KnowsTag
    <2>4. Allows(c, q, r, W)
      BY <1>0, <1>2, <2>1 DEF Allows, Clear, Outside, BeforeWrap, Writing
    <2> QED
      BY <1>3, <2>3, <2>4
  <1>9. ASSUME NEW s \in Subscribers, sub[s].pc = "reset_store"
        PROVE  /\ GoodPos(sub[s].wp, write_pointer', data')
               /\ ClearReset(c, write_pointer', sub[s].id, sub[s].wp)
    <2> DEFINE q == sub[s]
    <2>1. GoodPos(q.wp, W, data) /\ ClearReset(b, W, q.id, q.wp)
      BY <1>9, ReaderKnows
    <2>2. q \in Subscriber /\ SubSound(q) /\ LoadSound(q) /\ q.wp \in Position /\ Sound(q.wp)
      BY <1>9, ReaderSlot
    <2>3. GoodPos(q.wp, W, [data EXCEPT ![h] = WrapTag])
      BY <1>1, <1>4, <2>1, <2>2, KnowsTag
    <2>4. ClearReset(c, W, q.id, q.wp)
      BY <1>0, <1>2, <2>1 DEF ClearReset, Clear, BeforeWrap, Writing
    <2> QED
      BY <1>3, <2>3, <2>4
  <1> QED
    BY <1>1, <1>2, <1>3, <1>5, <1>6, <1>7, <1>8, <1>9, PubStore

(* The new cycle.  Its number is higher than all before: the counter does  *)
(* not overflow.                                                           *)
NoOverflow == MaxSends < CycleMod

(* A remainder that changes nothing.                                      *)
LEMMA ModSmall ==
  ASSUME NEW x \in Nat, NEW m \in Nat \ {0}, x < m
  PROVE  x % m = x
  OBVIOUS

(* The store of the wrapped write_pointer keeps the delivery invariant,   *)
(* while the cycle counter does not overflow.                             *)
LEMMA StoreWrapDelivery ==
  ASSUME IInv, ReadSound, RegInv, DeliveryInv, NEW p \in Publishers, StoreWrap(p), NoOverflow
  PROVE  DeliveryInv'
  <1> DEFINE b == pub[p]
             c == pub'[p]
             W == write_pointer
             h == WordAt(W.ptr)
             n == b.size
             V == Pos(W.cyc + 1, 0)
  <1>0. b.pc = "wrap_wp" /\ b.pc \in InSend \ {"load_num", "load_wp"}
    BY DEF StoreWrap, InSend
  <1>1. /\ b \in Publisher /\ b.wp = W /\ W \in Position /\ Sound(W) /\ W.ptr \in Nat
        /\ W.cyc \in Nat /\ h \in WordAddrs /\ h \in Nat /\ 8 * h = W.ptr
        /\ n \in MsgSizes /\ n \in Nat /\ data \in [WordAddrs -> Words]
        /\ Chain(data, h, b.pc \in {"copy", "publish"}) /\ WriterOK(b, W, data) /\ CycleBound
        /\ write_uid = p /\ b.num \in Nat /\ b.msg \in Nat
        /\ \A q \in Publishers : q # p => pub[q].pc \notin InSend
    BY <1>0, WriterFacts
  <1>2. /\ W.cyc < b.msg /\ b.msg <= sent /\ sent \in Nat /\ sent <= MaxSends
    BY <1>0, <1>1, IInvParts, MaxSendsAssumption DEF CycleBound, BeforeWrap
  <1>3. NextCycle(b.wp.cyc) = W.cyc + 1
    <2>1. W.cyc + 1 \in Nat /\ W.cyc + 1 < CycleMod /\ CycleMod \in Nat \ {0}
      BY <1>1, <1>2, CycleModAssumption, MaxSendsAssumption DEF NoOverflow
    <2> QED
      BY <1>1, <2>1, ModSmall DEF NextCycle
  <1>4. /\ UNCHANGED <<write_uid, slots, data, sub, out, sent>> /\ write_pointer' = V
    BY <1>3 DEF StoreWrap
  <1>5. /\ c.num = b.num /\ c.size = n /\ c.msg = b.msg /\ c.wp = V /\ c.i = 0
        /\ c.pc = IF 0 < c.num THEN "area" ELSE "size"
        /\ \A q \in Publishers : q # p => pub'[q] = pub[q]
    BY <1>3, SendUpdate
  <1>6. V.ptr = 0 /\ V.cyc = W.cyc + 1 /\ c.pc \in {"area", "size"}
    BY <1>5 DEF Pos
  <1>7. data[h] = WrapTag /\ MustWrap(W.ptr, n)
    BY <1>0, <1>1 DEF WriterOK, BeforeWrap
  <1>8. Start(data[h])
    BY <1>7, KindFacts
  <1>9. Chain(data, WordAt(V.ptr), c.pc \in {"copy", "publish"})
    <2>1. Chain(data, h, FALSE)
      BY <1>0, <1>1 DEF Chain
    <2>2. Chain(data, 0, FALSE)
      BY <1>1, <1>8, <2>1, ChainWrap
    <2>3. WordAt(V.ptr) = 0
      BY <1>6 DEF WordAt
    <2> QED
      BY <1>6, <2>2, <2>3 DEF Chain
  <1>10. CycleBound'
    BY <1>1, <1>2, <1>4, <1>5, <1>6 DEF CycleBound, BeforeWrap
  <1>11. WriterOK(c, V, data)
    BY <1>5, <1>6 DEF WriterOK, BeforeWrap
  <1>12. ~InArea(W, V, n)
    <2>1. Total(n) \in Nat /\ W.ptr >= Total(n)
      BY <1>1, <1>7, WrapRoom
    <2>2. AreaEnd(V, n) = Total(n)
      <3>1. Align(0 + 8 + n) = 0 + Total(n)
        BY <1>1 DEF Align, Total
      <3> QED
        BY <1>6, <2>1, <3>1 DEF AreaEnd
    <2> QED
      BY <1>1, <2>1, <2>2 DEF InArea
  <1>13. ASSUME NEW i \in Nat, NEW r, i >= b.num => r = W
         PROVE  ClearReset(c, V, i, r) /\ Outside(c, i, r)
    <2>1. Passed(c, i) => i >= b.num
      BY <1>1, <1>5, PassedFirst
    <2> QED
      BY <1>5, <1>6, <1>12, <1>13, <2>1 DEF ClearReset, Clear, Outside, Inside, BeforeWrap
  <1>14. ASSUME NEW s \in Subscribers, Valid(s)
         PROVE  /\ Knows(sub[s], read_pointers[sub[s].id], V, data)
                /\ Allows(c, sub[s], read_pointers[sub[s].id], V)
    <2> DEFINE q == sub[s]
               r == read_pointers[q.id]
    <2>1. Knows(q, r, W, data) /\ Allows(b, q, r, W)
      BY <1>14, ReaderKnows
    <2>2. q \in Subscriber /\ SubSound(q) /\ LoadSound(q) /\ r \in Position /\ Sound(r) /\ q.id \in Nat
      BY <1>14, ReaderSlot
    <2>3. Knows(q, r, V, data)
      BY <1>1, <1>8, <2>1, <2>2, KnowsWrap
    <2>4. q.id >= b.num => r = W
      BY <1>0, <2>1 DEF Allows, Clear, BeforeWrap
    <2>5. q.pc \in Holds => q.rp = r
      BY <2>1 DEF Knows
    <2> QED
      BY <1>13, <2>2, <2>3, <2>4, <2>5 DEF Allows, ClearReset
  <1>15. ASSUME NEW s \in Subscribers, sub[s].pc = "reset_store"
         PROVE  /\ GoodPos(sub[s].wp, V, data)
                /\ ClearReset(c, V, sub[s].id, sub[s].wp)
    <2> DEFINE q == sub[s]
    <2>1. GoodPos(q.wp, W, data) /\ ClearReset(b, W, q.id, q.wp)
      BY <1>15, ReaderKnows
    <2>2. q \in Subscriber /\ SubSound(q) /\ LoadSound(q) /\ q.wp \in Position /\ Sound(q.wp) /\ q.id \in Nat
      BY <1>15, ReaderSlot
    <2>3. GoodPos(q.wp, V, data)
      BY <1>1, <1>8, <2>1, <2>2, KnowsWrap
    <2>4. q.id >= b.num => q.wp = W
      BY <1>0, <2>1 DEF ClearReset, Clear, BeforeWrap
    <2> QED
      BY <1>13, <2>2, <2>3, <2>4
  <1> QED
    BY <1>1, <1>4, <1>5, <1>9, <1>10, <1>11, <1>14, <1>15, PubStore

(* The size prefix.                                                        *)
LEMMA SizeDelivery ==
  ASSUME IInv, ReadSound, RegInv, DeliveryInv, NEW p \in Publishers, StoreSize(p)
  PROVE  DeliveryInv'
  <1> DEFINE b == pub[p]
             c == pub'[p]
             W == write_pointer
             h == WordAt(W.ptr)
             w == SizeTag(b.size, b.msg)
  <1>0. b.pc = "size" /\ b.pc \in InSend \ {"load_num", "load_wp"}
    BY DEF StoreSize, InSend
  <1>1. /\ b \in Publisher /\ b.wp = W /\ W \in Position /\ Sound(W)
        /\ h \in WordAddrs /\ b.size \in Nat /\ b.msg \in Nat
        /\ data \in [WordAddrs -> Words] /\ TagsFit(data)
        /\ Chain(data, h, b.pc \in {"copy", "publish"}) /\ CycleBound
        /\ \A q \in Publishers : q # p => pub[q].pc \notin InSend
    BY <1>0, WriterFacts
  <1>2. /\ c.num = b.num /\ c.size = b.size /\ c.msg = b.msg /\ c.wp = b.wp
        /\ c.pc = "copy" /\ c.part = 1
        /\ \A q \in Publishers : q # p => pub'[q] = pub[q]
    BY SendUpdate
  <1>3. /\ UNCHANGED <<write_pointer, write_uid, slots, sub, out, sent>>
        /\ data' = [data EXCEPT ![h] = w]
    BY <1>1 DEF StoreSize, queue
  <1>4. Start(w) /\ w.kind = "size" /\ w \in Words
    BY <1>1, KindFacts
  <1> HIDE DEF w
  <1>5. Chain(data', h, c.pc \in {"copy", "publish"})
    <2>1. Chain(data, h, FALSE)
      BY <1>0, <1>1 DEF Chain
    <2>2. Chain([data EXCEPT ![h] = w], h, w.kind = "size")
      BY <1>1, <1>4, <2>1, ChainTag
    <2>3. Chain(data', h, w.kind = "size")
      BY <1>3, <2>2
    <2> QED
      BY <1>2, <1>4, <2>3, ChainOpen
  <1>6. CycleBound'
    BY <1>0, <1>1, <1>2, <1>3, CycleStep DEF BeforeWrap
  <1>7. WriterOK(c, write_pointer', data')
    <2>1. data'[h] = w
      BY <1>1, <1>3
    <2>2. \A k \in 1 .. 0 : FALSE
      OBVIOUS
    <2> QED
      BY <1>1, <1>2, <1>3, <2>1, <2>2 DEF WriterOK, BeforeWrap, MessageIn, w
  <1>8. ASSUME NEW i PROVE Passed(b, i) /\ b.pc \in Writing
    BY <1>0 DEF Passed, Writing
  <1>9. ASSUME NEW s \in Subscribers, Valid(s)
        PROVE  /\ Knows(sub[s], read_pointers[sub[s].id], write_pointer', data')
               /\ Allows(c, sub[s], read_pointers[sub[s].id], write_pointer')
    <2> DEFINE q == sub[s]
               r == read_pointers[q.id]
    <2>1. Knows(q, r, W, data) /\ Allows(b, q, r, W)
      BY <1>9, ReaderKnows
    <2>2. q \in Subscriber /\ SubSound(q) /\ LoadSound(q) /\ r \in Position /\ Sound(r)
      BY <1>9, ReaderSlot
    <2>3. Knows(q, r, W, [data EXCEPT ![h] = w])
      BY <1>1, <1>4, <2>1, <2>2, KnowsTag
    <2>4. Allows(c, q, r, W)
      BY <1>2, <1>8, <2>1 DEF Allows, Clear, Outside, BeforeWrap, Inside
    <2> QED
      BY <1>3, <2>3, <2>4
  <1>10. ASSUME NEW s \in Subscribers, sub[s].pc = "reset_store"
         PROVE  /\ GoodPos(sub[s].wp, write_pointer', data')
                /\ ClearReset(c, write_pointer', sub[s].id, sub[s].wp)
    <2> DEFINE q == sub[s]
    <2>1. GoodPos(q.wp, W, data) /\ ClearReset(b, W, q.id, q.wp)
      BY <1>10, ReaderKnows
    <2>2. q \in Subscriber /\ SubSound(q) /\ LoadSound(q) /\ q.wp \in Position /\ Sound(q.wp)
      BY <1>10, ReaderSlot
    <2>3. GoodPos(q.wp, W, [data EXCEPT ![h] = w])
      BY <1>1, <1>4, <2>1, <2>2, KnowsTag
    <2>4. ClearReset(c, W, q.id, q.wp)
      BY <1>2, <1>8, <2>1 DEF ClearReset, Clear, BeforeWrap, Inside
    <2> QED
      BY <1>3, <2>3, <2>4
  <1> QED
    BY <1>1, <1>2, <1>3, <1>5, <1>6, <1>7, <1>9, <1>10, PubStore

(* The payload.                                                            *)
LEMMA PayloadDelivery ==
  ASSUME IInv, ReadSound, RegInv, DeliveryInv, NEW p \in Publishers, StorePayload(p)
  PROVE  DeliveryInv'
  <1> DEFINE b == pub[p]
             c == pub'[p]
             W == write_pointer
             h == WordAt(W.ptr)
             n == b.size
             k == b.part
             x == h + k
             w == Payload(n, b.msg, k)
  <1>0. b.pc = "copy" /\ b.pc \in InSend \ {"load_num", "load_wp"}
    BY DEF StorePayload, InSend
  <1>1. /\ b \in Publisher /\ PubSound(b) /\ b.wp = W /\ W \in Position /\ Sound(W)
        /\ h \in WordAddrs /\ h \in Nat /\ 8 * h = W.ptr
        /\ n \in MsgSizes /\ n \in Nat /\ b.msg \in Nat
        /\ data \in [WordAddrs -> Words] /\ TagsFit(data)
        /\ Chain(data, h, b.pc \in {"copy", "publish"}) /\ WriterOK(b, W, data) /\ CycleBound
        /\ \A q \in Publishers : q # p => pub[q].pc \notin InSend
    BY <1>0, WriterFacts
  <1>2. /\ c.num = b.num /\ c.size = n /\ c.msg = b.msg /\ c.wp = b.wp
        /\ \/ c.pc = "copy" /\ k < Parts(n) /\ c.part = k + 1
           \/ c.pc = "publish" /\ ~(k < Parts(n))
        /\ \A q \in Publishers : q # p => pub'[q] = pub[q]
    BY SendUpdate
  <1>3. /\ UNCHANGED <<write_pointer, write_uid, slots, sub, out, sent>>
        /\ data' = [data EXCEPT ![x] = w]
    BY <1>1 DEF StorePayload, queue
  <1>4. Parts(n) \in Nat /\ k \in 1 .. Parts(n) /\ Fits(W.ptr, n)
    BY <1>0, <1>1, TotalFacts DEF PubSound
  <1>5. /\ x \in WordAddrs /\ h < x /\ x < Behind(h, n) /\ k \in Nat \ {0} /\ x # h
    BY <1>1, <1>4, BehindFacts
  <1>6. w \in Words
    BY <1>1, <1>5, KindFacts
  <1>7. /\ MessageIn(data, h, n, b.msg, k - 1) /\ data[h] = SizeTag(n, b.msg)
    BY <1>0, <1>1 DEF WriterOK
  <1>8. c.pc \in {"copy", "publish"}
    BY <1>2
  <1>9. Chain(data', h, c.pc \in {"copy", "publish"})
    <2>1. Chain(data, h, TRUE)
      BY <1>0, <1>1 DEF Chain
    <2>2. Chain([data EXCEPT ![h + k] = Payload(n, b.msg, k)], h, TRUE)
      BY <1>1, <1>5, <1>7, <2>1, ChainPayload
    <2>3. Chain(data', h, TRUE)
      BY <1>3, <2>2
    <2> QED
      BY <1>8, <2>3, ChainOpen
  <1>10. CycleBound'
    BY <1>0, <1>1, <1>2, <1>3, CycleStep DEF BeforeWrap
  <1>11. WriterOK(c, write_pointer', data')
    <2>1. data'[x] = w /\ \A a \in WordAddrs : a # x => data'[a] = data[a]
      BY <1>1, <1>3, <1>5
    <2>2. data'[h] = SizeTag(n, b.msg)
      BY <1>1, <1>5, <1>7, <2>1
    <2>3. MessageIn(data', h, n, b.msg, k)
      <3> SUFFICES ASSUME NEW i \in 1 .. k PROVE data'[h + i] = Payload(n, b.msg, i)
        BY DEF MessageIn
      <3>1. CASE i = k
        BY <2>1, <3>1
      <3>2. CASE i # k
        <4>1. i \in 1 .. k - 1 /\ h + i # x /\ h + i \in Int /\ h <= h + i /\ h + i <= x
          BY <1>1, <1>5, <3>2
        <4>2. h + i \in WordAddrs
          BY <1>1, <1>5, <4>1, Between
        <4> QED
          BY <1>7, <2>1, <4>1, <4>2 DEF MessageIn
      <3> QED
        BY <3>1, <3>2
    <2>4. c.pc = "copy" => c.part - 1 = k
      BY <1>2, <1>5
    <2>5. c.pc = "publish" => k = Parts(n)
      BY <1>2, <1>4
    <2> QED
      BY <1>1, <1>2, <1>3, <1>8, <2>2, <2>3, <2>4, <2>5 DEF WriterOK, BeforeWrap
  <1>12. ASSUME NEW i PROVE Passed(b, i) /\ b.pc \in Writing
    BY <1>0 DEF Passed, Writing
  <1> HIDE DEF w, x
  <1>13. ASSUME NEW s \in Subscribers, Valid(s)
         PROVE  /\ Knows(sub[s], read_pointers[sub[s].id], write_pointer', data')
                /\ Allows(c, sub[s], read_pointers[sub[s].id], write_pointer')
    <2> DEFINE q == sub[s]
               r == read_pointers[q.id]
    <2>1. Knows(q, r, W, data) /\ Allows(b, q, r, W)
      BY <1>13, ReaderKnows
    <2>2. q \in Subscriber /\ SubSound(q) /\ LoadSound(q) /\ r \in Position /\ Sound(r)
      BY <1>13, ReaderSlot
    <2>3. /\ ~(InArea(r, W, n) /\ r.ptr # W.ptr)
          /\ q.pc \in Holds => ~InArea(q.rp, W, n)
      BY <1>1, <1>12, <2>1 DEF Allows, Clear, Outside, Inside
    <2>4. Knows(q, r, W, [data EXCEPT ![x] = w])
      BY <1>1, <1>5, <1>6, <2>1, <2>2, <2>3, KnowsPayload
    <2>5. Allows(c, q, r, W)
      BY <1>2, <1>8, <1>12, <2>1 DEF Allows, Clear, Outside, BeforeWrap, Inside
    <2> QED
      BY <1>3, <2>4, <2>5
  <1>14. ASSUME NEW s \in Subscribers, sub[s].pc = "reset_store"
         PROVE  /\ GoodPos(sub[s].wp, write_pointer', data')
                /\ ClearReset(c, write_pointer', sub[s].id, sub[s].wp)
    <2> DEFINE q == sub[s]
    <2>1. GoodPos(q.wp, W, data) /\ ClearReset(b, W, q.id, q.wp)
      BY <1>14, ReaderKnows
    <2>2. q \in Subscriber /\ SubSound(q) /\ LoadSound(q) /\ q.wp \in Position /\ Sound(q.wp)
      BY <1>14, ReaderSlot
    <2>3. ~(InArea(q.wp, W, n) /\ q.wp.ptr # W.ptr)
      BY <1>1, <1>12, <2>1 DEF ClearReset, Clear, Inside
    <2>4. GoodPos(q.wp, W, [data EXCEPT ![x] = w])
      BY <1>1, <1>5, <1>6, <2>1, <2>2, <2>3, KnowsPayload
    <2>5. ClearReset(c, W, q.id, q.wp)
      BY <1>2, <1>8, <1>12, <2>1 DEF ClearReset, Clear, BeforeWrap, Inside
    <2> QED
      BY <1>3, <2>4, <2>5
  <1> QED
    BY <1>1, <1>2, <1>3, <1>9, <1>10, <1>11, <1>13, <1>14, PubStore

(* The write pointer, behind the message.                                  *)
LEMMA PublishDelivery ==
  ASSUME IInv, ReadSound, RegInv, DeliveryInv, NEW p \in Publishers, StoreWritePointer(p)
  PROVE  DeliveryInv'
  <1> DEFINE b == pub[p]
             c == pub'[p]
             W == write_pointer
             h == WordAt(W.ptr)
             n == b.size
             V == Pos(W.cyc, W.ptr + Total(n))
  <1>0. b.pc = "publish" /\ b.pc \in InSend \ {"load_num", "load_wp"}
    BY DEF StoreWritePointer, InSend
  <1>1. /\ b \in Publisher /\ PubSound(b) /\ b.wp = W /\ W \in Position /\ Sound(W)
        /\ W.ptr \in Nat /\ W.cyc \in Nat /\ W.ptr % 8 = 0
        /\ h \in WordAddrs /\ h \in Nat /\ 8 * h = W.ptr
        /\ n \in MsgSizes /\ n \in Nat /\ b.msg \in Nat
        /\ data \in [WordAddrs -> Words] /\ TagsFit(data)
        /\ Chain(data, h, b.pc \in {"copy", "publish"}) /\ WriterOK(b, W, data) /\ CycleBound
        /\ \A q \in Publishers : q # p => pub[q].pc \notin InSend
    BY <1>0, WriterFacts
  <1>2. /\ c.pc \notin InSend \cup {"check_uid"}
        /\ \A q \in Publishers : q # p => pub'[q] = pub[q]
    BY SendUpdate
  <1>3. UNCHANGED <<write_uid, slots, data, sub, out, sent>> /\ write_pointer' = V
    <2>1. Align(W.ptr + n + 8) = W.ptr + Total(n)
      BY <1>1, AlignShift
    <2> QED
      BY <1>1, <2>1 DEF StoreWritePointer
  <1>4. /\ data[h] = SizeTag(n, b.msg) /\ MessageIn(data, h, n, b.msg, Parts(n))
    BY <1>0, <1>1 DEF WriterOK
  <1>5. Start(data[h])
    <2>1. n \in Nat /\ b.msg \in Nat
      BY <1>1
    <2>2. Start(SizeTag(n, b.msg))
      BY <2>1, KindFacts
    <2> QED
      BY <1>4, <2>2
  <1>6. WordAt(V.ptr) = Behind(h, n) /\ V.cyc = W.cyc
    <2>1. 8 * Behind(h, n) = 8 * h + Total(n) /\ Behind(h, n) \in WordAddrs
      BY <1>0, <1>1, BehindFacts DEF PubSound
    <2>2. Behind(h, n) \in Nat
      BY <2>1, ZeroAddr
    <2>3. V.ptr = 8 * Behind(h, n) /\ V.cyc = W.cyc
      BY <1>1, <2>1 DEF Pos
    <2> QED
      BY <2>2, <2>3 DEF WordAt
  <1>7. Chain(data, WordAt(V.ptr), c.pc \in {"copy", "publish"})
    <2>1. Chain(data, h, TRUE)
      BY <1>0, <1>1 DEF Chain
    <2>2. Chain(data, Behind(h, n), FALSE)
      BY <1>1, <1>4, <2>1, ChainPublish
    <2>3. c.pc \notin {"copy", "publish"}
      BY <1>2 DEF InSend
    <2> QED
      BY <1>6, <2>2, <2>3 DEF Chain
  <1>8. CycleBound'
    <2>1. \A q \in Publishers : q # p \/ c.pc \notin {"check_uid", "load_num"} \cup BeforeWrap
      BY <1>2 DEF InSend, BeforeWrap
    <2> QED
      BY <1>1, <1>2, <1>3, <1>6, <2>1 DEF CycleBound
  <1>9. /\ \A d : WriterOK(c, V, d)
        /\ \A q, r : Allows(c, q, r, V)
        /\ \A i, r : ClearReset(c, V, i, r)
    BY <1>2, OffDuty
  <1>10. ASSUME NEW s \in Subscribers, Valid(s)
         PROVE  Knows(sub[s], read_pointers[sub[s].id], V, data)
    <2> DEFINE q == sub[s]
               r == read_pointers[q.id]
    <2>1. Knows(q, r, W, data) /\ Allows(b, q, r, W)
      BY <1>10, ReaderKnows
    <2>2. q \in Subscriber /\ SubSound(q) /\ LoadSound(q) /\ r \in Position /\ Sound(r)
      BY <1>10, ReaderSlot
    <2>3. q.pc \in Holds => ~InArea(q.rp, W, n)
      BY <1>0, <1>1, <2>1 DEF Allows, Outside, Passed, Writing
    <2> QED
      BY <1>1, <1>5, <2>1, <2>2, <2>3, KnowsPublish
  <1>11. ASSUME NEW s \in Subscribers, sub[s].pc = "reset_store"
         PROVE  GoodPos(sub[s].wp, V, data)
    <2> DEFINE q == sub[s]
    <2>1. GoodPos(q.wp, W, data)
      BY <1>11, ReaderKnows
    <2>2. q \in Subscriber /\ SubSound(q) /\ LoadSound(q) /\ q.wp \in Position /\ Sound(q.wp)
      BY <1>11, ReaderSlot
    <2> QED
      BY <1>1, <1>5, <2>1, <2>2, KnowsPublish
  <1> QED
    BY <1>1, <1>2, <1>3, <1>7, <1>8, <1>9, <1>10, <1>11, PubStore

(* Every step of a publisher.                                              *)
LEMMA PublisherDelivery ==
  ASSUME IInv, ReadSound, RegInv, DeliveryInv, NEW p \in Publishers, PublisherNext(p),
         QuietStart, NoLapInReset, NoOverflow
  PROVE  DeliveryInv'
  <1>1. CASE CheckSlot(p) \/ Invalidate(p)
    <2>1. pub[p].pc \in {"beyond", "beyond_inv", "area", "area_inv"}
      BY <1>1 DEF CheckSlot, Invalidate
    <2> QED
      BY <1>1, <2>1, BeyondDelivery, AreaDelivery
  <1> QED
    BY <1>1, OffDelivery, BeginDelivery, LoadsDelivery, WrapTagDelivery, StoreWrapDelivery,
       SizeDelivery, PayloadDelivery, PublishDelivery DEF PublisherNext, SendStep

-----------------------------------------------------------------------------
(* Subscribers.  A step of one changes nothing that another one reads.     *)
LEMMA SubDelivery ==
  ASSUME DeliveryInv, NEW s \in Subscribers,
         \A t \in Subscribers : t # s => sub'[t] = sub[t],
         UNCHANGED <<write_pointer, write_uid, data, pub, sent>>,
         \A t \in Subscribers : t # s /\ Valid(t)' =>
           Valid(t) /\ read_pointers'[sub[t].id] = read_pointers[sub[t].id],
         ReaderOK(s)', ResetOK(s)', Clean(sub[s])', DeliveredIntact'
  PROVE  DeliveryInv'
  <1>1. WriteInv'
    BY DEF DeliveryInv, WriteInv, CycleBound, Open
  <1>2. ASSUME NEW t \in Subscribers PROVE ReaderOK(t)' /\ ResetOK(t)'
    <2>1. CASE t # s
      <3>1. ReaderOK(t) /\ ResetOK(t) /\ sub'[t] = sub[t]
        BY <2>1 DEF DeliveryInv, ReadInv
      <3>2. ResetOK(t)'
        BY <3>1 DEF ResetOK
      <3>3. ReaderOK(t)'
        <4> SUFFICES ASSUME Valid(t)'
                     PROVE  /\ Knows(sub[t], read_pointers[sub[t].id], write_pointer, data)
                            /\ \A p \in Publishers :
                                 Allows(pub[p], sub[t], read_pointers[sub[t].id], write_pointer)
          BY <2>1, <3>1 DEF ReaderOK
        <4> QED
          BY <2>1, <3>1 DEF ReaderOK
      <3> QED
        BY <3>2, <3>3
    <2> QED
      BY <2>1
  <1>3. NoGarbage'
    BY DEF DeliveryInv, ReadInv, NoGarbage
  <1> QED
    BY <1>1, <1>2, <1>3 DEF DeliveryInv, ReadInv

(* Nor does it change the slot of another one, if it only writes to its    *)
(* own.                                                                    *)
LEMMA OwnSlot ==
  ASSUME IInv, ReadSound, RegInv, NEW s \in Subscribers, Owns(s),
         \A t \in Subscribers : t # s => sub'[t] = sub[t],
         \A i \in Slots : i # sub[s].id => read_pointers'[i] = read_pointers[i]
                                           /\ read_valids'[i] = read_valids[i],
         \A i \in Slots, t \in Subscribers : t # s => (read_uids'[i] = t <=> read_uids[i] = t)
  PROVE  \A t \in Subscribers : t # s /\ Valid(t)' =>
           Valid(t) /\ read_pointers'[sub[t].id] = read_pointers[sub[t].id]
  <1> SUFFICES ASSUME NEW t \in Subscribers, t # s, Valid(t)'
               PROVE  Valid(t) /\ read_pointers'[sub[t].id] = read_pointers[sub[t].id]
    OBVIOUS
  <1>1. sub'[t] = sub[t] /\ sub[t].id \in Slots /\ sub[t].id # -1
    <2>1. sub'[t] = sub[t] /\ SubSound(sub[t]) /\ LoadSound(sub[t])
      BY SubFacts, LoadFacts
    <2>2. sub[t].id \in Slots
      BY <2>1 DEF SubSound, Valid, Reads, Holds, Sized
    <2> QED
      BY <2>1, <2>2, NumReadersAssumption DEF Slots
  <1>2. read_uids[sub[t].id] = t
    BY <1>1 DEF Valid
  <1>3. Owns(t)
    BY <1>1, <1>2 DEF Owns
  <1>4. sub[t].id # sub[s].id
    BY <1>3 DEF RegInv, Apart
  <1> QED
    BY <1>1, <1>2, <1>4 DEF Valid

(* A step after which the subscriber neither reads nor ends a reset.       *)
LEMMA AsideOK ==
  ASSUME NEW s \in Subscribers, sub'[s].pc \notin Reads \cup {"reset_store"}
  PROVE  ReaderOK(s)' /\ ResetOK(s)'
  BY DEF ReaderOK, ResetOK, Valid

(* The calls that only look for a slot.                                    *)
LEMMA RegisterDelivery ==
  ASSUME IInv, ReadSound, RegInv, DeliveryInv, NEW s \in Subscribers, NoEviction,
         Connect(s) \/ RegisterStep(s), Moves(s)
  PROVE  DeliveryInv'
  <1> DEFINE q == sub[s]
             c == sub'[s]
  <1>0. /\ q \in Subscriber /\ SubSound(q) /\ LoadSound(q) /\ Registered(s) /\ c.pc # "evict_num"
        /\ read_valids \in [Slots -> BOOLEAN] /\ read_pointers \in [Slots -> Position]
    BY IInvParts, LoadFacts DEF SharedOK, RegInv, NoEviction
  <1>1. /\ UNCHANGED <<write_pointer, write_uid, data, pub, sent, out>>
        /\ \A t \in Subscribers : t # s => sub'[t] = sub[t]
        /\ \A i \in Slots, t \in Subscribers : t # s => (read_uids'[i] = t <=> read_uids[i] = t)
    <2>1. UNCHANGED <<write_pointer, write_uid, data, pub, sent, out>>
      BY DEF RegisterStep, Connect, LoadSlotCount, EvictAll, EvictValid, EvictLoadUid, EvictUid,
         ClaimSlot, InitValid, InitReadPointer, InitUid, shared, queue
    <2> QED
      BY <2>1 DEF Moves
  <1>2. ~EvictAll(s) /\ ~EvictValid(s) /\ ~EvictLoadUid(s) /\ ~EvictUid(s)
    BY <1>0 DEF Registered, Evicting, EvictAll, EvictValid, EvictLoadUid, EvictUid
  <1>3. c.pc \in {"load_num", "cas", "init_valid", "init_rp", "init_uid", "reset_valid"}
    <2>1. CASE Connect(s)
      BY <2>1, SubUpdate DEF Connect, SubAt
    <2>2. CASE LoadSlotCount(s)
      BY <1>0, <2>2, SubLoadUpdate
    <2>3. CASE ClaimSlot(s)
      <3>1. CASE SetSub(s, SubAt("init_valid", q.op, q.num))
        BY <3>1, SubUpdate DEF SubAt
      <3>2. CASE SubBack(s, "load_num")
        BY <3>2, SubBackUpdate
      <3> QED
        BY <2>3, <3>1, <3>2 DEF ClaimSlot
    <2>4. CASE InitValid(s) \/ InitReadPointer(s) \/ InitUid(s)
      BY <2>4, SubGotoUpdate DEF InitValid, InitReadPointer, InitUid
    <2> QED
      BY <1>2, <2>1, <2>2, <2>3, <2>4 DEF RegisterStep
  <1>4. ReaderOK(s)' /\ ResetOK(s)' /\ Clean(c)
    BY <1>3, AsideOK DEF Reads, Holds, Sized, Clean
  <1>5. DeliveredIntact'
    BY <1>1 DEF DeliveryInv, ReadInv, DeliveredIntact
  <1>6. \A t \in Subscribers : t # s /\ Valid(t)' =>
          Valid(t) /\ read_pointers'[sub[t].id] = read_pointers[sub[t].id]
    <2>1. CASE Connect(s) \/ LoadSlotCount(s) \/ ClaimSlot(s)
      <3>1. UNCHANGED <<read_pointers, read_valids, read_uids>>
        BY <2>1 DEF Connect, LoadSlotCount, ClaimSlot, shared, slots
      <3> QED
        BY <1>1, <3>1 DEF Valid
    <2>2. CASE InitValid(s) \/ InitReadPointer(s) \/ InitUid(s)
      <3>1. q.pc \in {"init_valid", "init_rp", "init_uid"}
        BY <2>2 DEF InitValid, InitReadPointer, InitUid
      <3>2. q.id \in Slots /\ q.id # -1
        BY <1>0, <3>1, NumReadersAssumption DEF SubSound, Slots
      <3>3. Owns(s)
        BY <3>1, <3>2 DEF Owns
      <3>4. \A i \in Slots : i # q.id => read_pointers'[i] = read_pointers[i]
                                         /\ read_valids'[i] = read_valids[i]
        BY <1>0, <2>2 DEF InitValid, InitReadPointer, InitUid
      <3> QED
        BY <1>1, <3>3, <3>4, OwnSlot
    <2> QED
      BY <1>2, <2>1, <2>2 DEF RegisterStep
  <1> QED
    BY <1>1, <1>4, <1>5, <1>6, SubDelivery

(* msgq_reset_reader: the reader starts again at the write pointer.        *)
LEMMA ResetDelivery ==
  ASSUME IInv, ReadSound, RegInv, DeliveryInv, NEW s \in Subscribers, ResetStep(s)
  PROVE  DeliveryInv'
  <1> DEFINE q == sub[s]
             c == sub'[s]
             W == write_pointer
  <1>0. /\ q \in Subscriber /\ SubSound(q) /\ LoadSound(q) /\ Registered(s)
        /\ q.pc \in {"reset_valid", "reset_load", "reset_store"}
        /\ read_valids \in [Slots -> BOOLEAN] /\ read_pointers \in [Slots -> Position]
    BY IInvParts, LoadFacts DEF SharedOK, RegInv, ResetStep, ResetValid, ResetLoad, ResetStore
  <1>1. q.id \in Slots /\ q.id # -1 /\ read_uids[q.id] = s
    BY <1>0, NumReadersAssumption DEF SubSound, Slots, Registered, Unregistered, Unchecked
  <1>2. Owns(s)
    BY <1>1 DEF Owns
  <1>3. UNCHANGED <<write_pointer, write_uid, data, pub, sent, out, read_uids>>
    BY DEF ResetStep, ResetValid, ResetLoad, ResetStore, shared, queue, slots
  <1>4. DeliveredIntact'
    BY <1>3 DEF DeliveryInv, ReadInv, DeliveredIntact
  <1>5. c.id = q.id /\ \A t \in Subscribers : t # s => sub'[t] = sub[t]
    BY SubGotoUpdate, SubLoadUpdate, SubReturnUpdate, SubBackUpdate
       DEF ResetStep, ResetValid, ResetStore, Restart
  <1>6. \A i \in Slots : i # q.id => read_pointers'[i] = read_pointers[i]
                                     /\ read_valids'[i] = read_valids[i]
    BY <1>0 DEF ResetStep, ResetValid, ResetLoad, ResetStore, shared, slots
  <1>7. \A t \in Subscribers : t # s /\ Valid(t)' =>
          Valid(t) /\ read_pointers'[sub[t].id] = read_pointers[sub[t].id]
    BY <1>2, <1>3, <1>5, <1>6, OwnSlot
  <1>8. CASE ResetValid(s)
    <2>1. c.pc = "reset_load"
      BY <1>8, SubGotoUpdate DEF ResetValid
    <2>2. ReaderOK(s)' /\ ResetOK(s)' /\ Clean(c)
      BY <2>1, AsideOK DEF Reads, Holds, Sized, Clean
    <2> QED
      BY <1>3, <1>4, <1>5, <1>7, <2>2, SubDelivery
  <1>9. CASE ResetLoad(s)
    <2>1. c.pc = "reset_store" /\ c.wp = W
      BY <1>9, SubLoadUpdate
    <2>2. ReaderOK(s)' /\ Clean(c)
      BY <2>1 DEF ReaderOK, Valid, Reads, Holds, Sized, Clean
    <2>3. ASSUME NEW p \in Publishers PROVE ClearReset(pub[p], W, q.id, W)
      <3>1. WriterOK(pub[p], W, data)
        BY DEF DeliveryInv, WriteInv
      <3>2. pub[p].pc \in Writing => pub[p].wp = W
        BY <3>1 DEF WriterOK, Writing, InSend
      <3> QED
        BY <3>2 DEF ClearReset, Clear, Inside, Writing
    <2>4. GoodPos(W, W, data)
      <3>1. W.cyc \in Nat /\ W.ptr \in Nat
        BY IInvParts DEF SharedOK, Position
      <3> QED
        BY <3>1 DEF GoodPos
    <2>5. ResetOK(s)'
      BY <1>3, <1>5, <2>1, <2>3, <2>4 DEF ResetOK
    <2> QED
      BY <1>3, <1>4, <1>5, <1>7, <2>2, <2>5, SubDelivery
  <1>10. CASE ResetStore(s)
    <2>1. c.pc \in {"idle", "check_uid"}
      BY <1>10, SubReturnUpdate, SubBackUpdate DEF ResetStore, Restart
    <2>2. ResetOK(s)' /\ Clean(c)
      BY <2>1 DEF ResetOK, Clean
    <2>3. read_pointers'[c.id] = q.wp /\ q.pc = "reset_store"
      BY <1>0, <1>1, <1>5, <1>10 DEF ResetStore
    <2>4. /\ GoodPos(q.wp, W, data)
          /\ \A p \in Publishers : ClearReset(pub[p], W, q.id, q.wp)
      BY <2>3 DEF DeliveryInv, ReadInv, ResetOK
    <2>5. Knows(c, q.wp, W, data)
      BY <2>1, <2>4 DEF Knows, Copied, Holds, Sized
    <2>6. \A p \in Publishers : Allows(pub[p], c, q.wp, W)
      BY <1>5, <2>1, <2>4 DEF Allows, ClearReset, Holds, Sized
    <2>7. ReaderOK(s)'
      BY <1>3, <2>3, <2>5, <2>6 DEF ReaderOK
    <2> QED
      BY <1>3, <1>4, <1>5, <1>7, <2>2, <2>7, SubDelivery
  <1> QED
    BY <1>8, <1>9, <1>10 DEF ResetStep

(* A step that leaves the shared segment alone changes nothing of what the *)
(* others know.                                                            *)
LEMMA LocalDelivery ==
  ASSUME DeliveryInv, NEW s \in Subscribers,
         UNCHANGED <<shared, pub, sent>>,
         \A t \in Subscribers : t # s => sub'[t] = sub[t],
         ReaderOK(s)', ResetOK(s)', Clean(sub[s])', DeliveredIntact'
  PROVE  DeliveryInv'
  <1>1. UNCHANGED <<write_pointer, write_uid, data, read_pointers, read_valids, read_uids>>
    BY DEF shared, queue, slots
  <1>2. \A t \in Subscribers : t # s /\ Valid(t)' =>
          Valid(t) /\ read_pointers'[sub[t].id] = read_pointers[sub[t].id]
    BY <1>1 DEF Valid
  <1> QED
    BY <1>1, <1>2, SubDelivery

(* The steps of a call up to the load of the read pointer, and back to its *)
(* end or start, hold nothing but the position.                            *)
LEMMA PlainOK ==
  ASSUME DeliveryInv, NEW s \in Subscribers, sub[s].pc \in Reads,
         UNCHANGED <<shared, pub>>, sub'[s].id = sub[s].id,
         sub'[s].pc \in {"idle", "check_uid", "check_valid", "load_rp"}
  PROVE  ReaderOK(s)' /\ ResetOK(s)' /\ Clean(sub[s])'
  <1> DEFINE q == sub[s]
             c == sub'[s]
             r == read_pointers[q.id]
  <1>1. UNCHANGED <<write_pointer, data, read_pointers, read_valids, read_uids>>
    BY DEF shared, queue, slots
  <1>2. Valid(s)' => Valid(s)
    BY <1>1 DEF Valid
  <1>3. ASSUME Valid(s)
        PROVE  /\ Knows(c, r, write_pointer, data)
               /\ \A p \in Publishers : Allows(pub[p], c, r, write_pointer)
    <2>1. /\ Knows(q, r, write_pointer, data)
          /\ \A p \in Publishers : Allows(pub[p], q, r, write_pointer)
      BY <1>3 DEF DeliveryInv, ReadInv, ReaderOK
    <2> QED
      BY <2>1 DEF Knows, Allows, Copied, Holds, Sized
  <1>4. ReaderOK(s)'
    BY <1>1, <1>2, <1>3 DEF ReaderOK
  <1> QED
    BY <1>4 DEF ResetOK, Clean

(* Looking for a new message.                                              *)
LEMMA FindDelivery ==
  ASSUME IInv, ReadSound, RegInv, DeliveryInv, NEW s \in Subscribers,
         \/ BeginReady(s) \/ BeginRecv(s) \/ CheckReadUid(s) \/ CheckValid(s)
         \/ LoadReadPointer(s) \/ CheckNewMessage(s)
  PROVE  DeliveryInv'
  <1> DEFINE q == sub[s]
             c == sub'[s]
             W == write_pointer
             r == read_pointers[q.id]
  <1>0. UNCHANGED <<shared, pub, sent, out>>
    BY DEF BeginReady, BeginRecv, Call, CheckReadUid, CheckValid, LoadReadPointer, CheckNewMessage
  <1>1. UNCHANGED <<write_pointer, data, read_pointers, read_valids, read_uids>>
    BY <1>0 DEF shared, queue, slots
  <1>2. DeliveredIntact'
    BY <1>0 DEF DeliveryInv, ReadInv, DeliveredIntact
  <1>3. q.pc \in {"idle", "check_uid", "check_valid", "load_rp", "load_wp"} /\ q.pc \in Reads
    BY DEF BeginReady, BeginRecv, Call, CheckReadUid, CheckValid, LoadReadPointer,
       CheckNewMessage, Reads
  <1>4. c.id = q.id /\ \A t \in Subscribers : t # s => sub'[t] = sub[t]
    <2>1. CASE BeginReady(s) \/ BeginRecv(s)
      BY <2>1, SubUpdate DEF BeginReady, BeginRecv, Call, SubAt
    <2> QED
      BY <2>1, SubGotoUpdate, SubLoadUpdate DEF CheckReadUid, CheckValid
  <1>5. CASE c.pc \in {"idle", "check_uid", "check_valid", "load_rp"}
    BY <1>0, <1>2, <1>3, <1>4, <1>5, PlainOK, LocalDelivery
  <1>6. CASE c.pc \in {"load_num", "reset_valid"}
    <2>1. ReaderOK(s)' /\ ResetOK(s)' /\ Clean(c)
      BY <1>6, AsideOK DEF Reads, Holds, Sized, Clean
    <2> QED
      BY <1>0, <1>2, <1>4, <2>1, LocalDelivery
  <1>7. ASSUME Valid(s)'
        PROVE  /\ Knows(q, r, W, data) /\ Valid(s)
               /\ \A p \in Publishers : Allows(pub[p], q, r, W)
    <2>1. Valid(s)
      BY <1>1, <1>3, <1>4, <1>7 DEF Valid
    <2> QED
      BY <2>1 DEF DeliveryInv, ReadInv, ReaderOK
  <1>8. CASE LoadReadPointer(s)
    <2>1. c.pc = "load_wp" /\ c.rp = r
      BY <1>8, SubLoadUpdate
    <2>2. ASSUME Valid(s)'
          PROVE  /\ Knows(c, r, W, data)
                 /\ \A p \in Publishers : Allows(pub[p], c, r, W)
      BY <1>4, <1>7, <2>1, <2>2 DEF Knows, Allows, Copied, Holds, Sized
    <2>3. ReaderOK(s)'
      BY <1>0, <1>1, <1>4, <2>2 DEF ReaderOK
    <2>4. ResetOK(s)' /\ Clean(c)
      BY <2>1 DEF ResetOK, Clean
    <2> QED
      BY <1>0, <1>2, <1>4, <2>3, <2>4, LocalDelivery
  <1>9. CASE CheckNewMessage(s) /\ c.pc = "load_size"
    <2>1. c.rp = q.rp /\ q.rp.ptr # W.ptr /\ q.pc = "load_wp"
      BY <1>9, SubLoadUpdate DEF CheckNewMessage
    <2>2. ASSUME Valid(s)'
          PROVE  /\ Knows(c, r, W, data)
                 /\ \A p \in Publishers : Allows(pub[p], c, r, W)
      <3>1. /\ Knows(q, r, W, data) /\ Valid(s)
            /\ \A p \in Publishers : Allows(pub[p], q, r, W)
        BY <1>7, <2>2
      <3>2. q.rp = r /\ GoodPos(r, W, data)
        BY <2>1, <3>1 DEF Knows
      <3>3. r.ptr \in Nat /\ W.ptr \in Nat
        BY <3>1, ReaderSlot, IInvParts DEF SharedOK, Position
      <3>4. Held(c, W, data)
        BY <1>9, <2>1, <3>2, <3>3 DEF Held, GoodPos, Sized
      <3>5. Knows(c, r, W, data)
        BY <1>9, <2>1, <3>2, <3>4 DEF Knows, Copied
      <3>6. ASSUME NEW p \in Publishers PROVE Allows(pub[p], c, r, W)
        <4>1. WriterOK(pub[p], W, data) /\ Allows(pub[p], q, r, W)
          BY <3>1 DEF DeliveryInv, WriteInv
        <4>2. pub[p].pc \in Writing => pub[p].wp = W
          BY <4>1 DEF WriterOK, Writing, InSend
        <4>3. Outside(pub[p], c.id, c.rp)
          BY <1>4, <2>1, <3>2, <4>1, <4>2 DEF Outside, Allows, Clear, Inside
        <4> QED
          BY <1>4, <4>1, <4>3 DEF Allows
      <3> QED
        BY <3>5, <3>6
    <2>3. ReaderOK(s)'
      BY <1>0, <1>1, <1>4, <2>2 DEF ReaderOK
    <2>4. ResetOK(s)' /\ Clean(c)
      BY <1>9 DEF ResetOK, Clean
    <2> QED
      BY <1>0, <1>2, <1>4, <2>3, <2>4, LocalDelivery
  <1>10. \/ c.pc \in {"idle", "check_uid", "check_valid", "load_rp", "load_num", "reset_valid"}
         \/ LoadReadPointer(s)
         \/ CheckNewMessage(s) /\ c.pc = "load_size"
    <2>1. CASE BeginReady(s) \/ BeginRecv(s)
      BY <2>1, SubUpdate DEF BeginReady, BeginRecv, Call, SubAt
    <2> QED
      BY <2>1, SubGotoUpdate, SubLoadUpdate DEF CheckReadUid, CheckValid
  <1> QED
    BY <1>5, <1>6, <1>8, <1>9, <1>10

(* The size of a message passes the assertions of msgq_msg_recv.           *)
LEMMA MsgPasses ==
  ASSUME NEW n \in MsgSizes
  PROVE  n \in Nat /\ n # -1 /\ Passes(n)
  <1>1. n \in Nat /\ n > 0 /\ 3 * Total(n) <= Size
    BY MsgSizesAssumption
  <1>2. Total(n) \in Nat /\ Total(n) >= n + 8
    BY <1>1 DEF Total, Align
  <1> QED
    BY <1>1, <1>2, SizeAssumption DEF Passes

(* The loads of a receive that has taken no garbage for a size stay in the *)
(* data area and find what is there; a tag that it has loaded passes for   *)
(* what it is.                                                             *)
LEMMA CleanUpdate ==
  ASSUME IInv, ReadSound, NoGarbage, NEW s \in Subscribers
  PROVE  LET q == sub[s]
             c == sub'[s]
             a == WordAt(q.rp.ptr)
             k == Len(q.buf) + 1
             Others == \A t \in Subscribers : t # s => sub'[t] = sub[t] IN
           /\ LoadSize(s) =>
                /\ c.pc = "check_size" /\ c.id = q.id /\ c.rp = q.rp /\ c.buf = q.buf
                /\ c.word = data[a] /\ Others
           /\ CopyWord(s) =>
                /\ c.pc = IF k < Parts(q.word.size) THEN "copy" ELSE "store_rp"
                /\ c.id = q.id /\ c.rp = q.rp /\ c.word = q.word
                /\ c.buf = Append(q.buf, data[a + k]) /\ Others
           /\ CheckSize(s) /\ read_valids[q.id] /\ Start(q.word) =>
                /\ c.pc \in {"wrap", "skip", "copy"}
                /\ c.pc = "wrap" <=> q.word.kind = "wrap"
                /\ c.id = q.id /\ c.rp = q.rp /\ c.buf = q.buf /\ c.word = q.word /\ Others
  <1> DEFINE q == sub[s]
             c == sub'[s]
             a == WordAt(q.rp.ptr)
             k == Len(q.buf) + 1
             Others == \A t \in Subscribers : t # s => sub'[t] = sub[t]
  <1>0. q \in Subscriber /\ LoadSound(q) /\ q.word \in Words /\ a \in WordAddrs
    BY LoadFacts DEF Subscriber
  <1>1. ASSUME LoadSize(s)
        PROVE  /\ c.pc = "check_size" /\ c.id = q.id /\ c.rp = q.rp /\ c.buf = q.buf
               /\ c.word = data[a] /\ Others
    <2>1. Loaded(a) = data[a]
      BY <1>0, LoadedFacts
    <2> QED
      BY <1>0, <1>1, <2>1, SubLoadUpdate
  <1>2. ASSUME CopyWord(s)
        PROVE  /\ c.pc = IF k < Parts(q.word.size) THEN "copy" ELSE "store_rp"
               /\ c.id = q.id /\ c.rp = q.rp /\ c.word = q.word
               /\ c.buf = Append(q.buf, data[a + k]) /\ Others
    <2>1. a + k \in WordAddrs
      <3>1. LoadsInBounds /\ q.pc = "copy"
        BY <1>2, ReadBounds DEF CopyWord
      <3>2. Len(q.buf) \in Nat /\ a \in Nat
        BY <1>0, ZeroAddr DEF Subscriber
      <3>3. a + Len(q.buf) + 1 = a + k
        BY <3>2
      <3> QED
        BY <3>1, <3>3 DEF LoadsInBounds
    <2>2. Loaded(a + k) = data[a + k]
      BY <2>1, LoadedFacts
    <2> QED
      BY <1>2, <2>1, <2>2, SubLoadUpdate
  <1>3. ASSUME CheckSize(s), read_valids[q.id], Start(q.word)
        PROVE  /\ c.pc \in {"wrap", "skip", "copy"}
               /\ c.pc = "wrap" <=> q.word.kind = "wrap"
               /\ c.id = q.id /\ c.rp = q.rp /\ c.buf = q.buf /\ c.word = q.word /\ Others
    <2>1. PICK n \in SizeIn(q.word) : TakeSize(s, n)
      BY <1>3 DEF CheckSize
    <2>2. /\ c.id = q.id /\ c.rp = q.rp /\ c.buf = q.buf /\ Others
          /\ \/ c.pc = "aborted" /\ n # -1 /\ ~Passes(n)
             \/ c.pc = "wrap" /\ n = -1
             \/ c.pc \in {"skip", "copy"} /\ Passes(n)
          /\ ~Passes(n) \/ n = q.word.size => c.word = q.word
      BY <2>1, TakeSizeUpdate
    <2>3. CASE q.word.kind = "wrap"
      <3>1. n = -1 /\ ~Passes(n)
        BY <1>0, <2>3, SizeInFacts DEF Passes
      <3> QED
        BY <2>2, <2>3, <3>1
    <2>4. CASE q.word.kind = "size"
      <3>1. n = q.word.size /\ n \in MsgSizes
        BY <1>0, <1>3, <2>4, SizeInFacts DEF CheckSize, LoadSound, SoundTag
      <3>2. n \in Nat /\ Passes(n) /\ n # -1
        BY <3>1, MsgPasses
      <3> QED
        BY <2>2, <2>4, <3>1, <3>2
    <2> QED
      BY <1>3, <2>3, <2>4 DEF Start
  <1> QED
    BY <1>1, <1>2, <1>3

(* Loading the size: the word at the position of a valid reader is a tag   *)
(* of the chain, and not the one being written.                            *)
LEMMA SizeRead ==
  ASSUME IInv, ReadSound, RegInv, DeliveryInv, NEW s \in Subscribers, LoadSize(s)
  PROVE  DeliveryInv'
  <1> DEFINE q == sub[s]
             c == sub'[s]
             W == write_pointer
             h == WordAt(W.ptr)
             r == read_pointers[q.id]
             a == WordAt(q.rp.ptr)
  <1>0. UNCHANGED <<shared, pub, sent, out>> /\ q.pc = "load_size"
    BY DEF LoadSize
  <1>1. UNCHANGED <<write_pointer, data, read_pointers, read_valids, read_uids>>
    BY <1>0 DEF shared, queue, slots
  <1>2. DeliveredIntact'
    BY <1>0 DEF DeliveryInv, ReadInv, DeliveredIntact
  <1>3. /\ c.pc = "check_size" /\ c.id = q.id /\ c.rp = q.rp /\ c.word = data[a]
        /\ \A t \in Subscribers : t # s => sub'[t] = sub[t]
    BY CleanUpdate DEF DeliveryInv, ReadInv
  <1>4. ASSUME Valid(s)'
        PROVE  /\ Knows(c, r, W, data)
               /\ \A p \in Publishers : Allows(pub[p], c, r, W)
    <2>1. Valid(s)
      BY <1>0, <1>1, <1>3, <1>4 DEF Valid, Reads, Holds
    <2>2. Knows(q, r, W, data) /\ \A p \in Publishers : Allows(pub[p], q, r, W)
      BY <2>1 DEF DeliveryInv, ReadInv, ReaderOK
    <2>3. /\ q.rp = r /\ Start(data[a]) /\ (r.cyc = W.cyc => r.ptr < W.ptr)
          /\ GoodPos(r, W, data)
      BY <1>0, <2>2 DEF Knows, Held, Holds
    <2>4. /\ r \in Position /\ Sound(r) /\ W \in Position /\ Sound(W) /\ TagsFit(data) /\ SharedOK
      BY <2>1, ReaderSlot, IInvParts, TagsFitFacts DEF SharedOK
    <2>5. /\ r.ptr \in Nat /\ r.cyc \in Nat /\ a \in WordAddrs /\ a \in Nat /\ 8 * a = r.ptr
          /\ W.ptr \in Nat /\ W.cyc \in Nat /\ h \in WordAddrs /\ h \in Nat /\ 8 * h = W.ptr
      BY <2>3, <2>4, PosFacts
    <2>6. Chain(data, h, Open)
      BY DEF DeliveryInv, WriteInv
    <2>7. ~(Open /\ a = h)
      <3> SUFFICES ASSUME NEW p \in Publishers, pub[p].pc \in {"copy", "publish"}, a = h
                   PROVE  FALSE
        BY DEF Open
      <3>1. /\ pub[p] \in Publisher /\ pub[p].wp = W /\ pub[p].size \in MsgSizes
            /\ W.ptr % 8 = 0 /\ pub[p].size \in Nat
        BY WriterFacts DEF InSend
      <3>2. ~InArea(r, W, pub[p].size)
        BY <1>0, <2>2, <2>3, <3>1 DEF Allows, Outside, Writing, Passed, Holds
      <3>3. r.ptr = W.ptr /\ r.cyc # W.cyc
        BY <2>3, <2>5
      <3>4. AreaEnd(W, pub[p].size) = W.ptr + Total(pub[p].size) /\ Total(pub[p].size) \in Nat
            /\ Total(pub[p].size) >= 8
        BY <2>5, <3>1, AlignShift, TotalFacts DEF AreaEnd
      <3> QED
        BY <2>5, <3>2, <3>3, <3>4 DEF InArea
    <2>8. ASSUME c.word.kind = "size" PROVE HoldsSize(c, W, data)
      <3> DEFINE n == data[a].size
      <3>1. Linked(data, h, a) /\ (a < h => Behind(a, n) <= h)
        BY <1>3, <2>5, <2>6, <2>7, <2>8 DEF Chain
      <3>2. /\ n \in MsgSizes /\ Fits(8 * a, n)
        BY <1>3, <2>4, <2>5, <2>8 DEF SharedOK, SoundTag
      <3>3. /\ Behind(a, n) \in WordAddrs /\ 8 * Behind(a, n) = 8 * a + Total(n)
        BY <2>5, <3>2, BehindFacts
      <3>4. Behind(a, n) \in Nat
        BY <3>3, ZeroAddr
      <3>5. NextPos(c).ptr = 8 * Behind(a, n) /\ NextPos(c).cyc = r.cyc
        BY <1>3, <2>3, <2>5, <3>3 DEF NextPos, Pos
      <3>6. WordAt(NextPos(c).ptr) = Behind(a, n)
        BY <3>4, <3>5 DEF WordAt
      <3>7. r.ptr < W.ptr => NextPos(c).ptr <= W.ptr
        BY <2>5, <3>1, <3>4, <3>5
      <3>8. GoodPos(NextPos(c), W, data)
        <4>1. NextPos(c).cyc <= W.cyc
          BY <2>3, <3>5 DEF GoodPos
        <4>2. NextPos(c).cyc = W.cyc => NextPos(c).ptr <= W.ptr
          BY <2>3, <3>5, <3>7
        <4>3. NextPos(c).ptr = W.ptr \/ Start(data[WordAt(NextPos(c).ptr)])
          BY <2>5, <3>1, <3>5, <3>6 DEF Linked
        <4> QED
          BY <4>1, <4>2, <4>3 DEF GoodPos
      <3> QED
        BY <1>3, <2>3, <3>1, <3>7, <3>8 DEF HoldsSize, Linked
    <2>9. ASSUME c.word.kind = "wrap" PROVE HoldsWrap(c, W, data)
      <3>1. ~(a < h) /\ Start(data[0])
        BY <1>3, <2>5, <2>6, <2>9 DEF Chain
      <3>2. r.cyc < W.cyc
        BY <2>3, <2>5, <3>1 DEF GoodPos
      <3> QED
        BY <1>3, <2>3, <3>1, <3>2 DEF HoldsWrap
    <2>10. Held(c, W, data)
      BY <1>3, <2>3, <2>8, <2>9 DEF Held
    <2>11. Knows(c, r, W, data)
      BY <1>3, <2>3, <2>10 DEF Knows, Copied
    <2>12. \A p \in Publishers : Allows(pub[p], c, r, W)
      BY <1>0, <1>3, <2>2 DEF Allows, Holds
    <2> QED
      BY <2>11, <2>12
  <1>5. ReaderOK(s)' /\ ResetOK(s)' /\ Clean(c)
    BY <1>0, <1>1, <1>3, <1>4 DEF ReaderOK, ResetOK, Clean
  <1> QED
    BY <1>0, <1>2, <1>3, <1>5, LocalDelivery

(* The check of the size: a reader that is still valid holds a tag.        *)
LEMMA CheckedSize ==
  ASSUME IInv, ReadSound, RegInv, DeliveryInv, NEW s \in Subscribers, CheckSize(s)
  PROVE  DeliveryInv'
  <1> DEFINE q == sub[s]
             c == sub'[s]
             W == write_pointer
             r == read_pointers[q.id]
  <1>0. UNCHANGED <<shared, pub, sent, out>> /\ q.pc = "check_size"
    BY DEF CheckSize
  <1>1. UNCHANGED <<write_pointer, data, read_pointers, read_valids, read_uids>>
    BY <1>0 DEF shared, queue, slots
  <1>2. DeliveredIntact'
    BY <1>0 DEF DeliveryInv, ReadInv, DeliveredIntact
  <1>3. CASE read_valids[q.id]
    <2>1. Valid(s)
      <3>1. Registered(s)
        BY DEF RegInv
      <3> QED
        BY <1>0, <1>3, <3>1 DEF Valid, Registered, Unregistered, Unchecked, Reads, Holds, Sized
    <2>2. Knows(q, r, W, data) /\ \A p \in Publishers : Allows(pub[p], q, r, W)
      BY <2>1 DEF DeliveryInv, ReadInv, ReaderOK
    <2>3. Start(q.word) /\ Held(q, W, data) /\ q.rp = r
      BY <1>0, <2>2 DEF Knows, Held, Holds, Sized
    <2>4. /\ c.pc \in {"wrap", "skip", "copy"} /\ (c.pc = "wrap" <=> q.word.kind = "wrap")
          /\ c.id = q.id /\ c.rp = q.rp /\ c.word = q.word /\ c.buf = q.buf
          /\ \A t \in Subscribers : t # s => sub'[t] = sub[t]
      BY <1>3, <2>3, CleanUpdate DEF DeliveryInv, ReadInv
    <2>5. c.word.kind \in {"size", "wrap"}
      BY <2>3, <2>4 DEF Start
    <2>6. q.buf = <<>>
      BY <1>0, SubFacts, LoadFacts DEF LoadSound
    <2>7. Held(c, W, data)
      BY <1>0, <2>3, <2>4 DEF Held, HoldsSize, HoldsWrap, NextPos, Sized
    <2>8. Copied(c)
      BY <2>4, <2>6 DEF Copied
    <2>9. Knows(c, r, W, data)
      BY <2>2, <2>3, <2>4, <2>7, <2>8 DEF Knows
    <2>10. \A p \in Publishers : Allows(pub[p], c, r, W)
      BY <1>0, <2>2, <2>4 DEF Allows, Holds, Sized
    <2>11. ReaderOK(s)'
      BY <1>0, <1>1, <2>4, <2>9, <2>10 DEF ReaderOK
    <2>12. ResetOK(s)' /\ Clean(c)
      BY <2>4, <2>5 DEF ResetOK, Clean
    <2> QED
      BY <1>0, <1>2, <2>4, <2>11, <2>12, LocalDelivery
  <1>4. CASE ~read_valids[q.id]
    <2>1. c.pc = "reset_valid" /\ \A t \in Subscribers : t # s => sub'[t] = sub[t]
      BY <1>4, SubBackUpdate DEF CheckSize
    <2>2. ReaderOK(s)' /\ ResetOK(s)' /\ Clean(c)
      BY <2>1, AsideOK DEF Reads, Holds, Sized, Clean
    <2> QED
      BY <1>0, <1>2, <2>1, <2>2, LocalDelivery
  <1> QED
    BY <1>3, <1>4

(* One word of the copy.                                                   *)
LEMMA CopyDelivery ==
  ASSUME IInv, ReadSound, RegInv, DeliveryInv, NEW s \in Subscribers, CopyWord(s)
  PROVE  DeliveryInv'
  <1> DEFINE q == sub[s]
             c == sub'[s]
             W == write_pointer
             r == read_pointers[q.id]
             a == WordAt(q.rp.ptr)
             n == q.word.size
             k == Len(q.buf) + 1
  <1>0. UNCHANGED <<shared, pub, sent, out>> /\ q.pc = "copy"
    BY DEF CopyWord
  <1>1. UNCHANGED <<write_pointer, data, read_pointers, read_valids, read_uids>>
    BY <1>0 DEF shared, queue, slots
  <1>2. DeliveredIntact'
    BY <1>0 DEF DeliveryInv, ReadInv, DeliveredIntact
  <1>3. /\ c.pc = IF k < Parts(n) THEN "copy" ELSE "store_rp"
        /\ c.id = q.id /\ c.rp = q.rp /\ c.word = q.word /\ c.buf = Append(q.buf, data[a + k])
        /\ \A t \in Subscribers : t # s => sub'[t] = sub[t]
    BY CleanUpdate DEF DeliveryInv, ReadInv
  <1>4. c.pc \in {"copy", "store_rp"}
    BY <1>3
  <1>5. /\ q \in Subscriber /\ SubSound(q) /\ LoadSound(q) /\ q.word.kind = "size" /\ Len(q.buf) < Parts(n)
        /\ n \in MsgSizes /\ q.buf \in Seq(Words) /\ Len(q.buf) \in Nat
    <2>1. q \in Subscriber /\ SubSound(q) /\ LoadSound(q)
      BY SubFacts, LoadFacts
    <2>2. q.word.kind = "size" /\ Len(q.buf) < Parts(n) /\ n \in MsgSizes
      BY <1>0, <2>1 DEF LoadSound, SoundTag, DeliveryInv, ReadInv, NoGarbage, Clean
    <2>3. q.buf \in Seq(Words)
      BY <2>1 DEF Subscriber
    <2>4. Len(q.buf) \in Nat
      BY <2>3
    <2> QED
      BY <2>1, <2>2, <2>3, <2>4
  <1>6. Parts(n) \in Nat
    BY <1>5, MsgSizeFacts, TotalFacts
  <1>7. ASSUME Valid(s)'
        PROVE  /\ Knows(c, r, W, data)
               /\ \A p \in Publishers : Allows(pub[p], c, r, W)
    <2>1. Valid(s)
      BY <1>0, <1>1, <1>3, <1>7 DEF Valid, Reads, Holds, Sized
    <2>2. Knows(q, r, W, data) /\ \A p \in Publishers : Allows(pub[p], q, r, W)
      BY <2>1 DEF DeliveryInv, ReadInv, ReaderOK
    <2>3. Held(q, W, data) /\ q.rp = r /\ Copied(q) /\ HoldsSize(q, W, data)
      BY <1>0, <1>5, <2>2 DEF Knows, Held, Holds, Sized
    <2>4. Held(c, W, data)
      BY <1>0, <1>3, <1>4, <2>3 DEF Held, HoldsSize, HoldsWrap, NextPos, Sized
    <2>5. data[a + k] = Payload(n, q.word.msg, k)
      <3>1. k \in 1 .. Parts(n)
        BY <1>5, <1>6
      <3> QED
        BY <2>3, <3>1 DEF HoldsSize, MessageIn
    <2>6. /\ Len(c.buf) = k
          /\ \A j \in 1 .. Len(c.buf) : c.buf[j] = Payload(n, q.word.msg, j)
      <3> DEFINE v == data[a + k]
      <3>1. Len(Append(q.buf, v)) = k /\ \A j \in 1 .. k :
              Append(q.buf, v)[j] = IF j = k THEN v ELSE q.buf[j]
        <4>1. q.buf \in Seq(Words \cup {v}) /\ v \in Words \cup {v}
          BY <1>5
        <4> QED
          BY <4>1
      <3>2. \A j \in 1 .. Len(q.buf) : q.buf[j] = Payload(n, q.word.msg, j)
        BY <1>0, <2>3 DEF Copied
      <3>3. \A j \in 1 .. k : j = k \/ j \in 1 .. Len(q.buf)
        BY <1>5
      <3> QED
        BY <1>3, <2>5, <3>1, <3>2, <3>3
    <2>7. c.pc = "store_rp" => Len(c.buf) = Parts(n)
      BY <1>3, <1>5, <1>6, <2>6
    <2>8. Copied(c)
      BY <1>3, <1>4, <1>5, <2>6, <2>7 DEF Copied
    <2>9. Knows(c, r, W, data)
      BY <1>3, <2>2, <2>3, <2>4, <2>8 DEF Knows
    <2>10. \A p \in Publishers : Allows(pub[p], c, r, W)
      BY <1>0, <1>3, <2>2 DEF Allows, Holds, Sized
    <2> QED
      BY <2>9, <2>10
  <1>8. ReaderOK(s)'
    BY <1>0, <1>1, <1>3, <1>7 DEF ReaderOK
  <1>9. ResetOK(s)' /\ Clean(c)
    BY <1>3, <1>4, <1>5 DEF ResetOK, Clean
  <1> QED
    BY <1>0, <1>2, <1>3, <1>8, <1>9, LocalDelivery

(* The position behind the message that a valid reader holds: publishers   *)
(* let the reader go there.                                                *)
LEMMA NextAllowed ==
  ASSUME NEW d, NEW W \in Position, Sound(W), NEW b \in Publisher, PubSound(b), WriterOK(b, W, d),
         NEW q \in Subscriber, SubSound(q), LoadSound(q), NEW r, q.pc \in Sized, q.word.kind = "size",
         Knows(q, r, W, d), Allows(b, q, r, W)
  PROVE  Clear(b, W, q.id, NextPos(q))
  <1> DEFINE v == NextPos(q)
  <1>1. q.rp = r /\ Copied(q) /\ HoldsSize(q, W, d)
    BY DEF Knows, Held, Holds
  <1>2. /\ v.ptr \in Nat /\ v.ptr > q.rp.ptr /\ v.cyc = q.rp.cyc /\ q.rp.ptr \in Nat
        /\ q.rp.cyc \in Nat /\ W.ptr \in Nat /\ W.ptr % 8 = 0
    BY <1>1, NextFacts, PosFacts
  <1>3. /\ v.cyc = W.cyc => v.ptr <= W.ptr
        /\ q.rp.ptr < W.ptr => v.ptr <= W.ptr
    BY <1>1 DEF HoldsSize, GoodPos
  <1> HIDE DEF v
  <1>4. ASSUME b.pc \in BeforeWrap, q.id >= b.num PROVE FALSE
    <2>1. r = W
      BY <1>4 DEF Allows, Clear
    <2> QED
      BY <1>1, <1>2, <1>3, <2>1
  <1>5. ASSUME b.pc \in Writing, Passed(b, q.id) PROVE ~Inside(b, v)
    <2>1. b.wp = W /\ b.size \in MsgSizes
      BY <1>5 DEF WriterOK, Writing, InSend, PubSound
    <2>2. ~InArea(q.rp, W, b.size)
      BY <1>5, <2>1 DEF Allows, Outside, Holds
    <2>3. AreaEnd(W, b.size) \in Nat
      <3>1. b.size \in Nat
        BY <2>1, MsgSizeFacts
      <3>2. Total(b.size) \in Nat
        BY <3>1, TotalFacts
      <3>3. Align(W.ptr + 8 + b.size) = W.ptr + Total(b.size)
        BY <1>2, <3>1, AlignShift
      <3> QED
        BY <1>2, <3>2, <3>3 DEF AreaEnd
    <2> QED
      BY <1>2, <1>3, <2>1, <2>2, <2>3 DEF Inside, InArea
  <1> QED
    BY <1>4, <1>5 DEF Clear, v

(* Moving the read pointer behind a message, skipped or copied.            *)
LEMMA AdvanceDelivery ==
  ASSUME IInv, ReadSound, RegInv, DeliveryInv, NEW s \in Subscribers, SkipMessage(s) \/ StoreReadPointer(s)
  PROVE  DeliveryInv'
  <1> DEFINE q == sub[s]
             c == sub'[s]
             W == write_pointer
             r == read_pointers[q.id]
             v == NextPos(q)
  <1>0. /\ q.pc \in {"skip", "store_rp"} /\ q.pc \in Sized /\ q.pc \in Reads
        /\ UNCHANGED <<write_pointer, write_uid, data, pub, sent, out, read_valids, read_uids>>
    BY DEF SkipMessage, StoreReadPointer, Sized, Reads, Holds, queue
  <1>1. /\ q \in Subscriber /\ SubSound(q) /\ LoadSound(q) /\ Registered(s) /\ q.id \in Slots
        /\ q.word.kind = "size" /\ read_pointers \in [Slots -> Position]
    <2>1. /\ q \in Subscriber /\ SubSound(q) /\ LoadSound(q) /\ Registered(s)
          /\ read_pointers \in [Slots -> Position]
      BY SubFacts, LoadFacts DEF SharedOK, RegInv
    <2> QED
      BY <1>0, <2>1 DEF SubSound, DeliveryInv, ReadInv, NoGarbage, Clean
  <1>2. read_uids[q.id] = s /\ q.id # -1
    BY <1>0, <1>1, NumReadersAssumption DEF Registered, Unregistered, Unchecked, Slots
  <1>3. Owns(s)
    BY <1>2 DEF Owns
  <1>4. /\ c.pc \in {"check_uid", "check_data"} /\ c.id = q.id
        /\ c.pc = "check_data" => q.pc = "store_rp" /\ c.word = q.word /\ c.buf = q.buf
        /\ \A t \in Subscribers : t # s => sub'[t] = sub[t]
    <2>1. CASE SkipMessage(s)
      BY <2>1, SubBackUpdate DEF SkipMessage, Restart
    <2>2. CASE StoreReadPointer(s)
      BY <2>2, SubGotoUpdate DEF StoreReadPointer
    <2> QED
      BY <2>1, <2>2
  <1>5. NewReadPointer(s) = v
    BY <1>0, <1>1, AfterMessageFacts DEF NextPos
  <1>6. read_pointers' = [read_pointers EXCEPT ![q.id] = v]
    BY <1>5 DEF SkipMessage, StoreReadPointer
  <1>7. read_pointers'[q.id] = v /\ \A i \in Slots : i # q.id => read_pointers'[i] = read_pointers[i]
    BY <1>1, <1>6
  <1>8. \A t \in Subscribers : t # s /\ Valid(t)' =>
          Valid(t) /\ read_pointers'[sub[t].id] = read_pointers[sub[t].id]
    BY <1>0, <1>3, <1>4, <1>7, OwnSlot
  <1>9. ASSUME Valid(s)'
        PROVE  /\ Knows(c, v, W, data)
               /\ \A p \in Publishers : Allows(pub[p], c, v, W)
    <2>1. Valid(s)
      BY <1>0, <1>4, <1>9 DEF Valid
    <2>2. Knows(q, r, W, data) /\ \A p \in Publishers : Allows(pub[p], q, r, W)
      BY <2>1 DEF DeliveryInv, ReadInv, ReaderOK
    <2>3. GoodPos(v, W, data) /\ Copied(q)
      BY <1>0, <1>1, <2>2 DEF Knows, Held, HoldsSize, Holds
    <2>4. Knows(c, v, W, data)
      BY <1>4, <2>3 DEF Knows, Copied, Holds, Sized
    <2>5. ASSUME NEW p \in Publishers PROVE Allows(pub[p], c, v, W)
      <3>1. /\ pub[p] \in Publisher /\ PubSound(pub[p]) /\ W \in Position /\ Sound(W)
            /\ WriterOK(pub[p], W, data)
        BY IInvParts DEF SharedOK, DeliveryInv, WriteInv
      <3>2. Clear(pub[p], W, q.id, v)
        BY <1>0, <1>1, <2>2, <3>1, NextAllowed
      <3> QED
        BY <1>4, <3>2 DEF Allows, Holds, Sized
    <2> QED
      BY <2>4, <2>5
  <1>10. ReaderOK(s)'
    BY <1>0, <1>4, <1>7, <1>9 DEF ReaderOK
  <1>11. ResetOK(s)' /\ Clean(c)
    BY <1>4 DEF ResetOK, Clean
  <1>12. DeliveredIntact'
    BY <1>0 DEF DeliveryInv, ReadInv, DeliveredIntact
  <1> QED
    BY <1>0, <1>4, <1>8, <1>10, <1>11, <1>12, SubDelivery

(* Following a wrap-around tag: the publisher is a cycle ahead.            *)
LEMMA WrapDelivery ==
  ASSUME IInv, ReadSound, RegInv, DeliveryInv, NEW s \in Subscribers, WrapRead(s)
  PROVE  DeliveryInv'
  <1> DEFINE q == sub[s]
             c == sub'[s]
             W == write_pointer
             r == read_pointers[q.id]
             v == Pos(NextCycle(q.rp.cyc), 0)
  <1>0. /\ q.pc = "wrap" /\ q.pc \in Holds /\ q.pc \in Sized /\ q.pc \in Reads
        /\ UNCHANGED <<write_pointer, write_uid, data, pub, sent, out, read_valids, read_uids>>
        /\ read_pointers' = [read_pointers EXCEPT ![q.id] = v]
    BY DEF WrapRead, Sized, Reads, Holds, queue
  <1>1. /\ q \in Subscriber /\ SubSound(q) /\ LoadSound(q) /\ Registered(s) /\ q.id \in Slots
        /\ read_pointers \in [Slots -> Position]
    <2>1. /\ q \in Subscriber /\ SubSound(q) /\ LoadSound(q) /\ Registered(s)
          /\ read_pointers \in [Slots -> Position]
      BY SubFacts, LoadFacts DEF SharedOK, RegInv
    <2> QED
      BY <1>0, <2>1 DEF SubSound
  <1>2. read_uids[q.id] = s /\ q.id # -1
    BY <1>0, <1>1, NumReadersAssumption DEF Registered, Unregistered, Unchecked, Slots
  <1>3. Owns(s)
    BY <1>2 DEF Owns
  <1>4. c.pc = "check_uid" /\ c.id = q.id /\ \A t \in Subscribers : t # s => sub'[t] = sub[t]
    BY SubBackUpdate DEF WrapRead, Restart
  <1>5. read_pointers'[q.id] = v /\ \A i \in Slots : i # q.id => read_pointers'[i] = read_pointers[i]
    BY <1>0, <1>1
  <1>6. \A t \in Subscribers : t # s /\ Valid(t)' =>
          Valid(t) /\ read_pointers'[sub[t].id] = read_pointers[sub[t].id]
    BY <1>0, <1>3, <1>4, <1>5, OwnSlot
  <1>7. ASSUME Valid(s)'
        PROVE  /\ Knows(c, v, W, data)
               /\ \A p \in Publishers : Allows(pub[p], c, v, W)
    <2>1. Valid(s)
      BY <1>0, <1>4, <1>7 DEF Valid
    <2>2. Knows(q, r, W, data) /\ \A p \in Publishers : Allows(pub[p], q, r, W)
      BY <2>1 DEF DeliveryInv, ReadInv, ReaderOK
    <2>3. q.rp = r /\ r.cyc < W.cyc /\ Start(data[0])
      BY <1>0, <2>2 DEF Knows, Copied, Held, HoldsWrap
    <2>4. /\ W.cyc \in 0 .. CycleMod - 1 /\ W.ptr \in Nat /\ r.cyc \in Nat
          /\ CycleMod \in Nat \ {0} /\ r.cyc + 1 < CycleMod
      <3>1. W \in Position /\ r \in Position
        BY <1>1, IInvParts DEF SharedOK
      <3>2. W.cyc \in 0 .. CycleMod - 1 /\ W.ptr \in Nat /\ r.cyc \in Nat
        BY <3>1 DEF Position
      <3> QED
        BY <2>3, <3>2, CycleModAssumption
    <2>5. v.cyc = r.cyc + 1 /\ v.ptr = 0
      <3>1. (r.cyc + 1) % CycleMod = r.cyc + 1
        BY <2>4, ModSmall
      <3> QED
        BY <2>3, <3>1 DEF NextCycle, Pos
    <2> HIDE DEF v
    <2>6. GoodPos(v, W, data)
      <3>1. WordAt(v.ptr) = 0
        BY <2>5 DEF WordAt
      <3> QED
        BY <2>3, <2>4, <2>5, <3>1 DEF GoodPos
    <2>7. Knows(c, v, W, data)
      BY <1>4, <2>6 DEF Knows, Copied, Holds, Sized
    <2>8. ASSUME NEW p \in Publishers PROVE Allows(pub[p], c, v, W)
      <3>1. ~(pub[p].pc \in BeforeWrap /\ q.id >= pub[p].num)
        BY <2>2, <2>3, <2>4 DEF Allows, Clear
      <3>2. WriterOK(pub[p], W, data)
        BY DEF DeliveryInv, WriteInv
      <3>3. pub[p].pc \in Writing => pub[p].wp = W
        BY <3>2 DEF WriterOK, Writing, InSend
      <3>4. pub[p].pc \in Writing => ~Inside(pub[p], v)
        BY <2>4, <2>5, <3>3 DEF Inside, InArea
      <3> QED
        BY <1>4, <3>1, <3>4 DEF Allows, Clear, Holds, Sized
    <2> QED
      BY <2>7, <2>8
  <1>8. ReaderOK(s)'
    BY <1>0, <1>4, <1>5, <1>7 DEF ReaderOK
  <1>9. ResetOK(s)' /\ Clean(c)
    BY <1>4 DEF ResetOK, Clean
  <1>10. DeliveredIntact'
    BY <1>0 DEF DeliveryInv, ReadInv, DeliveredIntact
  <1> QED
    BY <1>0, <1>4, <1>6, <1>8, <1>9, <1>10, SubDelivery

(* The check of the copy: what a reader that is still valid returns is the *)
(* message.                                                                *)
LEMMA CheckedData ==
  ASSUME IInv, ReadSound, RegInv, DeliveryInv, NEW s \in Subscribers, CheckData(s)
  PROVE  DeliveryInv'
  <1> DEFINE q == sub[s]
             c == sub'[s]
             n == q.word.size
             m == q.word.msg
  <1>0. UNCHANGED <<shared, pub, sent>> /\ q.pc = "check_data" /\ q.pc \in Reads
    BY DEF CheckData, Reads
  <1>1. DeliveredIntact /\ out \in [Subscribers -> Seq(Words)] /\ q \in Subscriber
    BY SubFacts, LoadFacts DEF DeliveryInv, ReadInv
  <1>2. CASE read_valids[q.id]
    <2>1. /\ c.pc = "idle" /\ c.id = q.id /\ \A t \in Subscribers : t # s => sub'[t] = sub[t]
      BY <1>2, SubReturnUpdate DEF CheckData
    <2>2. Valid(s)
      <3>1. Registered(s)
        BY DEF RegInv
      <3> QED
        BY <1>0, <1>2, <3>1 DEF Valid, Registered, Unregistered, Unchecked
    <2>3. Copied(q)
      BY <2>2 DEF DeliveryInv, ReadInv, ReaderOK, Knows
    <2>4. /\ n \in MsgSizes /\ Len(q.buf) = Parts(n)
          /\ \A k \in 1 .. Len(q.buf) : q.buf[k] = Payload(n, m, k)
      BY <1>0, <2>3 DEF Copied
    <2>5. q.buf \in Seq(Words) /\ n \in Nat /\ m \in Nat
      BY <1>1 DEF Subscriber, Words
    <2>6. Parts(n) \in Nat /\ Parts(n) > 0
      <3>1. n \in Nat /\ n > 0
        BY <2>4, MsgSizeFacts
      <3> QED
        BY <3>1, TotalFacts
    <2>7. q.buf = IntactCopy(n, m)
      <3>1. q.buf = [k \in 1 .. Len(q.buf) |-> q.buf[k]]
        BY <2>5
      <3> QED
        BY <2>4, <3>1 DEF IntactCopy
    <2>8. q.buf[1].size = n /\ q.buf[1].msg = m
      <3>1. q.buf[1] = Payload(n, m, 1)
        BY <2>4, <2>6
      <3> QED
        BY <3>1 DEF Payload, Word
    <2>9. out'[s] = q.buf /\ \A t \in Subscribers : t # s => out'[t] = out[t]
      BY <1>1, <1>2 DEF CheckData
    <2>10. DeliveredIntact'
      <3> SUFFICES ASSUME NEW t \in Subscribers, out'[t] # <<>>
                   PROVE  out'[t] = IntactCopy(out'[t][1].size, out'[t][1].msg)
        BY DEF DeliveredIntact
      <3>1. CASE t = s
        BY <2>7, <2>8, <2>9, <3>1
      <3>2. CASE t # s
        BY <1>1, <2>9, <3>2 DEF DeliveredIntact
      <3> QED
        BY <3>1, <3>2
    <2> QED
      BY <1>0, <2>1, <2>10, PlainOK, LocalDelivery
  <1>3. CASE ~read_valids[q.id]
    <2>1. /\ c.pc = "reset_valid" /\ \A t \in Subscribers : t # s => sub'[t] = sub[t]
          /\ UNCHANGED out
      BY <1>3, SubBackUpdate DEF CheckData
    <2>2. ReaderOK(s)' /\ ResetOK(s)' /\ Clean(c)
      BY <2>1, AsideOK DEF Reads, Holds, Sized, Clean
    <2>3. DeliveredIntact'
      BY <1>1, <2>1 DEF DeliveredIntact
    <2> QED
      BY <1>0, <2>1, <2>2, <2>3, LocalDelivery
  <1> QED
    BY <1>2, <1>3

(* Every step of a subscriber.                                             *)
LEMMA SubscriberDelivery ==
  ASSUME IInv, ReadSound, RegInv, DeliveryInv, NEW s \in Subscribers, SubscriberNext(s),
         QuietStart, NoEviction
  PROVE  DeliveryInv'
  <1>1. \A p \in Publishers : ~Starting(p)
    BY NobodyStarts
  <1>2. Moves(s)
    BY <1>1, ClaimMoves, StepKeeps, KeepsMoves
  <1>3. CASE Connect(s) \/ RegisterStep(s)
    BY <1>2, <1>3, RegisterDelivery
  <1>4. CASE ResetStep(s)
    BY <1>4, ResetDelivery
  <1>5. CASE BeginReady(s) \/ BeginRecv(s)
    BY <1>5, FindDelivery
  <1>6. CASE RecvStep(s)
    BY <1>6, FindDelivery, SizeRead, CheckedSize, CopyDelivery, AdvanceDelivery, WrapDelivery,
       CheckedData DEF RecvStep
  <1> QED
    BY <1>3, <1>4, <1>5, <1>6 DEF SubscriberNext, SubscriberStep

-----------------------------------------------------------------------------
(* The invariant holds of a fresh segment, and every step preserves it.    *)
LEMMA InitDelivery == Init => DeliveryInv
  <1> SUFFICES ASSUME Init PROVE DeliveryInv
    OBVIOUS
  <1>1. \A s \in Subscribers : sub[s].pc = "closed" /\ out[s] = <<>>
    BY DEF Init, SubAt
  <1>2. \A p \in Publishers : pub[p].pc = "closed"
    BY DEF Init, PubAt
  <1>3. write_pointer = Origin /\ Origin.cyc = 0 /\ Origin.ptr = 0 /\ sent = 0
    BY DEF Init, Origin, Pos
  <1>4. \A a \in WordAddrs : data[a].kind = "zero"
    BY DEF Init, Zero, Word
  <1>5. WordAt(write_pointer.ptr) = 0
    BY <1>3 DEF WordAt
  <1>6. CycleBound
    BY <1>2, <1>3 DEF CycleBound, BeforeWrap
  <1>7. \A p \in Publishers : WriterOK(pub[p], write_pointer, data)
    <2>1. \A p \in Publishers : pub[p].pc \notin InSend
      BY <1>2 DEF InSend
    <2> QED
      BY <2>1, OffDuty
  <1>8. Chain(data, 0, Open)
    BY <1>4, ZeroAddr DEF Chain
  <1>9. \A s \in Subscribers : ReaderOK(s) /\ ResetOK(s)
    BY <1>1 DEF ReaderOK, ResetOK, Valid, Reads, Holds, Sized
  <1>10. NoGarbage /\ DeliveredIntact
    BY <1>1 DEF NoGarbage, Clean, DeliveredIntact
  <1> QED
    BY <1>5, <1>6, <1>7, <1>8, <1>9, <1>10 DEF DeliveryInv, WriteInv, ReadInv

(* Every step of a steady run keeps the delivery invariant.               *)
LEMMA NextDelivery ==
  ASSUME NoOverflow
  PROVE  IInv /\ ReadSound /\ RegInv /\ DeliveryInv /\ [Next /\ Steady]_vars => DeliveryInv'
  <1> SUFFICES ASSUME IInv, ReadSound, RegInv, DeliveryInv, [Next /\ Steady]_vars PROVE DeliveryInv'
    OBVIOUS
  <1>1. CASE Next /\ Steady
    BY <1>1, PublisherDelivery, SubscriberDelivery DEF Next, Steady
  <1>2. CASE UNCHANGED vars
    BY <1>2 DEF vars, shared, queue, slots, DeliveryInv, WriteInv, ReadInv, CycleBound, Open,
       ReaderOK, ResetOK, Valid, NoGarbage, Clean, DeliveredIntact
  <1> QED
    BY <1>1, <1>2

(* The four invariants hold together in every state of a steady run.      *)
LEMMA SteadyInv ==
  ASSUME NoOverflow
  PROVE  SteadySpec => [](IInv /\ ReadSound /\ RegInv /\ DeliveryInv)
  <1> DEFINE Inv == IInv /\ ReadSound /\ RegInv /\ DeliveryInv
  <1>1. Init => Inv
    BY InitInv, ReadInit, InitReg, InitDelivery
  <1>2. Inv /\ [Next /\ Steady]_vars => Inv'
    <2> SUFFICES ASSUME Inv, [Next /\ Steady]_vars
                 PROVE  Inv'
      OBVIOUS
    <2>1. [Next]_vars /\ [Next /\ QuietStart /\ NoEviction]_vars
      BY DEF Steady
    <2>2. IInv' /\ RegInv'
      BY <2>1, NextInv, NextReg
    <2>3. DeliveryInv'
      BY NextDelivery
    <2>4. NoGarbage /\ NoGarbage'
      BY <2>3 DEF DeliveryInv, ReadInv
    <2>5. ReadSound'
      BY <2>1, <2>4, ReadNext
    <2> QED
      BY <2>2, <2>3, <2>5
  <1> QED
    BY <1>1, <1>2, PTL DEF SteadySpec

(* The asserts of msgq_msg_recv on the size hold: a receive never takes    *)
(* zeroes or payload bytes for a size prefix, whatever publishers and      *)
(* readers do meanwhile, under the timing assumptions of SteadySpec and as *)
(* long as the cycle counter does not overflow.                            *)
THEOREM SizesAreTags ==
  ASSUME NoOverflow
  PROVE  SteadySpec => []NoGarbage
  <1>1. DeliveryInv => NoGarbage
    BY DEF DeliveryInv, ReadInv
  <1> QED
    BY <1>1, SteadyInv, PTL

(* No load of msgq_msg_recv leaves the data area, under the same           *)
(* assumptions: no size that it accepts leads it beyond the end.           *)
THEOREM SteadyLoadsSafe ==
  ASSUME NoOverflow
  PROVE  SteadySpec => []LoadsInBounds
  <1>1. IInv /\ ReadSound /\ DeliveryInv => LoadsInBounds
    BY ReadBounds DEF DeliveryInv, ReadInv
  <1> QED
    BY <1>1, SteadyInv, PTL

(* What msgq_msg_recv returns is one message, word for word, however the   *)
(* memcpy of the reader and the memcpy of a publisher that laps it         *)
(* interleave: the check of read_valids behind the copy rejects every torn *)
(* one.                                                                    *)
THEOREM ReceivedIntact ==
  ASSUME NoOverflow
  PROVE  SteadySpec => []DeliveredIntact
  <1>1. DeliveryInv => DeliveredIntact
    BY DEF DeliveryInv, ReadInv
  <1> QED
    BY <1>1, SteadyInv, PTL


-----------------------------------------------------------------------------
(***************************************************************************)
(* msgq_all_readers_updated.  Its answer is about slots it looked at one   *)
(* after the other, and readers go on meanwhile.  It stays true because    *)
(* the positions are ordered: a reader never stores a position behind one  *)
(* that it has held, or ahead of write_pointer, so one that has reached    *)
(* write_pointer has nothing left to store but write_pointer.              *)
(***************************************************************************)
UpTo(r, w)   == r.cyc < w.cyc \/ (r.cyc = w.cyc /\ r.ptr <= w.ptr)
Before(r, w) == r.cyc < w.cyc \/ (r.cyc = w.cyc /\ r.ptr < w.ptr)

(* A reader with locals q and position r, and what it is going to store.   *)
InOrder(q, r, W) ==
  /\ q.pc = "reset_store" => UpTo(r, q.wp) /\ UpTo(q.wp, W)
  /\ q.pc \in {"load_wp"} \cup Holds => q.rp = r
  /\ q.pc \in Holds => Before(q.rp, W)
  /\ q.pc \in {"skip", "copy", "store_rp"} => UpTo(NextPos(q), W)
  /\ q.pc = "wrap" => q.rp.cyc < W.cyc

OrderInv ==
  /\ \A i \in Slots : UpTo(read_pointers[i], write_pointer)
  /\ \A s \in Subscribers : InOrder(sub[s], read_pointers[sub[s].id], write_pointer)

(* A slot that nobody has reset is not valid: neither one that no reader   *)
(* has claimed, nor one that is being claimed.                             *)
VacantInv ==
  /\ (\A p \in Publishers : ~Starting(p)) =>
       \A i \in Slots : i >= num_readers => ~read_valids[i]
  /\ \A p \in Publishers : \A i \in Slots :
       \/ pub[p].pc \in {"wipe_valid", "wipe_uid"} /\ i < pub[p].i
       \/ pub[p].pc = "wipe_uid" /\ i = pub[p].i
       => ~read_valids[i]
  /\ \A s \in Subscribers : sub[s].pc \in Claiming => ~read_valids[sub[s].id]

(* The reader of slot i is on its way to write_pointer, or at it.          *)
Arriving(i) ==
  \E s \in Subscribers :
    /\ sub[s].id = i
    /\ \/ sub[s].pc = "reset_load"
       \/ sub[s].pc = "reset_store" /\ sub[s].wp = write_pointer
CaughtUp(i) == ~read_valids[i] \/ read_pointers[i] = write_pointer \/ Arriving(i)

(* What the publisher has found out so far, and what it has answered.      *)
InUpdated == {"upd_valid", "upd_wp", "upd_rp"}
Found(p) ==
  LET b == pub[p] IN
    /\ b.ret = "updated" => b.pc = "idle"
    /\ write_uid = p /\ b.ret = "updated" => \A i \in Slots : CaughtUp(i)
    /\ write_uid = p /\ b.pc \in InUpdated =>
         \A i \in Slots : i < b.i \/ i >= b.num => CaughtUp(i)
    /\ write_uid = p /\ b.pc = "upd_rp" => b.wp = write_pointer

(* The inductive invariant, with IInv, RegInv and DeliveryInv.             *)
CaughtUpInv == OrderInv /\ VacantInv /\ \A p \in Publishers : Found(p)


(* The order of positions.                                                 *)
LEMMA OrderFacts ==
  ASSUME NEW r, NEW v, NEW w, r.cyc \in Int, r.ptr \in Int, v.cyc \in Int, v.ptr \in Int,
         w.cyc \in Int, w.ptr \in Int
  PROVE  /\ UpTo(r, v) /\ UpTo(v, w) => UpTo(r, w)
         /\ Before(r, v) /\ UpTo(v, w) => Before(r, w)
         /\ UpTo(r, r)
         /\ UpTo(r, w) /\ r.ptr # w.ptr => Before(r, w)
         /\ UpTo(r, v) /\ UpTo(v, r) => r.cyc = v.cyc /\ r.ptr = v.ptr
         /\ Before(r, w) => r.cyc # w.cyc \/ r.ptr # w.ptr
  BY DEF UpTo, Before

(* Positions are pairs of numbers.                                         *)
LEMMA PairFacts ==
  ASSUME NEW r \in Position
  PROVE  /\ r.cyc \in Int /\ r.ptr \in Int
         /\ \A w \in Position : r.cyc = w.cyc /\ r.ptr = w.ptr => r = w
  <1>1. r.cyc \in Int /\ r.ptr \in Int
    BY DEF Position
  <1>2. ASSUME NEW w \in Position, r.cyc = w.cyc, r.ptr = w.ptr PROVE r = w
    BY <1>2 DEF Position
  <1> QED
    BY <1>1, <1>2

(* Where the next position of a subscriber is.                             *)
LEMMA NextPair ==
  ASSUME NEW q \in Subscriber
  PROVE  /\ q.rp \in Position /\ q.wp \in Position
         /\ NextPos(q).cyc \in Int /\ NextPos(q).ptr \in Int
  <1>1. q.rp \in Position /\ q.wp \in Position /\ q.word.size \in Nat
    BY DEF Subscriber, Words
  <1>2. Total(q.word.size) \in Nat /\ q.rp.cyc \in Int /\ q.rp.ptr \in Int
    BY <1>1, TotalFacts, PairFacts
  <1> QED
    BY <1>1, <1>2 DEF NextPos, Pos

(* What the invariant says of one subscriber, for a later write pointer.   *)
LEMMA OrderAdvances ==
  ASSUME NEW q \in Subscriber, NEW r \in Position, NEW W \in Position, NEW V \in Position,
         UpTo(W, V), InOrder(q, r, W)
  PROVE  InOrder(q, r, V)
  <1>1. /\ q.rp \in Position /\ q.wp \in Position
        /\ NextPos(q).cyc \in Int /\ NextPos(q).ptr \in Int
    BY NextPair
  <1>2. /\ q.rp.cyc \in Int /\ q.rp.ptr \in Int /\ q.wp.cyc \in Int /\ q.wp.ptr \in Int
        /\ W.cyc \in Int /\ W.ptr \in Int /\ V.cyc \in Int /\ V.ptr \in Int
    BY <1>1, PairFacts
  <1> DEFINE v == NextPos(q)
  <1> HIDE DEF v
  <1>3. UpTo(v, W) => UpTo(v, V)
    BY <1>1, <1>2, OrderFacts DEF v
  <1>4. UpTo(q.wp, W) => UpTo(q.wp, V)
    BY <1>2, OrderFacts
  <1>5. Before(q.rp, W) => Before(q.rp, V)
    BY <1>2, OrderFacts
  <1>6. q.rp.cyc < W.cyc => q.rp.cyc < V.cyc
    BY <1>2 DEF UpTo
  <1> QED
    BY <1>3, <1>4, <1>5, <1>6 DEF InOrder, v

(* The program counters of a subscriber that InOrder says something of.    *)
Ordered == {"reset_store", "load_wp"} \cup Holds

(* Such a subscriber, and one in msgq_reset_reader, owns its slot.         *)
LEMMA OrderedOwns ==
  ASSUME IInv, ReadSound, RegInv, NEW s \in Subscribers,
         sub[s].pc \in Ordered \cup {"reset_valid", "reset_load"} \cup Claiming
  PROVE  Owns(s) /\ sub[s].id \in Slots
  <1>1. sub[s] \in Subscriber /\ SubSound(sub[s]) /\ LoadSound(sub[s]) /\ Registered(s)
    BY SubFacts, LoadFacts DEF RegInv
  <1>2. sub[s].id \in Slots /\ sub[s].id # -1
    BY <1>1, NumReadersAssumption DEF SubSound, Slots, Ordered, Holds, Sized, Claiming
  <1>3. CASE sub[s].pc \in Claiming
    BY <1>2, <1>3 DEF Owns, Claiming
  <1>4. CASE sub[s].pc \notin Claiming
    <2>1. sub[s].pc \notin Unregistered \cup Unchecked
      BY <1>4 DEF Unregistered, Unchecked, Claiming, Ordered, Holds, Sized
    <2> QED
      BY <1>1, <1>2, <2>1 DEF Owns, Registered
  <1> QED
    BY <1>2, <1>3, <1>4

-----------------------------------------------------------------------------
(* Steps of a subscriber that store no position and no flag.               *)
LEMMA LocalCaught ==
  ASSUME IInv, ReadSound, RegInv, CaughtUpInv, NEW s \in Subscribers, \A p \in Publishers : ~Starting(p),
         \A t \in Subscribers : t # s => sub'[t] = sub[t],
         UNCHANGED <<write_pointer, write_uid, read_pointers, read_valids, pub>>,
         num_readers \in Nat, num_readers' \in Nat, num_readers <= num_readers',
         sub[s].pc \notin {"reset_load", "reset_store"},
         InOrder(sub'[s], read_pointers[sub'[s].id], write_pointer),
         sub'[s].pc \in Claiming => ~read_valids[sub'[s].id]
  PROVE  CaughtUpInv'
  <1>1. OrderInv'
    BY DEF CaughtUpInv, OrderInv
  <1>2. VacantInv'
    <2>1. \A i \in Slots : i >= num_readers' => ~read_valids[i]
      BY DEF CaughtUpInv, VacantInv, Slots
    <2>2. \A p \in Publishers : pub[p].pc \notin {"wipe_valid", "wipe_uid"}
      BY DEF Starting
    <2>3. \A t \in Subscribers : sub'[t].pc \in Claiming => ~read_valids[sub'[t].id]
      BY DEF CaughtUpInv, VacantInv
    <2> QED
      BY <2>1, <2>2, <2>3 DEF VacantInv
  <1>3. \A i \in Slots : CaughtUp(i) => CaughtUp(i)'
    BY DEF CaughtUp, Arriving
  <1>4. \A p \in Publishers : Found(p)'
    BY <1>3 DEF CaughtUpInv, Found
  <1> QED
    BY <1>1, <1>2, <1>4 DEF CaughtUpInv

(* Steps of a subscriber that store in its own slot.                       *)
LEMMA StoreCaught ==
  ASSUME IInv, ReadSound, RegInv, CaughtUpInv, NEW s \in Subscribers, \A p \in Publishers : ~Starting(p),
         Owns(s), sub[s].id \in Slots, sub'[s].id = sub[s].id,
         \A t \in Subscribers : t # s => sub'[t] = sub[t],
         \A i \in Slots : i # sub[s].id => read_pointers'[i] = read_pointers[i]
                                           /\ read_valids'[i] = read_valids[i],
         UNCHANGED <<num_readers, write_pointer, write_uid, pub>>,
         UpTo(read_pointers'[sub[s].id], write_pointer),
         InOrder(sub'[s], read_pointers'[sub[s].id], write_pointer),
         sub'[s].pc \in Claiming => ~read_valids'[sub[s].id],
         CaughtUp(sub[s].id) => CaughtUp(sub[s].id)'
  PROVE  CaughtUpInv'
  <1> DEFINE j == sub[s].id
  <1>0. Apart /\ Counted
    BY DEF RegInv
  <1>1. \A t \in Subscribers : t # s /\ Owns(t) => sub[t].id # j
    BY <1>0 DEF Apart
  <1>2. ASSUME NEW t \in Subscribers
        PROVE  InOrder(sub'[t], read_pointers'[sub'[t].id], write_pointer)
    <2>1. CASE t = s
      BY <2>1
    <2>2. CASE t # s /\ sub[t].pc \in Ordered
      <3>1. Owns(t) /\ sub[t].id \in Slots
        BY <2>2, OrderedOwns
      <3> QED
        BY <1>1, <2>2, <3>1 DEF CaughtUpInv, OrderInv
    <2>3. CASE t # s /\ sub[t].pc \notin Ordered
      BY <2>3 DEF InOrder, Ordered, Holds, Sized
    <2> QED
      BY <2>1, <2>2, <2>3
  <1>3. OrderInv'
    BY <1>2 DEF CaughtUpInv, OrderInv
  <1>4. VacantInv'
    <2>1. j < num_readers /\ num_readers \in Nat /\ j \in Nat
      BY <1>0, IInvParts, NumReadersAssumption DEF Counted, SharedOK, Slots
    <2>2. \A i \in Slots : i >= num_readers => ~read_valids'[i]
      BY <2>1 DEF CaughtUpInv, VacantInv, Slots
    <2>3. \A p \in Publishers : pub[p].pc \notin {"wipe_valid", "wipe_uid"}
      BY DEF Starting
    <2>4. ASSUME NEW t \in Subscribers, sub'[t].pc \in Claiming PROVE ~read_valids'[sub'[t].id]
      <3>1. CASE t = s
        BY <2>4, <3>1
      <3>2. CASE t # s
        <4>1. Owns(t) /\ sub[t].id \in Slots
          BY <2>4, <3>2, OrderedOwns
        <4> QED
          BY <1>1, <2>4, <3>2, <4>1 DEF CaughtUpInv, VacantInv
      <3> QED
        BY <3>1, <3>2
    <2> QED
      BY <2>2, <2>3, <2>4 DEF VacantInv
  <1>5. \A i \in Slots : CaughtUp(i) => CaughtUp(i)'
    <2> SUFFICES ASSUME NEW i \in Slots, CaughtUp(i), i # j PROVE CaughtUp(i)'
      OBVIOUS
    <2>1. Arriving(i) => Arriving(i)'
      BY DEF Arriving
    <2> QED
      BY <2>1 DEF CaughtUp
  <1>6. \A p \in Publishers : Found(p)'
    BY <1>5 DEF CaughtUpInv, Found
  <1> QED
    BY <1>3, <1>4, <1>6 DEF CaughtUpInv


(* The calls that look for a slot.                                         *)
LEMMA RegisterCaught ==
  ASSUME IInv, ReadSound, RegInv, CaughtUpInv, NEW s \in Subscribers, NoEviction, Moves(s),
         \A p \in Publishers : ~Starting(p),
         Connect(s) \/ LoadSlotCount(s) \/ ClaimSlot(s) \/ InitUid(s)
  PROVE  CaughtUpInv'
  <1> DEFINE q == sub[s]
             c == sub'[s]
  <1>0. /\ q \in Subscriber /\ SubSound(q) /\ LoadSound(q) /\ c.pc # "evict_num"
        /\ num_readers \in 0 .. NumReaders /\ NumReaders \in Nat
    BY IInvParts, LoadFacts, NumReadersAssumption DEF SharedOK, NoEviction
  <1>1. /\ \A t \in Subscribers : t # s => sub'[t] = sub[t]
        /\ UNCHANGED <<write_pointer, write_uid, read_pointers, read_valids, pub>>
        /\ num_readers \in Nat /\ num_readers' \in Nat /\ num_readers <= num_readers'
    <2>1. UNCHANGED <<write_pointer, write_uid, read_pointers, read_valids, pub>>
      BY DEF Connect, LoadSlotCount, ClaimSlot, InitUid, shared, queue, slots
    <2> QED
      BY <1>0, <2>1 DEF Moves
  <1>2. /\ q.pc \notin {"reset_load", "reset_store"}
        /\ c.pc \in {"load_num", "cas", "init_valid", "reset_valid"}
        /\ c.pc = "init_valid" => c.id = num_readers /\ num_readers < NumReaders
    <2>1. CASE Connect(s)
      BY <2>1, SubUpdate DEF Connect, SubAt
    <2>2. CASE LoadSlotCount(s)
      <3>1. q.pc = "load_num" /\ c.pc = "cas"
        BY <1>0, <2>2, SubLoadUpdate DEF LoadSlotCount
      <3> QED
        BY <3>1
    <2>3. CASE ClaimSlot(s)
      <3>1. CASE num_readers = q.num /\ SetSub(s, SubAt("init_valid", q.op, q.num))
        <4>1. c.pc = "init_valid" /\ c.id = num_readers
          BY <3>1, SubUpdate DEF SubAt
        <4>2. q.pc = "cas" /\ q.num < NumReaders
          BY <1>0, <2>3 DEF ClaimSlot, SubSound
        <4> QED
          BY <3>1, <4>1, <4>2
      <3>2. CASE SubBack(s, "load_num")
        BY <2>3, <3>2, SubBackUpdate DEF ClaimSlot
      <3> QED
        BY <2>3, <3>1, <3>2 DEF ClaimSlot
    <2>4. CASE InitUid(s)
      BY <2>4, SubGotoUpdate DEF InitUid
    <2> QED
      BY <2>1, <2>2, <2>3, <2>4
  <1>3. InOrder(c, read_pointers[c.id], write_pointer)
    BY <1>2 DEF InOrder, Holds, Sized
  <1>4. c.pc \in Claiming => ~read_valids[c.id]
    <2> HAVE c.pc \in Claiming
    <2>1. c.id = num_readers /\ c.id \in Slots
      BY <1>0, <1>2 DEF Claiming, Slots
    <2> QED
      BY <1>1, <2>1 DEF CaughtUpInv, VacantInv
  <1> QED
    BY <1>1, <1>2, <1>3, <1>4, LocalCaught

(* A claimed slot is cleared before it is used.                            *)
LEMMA ClearCaught ==
  ASSUME IInv, ReadSound, RegInv, CaughtUpInv, NEW s \in Subscribers, \A p \in Publishers : ~Starting(p),
         InitValid(s) \/ InitReadPointer(s)
  PROVE  CaughtUpInv'
  <1> DEFINE q == sub[s]
             c == sub'[s]
             j == q.id
  <1>0. /\ read_valids \in [Slots -> BOOLEAN] /\ read_pointers \in [Slots -> Position]
        /\ write_pointer \in Position
    BY IInvParts DEF SharedOK
  <1>1. q.pc \in Claiming /\ UNCHANGED <<num_readers, write_pointer, write_uid, pub>>
    BY DEF InitValid, InitReadPointer, Claiming, queue
  <1>2. Owns(s) /\ j \in Slots
    BY <1>1, OrderedOwns
  <1>3. /\ c.pc \in {"init_rp", "init_uid"} /\ c.id = j
        /\ \A t \in Subscribers : t # s => sub'[t] = sub[t]
    BY SubGotoUpdate DEF InitValid, InitReadPointer
  <1>4. ~read_valids[j]
    BY <1>1 DEF CaughtUpInv, VacantInv
  <1>5. /\ ~read_valids'[j]
        /\ \A i \in Slots : i # j => read_pointers'[i] = read_pointers[i]
                                     /\ read_valids'[i] = read_valids[i]
        /\ read_pointers'[j] \in {Origin, read_pointers[j]}
    BY <1>0, <1>2, <1>4 DEF InitValid, InitReadPointer
  <1>6. UpTo(read_pointers'[j], write_pointer)
    <2>1. Origin.cyc = 0 /\ Origin.ptr = 0
      BY DEF Origin, Pos
    <2>2. write_pointer.cyc \in Nat /\ write_pointer.ptr \in Nat
      BY <1>0 DEF Position
    <2>3. UpTo(Origin, write_pointer)
      BY <2>1, <2>2 DEF UpTo
    <2> QED
      BY <1>2, <1>5, <2>3 DEF CaughtUpInv, OrderInv
  <1>7. InOrder(c, read_pointers'[j], write_pointer)
    BY <1>3 DEF InOrder, Holds, Sized
  <1>8. CaughtUp(j)'
    BY <1>3, <1>5 DEF CaughtUp
  <1> QED
    BY <1>1, <1>2, <1>3, <1>5, <1>6, <1>7, <1>8, StoreCaught

(* msgq_reset_reader: the reader goes to write_pointer, and stays there if *)
(* it was at it.                                                           *)
LEMMA ResetCaught ==
  ASSUME IInv, ReadSound, RegInv, CaughtUpInv, NEW s \in Subscribers, \A p \in Publishers : ~Starting(p),
         ResetStep(s)
  PROVE  CaughtUpInv'
  <1> DEFINE q == sub[s]
             c == sub'[s]
             j == q.id
             W == write_pointer
  <1>0. /\ read_valids \in [Slots -> BOOLEAN] /\ read_pointers \in [Slots -> Position]
        /\ W \in Position /\ q \in Subscriber
    BY IInvParts DEF SharedOK
  <1>1. /\ q.pc \in {"reset_valid", "reset_load", "reset_store"}
        /\ UNCHANGED <<num_readers, write_pointer, write_uid, pub>>
    BY DEF ResetStep, ResetValid, ResetLoad, ResetStore, shared, queue
  <1>2. Owns(s) /\ j \in Slots
    BY <1>1, OrderedOwns DEF Ordered
  <1>3. c.id = j /\ \A t \in Subscribers : t # s => sub'[t] = sub[t]
    BY SubGotoUpdate, SubLoadUpdate, SubReturnUpdate, SubBackUpdate
       DEF ResetStep, ResetValid, ResetStore, Restart
  <1>4. \A i \in Slots : i # j => read_pointers'[i] = read_pointers[i]
                                  /\ read_valids'[i] = read_valids[i]
    BY <1>0 DEF ResetStep, ResetValid, ResetLoad, ResetStore, shared, slots
  <1>5. UpTo(read_pointers[j], W) /\ read_pointers[j] \in Position
    BY <1>0, <1>2 DEF CaughtUpInv, OrderInv
  <1>6. W.cyc \in Int /\ W.ptr \in Int
    BY <1>0, PairFacts
  <1>7. CASE ResetValid(s)
    <2>1. c.pc = "reset_load" /\ read_pointers' = read_pointers
      BY <1>7, SubGotoUpdate DEF ResetValid
    <2>2. InOrder(c, read_pointers'[j], W)
      BY <2>1 DEF InOrder, Holds, Sized
    <2>3. CaughtUp(j)'
      BY <1>3, <2>1 DEF CaughtUp, Arriving
    <2>4. c.pc \notin Claiming
      BY <2>1 DEF Claiming
    <2> QED
      BY <1>1, <1>2, <1>3, <1>4, <1>5, <2>1, <2>2, <2>3, <2>4, StoreCaught
  <1>8. CASE ResetLoad(s)
    <2>1. c.pc = "reset_store" /\ c.wp = W /\ read_pointers' = read_pointers
      BY <1>8, SubLoadUpdate DEF ResetLoad, shared, slots
    <2>2. UpTo(W, W)
      BY <1>6, OrderFacts
    <2>3. InOrder(c, read_pointers'[j], W)
      BY <1>5, <2>1, <2>2 DEF InOrder, Holds, Sized
    <2>4. CaughtUp(j)'
      BY <1>1, <1>3, <2>1 DEF CaughtUp, Arriving
    <2>5. c.pc \notin Claiming
      BY <2>1 DEF Claiming
    <2> QED
      BY <1>1, <1>2, <1>3, <1>4, <1>5, <2>1, <2>3, <2>4, <2>5, StoreCaught
  <1>9. CASE ResetStore(s)
    <2>1. c.pc \in {"idle", "check_uid"}
      BY <1>9, SubReturnUpdate, SubBackUpdate DEF ResetStore, Restart
    <2>2. q.pc = "reset_store" /\ read_pointers'[j] = q.wp /\ read_valids' = read_valids
      BY <1>0, <1>2, <1>9 DEF ResetStore
    <2>3. UpTo(read_pointers[j], q.wp) /\ UpTo(q.wp, W)
      BY <2>2 DEF CaughtUpInv, OrderInv, InOrder
    <2>4. InOrder(c, read_pointers'[j], W) /\ c.pc \notin Claiming
      BY <2>1 DEF InOrder, Holds, Sized, Claiming
    <2>5. q.wp \in Position /\ q.wp.cyc \in Int /\ q.wp.ptr \in Int
      BY <1>0, NextPair, PairFacts
    <2>6. read_pointers[j] = W => q.wp = W
      BY <1>0, <1>6, <2>3, <2>5, OrderFacts, PairFacts
    <2>7. Arriving(j) => q.wp = W
      <3> SUFFICES ASSUME NEW t \in Subscribers, sub[t].id = j,
                          \/ sub[t].pc = "reset_load"
                          \/ sub[t].pc = "reset_store" /\ sub[t].wp = W
                   PROVE  q.wp = W
        BY DEF Arriving
      <3>1. Owns(t)
        BY OrderedOwns DEF Ordered
      <3>2. t = s
        BY <1>2, <3>1 DEF RegInv, Apart
      <3> QED
        BY <2>2, <3>2
    <2>8. CaughtUp(j) => CaughtUp(j)'
      BY <1>1, <1>3, <2>2, <2>6, <2>7 DEF CaughtUp
    <2> QED
      BY <1>1, <1>2, <1>3, <1>4, <2>2, <2>3, <2>4, <2>8, StoreCaught
  <1> QED
    BY <1>7, <1>8, <1>9 DEF ResetStep

(* A receive that moves the read pointer was not at write_pointer.         *)
LEMMA AdvanceCaught ==
  ASSUME IInv, ReadSound, RegInv, DeliveryInv, CaughtUpInv, NEW s \in Subscribers,
         \A p \in Publishers : ~Starting(p),
         WrapRead(s) \/ SkipMessage(s) \/ StoreReadPointer(s)
  PROVE  CaughtUpInv'
  <1> DEFINE q == sub[s]
             c == sub'[s]
             j == q.id
             W == write_pointer
  <1>0. /\ read_pointers \in [Slots -> Position] /\ W \in Position
        /\ q \in Subscriber /\ SubSound(q) /\ LoadSound(q)
    BY IInvParts, LoadFacts DEF SharedOK
  <1>1. /\ q.pc \in {"wrap", "skip", "store_rp"} /\ q.pc \in Holds
        /\ UNCHANGED <<num_readers, write_pointer, write_uid, read_valids, pub>>
    BY DEF WrapRead, SkipMessage, StoreReadPointer, queue, Holds, Sized
  <1>2. Owns(s) /\ j \in Slots
    BY <1>1, OrderedOwns DEF Ordered
  <1>3. /\ c.id = j /\ c.pc \in {"check_uid", "check_data"}
        /\ \A t \in Subscribers : t # s => sub'[t] = sub[t]
    BY SubGotoUpdate, SubBackUpdate DEF WrapRead, SkipMessage, StoreReadPointer, Restart
  <1>4. \A i \in Slots : i # j => read_pointers'[i] = read_pointers[i]
                                  /\ read_valids'[i] = read_valids[i]
    BY <1>0, <1>1 DEF WrapRead, SkipMessage, StoreReadPointer
  <1>5. InOrder(q, read_pointers[j], W)
    BY DEF CaughtUpInv, OrderInv
  <1>6. read_pointers[j] # W
    <2>1. q.rp = read_pointers[j] /\ Before(q.rp, W)
      BY <1>1, <1>5 DEF InOrder
    <2>2. W.cyc \in Int /\ W.ptr \in Int
      BY <1>0, PairFacts
    <2> QED
      BY <2>1, <2>2 DEF Before
  <1>7. ~Arriving(j)
    <2> SUFFICES ASSUME NEW t \in Subscribers, sub[t].id = j,
                        sub[t].pc \in {"reset_load", "reset_store"}
                 PROVE  FALSE
      BY DEF Arriving
    <2>1. Owns(t)
      BY OrderedOwns DEF Ordered
    <2>2. t = s
      BY <1>2, <2>1 DEF RegInv, Apart
    <2> QED
      BY <1>1, <2>2
  <1>8. CaughtUp(j) => CaughtUp(j)'
    BY <1>1, <1>3, <1>6, <1>7 DEF CaughtUp
  <1>9. UpTo(read_pointers'[j], W)
    <2>1. CASE WrapRead(s)
      <3> DEFINE x == q.rp.cyc
      <3>1. q.pc = "wrap" /\ read_pointers'[j] = Pos(NextCycle(x), 0)
        BY <1>0, <1>2, <2>1 DEF WrapRead
      <3>2. x < W.cyc
        BY <1>5, <3>1 DEF InOrder
      <3>3. q.rp \in Position
        BY <1>0, NextPair
      <3>4. x \in Nat /\ W.cyc \in 0 .. CycleMod - 1 /\ W.ptr \in Nat
        BY <1>0, <3>3 DEF Position
      <3> HIDE DEF x
      <3>5. x + 1 \in Nat /\ x + 1 < CycleMod /\ CycleMod \in Nat \ {0}
        BY <3>2, <3>4, CycleModAssumption
      <3>6. NextCycle(x) = x + 1
        BY <3>5, ModSmall DEF NextCycle
      <3>7. UpTo(Pos(x + 1, 0), W)
        BY <3>2, <3>4 DEF UpTo, Pos
      <3> QED
        BY <3>1, <3>6, <3>7
    <2>2. CASE SkipMessage(s) \/ StoreReadPointer(s)
      <3>1. q.pc \in {"skip", "store_rp"} /\ read_pointers'[j] = NewReadPointer(s)
        BY <1>0, <1>2, <2>2 DEF SkipMessage, StoreReadPointer
      <3>2. NewReadPointer(s) = NextPos(q)
        <4>1. q.word.kind = "size"
          BY <3>1 DEF DeliveryInv, ReadInv, NoGarbage, Clean
        <4>2. q.pc \in {"skip", "copy", "store_rp"}
          BY <3>1
        <4> QED
          BY <4>1, <4>2, AfterMessageFacts DEF NextPos
      <3>3. UpTo(NextPos(q), W)
        BY <1>5, <3>1 DEF InOrder
      <3> QED
        BY <3>1, <3>2, <3>3
    <2> QED
      BY <2>1, <2>2
  <1>10. InOrder(c, read_pointers'[j], W) /\ c.pc \notin Claiming
    BY <1>3 DEF InOrder, Holds, Sized, Claiming
  <1> QED
    BY <1>1, <1>2, <1>3, <1>4, <1>8, <1>9, <1>10, StoreCaught

(* The steps of a call that only load.                                     *)
LEMMA LoadCaught ==
  ASSUME IInv, ReadSound, RegInv, DeliveryInv, CaughtUpInv, NEW s \in Subscribers, NoEviction,
         \A p \in Publishers : ~Starting(p),
         \/ BeginReady(s) \/ BeginRecv(s) \/ CheckReadUid(s) \/ CheckValid(s)
         \/ LoadReadPointer(s) \/ CheckNewMessage(s) \/ LoadSize(s) \/ CheckSize(s)
         \/ CopyWord(s) \/ CheckData(s)
  PROVE  CaughtUpInv'
  <1> DEFINE q == sub[s]
             c == sub'[s]
             r == read_pointers[q.id]
             W == write_pointer
  <1>0. /\ q \in Subscriber /\ SubSound(q) /\ LoadSound(q) /\ Registered(s) /\ W \in Position
        /\ num_readers \in Nat /\ read_pointers \in [Slots -> Position]
    BY IInvParts, LoadFacts, NumReadersAssumption DEF SharedOK, RegInv
  <1>1. /\ UNCHANGED <<num_readers, write_pointer, write_uid, read_pointers, read_valids, pub>>
        /\ q.pc \notin {"reset_load", "reset_store"}
        /\ q.pc # "idle" => q.id \in Slots
    <2>1. UNCHANGED <<num_readers, write_pointer, write_uid, read_pointers, read_valids, pub>>
      BY DEF BeginReady, BeginRecv, Call, CheckReadUid, CheckValid, LoadReadPointer,
         CheckNewMessage, LoadSize, CheckSize, CopyWord, CheckData, shared, queue, slots
    <2>2. q.pc \in {"idle", "check_uid", "check_valid", "load_rp", "load_wp", "load_size",
                    "check_size", "copy", "check_data"}
      BY DEF BeginReady, BeginRecv, Call, CheckReadUid, CheckValid, LoadReadPointer,
         CheckNewMessage, LoadSize, CheckSize, CopyWord, CheckData
    <2> QED
      BY <1>0, <2>1, <2>2 DEF SubSound
  <1>2. InOrder(q, r, W)
    BY DEF CaughtUpInv, OrderInv
  <1>3. /\ \A t \in Subscribers : t # s => sub'[t] = sub[t]
        /\ c.pc \notin Claiming
        /\ InOrder(c, read_pointers[c.id], W)
    <2>1. CASE BeginReady(s) \/ BeginRecv(s)
      <3>1. c.pc = "check_uid" /\ \A t \in Subscribers : t # s => sub'[t] = sub[t]
        BY <2>1, SubUpdate DEF BeginReady, BeginRecv, Call, SubAt
      <3> QED
        BY <3>1 DEF InOrder, Holds, Sized, Claiming
    <2>2. CASE CheckReadUid(s) \/ CheckValid(s)
      <3>1. /\ c.pc \in {"check_valid", "load_num", "load_rp", "reset_valid"}
            /\ \A t \in Subscribers : t # s => sub'[t] = sub[t]
        BY <2>2, SubGotoUpdate DEF CheckReadUid, CheckValid
      <3> QED
        BY <3>1 DEF InOrder, Holds, Sized, Claiming
    <2>3. CASE LoadReadPointer(s)
      <3>1. /\ c.pc = "load_wp" /\ c.id = q.id /\ c.rp = r
            /\ \A t \in Subscribers : t # s => sub'[t] = sub[t]
        BY <2>3, SubLoadUpdate
      <3> QED
        BY <3>1 DEF InOrder, Holds, Sized, Claiming
    <2>4. CASE CheckNewMessage(s)
      <3>1. /\ c.id = q.id /\ \A t \in Subscribers : t # s => sub'[t] = sub[t]
            /\ \/ c.pc = "idle"
               \/ c.pc = "load_size" /\ c.rp = q.rp /\ q.rp.ptr # W.ptr
        BY <2>4, SubLoadUpdate
      <3>2. q.pc = "load_wp" /\ q.rp = r
        BY <1>2, <2>4 DEF CheckNewMessage, InOrder
      <3>3. UpTo(r, W) /\ r \in Position
        BY <1>0, <1>1, <3>2 DEF CaughtUpInv, OrderInv
      <3>4. r.cyc \in Int /\ r.ptr \in Int /\ W.cyc \in Int /\ W.ptr \in Int
        BY <1>0, <3>3, PairFacts
      <3>5. c.pc = "load_size" => Before(c.rp, W)
        BY <3>1, <3>2, <3>3, <3>4, OrderFacts
      <3> QED
        BY <3>1, <3>2, <3>5 DEF InOrder, Holds, Sized, Claiming
    <2>5. CASE LoadSize(s)
      <3>1. /\ c.pc = "check_size" /\ c.id = q.id /\ c.rp = q.rp
            /\ \A t \in Subscribers : t # s => sub'[t] = sub[t]
        BY <2>5, CleanUpdate DEF DeliveryInv, ReadInv
      <3>2. q.pc = "load_size"
        BY <2>5 DEF LoadSize
      <3> QED
        BY <1>2, <3>1, <3>2 DEF InOrder, Holds, Sized, Claiming
    <2>6. CASE CheckSize(s) /\ read_valids[q.id]
      <3>1. q.pc = "check_size"
        BY <2>6 DEF CheckSize
      <3>2. Valid(s)
        BY <1>0, <2>6, <3>1 DEF Valid, Registered, Unregistered, Unchecked, Reads, Holds, Sized
      <3>3. Knows(q, r, W, data)
        BY <3>2 DEF DeliveryInv, ReadInv, ReaderOK
      <3>4. Start(q.word) /\ Held(q, W, data)
        BY <3>1, <3>3 DEF Knows, Held, Holds, Sized
      <3>5. /\ c.pc \in {"wrap", "skip", "copy"}
            /\ c.pc = "wrap" <=> q.word.kind = "wrap"
            /\ c.id = q.id /\ c.rp = q.rp /\ c.word = q.word
            /\ \A t \in Subscribers : t # s => sub'[t] = sub[t]
        BY <2>6, <3>4, CleanUpdate DEF DeliveryInv, ReadInv
      <3>6. c.pc # "wrap" => q.word.kind = "size"
        BY <3>4, <3>5 DEF Start
      <3>7. c.pc = "wrap" => c.rp.cyc < W.cyc
        BY <3>1, <3>4, <3>5, <3>6 DEF Held, HoldsWrap, Sized
      <3>8. c.pc # "wrap" => UpTo(NextPos(c), W)
        <4> HAVE c.pc # "wrap"
        <4>1. GoodPos(NextPos(q), W, data) /\ NextPos(c) = NextPos(q)
          BY <3>1, <3>4, <3>5, <3>6 DEF Held, HoldsSize, Sized, NextPos
        <4>2. NextPos(q).cyc \in Int /\ NextPos(q).ptr \in Int /\ W.cyc \in Int /\ W.ptr \in Int
          BY <1>0, NextPair, PairFacts
        <4> QED
          BY <4>1, <4>2 DEF GoodPos, UpTo
      <3> QED
        BY <1>2, <3>1, <3>5, <3>6, <3>7, <3>8 DEF InOrder, Holds, Sized, Claiming
    <2>7. CASE CheckSize(s) /\ ~read_valids[q.id]
      <3>1. c.pc = "reset_valid" /\ \A t \in Subscribers : t # s => sub'[t] = sub[t]
        BY <2>7, SubBackUpdate DEF CheckSize
      <3> QED
        BY <3>1 DEF InOrder, Holds, Sized, Claiming
    <2>8. CASE CopyWord(s)
      <3>1. /\ c.pc \in {"copy", "store_rp"} /\ c.id = q.id /\ c.rp = q.rp /\ c.word = q.word
            /\ \A t \in Subscribers : t # s => sub'[t] = sub[t]
        BY <2>8, CleanUpdate DEF DeliveryInv, ReadInv
      <3>2. q.pc = "copy" /\ NextPos(c) = NextPos(q)
        BY <2>8, <3>1 DEF CopyWord, NextPos
      <3> QED
        BY <1>2, <3>1, <3>2 DEF InOrder, Holds, Sized, Claiming
    <2>9. CASE CheckData(s)
      <3>1. c.pc \in {"idle", "reset_valid"} /\ \A t \in Subscribers : t # s => sub'[t] = sub[t]
        BY <2>9, SubReturnUpdate, SubBackUpdate DEF CheckData
      <3> QED
        BY <3>1 DEF InOrder, Holds, Sized, Claiming
    <2> QED
      BY <2>1, <2>2, <2>3, <2>4, <2>5, <2>6, <2>7, <2>8, <2>9
  <1> QED
    BY <1>0, <1>1, <1>3, LocalCaught

(* Every step of a subscriber.                                             *)
LEMMA SubscriberCaught ==
  ASSUME IInv, ReadSound, RegInv, DeliveryInv, CaughtUpInv, NEW s \in Subscribers, SubscriberNext(s),
         QuietStart, NoEviction
  PROVE  CaughtUpInv'
  <1>1. \A p \in Publishers : ~Starting(p)
    BY NobodyStarts
  <1>2. Moves(s)
    BY <1>1, ClaimMoves, StepKeeps, KeepsMoves
  <1>3. ~EvictAll(s) /\ ~EvictValid(s) /\ ~EvictLoadUid(s) /\ ~EvictUid(s)
    BY DEF RegInv, Registered, Evicting, EvictAll, EvictValid, EvictLoadUid, EvictUid
  <1>4. CASE Connect(s) \/ RegisterStep(s)
    BY <1>1, <1>2, <1>3, <1>4, RegisterCaught, ClearCaught DEF RegisterStep
  <1>5. CASE ResetStep(s)
    BY <1>1, <1>5, ResetCaught
  <1>6. CASE BeginReady(s) \/ BeginRecv(s) \/ RecvStep(s)
    BY <1>1, <1>6, LoadCaught, AdvanceCaught DEF RecvStep
  <1> QED
    BY <1>4, <1>5, <1>6 DEF SubscriberNext, SubscriberStep


-----------------------------------------------------------------------------
(* write_pointer only grows.                                               *)
LEMMA PointerGrows ==
  ASSUME IInv, ReadSound, RegInv, DeliveryInv, NEW p \in Publishers, PublisherNext(p), NoOverflow
  PROVE  /\ UNCHANGED <<read_pointers, sub>>
         /\ UpTo(write_pointer, write_pointer')
         /\ write_pointer' # write_pointer => pub[p].pc \in InSend /\ write_uid = p
  <1> DEFINE b == pub[p]
             W == write_pointer
  <1>0. W \in Position /\ W.cyc \in Nat /\ W.ptr \in Nat
    BY IInvParts DEF SharedOK, Position
  <1>1. UNCHANGED <<read_pointers, sub>>
    BY DEF PublisherNext, InitPublisher, SendStep, UpdatedStep, StoreWriteUid, ZeroNumReaders,
       WipeValid, WipeUid, BeginSend, CheckWriteUid, LoadNumReaders, LoadWritePointer,
       StoreWrapTag, StoreWrap, CheckSlot, Invalidate, StoreSize, StorePayload,
       StoreWritePointer, Notify, BeginUpdated, UpdatedValid, UpdatedWritePointer,
       UpdatedReadPointer, shared, queue, slots
  <1>2. ~StoreWrap(p) /\ ~StoreWritePointer(p) => write_pointer' = W
    BY DEF PublisherNext, InitPublisher, SendStep, UpdatedStep, StoreWriteUid, ZeroNumReaders,
       WipeValid, WipeUid, BeginSend, CheckWriteUid, LoadNumReaders, LoadWritePointer,
       StoreWrapTag, CheckSlot, Invalidate, StoreSize, StorePayload, Notify,
       BeginUpdated, UpdatedValid, UpdatedWritePointer, UpdatedReadPointer, shared, queue, slots
  <1>3. CASE StoreWrap(p)
    <2>1. b.pc = "wrap_wp" /\ b.pc \in InSend \ {"load_num", "load_wp"}
      BY <1>3 DEF StoreWrap, InSend
    <2>2. b.wp = W /\ CycleBound /\ write_uid = p
      BY <2>1, WriterFacts
    <2>3. W.cyc < b.msg /\ b.msg <= sent /\ sent \in Nat /\ sent <= MaxSends /\ b.msg \in Nat
      BY <2>1, <2>2, IInvParts, MaxSendsAssumption DEF CycleBound, BeforeWrap, Publisher
    <2>4. W.cyc + 1 \in Nat /\ W.cyc + 1 < CycleMod /\ CycleMod \in Nat \ {0}
      BY <1>0, <2>3, CycleModAssumption, MaxSendsAssumption DEF NoOverflow
    <2>5. NextCycle(b.wp.cyc) = W.cyc + 1
      BY <2>2, <2>4, ModSmall DEF NextCycle
    <2>6. write_pointer' = Pos(W.cyc + 1, 0)
      BY <1>3, <2>5 DEF StoreWrap
    <2> QED
      BY <1>0, <1>1, <2>1, <2>2, <2>6 DEF UpTo, Pos
  <1>4. CASE StoreWritePointer(p)
    <2>1. b.pc = "publish" /\ b.pc \in InSend \ {"load_num", "load_wp"}
      BY <1>4 DEF StoreWritePointer, InSend
    <2>2. b.wp = W /\ write_uid = p /\ b.size \in Nat /\ W.ptr % 8 = 0
      BY <2>1, WriterFacts
    <2>3. Align(W.ptr + b.size + 8) = W.ptr + Total(b.size) /\ Total(b.size) \in Nat
      BY <1>0, <2>2, AlignShift, TotalFacts
    <2>4. write_pointer' = Pos(W.cyc, W.ptr + Total(b.size))
      BY <1>4, <2>2, <2>3 DEF StoreWritePointer
    <2> QED
      BY <1>0, <1>1, <2>1, <2>2, <2>3, <2>4 DEF UpTo, Pos
  <1>5. CASE ~StoreWrap(p) /\ ~StoreWritePointer(p)
    BY <1>0, <1>1, <1>2, <1>5 DEF UpTo
  <1> QED
    BY <1>3, <1>4, <1>5

(* So the readers stay in order with it.                                   *)
LEMMA PublisherOrder ==
  ASSUME IInv, ReadSound, IInv', RegInv, DeliveryInv, OrderInv, NEW p \in Publishers, PublisherNext(p),
         NoOverflow
  PROVE  OrderInv'
  <1> DEFINE W == write_pointer
             V == write_pointer'
  <1>1. UNCHANGED <<read_pointers, sub>> /\ UpTo(W, V)
    BY PointerGrows
  <1>2. /\ W \in Position /\ read_pointers \in [Slots -> Position]
        /\ sub \in [Subscribers -> Subscriber] /\ \A s \in Subscribers : SubSound(sub[s])
    BY IInvParts DEF SharedOK
  <1>3. V \in Position
    BY IInvParts DEF IInv, TypeOK
  <1> HIDE DEF V
  <1>4. ASSUME NEW i \in Slots PROVE UpTo(read_pointers[i], V)
    <2>1. UpTo(read_pointers[i], W) /\ read_pointers[i] \in Position
      BY <1>2 DEF OrderInv
    <2>2. /\ read_pointers[i].cyc \in Int /\ read_pointers[i].ptr \in Int
          /\ W.cyc \in Int /\ W.ptr \in Int /\ V.cyc \in Int /\ V.ptr \in Int
      BY <1>2, <1>3, <2>1, PairFacts
    <2> QED
      BY <1>1, <2>1, <2>2, OrderFacts
  <1>5. ASSUME NEW s \in Subscribers PROVE InOrder(sub[s], read_pointers[sub[s].id], V)
    <2>1. InOrder(sub[s], read_pointers[sub[s].id], W) /\ sub[s] \in Subscriber
      BY <1>2 DEF OrderInv
    <2>2. CASE sub[s].pc \in Ordered
      <3>1. sub[s].id \in Slots
        BY <2>2, OrderedOwns
      <3>2. read_pointers[sub[s].id] \in Position
        BY <1>2, <3>1
      <3> QED
        BY <1>1, <1>2, <1>3, <2>1, <3>2, OrderAdvances
    <2>3. CASE sub[s].pc \notin Ordered
      BY <2>3 DEF InOrder, Ordered, Holds, Sized
    <2> QED
      BY <2>2, <2>3
  <1> QED
    BY <1>1, <1>4, <1>5 DEF OrderInv, V

(* A publisher makes no slot valid.                                        *)
LEMMA PublisherValids ==
  ASSUME IInv, ReadSound, NEW p \in Publishers, PublisherNext(p)
  PROVE  \A i \in Slots : read_valids'[i] => read_valids[i]
  <1>1. read_valids \in [Slots -> BOOLEAN]
    BY IInvParts DEF SharedOK
  <1>2. CASE WipeValid(p)
    BY <1>1, <1>2 DEF WipeValid
  <1>3. CASE Invalidate(p)
    BY <1>1, <1>3 DEF Invalidate
  <1>4. CASE ~WipeValid(p) /\ ~Invalidate(p)
    <2>1. read_valids' = read_valids
      BY <1>4 DEF PublisherNext, InitPublisher, SendStep, UpdatedStep, StoreWriteUid,
         ZeroNumReaders, WipeUid, BeginSend, CheckWriteUid, LoadNumReaders, LoadWritePointer,
         StoreWrapTag, StoreWrap, CheckSlot, StoreSize, StorePayload,
         StoreWritePointer, Notify, BeginUpdated, UpdatedValid, UpdatedWritePointer,
         UpdatedReadPointer, shared, queue, slots
    <2> QED
      BY <2>1
  <1> QED
    BY <1>2, <1>3, <1>4

(* A slot that has caught up stays so, as long as nothing is sent.         *)
LEMMA SlotKept ==
  ASSUME IInv, ReadSound, RegInv, DeliveryInv, NEW p \in Publishers, PublisherNext(p), NoOverflow,
         NEW i \in Slots, CaughtUp(i), write_pointer' = write_pointer
  PROVE  CaughtUp(i)'
  <1>1. UNCHANGED <<read_pointers, sub>> /\ \A j \in Slots : read_valids'[j] => read_valids[j]
    BY PointerGrows, PublisherValids
  <1> QED
    BY <1>1 DEF CaughtUp, Arriving

(* The publishers that do not step.                                        *)
LEMMA OthersFound ==
  ASSUME IInv, ReadSound, RegInv, DeliveryInv, CaughtUpInv, NEW p \in Publishers, PublisherNext(p),
         NoOverflow, NEW q \in Publishers, q # p, pub'[q] = pub[q],
         write_uid' = q => write_uid = q
  PROVE  Found(q)'
  <1>1. write_uid' = q => write_pointer' = write_pointer
    BY PointerGrows
  <1>2. Found(q)
    BY DEF CaughtUpInv
  <1> DEFINE b == pub[q]
  <1>3. ASSUME write_uid' = q, b.ret = "updated" PROVE \A i \in Slots : CaughtUp(i)'
    BY <1>1, <1>2, <1>3, SlotKept DEF Found
  <1>4. ASSUME write_uid' = q, b.pc \in InUpdated
        PROVE  \A i \in Slots : i < b.i \/ i >= b.num => CaughtUp(i)'
    BY <1>1, <1>2, <1>4, SlotKept DEF Found
  <1>5. write_uid' = q /\ b.pc = "upd_rp" => b.wp = write_pointer'
    BY <1>1, <1>2 DEF Found
  <1> QED
    BY <1>2, <1>3, <1>4, <1>5 DEF Found


(* Replacing fields of the locals keeps the answer of the last call.       *)
LEMMA AnswerFields ==
  ASSUME NEW r \in Publisher, NEW x, NEW y
  PROVE  /\ LET c == [r EXCEPT !.pc = x, !.num = y] IN c.ret = r.ret /\ c.pc = x
         /\ LET c == [r EXCEPT !.pc = x, !.part = y] IN c.ret = r.ret /\ c.pc = x
         /\ LET c == [r EXCEPT !.pc = x, !.i = y] IN c.ret = r.ret /\ c.pc = x /\ c.i = y
         /\ LET c == [r EXCEPT !.i = y, !.pc = x] IN c.ret = r.ret /\ c.pc = x
         /\ LET c == [r EXCEPT !.pc = x] IN c.ret = r.ret /\ c.pc = x
         /\ LET c == [r EXCEPT !.i = y] IN c.ret = r.ret /\ c.pc = r.pc
         /\ LET c == [r EXCEPT !.part = y] IN c.ret = r.ret /\ c.pc = r.pc
         /\ LET c == [r EXCEPT !.wp = y] IN c.ret = r.ret /\ c.num = r.num
         /\ LET c == [r EXCEPT !.wp = y, !.pc = x] IN c.ret = r.ret /\ c.pc = x
  BY DEF Publisher

(* At a slot of a loop, too.                                               *)
LEMMA AnswerAtSlot ==
  ASSUME NEW r \in Publisher, NEW i, NEW body, NEW done
  PROVE  /\ AtSlot(r, i, body, done).ret = r.ret
         /\ AtSlot(r, i, body, done).pc \in {body, done}
  <1> DEFINE x == IF i < r.num THEN body ELSE done
  <1>1. AtSlot(r, i, body, done) = [r EXCEPT !.i = i, !.pc = x] /\ x \in {body, done}
    BY DEF AtSlot
  <1> HIDE DEF x
  <1>2. LET c == [r EXCEPT !.i = i, !.pc = x] IN c.ret = r.ret /\ c.pc = x
    BY AnswerFields
  <1> QED
    BY <1>1, <1>2

(* msgq_init_publisher leaves no valid slot behind.                        *)
LEMMA StartCaught ==
  ASSUME IInv, ReadSound, IInv', RegInv, DeliveryInv, CaughtUpInv, NEW p \in Publishers, InitPublisher(p),
         NoOverflow
  PROVE  CaughtUpInv'
  <1> DEFINE b == pub[p]
             c == pub'[p]
  <1>0. /\ b \in Publisher /\ PubSound(b) /\ read_valids \in [Slots -> BOOLEAN]
        /\ NumReaders \in Nat \ {0} /\ Sole(p) /\ Found(p) /\ VacantInv
    BY IInvParts, NumReadersAssumption DEF SharedOK, RegInv, CaughtUpInv
  <1>1. PublisherNext(p)
    BY DEF PublisherNext
  <1>2. /\ \A i \in Slots : read_valids'[i] => read_valids[i]
        /\ UNCHANGED <<read_pointers, sub>>
    BY <1>1, PublisherValids, PointerGrows
  <1>3. OrderInv'
    BY <1>1, PublisherOrder DEF CaughtUpInv
  <1>4. /\ \A q \in Publishers : q # p => pub'[q] = pub[q]
        /\ c.ret # "updated" /\ c.pc \in {"zero_num", "wipe_valid", "wipe_uid", "idle"}
        /\ c.pc = "idle" => \A i \in Slots : ~read_valids'[i]
        /\ \A i \in Slots : \/ c.pc \in {"wipe_valid", "wipe_uid"} /\ i < c.i
                            \/ c.pc = "wipe_uid" /\ i = c.i
                            => ~read_valids'[i]
    <2>1. CASE StoreWriteUid(p)
      <3>1. /\ c.pc = "zero_num" /\ c.ret = "none"
            /\ \A q \in Publishers : q # p => pub'[q] = pub[q]
        BY <2>1, PubUpdate DEF StoreWriteUid, PubAt
      <3> QED
        BY <3>1
    <2>2. CASE ZeroNumReaders(p)
      <3>1. /\ c.pc = "wipe_valid" /\ c.ret = b.ret /\ c.i = b.i /\ b.pc = "zero_num"
            /\ \A q \in Publishers : q # p => pub'[q] = pub[q]
        BY <1>0, <2>2, PubUpdate DEF ZeroNumReaders, PubGoto, Publisher
      <3>2. c.i = 0 /\ c.ret # "updated"
        BY <1>0, <3>1 DEF Sole, Found
      <3> QED
        BY <3>1, <3>2 DEF Slots
    <2>3. CASE WipeValid(p)
      <3>1. /\ c.pc = "wipe_uid" /\ c.ret = b.ret /\ c.i = b.i /\ b.pc = "wipe_valid"
            /\ \A q \in Publishers : q # p => pub'[q] = pub[q]
        BY <1>0, <2>3, PubUpdate DEF WipeValid, PubGoto, Publisher
      <3>2. c.ret # "updated" /\ b.i \in Slots
        BY <1>0, <3>1 DEF Found, PubSound
      <3>3. ~read_valids'[b.i]
        BY <1>0, <2>3, <3>2 DEF WipeValid
      <3> QED
        BY <1>0, <1>2, <3>1, <3>2, <3>3 DEF VacantInv
    <2>4. CASE WipeUid(p)
      <3>1. b.pc = "wipe_uid" /\ b.i \in Slots /\ b.ret # "updated" /\ b.i \in Nat
        BY <1>0, <2>4 DEF WipeUid, PubSound, Found, Slots
      <3>2. \A i \in Slots : i <= b.i => ~read_valids'[i]
        BY <1>0, <1>2, <3>1 DEF VacantInv, Slots
      <3>3. CASE b.i + 1 < NumReaders
        <4>1. SetPub(p, [b EXCEPT !.pc = "wipe_valid", !.i = b.i + 1])
          BY <2>4, <3>3 DEF WipeUid
        <4>2. /\ c.pc = "wipe_valid" /\ c.i = b.i + 1 /\ c.ret = b.ret
              /\ \A q \in Publishers : q # p => pub'[q] = pub[q]
          <5> DEFINE k == b.i + 1
          <5>1. /\ c = [b EXCEPT !.pc = "wipe_valid", !.i = k]
                /\ \A q \in Publishers : q # p => pub'[q] = pub[q]
            BY <4>1, PubUpdate
          <5> HIDE DEF k
          <5>2. c.pc = "wipe_valid" /\ c.i = k /\ c.ret = b.ret
            BY <1>0, <5>1, AnswerFields
          <5> QED
            BY <5>1, <5>2 DEF k
        <4> QED
          BY <3>1, <3>2, <4>2 DEF Slots
      <3>4. CASE ~(b.i + 1 < NumReaders)
        <4>1. /\ c.pc = "idle" /\ c.ret = "none"
              /\ \A q \in Publishers : q # p => pub'[q] = pub[q]
          BY <2>4, <3>4, PubUpdate DEF WipeUid, PubAt
        <4> QED
          BY <1>0, <3>1, <3>2, <3>4, <4>1 DEF Slots
      <3> QED
        BY <3>3, <3>4
    <2> QED
      BY <2>1, <2>2, <2>3, <2>4 DEF InitPublisher
  <1>5. VacantInv'
    <2>1. (\A q \in Publishers : ~Starting(q)') => \A i \in Slots : ~read_valids'[i]
      BY <1>4 DEF Starting
    <2>2. ASSUME NEW q \in Publishers, NEW i \in Slots,
                 \/ pub'[q].pc \in {"wipe_valid", "wipe_uid"} /\ i < pub'[q].i
                 \/ pub'[q].pc = "wipe_uid" /\ i = pub'[q].i
          PROVE  ~read_valids'[i]
      <3>1. CASE q = p
        BY <1>4, <2>2, <3>1
      <3>2. CASE q # p
        BY <1>0, <1>2, <1>4, <2>2, <3>2 DEF VacantInv
      <3> QED
        BY <3>1, <3>2
    <2>3. ASSUME NEW s \in Subscribers, sub'[s].pc \in Claiming PROVE ~read_valids'[sub'[s].id]
      <3>1. sub[s].id \in Slots
        BY <1>2, <2>3, OrderedOwns
      <3> QED
        BY <1>0, <1>2, <2>3, <3>1 DEF VacantInv
    <2> QED
      BY <2>1, <2>2, <2>3 DEF VacantInv
  <1>6. ASSUME NEW q \in Publishers PROVE Found(q)'
    <2>1. CASE q = p
      BY <1>4, <2>1 DEF Found, InUpdated
    <2>2. CASE q # p
      <3>1. write_uid' = q => write_uid = q
        BY <2>2 DEF InitPublisher, StoreWriteUid, ZeroNumReaders, WipeValid, WipeUid, queue
      <3> QED
        BY <1>1, <1>4, <2>2, <3>1, OthersFound
    <2> QED
      BY <2>1, <2>2
  <1> QED
    BY <1>3, <1>5, <1>6 DEF CaughtUpInv

(* Sending: the publisher gives no answer.                                 *)
LEMMA SendAnswers ==
  ASSUME IInv, ReadSound, CaughtUpInv, NEW p \in Publishers,
         SendStep(p) \/ \E n \in MsgSizes : BeginSend(p, n)
  PROVE  pub'[p].ret # "updated" /\ pub'[p].pc \notin InUpdated
  <1> DEFINE b == pub[p]
             c == pub'[p]
  <1>0. b \in Publisher /\ PubSound(b) /\ Found(p)
    BY PubFacts DEF CaughtUpInv
  <1>1. CASE \E n \in MsgSizes : BeginSend(p, n)
    <2>1. PICK n \in MsgSizes : BeginSend(p, n)
      BY <1>1
    <2> DEFINE m == sent + 1
               d == [PubAt("check_uid") EXCEPT !.msg = m, !.size = n]
    <2>2. SetPub(p, d)
      BY <2>1 DEF BeginSend
    <2> HIDE DEF m
    <2>3. d.ret = "none" /\ d.pc = "check_uid"
      BY DEF PubAt
    <2> HIDE DEF d
    <2> QED
      BY <2>2, <2>3, PubUpdate DEF InUpdated
  <1>2. CASE SendStep(p)
    <2>1. b.pc \in InSend \cup {"check_uid", "notify"}
      BY <1>2 DEF SendStep, CheckWriteUid, LoadNumReaders, LoadWritePointer, StoreWrapTag,
         StoreWrap, CheckSlot, Invalidate, StoreSize, StorePayload, StoreWritePointer, Notify,
         InSend
    <2>2. b.ret # "updated"
      BY <1>0, <2>1 DEF Found, InSend
    <2>3. ASSUME NEW ret \in {"in_use", "sent"}, PubReturn(p, ret)
          PROVE  c.ret # "updated" /\ c.pc \notin InUpdated
      BY <2>3, PubReturnUpdate DEF InUpdated
    <2>4. CASE CheckWriteUid(p)
      <3>1. CASE PubGoto(p, "load_num")
        BY <1>0, <2>2, <3>1, PubUpdate DEF PubGoto, Publisher, InUpdated
      <3> QED
        BY <2>3, <2>4, <3>1 DEF CheckWriteUid
    <2>5. CASE LoadNumReaders(p)
      <3>1. c = [b EXCEPT !.pc = "load_wp", !.num = num_readers]
        BY <2>5, PubUpdate DEF LoadNumReaders
      <3> QED
        BY <1>0, <2>2, <3>1, AnswerFields DEF InUpdated
    <2>6. CASE LoadWritePointer(p)
      <3> DEFINE r == [b EXCEPT !.wp = write_pointer]
      <3>1. c = [r EXCEPT !.pc = "wrap_tag"] \/ c = AtSlot(r, 0, "area", "size")
        BY <2>6, PubUpdate DEF LoadWritePointer
      <3>2. r \in Publisher /\ r.ret = b.ret
        <4>1. write_pointer \in Position
          BY IInvParts DEF SharedOK
        <4> QED
          BY <1>0, <4>1 DEF Publisher
      <3> HIDE DEF r
      <3>3. CASE c = [r EXCEPT !.pc = "wrap_tag"]
        BY <2>2, <3>2, <3>3, AnswerFields DEF InUpdated
      <3>4. CASE c = AtSlot(r, 0, "area", "size")
        <4>1. c.ret = b.ret /\ c.pc \in {"area", "size"}
          BY <3>2, <3>4, AnswerAtSlot
        <4> QED
          BY <2>2, <4>1 DEF InUpdated
      <3> QED
        BY <3>1, <3>3, <3>4
    <2>7. CASE StoreWrapTag(p)
      <3>1. c = AtSlot(b, 0, "beyond", "wrap_wp")
        BY <2>7, PubUpdate DEF StoreWrapTag
      <3>2. c.ret = b.ret /\ c.pc \in {"beyond", "wrap_wp"}
        BY <1>0, <3>1, AnswerAtSlot
      <3> QED
        BY <2>2, <3>2 DEF InUpdated
    <2>8. CASE StoreWrap(p)
      <3> DEFINE w == Pos(NextCycle(b.wp.cyc), 0)
                 r == [b EXCEPT !.wp = w]
      <3>1. c = AtSlot(r, 0, "area", "size")
        BY <2>8, PubUpdate DEF StoreWrap
      <3>2. w \in Position
        <4>1. b.wp.cyc \in Nat
          BY <1>0 DEF Publisher, Position
        <4> QED
          BY <4>1, CycleModAssumption, SizeAssumption, PtrModAssumption DEF NextCycle, Pos, Position
      <3> HIDE DEF w
      <3>3. r \in Publisher /\ r.ret = b.ret
        BY <1>0, <3>2 DEF Publisher
      <3> HIDE DEF r
      <3>4. c.ret = b.ret /\ c.pc \in {"area", "size"}
        BY <3>1, <3>3, AnswerAtSlot
      <3> QED
        BY <2>2, <3>4 DEF InUpdated
    <2>9. CASE NextSlot(p)
      <3> DEFINE k == b.i + 1
      <3>1. \/ c = AtSlot(b, k, "beyond", "wrap_wp")
            \/ c = AtSlot(b, k, "area", "size")
        BY <2>9, PubUpdate DEF NextSlot
      <3> HIDE DEF k
      <3>2. CASE c = AtSlot(b, k, "beyond", "wrap_wp")
        <4>1. c.ret = b.ret /\ c.pc \in {"beyond", "wrap_wp"}
          BY <1>0, <3>2, AnswerAtSlot
        <4> QED
          BY <2>2, <4>1 DEF InUpdated
      <3>3. CASE c = AtSlot(b, k, "area", "size")
        <4>1. c.ret = b.ret /\ c.pc \in {"area", "size"}
          BY <1>0, <3>3, AnswerAtSlot
        <4> QED
          BY <2>2, <4>1 DEF InUpdated
      <3> QED
        BY <3>1, <3>2, <3>3
    <2>10. CASE PubGoto(p, IF b.pc = "beyond" THEN "beyond_inv" ELSE "area_inv")
      <3> DEFINE x == IF b.pc = "beyond" THEN "beyond_inv" ELSE "area_inv"
      <3>1. c = [b EXCEPT !.pc = x] /\ x \in {"beyond_inv", "area_inv"}
        BY <2>10, PubUpdate DEF PubGoto
      <3> HIDE DEF x
      <3>2. c.ret = b.ret /\ c.pc = x
        BY <1>0, <3>1, AnswerFields
      <3> QED
        BY <2>2, <3>1, <3>2 DEF InUpdated
    <2>11. CASE StoreSize(p)
      <3>1. c = [b EXCEPT !.pc = "copy", !.part = 1]
        BY <2>11, PubUpdate DEF StoreSize
      <3> QED
        BY <1>0, <2>2, <3>1, AnswerFields DEF InUpdated
    <2>12. CASE StorePayload(p)
      <3>1. CASE PubGoto(p, "publish")
        BY <1>0, <2>2, <3>1, PubUpdate DEF PubGoto, Publisher, InUpdated
      <3>2. CASE SetPub(p, [b EXCEPT !.part = b.part + 1])
        <4>1. c.ret = b.ret /\ c.pc = b.pc
          BY <1>0, <3>2, PubUpdate DEF Publisher
        <4> QED
          BY <2>1, <2>2, <4>1 DEF InSend, InUpdated
      <3> QED
        BY <2>12, <3>1, <3>2 DEF StorePayload
    <2>13. CASE StoreWritePointer(p)
      <3>1. CASE SetPub(p, [b EXCEPT !.pc = "notify", !.i = 0])
        <4>1. c = [b EXCEPT !.pc = "notify", !.i = 0]
          BY <3>1, PubUpdate
        <4> QED
          BY <1>0, <2>2, <4>1, AnswerFields DEF InUpdated
      <3> QED
        BY <2>3, <2>13, <3>1 DEF StoreWritePointer
    <2>14. CASE Notify(p)
      <3>1. CASE SetPub(p, [b EXCEPT !.i = b.i + 1])
        <4>1. c.ret = b.ret /\ c.pc = b.pc
          BY <1>0, <3>1, PubUpdate DEF Publisher
        <4> QED
          BY <2>1, <2>2, <4>1 DEF InSend, InUpdated
      <3> QED
        BY <2>3, <2>14, <3>1 DEF Notify
    <2> QED
      BY <1>2, <2>4, <2>5, <2>6, <2>7, <2>8, <2>9, <2>10, <2>11, <2>12, <2>13, <2>14
         DEF SendStep, CheckSlot, Invalidate
  <1> QED
    BY <1>1, <1>2


(* The loop of msgq_all_readers_updated goes on only behind a slot that    *)
(* has caught up.                                                          *)
LEMMA NextFound ==
  ASSUME IInv, ReadSound, RegInv, DeliveryInv, CaughtUpInv, NEW p \in Publishers, UpdatedStep(p),
         NoOverflow, NextUpdated(p), write_uid = p => CaughtUp(pub[p].i)
  PROVE  Found(p)'
  <1> DEFINE b == pub[p]
             c == pub'[p]
             k == b.i + 1
  <1>1. /\ b \in Publisher /\ PubSound(b) /\ Found(p) /\ PublisherNext(p)
    BY PubFacts DEF CaughtUpInv, PublisherNext
  <1>2. /\ b.pc \in InUpdated /\ UNCHANGED <<write_uid, write_pointer>>
    BY DEF UpdatedStep, UpdatedValid, UpdatedWritePointer, UpdatedReadPointer, InUpdated,
       shared, queue
  <1>3. b.i \in Nat /\ b.num \in Nat /\ b.i < b.num
    BY <1>1, <1>2, NumReadersAssumption DEF Publisher, PubSound, InUpdated
  <1>4. ASSUME write_uid = p, NEW i \in Slots, i < k \/ i >= b.num PROVE CaughtUp(i)'
    <2>1. CaughtUp(i)
      BY <1>1, <1>2, <1>3, <1>4 DEF Found, Slots
    <2> QED
      BY <1>1, <1>2, <2>1, SlotKept
  <1>5. CASE k < b.num
    <2> DEFINE d == [PubAt("upd_valid") EXCEPT !.num = b.num, !.i = k]
    <2>1. SetPub(p, d)
      BY <1>5 DEF NextUpdated
    <2>2. d.pc = "upd_valid" /\ d.num = b.num /\ d.i = k /\ d.ret = "none"
      BY DEF PubAt
    <2> HIDE DEF d
    <2>3. c.pc = "upd_valid" /\ c.num = b.num /\ c.i = k /\ c.ret = "none"
      BY <2>1, <2>2, PubUpdate
    <2> QED
      BY <1>2, <1>4, <2>3 DEF Found
  <1>6. CASE ~(k < b.num)
    <2>1. c.pc = "idle" /\ c.ret = "updated"
      BY <1>6, PubReturnUpdate DEF NextUpdated
    <2>2. \A i \in Slots : i < k \/ i >= b.num
      BY <1>3, <1>6 DEF Slots
    <2>3. write_uid = p => \A i \in Slots : CaughtUp(i)'
      BY <1>4, <2>2
    <2> QED
      BY <1>2, <2>1, <2>3 DEF Found, InUpdated
  <1> QED
    BY <1>5, <1>6

(* msgq_all_readers_updated.                                               *)
LEMMA AnswerFound ==
  ASSUME IInv, ReadSound, RegInv, DeliveryInv, CaughtUpInv, NEW p \in Publishers,
         BeginUpdated(p) \/ UpdatedStep(p), NoOverflow
  PROVE  Found(p)'
  <1> DEFINE b == pub[p]
             c == pub'[p]
  <1>1. /\ b \in Publisher /\ PubSound(b) /\ Found(p) /\ PublisherNext(p)
        /\ read_pointers \in [Slots -> Position] /\ num_readers \in Nat
        /\ b.i \in Nat /\ NumReaders \in Nat
    BY IInvParts, NumReadersAssumption DEF CaughtUpInv, PublisherNext, SharedOK, Publisher
  <1>2. UNCHANGED <<write_uid, write_pointer>>
    BY DEF BeginUpdated, UpdatedStep, UpdatedValid, UpdatedWritePointer, UpdatedReadPointer,
       shared, queue
  <1>3. CASE PubReturn(p, "behind")
    BY <1>3, PubReturnUpdate DEF Found, InUpdated
  <1>4. CASE BeginUpdated(p) /\ num_readers > 0
    <2> DEFINE n == num_readers
               d == [PubAt("upd_valid") EXCEPT !.num = n]
    <2>1. SetPub(p, d) /\ b.pc = "idle"
      BY <1>4 DEF BeginUpdated
    <2> HIDE DEF n
    <2>2. d.pc = "upd_valid" /\ d.num = n /\ d.i = 0 /\ d.ret = "none"
      BY DEF PubAt
    <2> HIDE DEF d
    <2>3. c.pc = "upd_valid" /\ c.num = num_readers /\ c.i = 0 /\ c.ret = "none"
      BY <2>1, <2>2, PubUpdate DEF n
    <2>4. ASSUME write_uid = p, NEW i \in Slots, i < 0 \/ i >= num_readers PROVE CaughtUp(i)'
      <3>1. \A q \in Publishers : ~Starting(q)
        BY <2>1, <2>4 DEF RegInv, Sole, Starting
      <3>2. ~read_valids[i]
        BY <2>4, <3>1 DEF CaughtUpInv, VacantInv, Slots
      <3>3. CaughtUp(i)
        BY <3>2 DEF CaughtUp
      <3> QED
        BY <1>1, <1>2, <3>3, SlotKept
    <2> QED
      BY <1>2, <2>3, <2>4 DEF Found
  <1>5. CASE UpdatedValid(p)
    <2>1. b.pc = "upd_valid"
      BY <1>5 DEF UpdatedValid
    <2>2. CASE read_valids[b.i]
      <3>1. c = [b EXCEPT !.pc = "upd_wp"]
        BY <1>5, <2>2, PubUpdate DEF UpdatedValid, PubGoto
      <3>2. c.pc = "upd_wp" /\ c.i = b.i /\ c.num = b.num /\ c.ret = b.ret
        BY <1>1, <3>1 DEF Publisher
      <3>3. ASSUME write_uid = p, NEW i \in Slots, i < b.i \/ i >= b.num PROVE CaughtUp(i)'
        <4>1. CaughtUp(i)
          BY <1>1, <2>1, <3>3 DEF Found, InUpdated
        <4> QED
          BY <1>1, <1>2, <4>1, SlotKept
      <3>4. b.ret # "updated"
        BY <1>1, <2>1 DEF Found
      <3> QED
        BY <1>2, <3>2, <3>3, <3>4 DEF Found
    <2>3. CASE ~read_valids[b.i]
      <3>1. NextUpdated(p) /\ UpdatedStep(p)
        BY <1>5, <2>3 DEF UpdatedValid, UpdatedStep
      <3>2. CaughtUp(b.i)
        BY <2>3 DEF CaughtUp
      <3> QED
        BY <3>1, <3>2, NextFound
    <2> QED
      BY <2>2, <2>3
  <1>6. CASE UpdatedWritePointer(p)
    <2> DEFINE w == write_pointer
    <2>1. b.pc = "upd_wp" /\ c = [b EXCEPT !.pc = "upd_rp", !.wp = w]
      BY <1>6, PubUpdate DEF UpdatedWritePointer
    <2> HIDE DEF w
    <2>2. c.pc = "upd_rp" /\ c.i = b.i /\ c.num = b.num /\ c.ret = b.ret /\ c.wp = w
      BY <1>1, <2>1 DEF Publisher
    <2>3. ASSUME write_uid = p, NEW i \in Slots, i < b.i \/ i >= b.num PROVE CaughtUp(i)'
      <3>1. CaughtUp(i)
        BY <1>1, <2>1, <2>3 DEF Found, InUpdated
      <3> QED
        BY <1>1, <1>2, <3>1, SlotKept
    <2>4. b.ret # "updated"
      BY <1>1, <2>1 DEF Found
    <2> QED
      BY <1>2, <2>2, <2>3, <2>4 DEF Found, w
  <1>7. CASE UpdatedReadPointer(p) /\ b.wp = read_pointers[b.i]
    <2>1. b.pc = "upd_rp" /\ NextUpdated(p) /\ UpdatedStep(p)
      BY <1>7 DEF UpdatedReadPointer, UpdatedStep
    <2>2. write_uid = p => CaughtUp(b.i)
      BY <1>1, <1>7, <2>1 DEF Found, CaughtUp
    <2> QED
      BY <2>1, <2>2, NextFound
  <1> QED
    BY <1>1, <1>3, <1>4, <1>5, <1>6, <1>7 DEF BeginUpdated, UpdatedStep, UpdatedReadPointer

(* Every step of a publisher that has started.                             *)
LEMMA QuietCaught ==
  ASSUME IInv, ReadSound, IInv', RegInv, DeliveryInv, CaughtUpInv, NEW p \in Publishers,
         \/ SendStep(p) \/ \E n \in MsgSizes : BeginSend(p, n)
         \/ BeginUpdated(p) \/ UpdatedStep(p),
         NoOverflow
  PROVE  CaughtUpInv'
  <1>1. PublisherNext(p) /\ Quiet(p)
    BY SendQuiet, CallQuiet DEF PublisherNext
  <1>2. /\ \A i \in Slots : read_valids'[i] => read_valids[i]
        /\ UNCHANGED <<read_pointers, sub>>
    BY <1>1, PublisherValids, PointerGrows
  <1>3. OrderInv'
    BY <1>1, PublisherOrder DEF CaughtUpInv
  <1>4. VacantInv'
    <2>0. VacantInv
      BY DEF CaughtUpInv
    <2>1. \A q \in Publishers : Starting(q)' <=> Starting(q)
      BY <1>1 DEF Quiet, Starting
    <2>2. (\A q \in Publishers : ~Starting(q)') =>
            \A i \in Slots : i >= num_readers' => ~read_valids'[i]
      BY <1>1, <1>2, <2>0, <2>1 DEF VacantInv, Quiet
    <2>3. ASSUME NEW q \in Publishers, NEW i \in Slots,
                 \/ pub'[q].pc \in {"wipe_valid", "wipe_uid"} /\ i < pub'[q].i
                 \/ pub'[q].pc = "wipe_uid" /\ i = pub'[q].i
          PROVE  ~read_valids'[i]
      <3>1. q # p
        BY <1>1, <2>3 DEF Quiet
      <3>2. pub'[q] = pub[q]
        BY <1>1, <3>1 DEF Quiet
      <3> QED
        BY <1>2, <2>0, <2>3, <3>2 DEF VacantInv
    <2>4. ASSUME NEW s \in Subscribers, sub'[s].pc \in Claiming PROVE ~read_valids'[sub'[s].id]
      <3>1. sub[s].id \in Slots
        BY <1>2, <2>4, OrderedOwns
      <3> QED
        BY <1>2, <2>0, <2>4, <3>1 DEF VacantInv
    <2> QED
      BY <2>2, <2>3, <2>4 DEF VacantInv
  <1>5. Found(p)'
    <2>1. CASE SendStep(p) \/ \E n \in MsgSizes : BeginSend(p, n)
      <3>1. pub'[p].ret # "updated" /\ pub'[p].pc \notin InUpdated
        BY <2>1, SendAnswers
      <3> QED
        BY <3>1 DEF Found, InUpdated
    <2> QED
      BY <2>1, AnswerFound
  <1>6. \A q \in Publishers : q # p => Found(q)'
    BY <1>1, OthersFound DEF Quiet
  <1> QED
    BY <1>3, <1>4, <1>5, <1>6 DEF CaughtUpInv

(* Nobody has answered anything at the start.                              *)
LEMMA InitCaught == Init => CaughtUpInv
  <1> SUFFICES ASSUME Init PROVE CaughtUpInv
    OBVIOUS
  <1>1. /\ \A p \in Publishers : pub[p].pc = "closed" /\ pub[p].ret = "none"
        /\ \A s \in Subscribers : sub[s].pc = "closed"
    BY DEF Init, PubAt, SubAt
  <1>2. UpTo(Origin, Origin)
    BY DEF UpTo, Origin, Pos
  <1>3. OrderInv
    BY <1>1, <1>2 DEF OrderInv, InOrder, Holds, Sized, Init
  <1>4. VacantInv
    BY <1>1 DEF VacantInv, Init, Claiming
  <1>5. \A p \in Publishers : Found(p)
    BY <1>1 DEF Found, InUpdated
  <1> QED
    BY <1>3, <1>4, <1>5 DEF CaughtUpInv

(* Every step of a steady run keeps the invariant.                         *)
LEMMA NextCaught ==
  ASSUME NoOverflow
  PROVE  /\ IInv /\ IInv' /\ ReadSound /\ RegInv /\ DeliveryInv /\ CaughtUpInv
         /\ [Next /\ Steady]_vars
         => CaughtUpInv'
  <1> SUFFICES ASSUME IInv, ReadSound, IInv', RegInv, DeliveryInv, CaughtUpInv, [Next /\ Steady]_vars
               PROVE  CaughtUpInv'
    OBVIOUS
  <1>1. ASSUME NEW p \in Publishers, PublisherNext(p) PROVE CaughtUpInv'
    BY <1>1, StartCaught, QuietCaught DEF PublisherNext
  <1>2. CASE Next /\ Steady
    BY <1>1, <1>2, SubscriberCaught DEF Next, Steady
  <1>3. CASE UNCHANGED vars
    BY <1>3 DEF vars, shared, queue, slots, CaughtUpInv, OrderInv, VacantInv, Starting, Found,
       CaughtUp, Arriving
  <1> QED
    BY <1>2, <1>3

(* The invariant says more than the property.                              *)
LEMMA CaughtAnswers == IInv /\ CaughtUpInv => UpdatedMeansCaughtUp
  <1> SUFFICES ASSUME IInv, CaughtUpInv, NEW p \in Publishers, pub[p].ret = "updated",
                      write_uid = p, NEW i \in 0 .. num_readers - 1
               PROVE  \/ ~read_valids[i]
                      \/ read_pointers[i] = write_pointer
                      \/ \E s \in Subscribers :
                           sub[s].id = i /\ sub[s].pc \in {"reset_load", "reset_store"}
    BY DEF UpdatedMeansCaughtUp
  <1>1. i \in Slots
    BY IInvParts, NumReadersAssumption DEF SharedOK, Slots
  <1>2. CaughtUp(i)
    BY <1>1 DEF CaughtUpInv, Found
  <1> QED
    BY <1>2 DEF CaughtUp, Arriving

(* When msgq_all_readers_updated answers true, every valid reader is at    *)
(* the write pointer, or on its way to it, until the publisher sends       *)
(* again: although the slots were looked at one by one while readers       *)
(* received, reset and registered, and without a lock.                     *)
THEOREM AnswerHolds ==
  ASSUME NoOverflow
  PROVE  SteadySpec => []UpdatedMeansCaughtUp
  <1>1. Init => CaughtUpInv
    BY InitCaught
  <1>2. /\ IInv /\ IInv' /\ ReadSound /\ RegInv /\ DeliveryInv /\ CaughtUpInv
        /\ [Next /\ Steady]_vars
        => CaughtUpInv'
    BY NextCaught
  <1>3. SteadySpec => []CaughtUpInv
    BY <1>1, <1>2, SteadyInv, PTL DEF SteadySpec
  <1> QED
    BY <1>3, SteadyInv, CaughtAnswers, PTL
=============================================================================

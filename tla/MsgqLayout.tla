----------------------------- MODULE MsgqLayout -----------------------------
(***************************************************************************)
(* The geometry of a msgq segment: packed positions, the words stored in   *)
(* the data area, and the arithmetic of msgq_msg_send and msgq_msg_recv on *)
(* them.  Pointers and sizes are in bytes, as in the code; the data area   *)
(* is a function of 8-byte words, so the word at byte offset ptr is        *)
(* data[WordAt(ptr)].                                                      *)
(***************************************************************************)
EXTENDS Integers, Sequences

CONSTANTS
  Size,       (* q->size: bytes of the data area                            *)
  CycleMod,   (* 2^32 in the code: the cycle counter is a uint32_t          *)
  PtrMod,     (* 2^32 in the code: an offset is a uint32_t                  *)
  MsgSizes    (* the sizes, in bytes, of the messages that are sent         *)

(***************************************************************************)
(* ALIGN(n), and the bytes a message of n bytes occupies with its prefix.  *)
(***************************************************************************)
Align(n) == ((n + 7) \div 8) * 8
Total(n) == Align(n + 8)

(***************************************************************************)
(* The publisher asserts that three messages fit; README.md asks for       *)
(* nonempty messages.  There is a message to send.                         *)
(***************************************************************************)
ASSUME SizeAssumption     == Size \in Nat
ASSUME CycleModAssumption == CycleMod \in Nat \ {0}
ASSUME PtrModAssumption   == PtrMod \in Nat /\ PtrMod % 8 = 0 /\ Size < PtrMod
ASSUME MsgSizesAssumption ==
  /\ MsgSizes # {}
  /\ MsgSizes \subseteq Nat \ {0}
  /\ \A n \in MsgSizes : 3 * Total(n) <= Size

(***************************************************************************)
(* A 64-bit packed pointer: a 32-bit cycle and a 32-bit offset.            *)
(***************************************************************************)
Pos(cyc, ptr) == [cyc |-> cyc, ptr |-> ptr]
Origin        == Pos(0, 0)
NextCycle(c)  == (c + 1) % CycleMod
Position      == [cyc : 0 .. CycleMod - 1, ptr : 0 .. PtrMod - 1]

WordAt(ptr) == ptr \div 8
WordAddrs   == 0 .. (Size \div 8) - 1

(***************************************************************************)
(* What a word of the data area holds: zeroes of a fresh file, the size    *)
(* prefix of message msg, the -1 wrap-around tag, or the part-th word of   *)
(* the payload of message msg.  Fields size and msg of a payload word are  *)
(* not in the memory of the program: they name the message whose bytes the *)
(* word holds, and only the properties look at them.  Behind the data area *)
(* there are bytes that are not the queue's, or nothing that can be read.  *)
(***************************************************************************)
Word(kind, size, msg, part) ==
  [kind |-> kind, size |-> size, msg |-> msg, part |-> part]
Zero          == Word("zero", 0, 0, 0)
WrapTag       == Word("wrap", 0, 0, 0)
SizeTag(n, m) == Word("size", n, m, 0)
Payload(n, m, k) == Word("data", n, m, k)
Foreign          == Word("foreign", 0, 0, 0)
Words == [kind : {"zero", "wrap", "size", "data", "foreign"},
          size : Nat, msg : Nat, part : Nat]

(***************************************************************************)
(* What a word may be as the int64_t that a receive takes for a size.  The *)
(* bytes of a payload, and foreign ones, may be anything: -1, a value that *)
(* fails an assertion, or one that passes; one stands for all that cover   *)
(* the same number of words.                                               *)
(***************************************************************************)
Passes(n) == 0 < n /\ n < Size
AnySize   == {-1, 0} \cup {n \in 1 .. Size - 1 : n % 8 = 0 \/ n = Size - 1}
SizeIn(w) == CASE w.kind = "zero" -> {0}
               [] w.kind = "wrap" -> {-1}
               [] w.kind = "size" -> {w.size}
               [] w.kind \in {"data", "foreign"} -> AnySize

Parts(n)       == Align(n) \div 8
IntactCopy(n, m) == [k \in 1 .. Parts(n) |-> Payload(n, m, k)]

(***************************************************************************)
(* msgq_msg_send: no room is left for the message and a later wrap tag.    *)
(***************************************************************************)
(* MustWrapTight and InAreaAfter are mutants.                              *)
MustWrapTight(ptr, n) == Size - ptr - Total(n) < 0
MustWrap(ptr, n) == Size - ptr - Total(n) - 8 <= 0

(***************************************************************************)
(* Position r of a reader lies past the wrap at w, in another cycle; or in *)
(* the area [w.ptr, end) about to be written, in another cycle.            *)
(***************************************************************************)
BeyondWrap(r, w)  == r.ptr > w.ptr /\ r.cyc # w.cyc
AreaEnd(w, n)     == Align(w.ptr + 8 + n)
InAreaAfter(r, w, n) == r.ptr > w.ptr /\ r.ptr < AreaEnd(w, n) /\ r.cyc # w.cyc
InArea(r, w, n)   == r.ptr >= w.ptr /\ r.ptr < AreaEnd(w, n) /\ r.cyc # w.cyc
=============================================================================

------------------------- MODULE SharedMemoryProofs -------------------------
(***************************************************************************)
(* Mappings lie within their files, no mapping is left over between calls, *)
(* a process holds what its objects need and nothing else as long as no    *)
(* wild pointer is unmapped, and no file that has only a name holds        *)
(* memory: for any number of processes, files and addresses.               *)
(***************************************************************************)
EXTENDS SharedMemory, WellFoundedInduction, TLAPS

-----------------------------------------------------------------------------
CallPC    == {"open", "unlink", "stat", "truncate", "map", "failed"}
Names     == {"segment", "state"}
MapRecord == [file : Files \cup {0}, len : Nat]
Call      == [pc : CallPC \cup {"idle"}, obj : DOMAIN Order \cup {"none"}, todo : Seq(Roles),
              want : Sizes \cup {0}, file : Files \cup {0}]

MemoryTypeOK ==
  /\ may \in [Procs -> SUBSET DOMAIN Order] /\ ion \in BOOLEAN
  /\ \A p \in Procs : "sub" \notin may[p] \/ "fake_sub" \notin may[p]
  /\ dir \in [Names -> Files \cup {0}] /\ linked \subseteq Files /\ size \in [Files -> Nat]
  /\ fds \in [Procs -> SUBSET Files] /\ handles \in [Procs -> SUBSET Files]
  /\ vm \in [Procs -> [Addrs -> MapRecord]] /\ flight \in [Procs -> Files \cup {0}]
  /\ ptr \in [Procs -> [Roles -> Addrs \cup {0}]] /\ old \in [Procs -> Addrs \cup {0}]
  /\ live \in [Procs -> SUBSET DOMAIN Order] /\ call \in [Procs -> Call]

(* The process has a descriptor of the file that its call is about.        *)
HasFile(p) == call[p].pc \in {"unlink", "stat", "truncate", "map"}

(* A call creates an object that is not there yet.                         *)
CallInv(p) ==
  LET c == call[p] IN
    /\ live[p] \subseteq may[p]
    /\ c.pc = "idle" => c = Idle
    /\ c.pc # "idle" =>
         /\ c.obj \in may[p] \ live[p]
         /\ c.todo = Order[c.obj] \/ (c.obj = "fake_sub" /\ c.todo = <<"sub_q">>)
         /\ HasFile(p) => c.file \in fds[p]
         /\ c.pc = "open" => c.file = 0
         /\ c.pc = "failed" => Role(p) \in Queues
         /\ c.obj = "import" => c.pc = "map"
         /\ c.obj \in {"sub", "fake_sub", "pub"} => c.want \in Sizes
    /\ flight[p] # 0 => "import" \in may[p] \ live[p] /\ c.obj # "import"
    /\ "frame" \in live[p] => ptr[p]["frame"] # 0

(* A frame that has a name has no memory, and nobody but its maker knows   *)
(* it.                                                                     *)
LinkInv ==
  \A f \in linked :
    /\ size[f] = 0 /\ f # dir["segment"] /\ f # dir["state"]
    /\ \A p \in Procs : /\ f # flight[p] /\ \A a \in Addrs : vm[p][a].file # f
                        /\ HasFile(p) /\ call[p].pc # "unlink" => call[p].file # f

-----------------------------------------------------------------------------
(* Endpoints have one size; the other mappings are of length 1.            *)
OneSize  == \E n \in Sizes : Sizes = {n}
SegmentSize == CHOOSE n \in Sizes : TRUE
Limit(f, segment) == IF f = segment THEN SegmentSize ELSE 1

(* A mapping is no longer than its file, and no longer than anybody who    *)
(* truncates the file will make it.                                        *)
MapsSized(p) ==
  \A a \in Addrs : vm[p][a] # NoMap =>
    LET m == vm[p][a] IN m.file # 0 /\ 1 <= m.len /\ m.len <= size[m.file] /\ m.len <= Limit(m.file, dir["segment"])

(* A file that is about to be mapped is long enough; the file of a queue   *)
(* is the segment, and nobody else truncates the segment.                  *)
CallSized(p) ==
  LET f == call[p].file IN
    HasFile(p) => /\ Role(p) \in Queues => f = dir["segment"]
                  /\ Role(p) \notin Queues /\ call[p].pc # "map" => f # dir["segment"]
                  /\ call[p].pc = "map" => Length(p) <= size[f]

SizeInv ==
  /\ dir["segment"] = 0 \/ dir["segment"] # dir["state"]
  /\ \A p \in Procs : /\ MapsSized(p) /\ CallSized(p)
                      /\ flight[p] # 0 => 1 <= size[flight[p]]

-----------------------------------------------------------------------------
(* The roles that have a mapping: those of the objects, and the EventState *)
(* of a SubSocket that is still being created.                             *)
Done(p) == IF call[p].obj = "fake_sub" /\ call[p].todo = <<"sub_q">> THEN {"fake_state"} ELSE {}
Have(p) == (UNION {RolesOf(o) : o \in live[p]}) \cup Done(p)
FileOf(p, r) == vm[p][ptr[p][r]].file

(* Some pointer t of the roles that have one points to each mapping m.     *)
Owned(have, t, m) == \A a \in Addrs : m[a] # NoMap => \E r \in have : t[r] = a
OwnedInv == \A p \in Procs : Owned(Have(p), ptr[p], vm[p])

(* The pointers of these roles and the mappings are one to one.  Those of  *)
(* other roles may be anything: that of a queue that is being opened is    *)
(* what the memory held.                                                   *)
OneToOne(have, t, m) ==
  /\ \A r \in have : t[r] # 0 /\ m[t[r]] # NoMap
  /\ \A r, s \in have : t[r] = t[s] => r = s
  /\ Owned(have, t, m)
PointersInv(p) == OneToOne(Have(p), ptr[p], vm[p])

(* Descriptors and ion handles are those of the frames.                    *)
DescriptorsInv(p) ==
  /\ fds[p] = FramesOf(p) \cup (IF HasFile(p) THEN {call[p].file} ELSE {})
  /\ handles[p] = IF ion THEN FramesOf(p) ELSE {}
  /\ call[p].obj = "frame" /\ HasFile(p) => ~ion

(* The frames a process has made, those it was sent, and the file of a     *)
(* name that it is about to map.                                           *)
CallFile(p, os, f) == HasFile(p) /\ call[p].obj \in os /\ f = call[p].file
Own(p, f)   == CallFile(p, {"frame"}, f) \/ ("frame" \in live[p] /\ f = FileOf(p, "frame"))
Got(p, f)   == \/ CallFile(p, {"import"}, f) \/ ("import" \in live[p] /\ f = FileOf(p, "import"))
               \/ f = flight[p]
Named(p, f) == CallFile(p, {"sub", "fake_sub", "pub", "handle"}, f)

(* No process is sent its own frame, and frames have no names.             *)
ApartInv ==
  \A f \in Files, p, q \in Procs :
    /\ Own(p, f) /\ Own(q, f) => p = q
    /\ ~(Own(p, f) /\ Got(p, f))
    /\ Named(p, f) => ~Own(q, f) /\ ~Got(q, f)
    /\ Own(q, f) \/ Got(q, f) => f # dir["segment"] /\ f # dir["state"]

BaseInv == MemoryTypeOK /\ (\A p \in Procs : CallInv(p)) /\ LinkInv
HoldInv == (\A p \in Procs : PointersInv(p) /\ DescriptorsInv(p)) /\ ApartInv

-----------------------------------------------------------------------------
(* Every non-empty set of natural numbers has a least member.              *)
LEMMA LeastMember ==
  ASSUME NEW S, S \subseteq Nat, S # {}
  PROVE  \E x \in S : \A y \in S : x <= y
  <1> DEFINE R == OpToRel(<, Nat)
  <1>1. IsWellFoundedOn(R, Nat)
    BY NatLessThanWellFounded
  <1>2. \A x, y \in Nat : x < y => <<x, y>> \in R
    BY DEF OpToRel
  <1> HIDE DEF R
  <1>3. PICK x \in S : \A y \in S : ~(<<y, x>> \in R)
    BY <1>1, WFMin
  <1>4. ASSUME NEW y \in S PROVE x <= y
    <2>1. x \in Nat /\ y \in Nat /\ ~(y < x)
      BY <1>2, <1>3
    <2> QED
      BY <2>1
  <1> QED
    BY <1>4

(* A new file is one that nobody has.                                      *)
LEMMA NewFileFacts ==
  ASSUME Room
  PROVE  NewFile \in Files /\ NewFile # 0 /\ Unused(NewFile)
  <1> DEFINE S == {f \in Files : Unused(f)}
  <1>1. S \subseteq Nat /\ S # {}
    BY MemoryAssumption DEF Room
  <1>2. \E f \in S : \A g \in S : f <= g
    BY <1>1, LeastMember
  <1>3. \E f \in Files : Unused(f) /\ \A g \in Files : Unused(g) => f <= g
    BY <1>2
  <1>4. NewFile \in Files /\ Unused(NewFile)
    BY <1>3 DEF NewFile
  <1> QED
    BY <1>4, MemoryAssumption

(* A mapping is made where there is none.                                  *)
LEMMA NewAddrFacts ==
  ASSUME NEW p, \E a \in Addrs : vm[p][a] = NoMap
  PROVE  NewAddr(p) \in Addrs /\ NewAddr(p) # 0 /\ vm[p][NewAddr(p)] = NoMap
  <1> DEFINE S == {a \in Addrs : vm[p][a] = NoMap}
  <1>1. S \subseteq Nat /\ S # {}
    BY MemoryAssumption
  <1>2. \E a \in S : \A b \in S : a <= b
    BY <1>1, LeastMember
  <1>3. \E a \in Addrs : vm[p][a] = NoMap /\ \A b \in Addrs : vm[p][b] = NoMap => a <= b
    BY <1>2
  <1>4. NewAddr(p) \in Addrs /\ vm[p][NewAddr(p)] = NoMap
    BY <1>3 DEF NewAddr
  <1> QED
    BY <1>4, MemoryAssumption

(* The objects and their roles.                                            *)
LEMMA OrderFacts ==
  /\ DOMAIN Order = {"sub", "fake_sub", "pub", "handle", "frame", "import"}
  /\ Order["sub"] = <<"sub_q">> /\ Order["fake_sub"] = <<"fake_state", "sub_q">>
  /\ Order["pub"] = <<"pub_q">> /\ Order["handle"] = <<"state">>
  /\ Order["frame"] = <<"frame">> /\ Order["import"] = <<"import">>
  BY DEF Order

(* The mappings of each kind of object.                                   *)
LEMMA RolesFacts ==
  /\ RolesOf("sub") = {"sub_q"} /\ RolesOf("fake_sub") = {"fake_state", "sub_q"}
  /\ RolesOf("pub") = {"pub_q"} /\ RolesOf("handle") = {"state"}
  /\ RolesOf("frame") = {"frame"} /\ RolesOf("import") = {"import"}
  /\ Roles = {"sub_q", "fake_state", "pub_q", "state", "frame", "import"}
  <1>1. RolesOf("sub") = {"sub_q"} /\ RolesOf("pub") = {"pub_q"} /\ RolesOf("handle") = {"state"}
        /\ RolesOf("frame") = {"frame"} /\ RolesOf("import") = {"import"}
    BY OrderFacts DEF RolesOf
  <1>2. RolesOf("fake_sub") = {"fake_state", "sub_q"}
    <2> DEFINE s == <<"fake_state", "sub_q">>
    <2>1. DOMAIN s = {1, 2} /\ s[1] = "fake_state" /\ s[2] = "sub_q"
      OBVIOUS
    <2>2. Order["fake_sub"] = s
      BY OrderFacts
    <2> HIDE DEF s
    <2> QED
      BY <2>1, <2>2 DEF RolesOf
  <1>3. Roles = {"sub_q", "fake_state", "pub_q", "state", "frame", "import"}
    <2>1. DOMAIN Order = {"sub", "fake_sub", "pub", "handle", "frame", "import"}
      BY OrderFacts
    <2>2. ASSUME NEW r PROVE r \in Roles <=> \E o \in DOMAIN Order : r \in RolesOf(o)
      BY DEF Roles
    <2> QED
      BY <1>1, <1>2, <2>1, <2>2
  <1> QED
    BY <1>1, <1>2, <1>3

(* What a call has left to do.                                             *)
Doing(p, o, r, n) == call[p].obj = o /\ Role(p) = r /\ Len(call[p].todo) = n

(* Where a constructor is: which object, and which of its mappings it     *)
(* makes next.                                                            *)
LEMMA TodoFacts ==
  ASSUME NEW p \in Procs, MemoryTypeOK, CallInv(p), call[p].pc # "idle"
  PROVE  /\ \/ Doing(p, "sub", "sub_q", 1) \/ Doing(p, "fake_sub", "sub_q", 1)
            \/ Doing(p, "fake_sub", "fake_state", 2) \/ Doing(p, "pub", "pub_q", 1)
            \/ Doing(p, "handle", "state", 1) \/ Doing(p, "frame", "frame", 1)
            \/ Doing(p, "import", "import", 1)
         /\ call[p].todo = <<"sub_q">> <=> Role(p) = "sub_q"
         /\ Role(p) = "fake_state" => Tail(call[p].todo) = <<"sub_q">>
  <1> DEFINE One(r) == <<r>>
             Two == <<"fake_state", "sub_q">>
  <1>1. ASSUME NEW r PROVE Head(One(r)) = r /\ Len(One(r)) = 1
    OBVIOUS
  <1>2. Head(Two) = "fake_state" /\ Len(Two) = 2 /\ Tail(Two) = One("sub_q")
    OBVIOUS
  <1>3. call[p].obj \in {"sub", "fake_sub", "pub", "handle", "frame", "import"}
    BY OrderFacts DEF CallInv, MemoryTypeOK
  <1>4. /\ Order["sub"] = One("sub_q") /\ Order["fake_sub"] = Two
        /\ Order["pub"] = One("pub_q") /\ Order["handle"] = One("state")
        /\ Order["frame"] = One("frame") /\ Order["import"] = One("import")
    BY OrderFacts
  <1>5. call[p].todo = Order[call[p].obj] \/ (call[p].obj = "fake_sub" /\ call[p].todo = One("sub_q"))
    BY DEF CallInv
  <1> DEFINE Goal == /\ \/ Doing(p, "sub", "sub_q", 1) \/ Doing(p, "fake_sub", "sub_q", 1)
                        \/ Doing(p, "fake_sub", "fake_state", 2) \/ Doing(p, "pub", "pub_q", 1)
                        \/ Doing(p, "handle", "state", 1) \/ Doing(p, "frame", "frame", 1)
                        \/ Doing(p, "import", "import", 1)
                     /\ call[p].todo = One("sub_q") <=> Role(p) = "sub_q"
                     /\ Role(p) = "fake_state" => Tail(call[p].todo) = One("sub_q")
  <1>6. Goal
    <2> HIDE DEF One, Two
    <2>1. CASE call[p].obj = "fake_sub"
      BY <1>1, <1>2, <1>4, <1>5, <2>1 DEF Doing, Role
    <2>2. CASE call[p].obj \in {"sub", "pub", "handle"}
      BY <1>1, <1>4, <1>5, <2>2 DEF Doing, Role
    <2>3. CASE call[p].obj \in {"frame", "import"}
      BY <1>1, <1>4, <1>5, <2>3 DEF Doing, Role
    <2> QED
      BY <1>3, <2>1, <2>2, <2>3
  <1> QED
    BY <1>6

-----------------------------------------------------------------------------
(* A call goes on to its next system call.                                 *)
LEMMA GotoFacts ==
  ASSUME MemoryTypeOK, NEW p \in Procs, NEW pc \in CallPC, Goto(p, pc)
  PROVE  /\ call' \in [Procs -> Call]
         /\ call'[p].pc = pc /\ call'[p].obj = call[p].obj /\ call'[p].todo = call[p].todo
         /\ call'[p].want = call[p].want /\ call'[p].file = call[p].file
         /\ \A q \in Procs \ {p} : call'[q] = call[q]
  <1>1. call[p] \in Call /\ call \in [Procs -> Call]
    BY DEF MemoryTypeOK
  <1> DEFINE d == [call[p] EXCEPT !.pc = pc]
  <1>2. d \in Call /\ d.pc = pc /\ d.obj = call[p].obj /\ d.todo = call[p].todo
        /\ d.want = call[p].want /\ d.file = call[p].file
    BY <1>1 DEF Call
  <1>3. call' = [call EXCEPT ![p] = d]
    BY DEF Goto
  <1> HIDE DEF d
  <1> QED
    BY <1>1, <1>2, <1>3

(* A file has been opened.                                                 *)
LEMMA OpenedFacts ==
  ASSUME MemoryTypeOK, NEW p \in Procs, CallInv(p), call[p].pc # "idle",
         NEW f \in Files, NEW pc \in CallPC, Opened(p, f, pc)
  PROVE  /\ call' \in [Procs -> Call]
         /\ call'[p].pc = pc /\ call'[p].obj = call[p].obj /\ call'[p].todo = call[p].todo
         /\ call'[p].want = call[p].want /\ call'[p].file = f
         /\ \A q \in Procs \ {p} : call'[q] = call[q]
         /\ fds' \in [Procs -> SUBSET Files] /\ fds'[p] = fds[p] \cup {f}
         /\ \A q \in Procs \ {p} : fds'[q] = fds[q] /\ ptr'[q] = ptr[q]
         /\ ptr' \in [Procs -> [Roles -> Addrs \cup {0}]]
         /\ \A r \in Roles \ {Role(p)} : ptr'[p][r] = ptr[p][r]
         /\ UNCHANGED <<may, ion, vm, handles, flight, old, live>>
  <1>1. call[p] \in Call /\ call \in [Procs -> Call]
    BY DEF MemoryTypeOK
  <1> DEFINE d == [call[p] EXCEPT !.pc = pc, !.file = f]
  <1>2. d \in Call /\ d.pc = pc /\ d.obj = call[p].obj /\ d.todo = call[p].todo
        /\ d.want = call[p].want /\ d.file = f
    BY <1>1 DEF Call
  <1>3. call' = [call EXCEPT ![p] = d]
    BY <1>1 DEF Opened, Call
  <1> HIDE DEF d
  <1>4. /\ call' \in [Procs -> Call] /\ call'[p] = d
        /\ \A q \in Procs \ {p} : call'[q] = call[q]
    BY <1>1, <1>2, <1>3
  <1>5. /\ fds' \in [Procs -> SUBSET Files] /\ fds'[p] = fds[p] \cup {f}
        /\ \A q \in Procs \ {p} : fds'[q] = fds[q]
    BY DEF Opened, MemoryTypeOK
  <1>6. PICK a \in Addrs \cup {0} : NewPointer(p, a) /\ ptr' = [ptr EXCEPT ![p][Role(p)] = a]
    BY DEF Opened
  <1>7. Role(p) \in Roles
    BY TodoFacts, RolesFacts DEF Doing
  <1>8. ptr \in [Procs -> [Roles -> Addrs \cup {0}]]
    BY DEF MemoryTypeOK
  <1>9. /\ ptr' \in [Procs -> [Roles -> Addrs \cup {0}]] /\ ptr'[p][Role(p)] = a
        /\ \A q \in Procs \ {p} : ptr'[q] = ptr[q]
        /\ \A r \in Roles \ {Role(p)} : ptr'[p][r] = ptr[p][r]
    BY <1>6, <1>7, <1>8
  <1> QED
    BY <1>2, <1>4, <1>5, <1>9 DEF Opened

(* A process that is not in a call.                                        *)
LEMMA IdleFacts ==
  Idle \in Call /\ Idle.pc = "idle" /\ Idle.obj = "none" /\ Idle.file = 0
  <1> DEFINE e == <<>>
  <1>1. e \in Seq(Roles)
    OBVIOUS
  <1> HIDE DEF e
  <1>2. Idle = [pc |-> "idle", obj |-> "none", todo |-> e, want |-> 0, file |-> 0]
    BY DEF Idle, e
  <1> QED
    BY <1>1, <1>2 DEF Call

(* A file has been mapped, and its pointer set.                            *)
LEMMA MappedFacts ==
  ASSUME MemoryTypeOK, NEW p \in Procs, CallInv(p), call[p].pc # "idle",
         NEW f \in Files, Mapped(p, f)
  PROVE  LET a == NewAddr(p) IN
         /\ a \in Addrs /\ a # 0 /\ vm[p][a] = NoMap
         /\ vm' \in [Procs -> [Addrs -> MapRecord]] /\ vm'[p][a] = [file |-> f, len |-> Length(p)]
         /\ \A b \in Addrs \ {a} : vm'[p][b] = vm[p][b]
         /\ ptr' \in [Procs -> [Roles -> Addrs \cup {0}]] /\ ptr'[p][Role(p)] = a
         /\ \A r \in Roles \ {Role(p)} : ptr'[p][r] = ptr[p][r]
         /\ \A q \in Procs \ {p} : vm'[q] = vm[q] /\ ptr'[q] = ptr[q] /\ call'[q] = call[q]
                                   /\ live'[q] = live[q]
         /\ call' \in [Procs -> Call] /\ live' \in [Procs -> SUBSET DOMAIN Order]
         /\ Role(p) # "fake_state" => call'[p] = Idle /\ live'[p] = live[p] \cup {call[p].obj}
         /\ Role(p) = "fake_state" =>
              /\ live'[p] = live[p] /\ call'[p].pc = "open" /\ call'[p].todo = <<"sub_q">>
              /\ call'[p].obj = call[p].obj /\ call'[p].want = call[p].want
              /\ call'[p].file = 0
         /\ UNCHANGED <<may, ion, dir, linked, flight, old>>
  <1> DEFINE a == NewAddr(p)
  <1>1. a \in Addrs /\ a # 0 /\ vm[p][a] = NoMap
    BY NewAddrFacts DEF Mapped
  <1>2. /\ call[p] \in Call /\ call \in [Procs -> Call] /\ live \in [Procs -> SUBSET DOMAIN Order]
        /\ vm \in [Procs -> [Addrs -> MapRecord]] /\ ptr \in [Procs -> [Roles -> Addrs \cup {0}]]
    BY DEF MemoryTypeOK
  <1>3. Role(p) \in Roles
    BY TodoFacts, RolesFacts DEF Doing
  <1>4. Length(p) \in Nat
    <2>1. call[p].want \in Nat
      BY <1>2, MemoryAssumption DEF Call
    <2> QED
      BY <2>1 DEF Length
  <1> DEFINE m == [file |-> f, len |-> Length(p)]
  <1>5. m \in MapRecord
    BY <1>4 DEF MapRecord
  <1>6. vm' = [vm EXCEPT ![p][a] = m] /\ ptr' = [ptr EXCEPT ![p][Role(p)] = a]
    BY DEF Mapped
  <1> HIDE DEF a, m
  <1>7. /\ vm' \in [Procs -> [Addrs -> MapRecord]] /\ vm'[p][a] = m
        /\ \A b \in Addrs \ {a} : vm'[p][b] = vm[p][b]
        /\ \A q \in Procs \ {p} : vm'[q] = vm[q]
    BY <1>1, <1>2, <1>5, <1>6
  <1>8. /\ ptr' \in [Procs -> [Roles -> Addrs \cup {0}]] /\ ptr'[p][Role(p)] = a
        /\ \A r \in Roles \ {Role(p)} : ptr'[p][r] = ptr[p][r]
        /\ \A q \in Procs \ {p} : ptr'[q] = ptr[q]
    BY <1>1, <1>2, <1>3, <1>6
  <1> DEFINE Rest ==
        /\ \A q \in Procs \ {p} : call'[q] = call[q] /\ live'[q] = live[q]
        /\ call' \in [Procs -> Call] /\ live' \in [Procs -> SUBSET DOMAIN Order]
        /\ Role(p) # "fake_state" => call'[p] = Idle /\ live'[p] = live[p] \cup {call[p].obj}
        /\ Role(p) = "fake_state" =>
              /\ live'[p] = live[p] /\ call'[p].pc = "open" /\ call'[p].todo = <<"sub_q">>
              /\ call'[p].obj = call[p].obj /\ call'[p].want = call[p].want
              /\ call'[p].file = 0
  <1>9. ASSUME Role(p) = "fake_state" PROVE Rest
    <2>1. Len(call[p].todo) # 1 /\ Tail(call[p].todo) = <<"sub_q">>
      BY <1>9, TodoFacts DEF Doing
    <2> DEFINE t == <<"sub_q">>
    <2>2. t \in Seq(Roles)
      BY RolesFacts
    <2>3. call' = [call EXCEPT ![p].pc = "open", ![p].todo = t, ![p].file = 0] /\ live' = live
      BY <2>1, <1>2 DEF Mapped, Call
    <2> HIDE DEF t
    <2> DEFINE d == [call[p] EXCEPT !.pc = "open", !.todo = t, !.file = 0]
    <2>4. d \in Call /\ d.pc = "open" /\ d.obj = call[p].obj /\ d.todo = t /\ d.want = call[p].want
          /\ d.file = 0
      BY <1>2, <2>2 DEF Call, CallPC
    <2>5. call' = [call EXCEPT ![p] = d]
      BY <1>2, <2>3 DEF Call
    <2> HIDE DEF d
    <2>6. call' \in [Procs -> Call] /\ call'[p] = d /\ \A q \in Procs \ {p} : call'[q] = call[q]
      BY <1>2, <2>4, <2>5
    <2>7. t = <<"sub_q">>
      BY DEF t
    <2> QED
      BY <1>2, <1>9, <2>3, <2>4, <2>6, <2>7
  <1>10. ASSUME Role(p) # "fake_state" PROVE Rest
    <2>1. Len(call[p].todo) = 1 /\ call[p].obj \in DOMAIN Order
      BY <1>10, TodoFacts, OrderFacts DEF Doing
    <2>2. live' = [live EXCEPT ![p] = @ \cup {call[p].obj}] /\ call' = [call EXCEPT ![p] = Idle]
      BY <2>1 DEF Mapped
    <2>3. Idle \in Call
      BY IdleFacts
    <2> QED
      BY <1>2, <1>10, <2>1, <2>2, <2>3
  <1>11. Rest
    BY <1>9, <1>10
  <1>12. UNCHANGED <<may, ion, dir, linked, flight, old>>
    BY DEF Mapped
  <1> QED
    BY <1>1, <1>7, <1>8, <1>11, <1>12 DEF a, m

(* An object has been destroyed.                                           *)
Unmapped(p, o) == {ptr[p][r] : r \in RolesOf(o)} \ {0}
Dropped(p, o)  == IF o \in Frames THEN {vm[p][a].file : a \in Unmapped(p, o)} ELSE {}

(* What a destructor, or the failure path of a constructor, leaves of the *)
(* mappings and of the other processes.                                   *)
LEMMA ReleaseFacts ==
  ASSUME MemoryTypeOK, NEW p \in Procs, NEW o \in DOMAIN Order, Release(p, o)
  PROVE  /\ vm' \in [Procs -> [Addrs -> MapRecord]]
         /\ \A a \in Addrs : vm'[p][a] = IF a \in Unmapped(p, o) THEN NoMap ELSE vm[p][a]
         /\ fds' \in [Procs -> SUBSET Files] /\ fds'[p] = fds[p] \ Dropped(p, o)
         /\ handles' \in [Procs -> SUBSET Files] /\ handles'[p] = handles[p] \ Dropped(p, o)
         /\ ptr' \in [Procs -> [Roles -> Addrs \cup {0}]]
         /\ \A r \in Roles : ptr'[p][r] = IF r \in RolesOf(o) THEN 0 ELSE ptr[p][r]
         /\ live' \in [Procs -> SUBSET DOMAIN Order] /\ live'[p] = live[p] \ {o}
         /\ call' \in [Procs -> Call] /\ call'[p] = Idle
         /\ old' \in [Procs -> Addrs \cup {0}]
         /\ dir' \in [Names -> Files \cup {0}] /\ dir'["segment"] = dir["segment"]
         /\ o = "handle" => dir'["state"] = 0
         /\ o # "handle" => dir' = dir
         /\ \A q \in Procs \ {p} : /\ vm'[q] = vm[q] /\ fds'[q] = fds[q] /\ handles'[q] = handles[q]
                                   /\ ptr'[q] = ptr[q] /\ live'[q] = live[q] /\ call'[q] = call[q]
         /\ UNCHANGED <<may, ion, linked, size, flight>>
  <1> DEFINE as == Unmapped(p, o)
             mine == Dropped(p, o)
             v == [a \in Addrs |-> IF a \in as THEN NoMap ELSE vm[p][a]]
             t == [r \in Roles |-> IF r \in RolesOf(o) THEN 0 ELSE ptr[p][r]]
             last == IF o = "handle" \/ o \in Frames THEN old[p] ELSE ptr[p][Order[o][Len(Order[o])]]
  <1>1. /\ vm \in [Procs -> [Addrs -> MapRecord]] /\ fds \in [Procs -> SUBSET Files]
        /\ handles \in [Procs -> SUBSET Files] /\ ptr \in [Procs -> [Roles -> Addrs \cup {0}]]
        /\ live \in [Procs -> SUBSET DOMAIN Order] /\ call \in [Procs -> Call]
        /\ old \in [Procs -> Addrs \cup {0}] /\ dir \in [Names -> Files \cup {0}]
    BY DEF MemoryTypeOK
  <1>2. /\ vm' = [vm EXCEPT ![p] = v] /\ fds' = [fds EXCEPT ![p] = @ \ mine]
        /\ handles' = [handles EXCEPT ![p] = @ \ mine]
        /\ dir' = IF o = "handle" THEN [dir EXCEPT !["state"] = 0] ELSE dir
        /\ old' = [old EXCEPT ![p] = last] /\ ptr' = [ptr EXCEPT ![p] = t]
        /\ live' = [live EXCEPT ![p] = @ \ {o}] /\ call' = [call EXCEPT ![p] = Idle]
        /\ UNCHANGED <<may, ion, linked, size, flight>>
    BY <1>1 DEF Release, Unmapped, Dropped
  <1>3. v \in [Addrs -> MapRecord]
    <2>1. NoMap \in MapRecord
      BY DEF NoMap, MapRecord
    <2> QED
      BY <1>1, <2>1
  <1>4. t \in [Roles -> Addrs \cup {0}]
    BY <1>1
  <1>5. last \in Addrs \cup {0}
    <2>1. CASE o = "handle" \/ o \in Frames
      BY <1>1, <2>1
    <2>2. CASE o \in {"sub", "fake_sub", "pub"}
      <3>1. Order[o][Len(Order[o])] \in Roles
        <4> DEFINE s == <<"fake_state", "sub_q">>
        <4>1. Len(s) = 2 /\ s[2] = "sub_q"
          OBVIOUS
        <4> HIDE DEF s
        <4>2. CASE o = "fake_sub"
          BY <4>1, <4>2, OrderFacts, RolesFacts DEF s
        <4>3. CASE o # "fake_sub"
          BY <2>2, <4>3, OrderFacts, RolesFacts
        <4> QED
          BY <4>2, <4>3
      <3> QED
        BY <1>1, <3>1
    <2> QED
      BY <2>1, <2>2, OrderFacts DEF Frames
  <1> HIDE DEF as, mine, last
  <1>6. /\ vm' \in [Procs -> [Addrs -> MapRecord]] /\ vm'[p] = v /\ ptr'[p] = t
        /\ ptr' \in [Procs -> [Roles -> Addrs \cup {0}]]
        /\ \A q \in Procs \ {p} : vm'[q] = vm[q] /\ ptr'[q] = ptr[q]
    <2> HIDE DEF v, t
    <2> QED
      BY <1>1, <1>2, <1>3, <1>4
  <1>7. /\ \A a \in Addrs : vm'[p][a] = IF a \in as THEN NoMap ELSE vm[p][a]
        /\ \A r \in Roles : ptr'[p][r] = IF r \in RolesOf(o) THEN 0 ELSE ptr[p][r]
    BY <1>6
  <1> HIDE DEF v, t
  <1>8. /\ fds' \in [Procs -> SUBSET Files] /\ fds'[p] = fds[p] \ mine
        /\ handles' \in [Procs -> SUBSET Files] /\ handles'[p] = handles[p] \ mine
        /\ live' \in [Procs -> SUBSET DOMAIN Order] /\ live'[p] = live[p] \ {o}
        /\ \A q \in Procs \ {p} : fds'[q] = fds[q] /\ handles'[q] = handles[q] /\ live'[q] = live[q]
    BY <1>1, <1>2
  <1>9. /\ call' \in [Procs -> Call] /\ call'[p] = Idle
        /\ \A q \in Procs \ {p} : call'[q] = call[q]
    BY <1>1, <1>2, IdleFacts
  <1>10. /\ old' \in [Procs -> Addrs \cup {0}]
         /\ dir' \in [Names -> Files \cup {0}] /\ dir'["segment"] = dir["segment"]
         /\ o = "handle" => dir'["state"] = 0
         /\ o # "handle" => dir' = dir
    BY <1>1, <1>2, <1>5 DEF Names
  <1> QED
    BY <1>2, <1>6, <1>7, <1>8, <1>9, <1>10 DEF as, mine

(* A call has failed.                                                      *)
LEMMA CallFailsFacts ==
  ASSUME MemoryTypeOK, NEW p \in Procs, CallInv(p), CallFails(p)
  PROVE  /\ call' \in [Procs -> Call]
         /\ Role(p) \in Queues => /\ call'[p].pc = "failed" /\ call'[p].obj = call[p].obj
                                  /\ call'[p].todo = call[p].todo /\ call'[p].want = call[p].want
         /\ Role(p) \notin Queues => call'[p] = Idle
         /\ \A q \in Procs \ {p} : call'[q] = call[q] /\ fds'[q] = fds[q] /\ ptr'[q] = ptr[q]
         /\ fds' \in [Procs -> SUBSET Files] /\ fds'[p] = fds[p] \ {call[p].file}
         /\ ptr' \in [Procs -> [Roles -> Addrs \cup {0}]]
         /\ \A r \in Roles \ {Role(p)} : ptr'[p][r] = ptr[p][r]
         /\ UNCHANGED <<may, ion, dir, linked, size, vm, handles, flight, old, live>>
  <1>1. /\ call[p] \in Call /\ call \in [Procs -> Call] /\ fds \in [Procs -> SUBSET Files]
        /\ ptr \in [Procs -> [Roles -> Addrs \cup {0}]]
    BY DEF MemoryTypeOK
  <1>2. call[p].pc # "idle"
    BY DEF CallFails
  <1>3. Role(p) \in Roles
    BY <1>2, TodoFacts, RolesFacts DEF Doing
  <1> DEFINE d == [call[p] EXCEPT !.pc = "failed"]
             n == IF Role(p) \in Queues THEN d ELSE Idle
  <1>4. d \in Call /\ d.pc = "failed" /\ d.obj = call[p].obj /\ d.todo = call[p].todo
        /\ d.want = call[p].want
    BY <1>1 DEF Call, CallPC
  <1>5. call' = [call EXCEPT ![p] = n] /\ n \in Call
    <2>1. call' = [call EXCEPT ![p] = n]
      BY <1>1 DEF CallFails
    <2> HIDE DEF d
    <2> QED
      BY <1>4, <2>1, IdleFacts
  <1> HIDE DEF d
  <1>6. /\ call' \in [Procs -> Call] /\ call'[p] = n /\ \A q \in Procs \ {p} : call'[q] = call[q]
    <2> HIDE DEF n
    <2> QED
      BY <1>1, <1>5
  <1>7. /\ fds' \in [Procs -> SUBSET Files] /\ fds'[p] = fds[p] \ {call[p].file}
        /\ \A q \in Procs \ {p} : fds'[q] = fds[q]
    BY <1>1 DEF CallFails, CloseFd
  <1>8. \/ ptr' = ptr
        \/ \E a \in Addrs \cup {0} : NewPointer(p, a) /\ ptr' = [ptr EXCEPT ![p][Role(p)] = a]
    BY DEF CallFails
  <1>9. /\ ptr' \in [Procs -> [Roles -> Addrs \cup {0}]]
        /\ \A r \in Roles \ {Role(p)} : ptr'[p][r] = ptr[p][r]
        /\ \A q \in Procs \ {p} : ptr'[q] = ptr[q]
    BY <1>1, <1>3, <1>8
  <1> QED
    BY <1>4, <1>6, <1>7, <1>9 DEF CallFails

-----------------------------------------------------------------------------
(* What is known of a process stays known while others move.               *)
LEMMA CallKept ==
  ASSUME NEW q, CallInv(q), UNCHANGED <<call[q], live[q], may, fds[q], flight[q], ptr[q]>>
  PROVE  CallInv(q)'
  BY DEF CallInv, HasFile, Role

(* The invariant is preserved by a step that goes on with a call.          *)
LEMMA GotoBase ==
  ASSUME BaseInv, NEW p \in Procs, NEW pc \in {"truncate", "map"}, Goto(p, pc), HasFile(p),
         call[p].obj = "import" => call[p].pc = "map",
         UNCHANGED <<may, ion, dir, fds, vm, handles, flight, ptr, old, live>>,
         linked' \subseteq linked, size' \in [Files -> Nat],
         call[p].file \notin linked', call[p].obj # "import",
         \A f \in linked' : size'[f] = size[f]
  PROVE  BaseInv'
  <1> USE DEF BaseInv
  <1>1. pc \in CallPC
    BY DEF CallPC
  <1>2. /\ call' \in [Procs -> Call]
        /\ call'[p].pc = pc /\ call'[p].obj = call[p].obj /\ call'[p].todo = call[p].todo
        /\ call'[p].want = call[p].want /\ call'[p].file = call[p].file
        /\ \A q \in Procs \ {p} : call'[q] = call[q]
    BY <1>1, GotoFacts
  <1>3. MemoryTypeOK'
    BY <1>2 DEF MemoryTypeOK
  <1>4. ASSUME NEW q \in Procs PROVE CallInv(q)'
    <2>1. CASE q # p
      BY <1>2, <2>1, CallKept
    <2>2. CASE q = p
      <3>1. CallInv(p) /\ call[p].pc # "idle" /\ call[p].pc # "failed"
        BY DEF HasFile
      <3> QED
        BY <1>2, <2>2, <3>1 DEF CallInv, HasFile
    <2> QED
      BY <2>1, <2>2
  <1>5. LinkInv'
    BY <1>2 DEF LinkInv, HasFile
  <1> QED
    BY <1>3, <1>4, <1>5

(* The unlink of the frame file keeps the base invariant.                 *)
LEMMA UnlinkBase ==
  ASSUME BaseInv, NEW p \in Procs, Unlink(p)
  PROVE  BaseInv'
  <1>1. HasFile(p) /\ CallInv(p) /\ call[p].pc # "idle"
    BY DEF BaseInv, HasFile, Unlink, At
  <1>2. call[p].obj # "import"
    BY <1>1 DEF CallInv, Unlink, At
  <1>3. linked' \subseteq linked /\ call[p].file \notin linked' /\ size' \in [Files -> Nat]
    BY DEF Unlink, BaseInv, MemoryTypeOK
  <1>4. PICK pc \in {"truncate", "map"} : pc = "truncate"
    OBVIOUS
  <1>5. Goto(p, pc) /\ UNCHANGED <<may, ion, dir, size, fds, vm, handles, flight, ptr, old, live>>
    BY <1>4 DEF Unlink
  <1> QED
    BY <1>1, <1>2, <1>3, <1>5, GotoBase

(* The fstat that asks whether a segment has its size keeps the base      *)
(* invariant.                                                             *)
LEMMA StatBase ==
  ASSUME BaseInv, NEW p \in Procs, Stat(p)
  PROVE  BaseInv'
  <1>1. HasFile(p) /\ CallInv(p) /\ call[p].pc # "idle" /\ call[p].pc # "unlink"
    BY DEF BaseInv, HasFile, Stat, At
  <1>2. call[p].obj # "import"
    BY <1>1 DEF CallInv, Stat, At
  <1>3. linked' = linked /\ call[p].file \notin linked' /\ size' = size /\ size' \in [Files -> Nat]
    BY <1>1 DEF Stat, BaseInv, MemoryTypeOK, LinkInv
  <1>4. PICK pc \in {"truncate", "map"} : Goto(p, pc)
    BY DEF Stat
  <1>5. UNCHANGED <<may, ion, dir, linked, size, fds, vm, handles, flight, ptr, old, live>>
    BY DEF Stat
  <1> QED
    BY <1>1, <1>2, <1>3, <1>4, <1>5, GotoBase

(* The ftruncate keeps the base invariant.                                *)
LEMMA TruncateBase ==
  ASSUME BaseInv, NEW p \in Procs, Truncate(p)
  PROVE  BaseInv'
  <1>1. HasFile(p) /\ CallInv(p) /\ call[p].pc # "idle" /\ call[p].pc # "unlink"
    BY DEF BaseInv, HasFile, Truncate, At
  <1>2. call[p].obj # "import"
    BY <1>1 DEF CallInv, Truncate, At
  <1>3. Length(p) \in Nat
    <2>1. call[p].want \in Nat
      BY MemoryAssumption DEF BaseInv, MemoryTypeOK, Call
    <2> QED
      BY <2>1 DEF Length
  <1>4. linked' = linked /\ call[p].file \notin linked' /\ size' \in [Files -> Nat]
        /\ \A f \in linked' : size'[f] = size[f]
    BY <1>1, <1>3 DEF Truncate, BaseInv, MemoryTypeOK, LinkInv
  <1>5. PICK pc \in {"truncate", "map"} : pc = "map"
    OBVIOUS
  <1>6. Goto(p, pc) /\ UNCHANGED <<may, ion, dir, linked, fds, vm, handles, flight, ptr, old, live>>
    BY <1>5 DEF Truncate
  <1> QED
    BY <1>1, <1>2, <1>4, <1>6, GotoBase

(* A call begins.                                                          *)
LEMMA CreateFacts ==
  ASSUME MemoryTypeOK, NEW p \in Procs, NEW o \in may[p], NEW n \in Sizes, Create(p, o, n)
  PROVE  /\ o \in DOMAIN Order /\ o # "import" /\ o \notin live[p] /\ At(p, "idle")
         /\ call' \in [Procs -> Call]
         /\ call'[p].pc = "open" /\ call'[p].obj = o /\ call'[p].todo = Order[o] /\ call'[p].want = n
         /\ call'[p].file = 0
         /\ \A q \in Procs \ {p} : call'[q] = call[q]
         /\ UNCHANGED <<may, ion, dir, linked, size, fds, vm, handles, flight, ptr, old, live>>
  <1> DEFINE c == [pc |-> "open", obj |-> o, todo |-> Order[o], want |-> n, file |-> 0]
  <1>1. o \in DOMAIN Order /\ o # "import" /\ o \notin live[p]
    BY DEF Create, MemoryTypeOK
  <1>2. Order[o] \in Seq(Roles)
    <2>1. CASE o = "fake_sub"
      BY <2>1, OrderFacts, RolesFacts
    <2>2. CASE o # "fake_sub"
      <3>1. PICK r \in Roles : Order[o] = <<r>>
        <4>1. CASE o = "sub"
          BY <4>1, OrderFacts, RolesFacts
        <4>2. CASE o = "pub"
          BY <4>2, OrderFacts, RolesFacts
        <4>3. CASE o = "handle"
          BY <4>3, OrderFacts, RolesFacts
        <4>4. CASE o = "frame"
          BY <4>4, OrderFacts, RolesFacts
        <4> QED
          BY <1>1, <2>2, <4>1, <4>2, <4>3, <4>4, OrderFacts
      <3> HIDE DEF c
      <3> QED
        BY <3>1
    <2> QED
      BY <2>1, <2>2
  <1>3. c \in Call /\ c.pc = "open" /\ c.obj = o /\ c.todo = Order[o] /\ c.want = n /\ c.file = 0
    BY <1>1, <1>2 DEF Call, CallPC
  <1>4. call' = [call EXCEPT ![p] = c] /\ At(p, "idle")
        /\ UNCHANGED <<may, ion, dir, linked, size, fds, vm, handles, flight, ptr, old, live>>
    BY DEF Create
  <1> HIDE DEF c
  <1>5. call' \in [Procs -> Call] /\ call'[p] = c /\ \A q \in Procs \ {p} : call'[q] = call[q]
    BY <1>3, <1>4 DEF MemoryTypeOK
  <1> QED
    BY <1>1, <1>3, <1>4, <1>5

(* The start of a constructor keeps the base invariant.                   *)
LEMMA CreateBase ==
  ASSUME BaseInv, NEW p \in Procs, NEW o \in may[p], NEW n \in Sizes, Create(p, o, n)
  PROVE  BaseInv'
  <1>1. /\ o \in DOMAIN Order /\ o # "import" /\ o \notin live[p] /\ call' \in [Procs -> Call]
        /\ call'[p].pc = "open" /\ call'[p].obj = o /\ call'[p].todo = Order[o] /\ call'[p].want = n
        /\ call'[p].file = 0
        /\ \A q \in Procs \ {p} : call'[q] = call[q]
        /\ UNCHANGED <<may, ion, dir, linked, size, fds, vm, handles, flight, ptr, old, live>>
    BY CreateFacts DEF BaseInv
  <1>2. MemoryTypeOK'
    BY <1>1 DEF BaseInv, MemoryTypeOK
  <1>3. ASSUME NEW q \in Procs PROVE CallInv(q)'
    <2>1. CASE q # p
      BY <1>1, <2>1, CallKept DEF BaseInv
    <2>2. CASE q = p
      <3>1. CallInv(p)
        BY DEF BaseInv
      <3> QED
        BY <1>1, <2>2, <3>1 DEF CallInv, HasFile
    <2> QED
      BY <2>1, <2>2
  <1>4. LinkInv'
    BY <1>1 DEF BaseInv, LinkInv, HasFile
  <1> QED
    BY <1>2, <1>3, <1>4 DEF BaseInv

(* A descriptor is on its way.                                             *)
LEMMA SendFdsFacts ==
  ASSUME BaseInv, NEW p \in Procs, NEW c \in Procs \ {p}, SendFds(p, c)
  PROVE  /\ "frame" \in live[p] /\ ptr[p]["frame"] \in Addrs /\ FileOf(p, "frame") \in Files \cup {0}
         /\ flight' \in [Procs -> Files \cup {0}] /\ flight'[c] = FileOf(p, "frame")
         /\ \A q \in Procs \ {c} : flight'[q] = flight[q]
         /\ "import" \in may[c] \ live[c] /\ call[c].pc = "idle"
         /\ UNCHANGED <<may, ion, dir, linked, size, fds, vm, handles, ptr, old, live, call>>
  <1> DEFINE f == vm[p][ptr[p]["frame"]].file
  <1>1. ptr[p]["frame"] \in Addrs
    BY RolesFacts DEF SendFds, BaseInv, CallInv, MemoryTypeOK
  <1>2. f \in Files \cup {0}
    BY <1>1 DEF BaseInv, MemoryTypeOK, MapRecord
  <1>3. /\ flight' = [flight EXCEPT ![c] = f]
        /\ "frame" \in live[p] /\ "import" \in may[c] \ live[c] /\ call[c].pc = "idle"
        /\ UNCHANGED <<may, ion, dir, linked, size, fds, vm, handles, ptr, old, live, call>>
    BY DEF SendFds, At
  <1> HIDE DEF f
  <1>4. /\ flight' \in [Procs -> Files \cup {0}] /\ flight'[c] = f
        /\ \A q \in Procs \ {c} : flight'[q] = flight[q]
    BY <1>2, <1>3 DEF BaseInv, MemoryTypeOK
  <1> QED
    BY <1>1, <1>2, <1>3, <1>4 DEF f, FileOf

(* A server sending the descriptors of its frame keeps the base           *)
(* invariant.                                                             *)
LEMMA SendFdsBase ==
  ASSUME BaseInv, NEW p \in Procs, NEW c \in Procs \ {p}, SendFds(p, c)
  PROVE  BaseInv'
  <1>1. /\ ptr[p]["frame"] \in Addrs
        /\ flight' \in [Procs -> Files \cup {0}] /\ flight'[c] = FileOf(p, "frame")
        /\ \A q \in Procs \ {c} : flight'[q] = flight[q]
        /\ "import" \in may[c] \ live[c] /\ call[c].pc = "idle"
        /\ UNCHANGED <<may, ion, dir, linked, size, fds, vm, handles, ptr, old, live, call>>
    BY SendFdsFacts
  <1>2. MemoryTypeOK'
    BY <1>1 DEF BaseInv, MemoryTypeOK
  <1>3. ASSUME NEW q \in Procs PROVE CallInv(q)'
    <2>1. CASE q # c
      BY <1>1, <2>1, CallKept DEF BaseInv
    <2>2. CASE q = c
      BY <1>1, <2>2, IdleFacts DEF BaseInv, CallInv, HasFile, Role
    <2> QED
      BY <2>1, <2>2
  <1>4. FileOf(p, "frame") \notin linked
    BY <1>1 DEF BaseInv, LinkInv, FileOf
  <1>5. LinkInv'
    BY <1>1, <1>4 DEF BaseInv, LinkInv, HasFile
  <1> QED
    BY <1>2, <1>3, <1>5 DEF BaseInv

(* A descriptor has arrived, and is to be mapped.                          *)
LEMMA RecvFdsFacts ==
  ASSUME MemoryTypeOK, NEW p \in Procs, RecvFds(p)
  PROVE  /\ flight[p] \in Files /\ call[p].pc = "idle" /\ call' \in [Procs -> Call]
         /\ call'[p].pc = "map" /\ call'[p].obj = "import" /\ call'[p].todo = Order["import"]
         /\ call'[p].file = flight[p]
         /\ flight' \in [Procs -> Files \cup {0}] /\ flight'[p] = 0
         /\ fds' \in [Procs -> SUBSET Files] /\ fds'[p] = fds[p] \cup {flight[p]}
         /\ \A q \in Procs \ {p} : call'[q] = call[q] /\ flight'[q] = flight[q] /\ fds'[q] = fds[q]
         /\ UNCHANGED <<may, ion, dir, linked, size, vm, handles, ptr, old, live>>
  <1> DEFINE f == flight[p]
             c == [pc |-> "map", obj |-> "import", todo |-> Order["import"], want |-> 0, file |-> f]
  <1>1. f \in Files /\ call[p].pc = "idle"
    BY DEF RecvFds, MemoryTypeOK, At
  <1>2. Order["import"] \in Seq(Roles)
    BY OrderFacts, RolesFacts
  <1>3. c \in Call /\ c.pc = "map" /\ c.obj = "import" /\ c.todo = Order["import"] /\ c.file = f
    BY <1>1, <1>2, OrderFacts DEF Call, CallPC
  <1>4. /\ fds' = [fds EXCEPT ![p] = @ \cup {f}] /\ flight' = [flight EXCEPT ![p] = 0]
        /\ call' = [call EXCEPT ![p] = c]
        /\ UNCHANGED <<may, ion, dir, linked, size, vm, handles, ptr, old, live>>
    BY DEF RecvFds
  <1> HIDE DEF c
  <1>5. /\ call' \in [Procs -> Call] /\ call'[p] = c
        /\ flight' \in [Procs -> Files \cup {0}] /\ flight'[p] = 0
        /\ fds' \in [Procs -> SUBSET Files] /\ fds'[p] = fds[p] \cup {f}
        /\ \A q \in Procs \ {p} : call'[q] = call[q] /\ flight'[q] = flight[q] /\ fds'[q] = fds[q]
    BY <1>1, <1>3, <1>4 DEF MemoryTypeOK
  <1> QED
    BY <1>1, <1>3, <1>4, <1>5

(* A client receiving a descriptor keeps the base invariant.              *)
LEMMA RecvFdsBase ==
  ASSUME BaseInv, NEW p \in Procs, RecvFds(p)
  PROVE  BaseInv'
  <1>1. /\ flight[p] \in Files /\ call' \in [Procs -> Call]
        /\ call'[p].pc = "map" /\ call'[p].obj = "import" /\ call'[p].todo = Order["import"]
        /\ call'[p].file = flight[p]
        /\ flight' \in [Procs -> Files \cup {0}] /\ flight'[p] = 0
        /\ fds' \in [Procs -> SUBSET Files] /\ fds'[p] = fds[p] \cup {flight[p]}
        /\ \A q \in Procs \ {p} : call'[q] = call[q] /\ flight'[q] = flight[q] /\ fds'[q] = fds[q]
        /\ UNCHANGED <<may, ion, dir, linked, size, vm, handles, ptr, old, live>>
    BY RecvFdsFacts DEF BaseInv
  <1>2. MemoryTypeOK'
    BY <1>1 DEF BaseInv, MemoryTypeOK
  <1>3. ASSUME NEW q \in Procs PROVE CallInv(q)'
    <2>1. CASE q # p
      BY <1>1, <2>1, CallKept DEF BaseInv
    <2>2. CASE q = p
      <3>1. CallInv(p) /\ flight[p] # 0
        BY DEF BaseInv, RecvFds
      <3> QED
        BY <1>1, <2>2, <3>1 DEF CallInv, HasFile
    <2> QED
      BY <2>1, <2>2
  <1>4. LinkInv'
    <2>1. \A g \in linked : g # 0
      BY MemoryAssumption DEF BaseInv, MemoryTypeOK
    <2> QED
      BY <1>1, <2>1 DEF BaseInv, LinkInv, HasFile
  <1> QED
    BY <1>2, <1>3, <1>4 DEF BaseInv

(* A process is gone.                                                      *)
LEMMA DieFacts ==
  ASSUME MemoryTypeOK, NEW p \in Procs, Die(p)
  PROVE  /\ call' \in [Procs -> Call] /\ call'[p] = Idle
         /\ fds' \in [Procs -> SUBSET Files] /\ fds'[p] = {}
         /\ handles' \in [Procs -> SUBSET Files] /\ handles'[p] = {}
         /\ flight' \in [Procs -> Files \cup {0}] /\ flight'[p] = 0
         /\ old' \in [Procs -> Addrs \cup {0}]
         /\ live' \in [Procs -> SUBSET DOMAIN Order] /\ live'[p] = {}
         /\ vm' \in [Procs -> [Addrs -> MapRecord]] /\ (\A a \in Addrs : vm'[p][a] = NoMap)
         /\ ptr' \in [Procs -> [Roles -> Addrs \cup {0}]] /\ (\A r \in Roles : ptr'[p][r] = 0)
         /\ \A q \in Procs \ {p} : /\ call'[q] = call[q] /\ fds'[q] = fds[q] /\ handles'[q] = handles[q]
                                   /\ flight'[q] = flight[q] /\ live'[q] = live[q]
                                   /\ vm'[q] = vm[q] /\ ptr'[q] = ptr[q]
         /\ UNCHANGED <<may, ion, dir, linked, size>>
  <1>1. /\ call' \in [Procs -> Call] /\ call'[p] = Idle
        /\ \A q \in Procs \ {p} : call'[q] = call[q]
    BY IdleFacts DEF Die, MemoryTypeOK
  <1>2. /\ fds' \in [Procs -> SUBSET Files] /\ fds'[p] = {}
        /\ handles' \in [Procs -> SUBSET Files] /\ handles'[p] = {}
        /\ flight' \in [Procs -> Files \cup {0}] /\ flight'[p] = 0
        /\ old' \in [Procs -> Addrs \cup {0}]
        /\ live' \in [Procs -> SUBSET DOMAIN Order] /\ live'[p] = {}
        /\ \A q \in Procs \ {p} : /\ fds'[q] = fds[q] /\ handles'[q] = handles[q]
                                  /\ flight'[q] = flight[q] /\ live'[q] = live[q]
    BY DEF Die, MemoryTypeOK
  <1>3. /\ vm' \in [Procs -> [Addrs -> MapRecord]] /\ (\A a \in Addrs : vm'[p][a] = NoMap)
        /\ \A q \in Procs \ {p} : vm'[q] = vm[q]
    <2>1. NoMap \in MapRecord
      BY DEF NoMap, MapRecord
    <2> QED
      BY <2>1 DEF Die, MemoryTypeOK
  <1>4. /\ ptr' \in [Procs -> [Roles -> Addrs \cup {0}]] /\ (\A r \in Roles : ptr'[p][r] = 0)
        /\ \A q \in Procs \ {p} : ptr'[q] = ptr[q]
    BY DEF Die, MemoryTypeOK
  <1>5. UNCHANGED <<may, ion, dir, linked, size>>
    BY DEF Die
  <1> QED
    BY <1>1, <1>2, <1>3, <1>4, <1>5

(* The death of a process keeps the base invariant.                       *)
LEMMA DieBase ==
  ASSUME BaseInv, NEW p \in Procs, Die(p)
  PROVE  BaseInv'
  <1>1. MemoryTypeOK'
    BY DieFacts DEF BaseInv, MemoryTypeOK
  <1>2. ASSUME NEW q \in Procs PROVE CallInv(q)'
    <2>1. CASE q # p
      BY <2>1, DieFacts, CallKept DEF BaseInv
    <2>2. CASE q = p
      BY <2>2, DieFacts, IdleFacts DEF BaseInv, CallInv
    <2> QED
      BY <2>1, <2>2
  <1>3. LinkInv'
    <2>1. \A g \in linked : g # 0
      BY MemoryAssumption DEF BaseInv, MemoryTypeOK
    <2>2. /\ call'[p] = Idle /\ flight'[p] = 0 /\ UNCHANGED <<dir, linked, size>>
          /\ (\A q \in Procs \ {p} : call'[q] = call[q] /\ flight'[q] = flight[q])
          /\ \A q \in Procs, a \in Addrs : vm'[q][a] = NoMap \/ vm'[q][a] = vm[q][a]
      BY DieFacts DEF BaseInv
    <2> QED
      BY <2>1, <2>2, IdleFacts DEF BaseInv, LinkInv, HasFile, NoMap
  <1> QED
    BY <1>1, <1>2, <1>3 DEF BaseInv

-----------------------------------------------------------------------------
(* What an unused file is not.                                             *)
LEMMA FreshFacts ==
  ASSUME MemoryTypeOK, NEW f \in Files, Unused(f)
  PROVE  /\ f \notin linked /\ f # dir["segment"] /\ f # dir["state"]
         /\ \A q \in Procs : /\ f \notin fds[q] /\ f \notin handles[q] /\ f # flight[q]
                             /\ \A a \in Addrs : vm[q][a].file # f
  BY DEF Unused, Referred

(* Which file Open opens.                                                  *)
LEMMA OpenFacts ==
  ASSUME MemoryTypeOK, NEW p \in Procs, Open(p)
  PROVE  \E n \in Names, f \in Files, pc \in {"truncate", "stat"} :
           /\ f # 0 /\ call[p].pc = "open" /\ Role(p) \notin Frames
           /\ n = IF Role(p) \in Queues THEN "segment" ELSE "state"
           /\ pc = IF Role(p) \in Queues THEN "truncate" ELSE "stat"
           /\ Opened(p, f, pc) /\ linked' = linked
           /\ dir' = [dir EXCEPT ![n] = f] /\ dir' \in [Names -> Files \cup {0}]
           /\ size' \in [Files -> Nat]
           /\ \/ dir[n] = f /\ dir' = dir /\ size' = size
              \/ /\ dir[n] = 0 /\ Unused(f) /\ size'[f] = 0
                 /\ \A g \in Files \ {f} : size'[g] = size[g]
  <1> DEFINE n == IF Role(p) \in Queues THEN "segment" ELSE "state"
             f == IF dir[n] # 0 THEN dir[n] ELSE NewFile
             pc == IF Role(p) \in Queues THEN "truncate" ELSE "stat"
  <1>1. n \in Names /\ pc \in {"truncate", "stat"} /\ (n = "segment" <=> Role(p) \in Queues)
    BY DEF Names
  <1>2. /\ dir[n] # 0 \/ Room
        /\ dir' = [dir EXCEPT ![n] = f]
        /\ size' = IF dir[n] = 0 THEN [size EXCEPT ![f] = 0] ELSE size
        /\ Opened(p, f, IF n = "segment" THEN "truncate" ELSE "stat")
        /\ linked' = linked /\ call[p].pc = "open" /\ Role(p) \notin Frames
    BY DEF Open, At
  <1>3. Opened(p, f, pc)
    BY <1>1, <1>2
  <1> HIDE DEF n, pc
  <1>4. f \in Files /\ f # 0 /\ (dir[n] = 0 => Unused(f))
    <2>1. CASE dir[n] # 0
      BY <1>1, <2>1 DEF MemoryTypeOK
    <2>2. CASE dir[n] = 0
      BY <1>2, <2>2, NewFileFacts
    <2> QED
      BY <2>1, <2>2
  <1>5. dir[n] # 0 => f = dir[n]
    OBVIOUS
  <1> HIDE DEF f
  <1>6. dir' \in [Names -> Files \cup {0}] /\ size' \in [Files -> Nat]
    BY <1>1, <1>2, <1>4 DEF MemoryTypeOK
  <1>7. dir[n] # 0 => dir' = dir /\ size' = size
    BY <1>1, <1>2, <1>5 DEF MemoryTypeOK
  <1>8. dir[n] = 0 => size'[f] = 0 /\ \A g \in Files \ {f} : size'[g] = size[g]
    BY <1>2, <1>4 DEF MemoryTypeOK
  <1>9. /\ n = IF Role(p) \in Queues THEN "segment" ELSE "state"
        /\ pc = IF Role(p) \in Queues THEN "truncate" ELSE "stat"
    BY DEF n, pc
  <1> QED
    BY <1>1, <1>2, <1>3, <1>4, <1>5, <1>6, <1>7, <1>8, <1>9

(* What is known of a call whose file has been opened.                     *)
LEMMA OpenedCall ==
  ASSUME BaseInv, NEW p \in Procs, call[p].pc = "open", NEW f \in Files, NEW pc \in CallPC,
         Opened(p, f, pc), pc \notin {"open", "failed"}
  PROVE  \A q \in Procs : CallInv(q)'
  <1>1. /\ call'[p].pc = pc /\ call'[p].obj = call[p].obj /\ call'[p].todo = call[p].todo
        /\ call'[p].want = call[p].want /\ call'[p].file = f
        /\ fds'[p] = fds[p] \cup {f}
        /\ \A r \in Roles \ {Role(p)} : ptr'[p][r] = ptr[p][r]
        /\ \A q \in Procs \ {p} : call'[q] = call[q] /\ fds'[q] = fds[q] /\ ptr'[q] = ptr[q]
        /\ UNCHANGED <<may, flight, live>>
    BY OpenedFacts DEF BaseInv
  <1>2. call[p].obj \in may[p] \ live[p] /\ call[p].obj # "import" /\ (Role(p) = "frame" => call[p].obj = "frame")
    BY TodoFacts DEF BaseInv, CallInv, Doing
  <1>3. ASSUME NEW q \in Procs PROVE CallInv(q)'
    <2>1. CASE q # p
      BY <1>1, <2>1, CallKept DEF BaseInv
    <2>2. CASE q = p
      <3>1. CallInv(p) /\ pc # "idle"
        BY DEF BaseInv, CallPC
      <3>2. "frame" \in live[p] => ptr'[p]["frame"] # 0
        BY <1>1, <1>2, <3>1, RolesFacts DEF CallInv
      <3> QED
        BY <1>1, <1>2, <2>2, <3>1, <3>2 DEF CallInv, HasFile
    <2> QED
      BY <2>1, <2>2
  <1> QED
    BY <1>3

(* The open of a named file keeps the base invariant.                     *)
LEMMA OpenBase ==
  ASSUME BaseInv, NEW p \in Procs, Open(p)
  PROVE  BaseInv'
  <1>1. PICK n \in Names, f \in Files, pc \in {"truncate", "stat"} :
           /\ f # 0 /\ call[p].pc = "open"
           /\ Opened(p, f, pc) /\ linked' = linked
           /\ dir' = [dir EXCEPT ![n] = f] /\ dir' \in [Names -> Files \cup {0}]
           /\ size' \in [Files -> Nat]
           /\ \/ dir[n] = f /\ dir' = dir /\ size' = size
              \/ /\ dir[n] = 0 /\ Unused(f) /\ size'[f] = 0
                 /\ \A g \in Files \ {f} : size'[g] = size[g]
    BY OpenFacts DEF BaseInv
  <1>2. pc \in CallPC /\ pc \notin {"open", "failed"} /\ CallInv(p)
    BY DEF CallPC, BaseInv
  <1>3. MemoryTypeOK'
    BY <1>1, <1>2, OpenedFacts DEF BaseInv, MemoryTypeOK
  <1>4. \A q \in Procs : CallInv(q)'
    BY <1>1, <1>2, OpenedCall
  <1>5. f \notin linked
    BY <1>1, FreshFacts DEF BaseInv, LinkInv, Names
  <1>6. \A m \in Names : dir'[m] = dir[m] \/ dir'[m] = f
    BY <1>1 DEF BaseInv, MemoryTypeOK
  <1>7. /\ call'[p].file = f /\ \A q \in Procs \ {p} : call'[q] = call[q]
        /\ UNCHANGED <<vm, flight>>
    BY <1>1, <1>2, OpenedFacts DEF BaseInv
  <1>8. LinkInv'
    <2>1. ASSUME NEW g \in linked PROVE g # f /\ g \in Files /\ size'[g] = size[g]
      BY <1>1, <1>5 DEF BaseInv, MemoryTypeOK
    <2> QED
      BY <1>1, <1>6, <1>7, <2>1 DEF BaseInv, LinkInv, HasFile, Names
  <1> QED
    BY <1>3, <1>4, <1>8 DEF BaseInv

(* The open of a frame file keeps the base invariant.                     *)
LEMMA OpenFrameBase ==
  ASSUME BaseInv, NEW p \in Procs, OpenFrame(p)
  PROVE  BaseInv'
  <1> DEFINE f == NewFile
  <1>1. f \in Files /\ f # 0 /\ Unused(f)
    BY NewFileFacts DEF OpenFrame
  <1>2. PICK pc \in CallPC : pc = "unlink"
    BY DEF CallPC
  <1>3. /\ call[p].pc = "open" /\ linked' = linked \cup {f} /\ size' = [size EXCEPT ![f] = 0]
        /\ Opened(p, f, pc) /\ dir' = dir /\ CallInv(p)
    BY <1>2 DEF OpenFrame, BaseInv, At
  <1> HIDE DEF f
  <1>4. MemoryTypeOK'
    BY <1>1, <1>3, OpenedFacts DEF BaseInv, MemoryTypeOK
  <1>5. \A q \in Procs : CallInv(q)'
    BY <1>1, <1>2, <1>3, OpenedCall
  <1>6. /\ call'[p].pc = "unlink" /\ \A q \in Procs \ {p} : call'[q] = call[q]
        /\ UNCHANGED <<vm, flight>>
    BY <1>1, <1>2, <1>3, OpenedFacts DEF BaseInv
  <1>7. LinkInv'
    <2>1. /\ f \notin linked /\ f # dir["segment"] /\ f # dir["state"]
          /\ \A q \in Procs : f \notin fds[q] /\ f # flight[q] /\ \A a \in Addrs : vm[q][a].file # f
      BY <1>1, FreshFacts DEF BaseInv
    <2>2. \A q \in Procs : HasFile(q) => call[q].file \in fds[q]
      BY DEF BaseInv, CallInv, HasFile
    <2>3. \A g \in linked : g # f /\ size'[g] = size[g]
      BY <1>1, <1>3, <2>1 DEF BaseInv, MemoryTypeOK
    <2>4. size'[f] = 0
      BY <1>1, <1>3 DEF BaseInv, MemoryTypeOK
    <2> QED
      BY <1>3, <1>6, <2>1, <2>2, <2>3, <2>4 DEF BaseInv, LinkInv, HasFile
  <1> QED
    BY <1>4, <1>5, <1>7 DEF BaseInv

(* The same of a call whose file is mapped.                                *)
LEMMA MappedCall ==
  ASSUME BaseInv, NEW p \in Procs, call[p].pc # "idle", NEW f \in Files, Mapped(p, f),
         \A q \in Procs \ {p} : fds'[q] = fds[q], flight[p] # 0 => call[p].obj # "import"
  PROVE  \A q \in Procs : CallInv(q)'
  <1> DEFINE a == NewAddr(p)
  <1>1. /\ a \in Addrs /\ a # 0 /\ ptr'[p][Role(p)] = a
        /\ \A r \in Roles \ {Role(p)} : ptr'[p][r] = ptr[p][r]
        /\ \A q \in Procs \ {p} : ptr'[q] = ptr[q] /\ call'[q] = call[q] /\ live'[q] = live[q]
        /\ Role(p) # "fake_state" => call'[p] = Idle /\ live'[p] = live[p] \cup {call[p].obj}
        /\ Role(p) = "fake_state" =>
              /\ live'[p] = live[p] /\ call'[p].pc = "open" /\ call'[p].todo = <<"sub_q">>
              /\ call'[p].obj = call[p].obj /\ call'[p].want = call[p].want
              /\ call'[p].file = 0
        /\ UNCHANGED <<may, flight>>
    BY MappedFacts DEF BaseInv
  <1> HIDE DEF a
  <1>2. ASSUME NEW q \in Procs PROVE CallInv(q)'
    <2>1. CASE q # p
      BY <1>1, <2>1, CallKept DEF BaseInv
    <2>2. CASE q = p
      <3>1. CallInv(p)
        BY DEF BaseInv
      <3>2. call[p].obj \in may[p] \ live[p] /\ (call[p].obj = "frame" => Role(p) = "frame")
            /\ (Role(p) = "fake_state" => call[p].obj = "fake_sub")
        BY <3>1, TodoFacts DEF BaseInv, CallInv, Doing
      <3>3. "frame" \in live'[p] => ptr'[p]["frame"] # 0
        BY <1>1, <3>1, <3>2, RolesFacts DEF CallInv
      <3>4. CASE Role(p) = "fake_state"
        BY <1>1, <2>2, <3>1, <3>2, <3>3, <3>4 DEF CallInv, HasFile
      <3>5. CASE Role(p) # "fake_state"
        BY <1>1, <2>2, <3>1, <3>2, <3>3, <3>5, IdleFacts DEF CallInv
      <3> QED
        BY <3>4, <3>5
    <2> QED
      BY <2>1, <2>2
  <1> QED
    BY <1>2

(* A mapping of a file without a name.                                     *)
LEMMA MappedLink ==
  ASSUME BaseInv, NEW p \in Procs, call[p].pc # "idle", NEW f \in Files \ linked, Mapped(p, f),
         \A g \in linked : size'[g] = size[g]
  PROVE  LinkInv'
  <1> DEFINE a == NewAddr(p)
  <1>1. /\ a \in Addrs /\ vm'[p][a] = [file |-> f, len |-> Length(p)]
        /\ \A b \in Addrs \ {a} : vm'[p][b] = vm[p][b]
        /\ \A q \in Procs \ {p} : vm'[q] = vm[q] /\ call'[q] = call[q]
        /\ UNCHANGED <<dir, linked, flight>>
    BY MappedFacts DEF BaseInv
  <1>2. call'[p].pc \in {"idle", "open"}
    BY MappedFacts, IdleFacts DEF BaseInv
  <1> HIDE DEF a
  <1>3. \A q \in Procs, b \in Addrs : vm'[q][b].file = vm[q][b].file \/ vm'[q][b].file = f
    BY <1>1
  <1> QED
    BY <1>1, <1>2, <1>3 DEF BaseInv, LinkInv, HasFile

(* The mmap of the file keeps the base invariant.                         *)
LEMMA MapBase ==
  ASSUME BaseInv, NEW p \in Procs, Map(p)
  PROVE  BaseInv'
  <1> DEFINE f == call[p].file
  <1>1. call[p].pc = "map" /\ HasFile(p) /\ CallInv(p) /\ f \in fds[p]
    BY DEF Map, At, HasFile, BaseInv, CallInv
  <1>2. f \in Files \ linked
    BY <1>1 DEF BaseInv, LinkInv, MemoryTypeOK
  <1>3. /\ Mapped(p, f) /\ size' = size
        /\ fds' = IF Role(p) \in Frames THEN fds ELSE [fds EXCEPT ![p] = @ \ {f}]
        /\ handles' = IF Role(p) = "import" /\ ion THEN [handles EXCEPT ![p] = @ \cup {f}] ELSE handles
    BY DEF Map
  <1> HIDE DEF f
  <1>4. /\ fds' \in [Procs -> SUBSET Files] /\ handles' \in [Procs -> SUBSET Files]
        /\ \A q \in Procs \ {p} : fds'[q] = fds[q]
    BY <1>2, <1>3 DEF BaseInv, MemoryTypeOK
  <1>5. MemoryTypeOK'
    BY <1>1, <1>2, <1>3, <1>4, MappedFacts DEF BaseInv, MemoryTypeOK
  <1>6. \A q \in Procs : CallInv(q)'
    BY <1>1, <1>2, <1>3, <1>4, MappedCall DEF CallInv
  <1>7. LinkInv'
    BY <1>1, <1>2, <1>3, MappedLink
  <1> QED
    BY <1>5, <1>6, <1>7 DEF BaseInv

(* The allocation by the ion driver keeps the base invariant.             *)
LEMMA IonAllocateBase ==
  ASSUME BaseInv, NEW p \in Procs, IonAllocate(p)
  PROVE  BaseInv'
  <1> DEFINE f == NewFile
  <1>1. f \in Files /\ f # 0 /\ Unused(f)
    BY NewFileFacts DEF IonAllocate
  <1>2. call[p].pc = "open" /\ CallInv(p)
    BY DEF IonAllocate, At, BaseInv
  <1>3. /\ Mapped(p, f) /\ size' = [size EXCEPT ![f] = Length(p)]
        /\ fds' = [fds EXCEPT ![p] = @ \cup {f}] /\ handles' = [handles EXCEPT ![p] = @ \cup {f}]
    BY DEF IonAllocate
  <1> HIDE DEF f
  <1>4. f \in Files \ linked
    BY <1>1, FreshFacts DEF BaseInv
  <1>5. Length(p) \in Nat
    <2>1. call[p].want \in Nat
      BY MemoryAssumption DEF BaseInv, MemoryTypeOK, Call
    <2> QED
      BY <2>1 DEF Length
  <1>6. /\ fds' \in [Procs -> SUBSET Files] /\ handles' \in [Procs -> SUBSET Files]
        /\ size' \in [Files -> Nat] /\ (\A g \in linked : size'[g] = size[g])
        /\ \A q \in Procs \ {p} : fds'[q] = fds[q]
    BY <1>3, <1>4, <1>5 DEF BaseInv, MemoryTypeOK
  <1>7. MemoryTypeOK'
    BY <1>2, <1>3, <1>4, <1>6, MappedFacts DEF BaseInv, MemoryTypeOK
  <1>8. \A q \in Procs : CallInv(q)'
    BY <1>2, <1>3, <1>4, <1>6, MappedCall DEF CallInv
  <1>9. LinkInv'
    BY <1>2, <1>3, <1>4, <1>6, MappedLink
  <1> QED
    BY <1>7, <1>8, <1>9 DEF BaseInv

(* A system call that fails keeps the base invariant.                     *)
LEMMA CallFailsBase ==
  ASSUME BaseInv, NEW p \in Procs, CallFails(p)
  PROVE  BaseInv'
  <1>1. CallInv(p) /\ call[p].pc # "idle" /\ Role(p) \notin Frames
    BY DEF BaseInv, CallFails
  <1>2. /\ Role(p) \in Queues => /\ call'[p].pc = "failed" /\ call'[p].obj = call[p].obj
                                 /\ call'[p].todo = call[p].todo /\ call'[p].want = call[p].want
        /\ Role(p) \notin Queues => call'[p] = Idle
        /\ \A q \in Procs \ {p} : call'[q] = call[q] /\ fds'[q] = fds[q] /\ ptr'[q] = ptr[q]
        /\ \A r \in Roles \ {Role(p)} : ptr'[p][r] = ptr[p][r]
        /\ UNCHANGED <<may, ion, dir, linked, size, vm, handles, flight, old, live>>
    BY <1>1, CallFailsFacts DEF BaseInv
  <1>3. MemoryTypeOK'
    BY <1>1, CallFailsFacts DEF BaseInv, MemoryTypeOK
  <1>4. ASSUME NEW q \in Procs PROVE CallInv(q)'
    <2>1. CASE q # p
      BY <1>2, <2>1, CallKept DEF BaseInv
    <2>2. CASE q = p
      <3>1. ptr'[p]["frame"] = ptr[p]["frame"]
        BY <1>1, <1>2, RolesFacts DEF Frames
      <3>2. call[p].obj # "import"
        BY <1>1, TodoFacts DEF BaseInv, Doing, Frames
      <3>3. CASE Role(p) \in Queues
        BY <1>1, <1>2, <2>2, <3>1, <3>2, <3>3 DEF CallInv, HasFile, Role
      <3>4. CASE Role(p) \notin Queues
        BY <1>1, <1>2, <2>2, <3>1, <3>4, IdleFacts DEF CallInv
      <3> QED
        BY <3>3, <3>4
    <2> QED
      BY <2>1, <2>2
  <1>5. LinkInv'
    <2>1. call'[p].pc \in {"idle", "failed"}
      BY <1>2, IdleFacts
    <2> QED
      BY <1>2, <2>1 DEF BaseInv, LinkInv, HasFile
  <1> QED
    BY <1>3, <1>4, <1>5 DEF BaseInv

(* A destructor, or the failure path of a constructor, keeps the base     *)
(* invariant.                                                             *)
LEMMA ReleaseBase ==
  ASSUME BaseInv, NEW p \in Procs, NEW o \in DOMAIN Order, Release(p, o),
         call[p].pc \in {"idle", "failed"}
  PROVE  BaseInv'
  <1>1. MemoryTypeOK'
    BY ReleaseFacts DEF BaseInv, MemoryTypeOK
  <1>2. ASSUME NEW q \in Procs PROVE CallInv(q)'
    <2>1. CASE q # p
      BY <2>1, ReleaseFacts, CallKept DEF BaseInv
    <2>2. CASE q = p
      <3>1. CallInv(p)
        BY DEF BaseInv
      <3>2. /\ call'[p] = Idle /\ live'[p] = live[p] \ {o} /\ UNCHANGED <<may, flight>>
            /\ \A r \in Roles : ptr'[p][r] = IF r \in RolesOf(o) THEN 0 ELSE ptr[p][r]
        BY ReleaseFacts DEF BaseInv
      <3>3. "frame" \in live'[p] => ptr'[p]["frame"] # 0
        <4>1. SUFFICES ASSUME "frame" \in live[p], o # "frame" PROVE "frame" \notin RolesOf(o)
          BY <3>1, <3>2, RolesFacts DEF CallInv
        <4> QED
          BY <4>1, RolesFacts, OrderFacts
      <3> QED
        BY <2>2, <3>1, <3>2, <3>3, IdleFacts DEF CallInv
    <2> QED
      BY <2>1, <2>2
  <1>3. LinkInv'
    <2>1. \A g \in linked : g # 0
      BY MemoryAssumption DEF BaseInv, MemoryTypeOK
    <2>2. /\ call'[p] = Idle /\ UNCHANGED <<linked, size, flight>> /\ dir'["segment"] = dir["segment"]
          /\ dir'["state"] \in {0, dir["state"]}
          /\ (\A q \in Procs \ {p} : call'[q] = call[q])
          /\ \A q \in Procs, a \in Addrs : vm'[q][a] = NoMap \/ vm'[q][a] = vm[q][a]
      BY ReleaseFacts DEF BaseInv
    <2> QED
      BY <2>1, <2>2, IdleFacts DEF BaseInv, LinkInv, HasFile, NoMap
  <1> QED
    BY <1>1, <1>2, <1>3 DEF BaseInv

-----------------------------------------------------------------------------
(* No process has opened, mapped or named anything at the start.          *)
LEMMA InitBase == MemoryInit => BaseInv
  <1> SUFFICES ASSUME MemoryInit PROVE BaseInv
    OBVIOUS
  <1>1. NoMap \in MapRecord /\ NoMap.file = 0
    BY DEF NoMap, MapRecord
  <1>2. MemoryTypeOK
    <2>1. /\ may \in [Procs -> SUBSET DOMAIN Order]
          /\ \A p \in Procs : "sub" \notin may[p] \/ "fake_sub" \notin may[p]
      BY MemoryAssumption DEF MemoryInit
    <2> QED
      BY <1>1, <2>1, IdleFacts DEF MemoryInit, MemoryTypeOK, Names
  <1>3. ASSUME NEW p \in Procs PROVE CallInv(p)
    BY IdleFacts DEF MemoryInit, CallInv
  <1>4. LinkInv
    BY DEF MemoryInit, LinkInv
  <1> QED
    BY <1>2, <1>3, <1>4 DEF BaseInv

(* Every step keeps the base invariant.                                   *)
LEMMA NextBase == BaseInv /\ [MemoryNext]_memVars => BaseInv'
  <1> SUFFICES ASSUME BaseInv, [MemoryNext]_memVars PROVE BaseInv'
    OBVIOUS
  <1>1. CASE UNCHANGED memVars
    BY <1>1 DEF memVars, BaseInv, MemoryTypeOK, CallInv, LinkInv, HasFile, Role
  <1>2. CASE MemoryNext
    <2>1. PICK p \in Procs :
            \/ \E o \in may[p], n \in Sizes : Create(p, o, n)
            \/ \E o \in may[p] : Delete(p, o)
            \/ \E c \in Procs \ {p} : SendFds(p, c)
            \/ Open(p) \/ OpenFrame(p) \/ Unlink(p) \/ Stat(p) \/ Truncate(p) \/ Map(p)
            \/ IonAllocate(p) \/ CallFails(p) \/ DeleteFailed(p) \/ RecvFds(p) \/ Die(p)
      BY <1>2 DEF MemoryNext
    <2>2. CASE \E o \in may[p] : Delete(p, o)
      <3>1. PICK o \in DOMAIN Order : Delete(p, o)
        BY <2>2 DEF BaseInv, MemoryTypeOK
      <3> QED
        BY <3>1, ReleaseBase DEF Delete, At
    <2>3. CASE DeleteFailed(p)
      <3>1. call[p].obj \in DOMAIN Order
        BY <2>3 DEF DeleteFailed, At, BaseInv, CallInv, MemoryTypeOK
      <3> QED
        BY <2>3, <3>1, ReleaseBase DEF DeleteFailed, At
    <2> QED
      BY <2>1, <2>2, <2>3, CreateBase, SendFdsBase, OpenBase, OpenFrameBase, UnlinkBase, StatBase,
         TruncateBase, MapBase, IonAllocateBase, CallFailsBase, RecvFdsBase, DieBase
  <1> QED
    BY <1>1, <1>2

(* The base invariant holds in every state.                               *)
LEMMA AlwaysBase == MemorySpec => []BaseInv
  BY InitBase, NextBase, PTL DEF MemorySpec

(* A server that dies at any moment of malloc_with_fd leaves no file in    *)
(* /dev/shm that has memory: a frame has no length while it has a name,    *)
(* whatever other processes open, truncate and map at the same time.       *)
THEOREM DeathLeavesNoMemory == MemorySpec => []NothingLeftBehind
  <1>1. BaseInv => NothingLeftBehind
    BY DEF BaseInv, LinkInv, NothingLeftBehind
  <1> QED
    BY <1>1, AlwaysBase, PTL

-----------------------------------------------------------------------------
(* Every endpoint asks for the one segment size.                          *)
LEMMA SegmentFacts ==
  ASSUME OneSize
  PROVE  Sizes = {SegmentSize} /\ SegmentSize \in Nat /\ 1 <= SegmentSize
  <1>1. PICK n \in Sizes : Sizes = {n}
    BY DEF OneSize
  <1>2. SegmentSize \in Sizes
    BY <1>1 DEF SegmentSize
  <1> QED
    BY <1>1, <1>2, MemoryAssumption

(* The length a file has, or is going to have, is positive.               *)
LEMMA LimitFacts ==
  ASSUME OneSize, NEW f, NEW s
  PROVE  Limit(f, s) \in Nat /\ 1 <= Limit(f, s)
  BY SegmentFacts DEF Limit

(* What a constructor asks for: the segment size for a queue, one unit    *)
(* for the rest.                                                          *)
LEMMA LengthFacts ==
  ASSUME OneSize, BaseInv, NEW p \in Procs, call[p].pc # "idle"
  PROVE  /\ Length(p) \in Nat /\ 1 <= Length(p)
         /\ Role(p) \in Queues => Length(p) = SegmentSize
         /\ Role(p) \notin Queues => Length(p) = 1
  <1>1. Role(p) \in Queues => call[p].obj \in {"sub", "fake_sub", "pub"}
    BY TodoFacts DEF BaseInv, Doing, Queues
  <1>2. Role(p) \in Queues => call[p].want = SegmentSize
    BY <1>1, SegmentFacts DEF BaseInv, CallInv
  <1> QED
    BY <1>2, SegmentFacts DEF Length

(* The sizes of all files that somebody has stay, or become what the file  *)
(* is meant to have, and the segment is made once.                         *)
SizesKept ==
  /\ \A g \in Files : Unused(g) \/ size'[g] = size[g] \/ size'[g] = Limit(g, dir["segment"])
  /\ dir'["segment"] = dir["segment"] \/ (dir["segment"] = 0 /\ Unused(dir'["segment"]))

(* A file somebody uses keeps its limit when no file in use shrinks.      *)
LEMMA LimitKept ==
  ASSUME SizesKept, NEW f \in Files, ~Unused(f), MemoryTypeOK
  PROVE  Limit(f, dir'["segment"]) = Limit(f, dir["segment"]) /\ f # 0 /\ (f = dir["segment"] <=> f = dir'["segment"])
  <1>1. f # 0
    BY MemoryAssumption
  <1> QED
    BY <1>1 DEF SizesKept, Limit

(* Nothing that is known of a process depends on what others do.           *)
LEMMA MapsKept ==
  ASSUME OneSize, BaseInv, SizeInv, SizesKept, NEW q \in Procs,
         \A a \in Addrs : vm'[q][a] = NoMap \/ vm'[q][a] = vm[q][a]
  PROVE  MapsSized(q)'
  <1> SUFFICES ASSUME NEW a \in Addrs, vm'[q][a] # NoMap
               PROVE  LET m == vm'[q][a] IN m.file # 0 /\ 1 <= m.len /\ m.len <= size'[m.file]
                                            /\ m.len <= Limit(m.file, dir'["segment"])
    BY DEF MapsSized
  <1> DEFINE m == vm[q][a]
  <1>1. vm'[q][a] = m /\ m.file # 0 /\ 1 <= m.len /\ m.len <= size[m.file] /\ m.len <= Limit(m.file, dir["segment"])
    BY DEF SizeInv, MapsSized
  <1>2. m.file \in Files /\ m.len \in Nat /\ ~Unused(m.file)
    <2>1. m \in MapRecord
      BY DEF BaseInv, MemoryTypeOK
    <2>2. m.file \in Files /\ m.len \in Nat
      BY <1>1, <2>1 DEF MapRecord
    <2> QED
      BY <2>2, FreshFacts DEF BaseInv
  <1> HIDE DEF m
  <1>3. Limit(m.file, dir'["segment"]) = Limit(m.file, dir["segment"]) /\ (size'[m.file] = size[m.file] \/ size'[m.file] = Limit(m.file, dir["segment"]))
    BY <1>1, <1>2, LimitKept DEF BaseInv, SizesKept
  <1> QED
    BY <1>1, <1>2, <1>3

(* A constructor in another process goes on with a file of the right      *)
(* length.                                                                *)
LEMMA CallSizedKept ==
  ASSUME OneSize, BaseInv, SizeInv, SizesKept, NEW q \in Procs, call'[q] = call[q]
  PROVE  CallSized(q)'
  <1> DEFINE f == call[q].file
  <1>1. SUFFICES ASSUME HasFile(q)
                 PROVE  /\ Role(q) \in Queues => f = dir'["segment"]
                        /\ Role(q) \notin Queues /\ call[q].pc # "map" => f # dir'["segment"]
                        /\ call[q].pc = "map" => Length(q) <= size'[f]
    BY DEF CallSized, HasFile, Role, Length
  <1>2. f \in fds[q] /\ f \in Files /\ call[q].pc # "idle"
    BY <1>1 DEF BaseInv, CallInv, HasFile, MemoryTypeOK
  <1>3. ~Unused(f)
    BY <1>2, FreshFacts DEF BaseInv
  <1>4. /\ Role(q) \in Queues => f = dir["segment"]
        /\ Role(q) \notin Queues /\ call[q].pc # "map" => f # dir["segment"]
        /\ call[q].pc = "map" => Length(q) <= size[f]
    BY <1>1 DEF SizeInv, CallSized
  <1>5. f = dir["segment"] <=> f = dir'["segment"]
    BY <1>2, <1>3, LimitKept DEF BaseInv
  <1>6. Length(q) \in Nat /\ Length(q) <= Limit(f, dir["segment"])
    BY <1>2, <1>4, LengthFacts, LimitFacts, SegmentFacts DEF Limit
  <1>7. size'[f] = size[f] \/ size'[f] = Limit(f, dir["segment"])
    BY <1>2, <1>3 DEF SizesKept
  <1> QED
    BY <1>4, <1>5, <1>6, <1>7

(* A descriptor in flight goes on naming a file that has its memory.      *)
LEMMA FlightKept ==
  ASSUME OneSize, BaseInv, SizeInv, SizesKept, NEW q \in Procs, flight'[q] \in {0, flight[q]}
  PROVE  flight'[q] # 0 => 1 <= size'[flight'[q]]
  <1> SUFFICES ASSUME flight'[q] # 0 PROVE 1 <= size'[flight'[q]]
    OBVIOUS
  <1>1. flight'[q] = flight[q] /\ flight[q] \in Files /\ ~Unused(flight[q])
    BY FreshFacts DEF BaseInv, MemoryTypeOK
  <1>2. 1 <= size[flight[q]] /\ 1 <= Limit(flight[q], dir["segment"])
    BY <1>1, LimitFacts DEF SizeInv
  <1> QED
    BY <1>1, <1>2 DEF SizesKept

(* What keeps every size and every name of a segment.                      *)
LEMMA SameSizes ==
  ASSUME size' = size, dir'["segment"] = dir["segment"]
  PROVE  SizesKept
  BY DEF SizesKept

-----------------------------------------------------------------------------
(* The start of a constructor keeps the size invariant.                   *)
LEMMA CreateSize ==
  ASSUME OneSize, BaseInv, SizeInv, NEW p \in Procs, NEW o \in may[p], NEW n \in Sizes, Create(p, o, n)
  PROVE  SizeInv'
  <1>1. /\ call'[p].pc = "open" /\ \A q \in Procs \ {p} : call'[q] = call[q]
        /\ UNCHANGED <<dir, size, vm, flight>>
    BY CreateFacts DEF BaseInv
  <1>2. SizesKept
    BY <1>1, SameSizes
  <1>3. ASSUME NEW q \in Procs PROVE MapsSized(q)' /\ CallSized(q)' /\ (flight'[q] # 0 => 1 <= size'[flight'[q]])
    <2>1. CallSized(p)'
      BY <1>1 DEF CallSized, HasFile
    <2> QED
      BY <1>1, <1>2, <2>1, MapsKept, CallSizedKept, FlightKept
  <1> QED
    BY <1>1, <1>3 DEF SizeInv

(* A destructor, or the failure path of a constructor, keeps the size     *)
(* invariant.                                                             *)
LEMMA ReleaseSize ==
  ASSUME OneSize, BaseInv, SizeInv, NEW p \in Procs, NEW o \in DOMAIN Order, Release(p, o)
  PROVE  SizeInv'
  <1>1. /\ call'[p] = Idle /\ (\A q \in Procs \ {p} : call'[q] = call[q])
        /\ UNCHANGED <<size, flight>> /\ dir'["segment"] = dir["segment"]
        /\ dir'["state"] \in {0, dir["state"]}
        /\ \A q \in Procs, a \in Addrs : vm'[q][a] = NoMap \/ vm'[q][a] = vm[q][a]
    BY ReleaseFacts DEF BaseInv
  <1>2. SizesKept
    BY <1>1, SameSizes
  <1>3. ASSUME NEW q \in Procs PROVE MapsSized(q)' /\ CallSized(q)' /\ (flight'[q] # 0 => 1 <= size'[flight'[q]])
    <2>1. CallSized(p)'
      BY <1>1, IdleFacts DEF CallSized, HasFile
    <2> QED
      BY <1>1, <1>2, <2>1, MapsKept, CallSizedKept, FlightKept
  <1> QED
    BY <1>1, <1>3 DEF SizeInv

(* The death of a process keeps the size invariant.                       *)
LEMMA DieSize ==
  ASSUME OneSize, BaseInv, SizeInv, NEW p \in Procs, Die(p)
  PROVE  SizeInv'
  <1>1. /\ call'[p] = Idle /\ (\A q \in Procs \ {p} : call'[q] = call[q])
        /\ UNCHANGED <<dir, size>> /\ (\A q \in Procs : flight'[q] \in {0, flight[q]})
        /\ \A q \in Procs, a \in Addrs : vm'[q][a] = NoMap \/ vm'[q][a] = vm[q][a]
    BY DieFacts DEF BaseInv
  <1>2. SizesKept
    BY <1>1, SameSizes
  <1>3. ASSUME NEW q \in Procs PROVE MapsSized(q)' /\ CallSized(q)' /\ (flight'[q] # 0 => 1 <= size'[flight'[q]])
    <2>1. CallSized(p)'
      BY <1>1, IdleFacts DEF CallSized, HasFile
    <2> QED
      BY <1>1, <1>2, <2>1, MapsKept, CallSizedKept, FlightKept
  <1> QED
    BY <1>1, <1>3 DEF SizeInv

(* A system call that fails keeps the size invariant.                     *)
LEMMA CallFailsSize ==
  ASSUME OneSize, BaseInv, SizeInv, NEW p \in Procs, CallFails(p)
  PROVE  SizeInv'
  <1>1. CallInv(p)
    BY DEF BaseInv
  <1>2. /\ call'[p].pc \in {"idle", "failed"} /\ (\A q \in Procs \ {p} : call'[q] = call[q])
        /\ UNCHANGED <<dir, size, vm, flight>>
    BY <1>1, CallFailsFacts, IdleFacts DEF BaseInv
  <1>3. SizesKept
    BY <1>2, SameSizes
  <1>4. ASSUME NEW q \in Procs PROVE MapsSized(q)' /\ CallSized(q)' /\ (flight'[q] # 0 => 1 <= size'[flight'[q]])
    <2>1. CallSized(p)'
      BY <1>2 DEF CallSized, HasFile
    <2> QED
      BY <1>2, <1>3, <2>1, MapsKept, CallSizedKept, FlightKept
  <1> QED
    BY <1>2, <1>4 DEF SizeInv

(* A server sending the descriptors of its frame keeps the size           *)
(* invariant.                                                             *)
LEMMA SendFdsSize ==
  ASSUME OneSize, BaseInv, SizeInv, NEW p \in Procs, NEW c \in Procs \ {p}, SendFds(p, c)
  PROVE  SizeInv'
  <1>1. /\ ptr[p]["frame"] \in Addrs /\ flight'[c] = FileOf(p, "frame")
        /\ (\A q \in Procs \ {c} : flight'[q] = flight[q]) /\ UNCHANGED <<dir, size, vm, call>>
    BY SendFdsFacts
  <1>2. SizesKept
    BY <1>1, SameSizes
  <1>3. flight'[c] # 0 => 1 <= size'[flight'[c]]
    <2> DEFINE m == vm[p][ptr[p]["frame"]]
    <2>1. m = NoMap \/ (1 <= m.len /\ m.len <= size[m.file] /\ m.file # 0)
      BY <1>1 DEF SizeInv, MapsSized
    <2>2. m \in MapRecord
      BY <1>1 DEF BaseInv, MemoryTypeOK
    <2>3. CASE m = NoMap
      BY <1>1, <2>3 DEF NoMap, FileOf
    <2>4. CASE m # NoMap
      <3>1. m.file \in Files /\ m.len \in Nat /\ size[m.file] \in Nat /\ flight'[c] = m.file
        BY <1>1, <2>1, <2>2, <2>4 DEF MapRecord, BaseInv, MemoryTypeOK, FileOf
      <3> QED
        BY <1>1, <2>1, <2>4, <3>1
    <2> QED
      BY <2>3, <2>4
  <1>4. ASSUME NEW q \in Procs PROVE MapsSized(q)' /\ CallSized(q)' /\ (flight'[q] # 0 => 1 <= size'[flight'[q]])
    BY <1>1, <1>2, <1>3, MapsKept, CallSizedKept, FlightKept
  <1> QED
    BY <1>1, <1>4 DEF SizeInv

(* A client receiving a descriptor keeps the size invariant.              *)
LEMMA RecvFdsSize ==
  ASSUME OneSize, BaseInv, SizeInv, NEW p \in Procs, RecvFds(p)
  PROVE  SizeInv'
  <1>1. /\ flight[p] \in Files /\ flight'[p] = 0
        /\ call'[p].pc = "map" /\ call'[p].todo = Order["import"] /\ call'[p].file = flight[p]
        /\ (\A q \in Procs \ {p} : call'[q] = call[q] /\ flight'[q] = flight[q])
        /\ UNCHANGED <<dir, size, vm>>
    BY RecvFdsFacts DEF BaseInv
  <1>2. SizesKept
    BY <1>1, SameSizes
  <1>3. CallSized(p)'
    <2>1. Role(p)' = "import"
      BY <1>1, OrderFacts DEF Role
    <2>2. Length(p)' = 1 /\ Role(p)' \notin Queues
      BY <2>1 DEF Length, Queues
    <2>3. flight[p] # 0
      BY DEF RecvFds
    <2> QED
      BY <1>1, <2>2, <2>3 DEF CallSized, SizeInv
  <1>4. ASSUME NEW q \in Procs PROVE MapsSized(q)' /\ CallSized(q)' /\ (flight'[q] # 0 => 1 <= size'[flight'[q]])
    BY <1>1, <1>2, <1>3, MapsKept, CallSizedKept, FlightKept
  <1> QED
    BY <1>1, <1>4 DEF SizeInv

(* A call that goes on has the file it had.                                *)
LEMMA GotoSize ==
  ASSUME OneSize, BaseInv, SizeInv, SizesKept, NEW p \in Procs, NEW pc \in {"truncate", "map"}, Goto(p, pc),
         HasFile(p), call[p].pc # "map", pc = "map" => Length(p) <= size'[call[p].file],
         UNCHANGED <<dir, vm, flight>>
  PROVE  SizeInv'
  <1>1. pc \in CallPC
    BY DEF CallPC
  <1>2. /\ call'[p].pc = pc /\ call'[p].todo = call[p].todo
        /\ call'[p].want = call[p].want /\ call'[p].file = call[p].file
        /\ \A q \in Procs \ {p} : call'[q] = call[q]
    BY <1>1, GotoFacts DEF BaseInv
  <1>3. CallSized(p)'
    <2>1. Role(p)' = Role(p) /\ Length(p)' = Length(p)
      BY <1>2 DEF Role, Length
    <2> QED
      BY <1>2, <2>1 DEF SizeInv, CallSized
  <1>4. ASSUME NEW q \in Procs PROVE MapsSized(q)' /\ CallSized(q)' /\ (flight'[q] # 0 => 1 <= size'[flight'[q]])
    BY <1>2, <1>3, MapsKept, CallSizedKept, FlightKept
  <1> QED
    BY <1>4 DEF SizeInv

(* The unlink of the frame file keeps the size invariant.                 *)
LEMMA UnlinkSize ==
  ASSUME OneSize, BaseInv, SizeInv, NEW p \in Procs, Unlink(p)
  PROVE  SizeInv'
  <1>1. HasFile(p) /\ call[p].pc # "map" /\ UNCHANGED <<dir, size, vm, flight>>
    BY DEF HasFile, Unlink, At
  <1>2. PICK pc \in {"truncate", "map"} : pc = "truncate"
    OBVIOUS
  <1>3. Goto(p, pc) /\ pc # "map"
    BY <1>2 DEF Unlink
  <1>4. SizesKept
    BY <1>1, SameSizes
  <1> QED
    BY <1>1, <1>3, <1>4, GotoSize

(* The fstat that asks whether a segment has its size keeps the size      *)
(* invariant.                                                             *)
LEMMA StatSize ==
  ASSUME OneSize, BaseInv, SizeInv, NEW p \in Procs, Stat(p)
  PROVE  SizeInv'
  <1>1. HasFile(p) /\ call[p].pc # "map" /\ call[p].pc # "idle" /\ UNCHANGED <<dir, size, vm, flight>>
    BY DEF HasFile, Stat, At
  <1>2. Length(p) \in Nat /\ size[call[p].file] \in Nat
    BY <1>1, LengthFacts DEF BaseInv, MemoryTypeOK, CallInv
  <1>3. PICK pc \in {"truncate", "map"} : Goto(p, pc) /\ (pc = "map" => ~(size[call[p].file] < Length(p)))
    BY DEF Stat
  <1>4. pc = "map" => Length(p) <= size'[call[p].file]
    BY <1>1, <1>2, <1>3
  <1>5. SizesKept
    BY <1>1, SameSizes
  <1> QED
    BY <1>1, <1>3, <1>4, <1>5, GotoSize

(* The ftruncate keeps the size invariant.                                *)
LEMMA TruncateSize ==
  ASSUME OneSize, BaseInv, SizeInv, NEW p \in Procs, Truncate(p)
  PROVE  SizeInv'
  <1> DEFINE f == call[p].file
  <1>1. HasFile(p) /\ call[p].pc # "map" /\ call[p].pc # "idle" /\ UNCHANGED <<dir, vm, flight>>
        /\ size' = [size EXCEPT ![f] = Length(p)]
    BY DEF HasFile, Truncate, At
  <1>2. f \in Files /\ Length(p) \in Nat
    BY <1>1, LengthFacts DEF BaseInv, MemoryTypeOK, CallInv
  <1>3. Length(p) = Limit(f, dir["segment"])
    <2>1. /\ Role(p) \in Queues => f = dir["segment"]
          /\ Role(p) \notin Queues => f # dir["segment"]
      BY <1>1 DEF SizeInv, CallSized
    <2> QED
      BY <1>1, <2>1, LengthFacts DEF Limit
  <1> HIDE DEF f
  <1>4. size'[f] = Length(p) /\ \A g \in Files \ {f} : size'[g] = size[g]
    BY <1>1, <1>2 DEF BaseInv, MemoryTypeOK
  <1>5. SizesKept
    BY <1>1, <1>3, <1>4 DEF SizesKept
  <1>6. PICK pc \in {"truncate", "map"} : pc = "map"
    OBVIOUS
  <1>7. Goto(p, pc)
    BY <1>6 DEF Truncate
  <1>8. Length(p) <= size'[call[p].file]
    BY <1>2, <1>4 DEF f
  <1> QED
    BY <1>1, <1>5, <1>7, <1>8, GotoSize

(* The open of either kind of file leaves the constructor with a file     *)
(* that is not yet relied upon.                                           *)
LEMMA OpenedSize ==
  ASSUME OneSize, BaseInv, SizeInv, SizesKept, NEW p \in Procs, call[p].pc = "open",
         NEW f \in Files, NEW pc \in CallPC, Opened(p, f, pc), pc # "map",
         Role(p) \in Queues => f = dir'["segment"],
         Role(p) \notin Queues => f # dir'["segment"],
         dir'["segment"] = 0 \/ dir'["segment"] # dir'["state"]
  PROVE  SizeInv'
  <1>1. /\ call'[p].pc = pc /\ call'[p].todo = call[p].todo /\ call'[p].file = f
        /\ (\A q \in Procs \ {p} : call'[q] = call[q]) /\ UNCHANGED <<vm, flight>>
    BY OpenedFacts DEF BaseInv
  <1>2. CallSized(p)'
    <2>1. Role(p)' = Role(p)
      BY <1>1 DEF Role
    <2> QED
      BY <1>1, <2>1 DEF CallSized
  <1>3. ASSUME NEW q \in Procs PROVE MapsSized(q)' /\ CallSized(q)' /\ (flight'[q] # 0 => 1 <= size'[flight'[q]])
    BY <1>1, <1>2, MapsKept, CallSizedKept, FlightKept
  <1> QED
    BY <1>3 DEF SizeInv

(* The open of a named file keeps the size invariant.                     *)
LEMMA OpenSize ==
  ASSUME OneSize, BaseInv, SizeInv, NEW p \in Procs, Open(p)
  PROVE  SizeInv'
  <1>1. PICK n \in Names, f \in Files, pc \in {"truncate", "stat"} :
           /\ f # 0 /\ call[p].pc = "open"
           /\ n = IF Role(p) \in Queues THEN "segment" ELSE "state"
           /\ Opened(p, f, pc)
           /\ dir' = [dir EXCEPT ![n] = f] /\ dir' \in [Names -> Files \cup {0}]
           /\ \/ dir[n] = f /\ dir' = dir /\ size' = size
              \/ /\ dir[n] = 0 /\ Unused(f) /\ size'[f] = 0
                 /\ \A g \in Files \ {f} : size'[g] = size[g]
    BY OpenFacts DEF BaseInv
  <1>2. pc \in CallPC /\ pc # "map"
    BY DEF CallPC
  <1>3. dir'[n] = f /\ (n = "segment" => dir'["state"] = dir["state"])
        /\ (n = "state" => dir'["segment"] = dir["segment"])
    BY <1>1 DEF BaseInv, MemoryTypeOK, Names
  <1>4. Unused(f) => f # dir["segment"] /\ f # dir["state"]
    BY FreshFacts DEF BaseInv
  <1>5. SizesKept
    BY <1>1, <1>3 DEF SizesKept, Names
  <1>6. dir'["segment"] = 0 \/ dir'["segment"] # dir'["state"]
    BY <1>1, <1>3, <1>4 DEF SizeInv, Names
  <1>7. Role(p) \in Queues => f = dir'["segment"]
    BY <1>1, <1>3
  <1>8. Role(p) \notin Queues => f # dir'["segment"]
    BY <1>1, <1>3, <1>6
  <1> QED
    BY <1>1, <1>2, <1>5, <1>6, <1>7, <1>8, OpenedSize

(* The open of a frame file keeps the size invariant.                     *)
LEMMA OpenFrameSize ==
  ASSUME OneSize, BaseInv, SizeInv, NEW p \in Procs, OpenFrame(p)
  PROVE  SizeInv'
  <1> DEFINE f == NewFile
  <1>1. f \in Files /\ f # 0 /\ Unused(f)
    BY NewFileFacts DEF OpenFrame
  <1>2. PICK pc \in CallPC : pc = "unlink"
    BY DEF CallPC
  <1>3. /\ call[p].pc = "open" /\ size' = [size EXCEPT ![f] = 0] /\ Role(p) = "frame"
        /\ Opened(p, f, pc) /\ dir' = dir /\ pc # "map"
    BY <1>2 DEF OpenFrame, At
  <1> HIDE DEF f
  <1>4. f # dir["segment"] /\ Role(p) \notin Queues
    BY <1>1, <1>3, FreshFacts DEF BaseInv, Queues
  <1>5. SizesKept
    BY <1>1, <1>3 DEF SizesKept, BaseInv, MemoryTypeOK
  <1> QED
    BY <1>1, <1>3, <1>4, <1>5, OpenedSize DEF SizeInv

(* A mapping that is as long as its role wants it.                         *)
LEMMA MappedSize ==
  ASSUME OneSize, BaseInv, SizeInv, SizesKept, NEW p \in Procs, call[p].pc # "idle",
         NEW f \in Files, Mapped(p, f), Role(p) \in Queues => f = dir["segment"],
         Length(p) <= size'[f]
  PROVE  SizeInv'
  <1> DEFINE a == NewAddr(p)
  <1>1. /\ a \in Addrs /\ vm'[p][a] = [file |-> f, len |-> Length(p)]
        /\ (\A b \in Addrs \ {a} : vm'[p][b] = vm[p][b])
        /\ (\A q \in Procs \ {p} : vm'[q] = vm[q] /\ call'[q] = call[q])
        /\ UNCHANGED <<dir, flight>>
    BY MappedFacts DEF BaseInv
  <1>2. call'[p].pc \in {"idle", "open"}
    BY MappedFacts, IdleFacts DEF BaseInv
  <1> HIDE DEF a
  <1>3. CallSized(p)'
    BY <1>2 DEF CallSized, HasFile
  <1>4. Length(p) \in Nat /\ 1 <= Length(p) /\ Length(p) <= Limit(f, dir["segment"]) /\ f # 0
    BY LengthFacts, LimitFacts, SegmentFacts, MemoryAssumption DEF Limit
  <1>5. Limit(f, dir'["segment"]) = Limit(f, dir["segment"])
    BY <1>1 DEF Limit
  <1>6. MapsSized(p)'
    <2> SUFFICES ASSUME NEW b \in Addrs, vm'[p][b] # NoMap
                 PROVE  LET m == vm'[p][b] IN m.file # 0 /\ 1 <= m.len /\ m.len <= size'[m.file]
                                              /\ m.len <= Limit(m.file, dir'["segment"])
      BY DEF MapsSized
    <2>1. CASE b = a
      BY <1>1, <1>4, <1>5, <2>1
    <2>2. CASE b # a
      <3> DEFINE m == vm[p][b]
      <3>1. m = vm'[p][b] /\ m.file # 0 /\ 1 <= m.len /\ m.len <= size[m.file] /\ m.len <= Limit(m.file, dir["segment"])
        BY <1>1, <2>2 DEF SizeInv, MapsSized
      <3>2. m.file \in Files /\ m.len \in Nat /\ ~Unused(m.file)
        <4>1. m \in MapRecord
          BY DEF BaseInv, MemoryTypeOK
        <4>2. m.file \in Files /\ m.len \in Nat
          BY <3>1, <4>1 DEF MapRecord
        <4> QED
          BY <4>2, FreshFacts DEF BaseInv
      <3> HIDE DEF m
      <3>3. Limit(m.file, dir'["segment"]) = Limit(m.file, dir["segment"]) /\ (size'[m.file] = size[m.file] \/ size'[m.file] = Limit(m.file, dir["segment"]))
        BY <3>1, <3>2, LimitKept DEF BaseInv, SizesKept
      <3> QED
        BY <3>1, <3>2, <3>3
    <2> QED
      BY <2>1, <2>2
  <1>7. ASSUME NEW q \in Procs PROVE MapsSized(q)' /\ CallSized(q)' /\ (flight'[q] # 0 => 1 <= size'[flight'[q]])
    BY <1>1, <1>3, <1>6, MapsKept, CallSizedKept, FlightKept
  <1> QED
    BY <1>1, <1>7 DEF SizeInv

(* The mmap of the file keeps the size invariant.                         *)
LEMMA MapSize ==
  ASSUME OneSize, BaseInv, SizeInv, NEW p \in Procs, Map(p)
  PROVE  SizeInv'
  <1> DEFINE f == call[p].file
  <1>1. /\ call[p].pc = "map" /\ HasFile(p) /\ call[p].pc # "idle" /\ Mapped(p, f) /\ size' = size
        /\ dir' = dir
    BY DEF Map, At, HasFile, Mapped
  <1>2. f \in Files
    BY <1>1 DEF BaseInv, MemoryTypeOK, CallInv
  <1>3. (Role(p) \in Queues => f = dir["segment"]) /\ Length(p) <= size'[f]
    BY <1>1 DEF SizeInv, CallSized
  <1>4. SizesKept
    BY <1>1, SameSizes
  <1> QED
    BY <1>1, <1>2, <1>3, <1>4, MappedSize

(* The allocation by the ion driver keeps the size invariant.             *)
LEMMA IonAllocateSize ==
  ASSUME OneSize, BaseInv, SizeInv, NEW p \in Procs, IonAllocate(p)
  PROVE  SizeInv'
  <1> DEFINE f == NewFile
  <1>1. f \in Files /\ f # 0 /\ Unused(f)
    BY NewFileFacts DEF IonAllocate
  <1>2. /\ call[p].pc # "idle" /\ Role(p) = "frame" /\ Mapped(p, f) /\ dir' = dir
        /\ size' = [size EXCEPT ![f] = Length(p)]
    BY DEF IonAllocate, At, Mapped
  <1> HIDE DEF f
  <1>3. Length(p) \in Nat /\ Role(p) \notin Queues
    BY <1>2, LengthFacts DEF Queues
  <1>4. SizesKept /\ Length(p) <= size'[f]
    BY <1>1, <1>2, <1>3 DEF SizesKept, BaseInv, MemoryTypeOK
  <1> QED
    BY <1>1, <1>2, <1>3, <1>4, MappedSize

-----------------------------------------------------------------------------
(* No mapping, and so no short one, at the start.                         *)
LEMMA InitSize == MemoryInit => SizeInv
  BY IdleFacts DEF MemoryInit, SizeInv, MapsSized, CallSized, HasFile

(* Every step keeps the size invariant.                                   *)
LEMMA NextSize ==
  ASSUME OneSize, BaseInv, SizeInv, [MemoryNext]_memVars
  PROVE  SizeInv'
  <1>1. CASE UNCHANGED memVars
    <2>1. UNCHANGED <<dir, size, vm, flight, call>>
      BY <1>1 DEF memVars
    <2>2. SizesKept
      BY <2>1, SameSizes
    <2>3. ASSUME NEW q \in Procs PROVE MapsSized(q)' /\ CallSized(q)' /\ (flight'[q] # 0 => 1 <= size'[flight'[q]])
      BY <2>1, <2>2, MapsKept, CallSizedKept, FlightKept
    <2> QED
      BY <2>1, <2>3 DEF SizeInv
  <1>2. CASE MemoryNext
    <2>1. PICK p \in Procs :
            \/ \E o \in may[p], n \in Sizes : Create(p, o, n)
            \/ \E o \in may[p] : Delete(p, o)
            \/ \E c \in Procs \ {p} : SendFds(p, c)
            \/ Open(p) \/ OpenFrame(p) \/ Unlink(p) \/ Stat(p) \/ Truncate(p) \/ Map(p)
            \/ IonAllocate(p) \/ CallFails(p) \/ DeleteFailed(p) \/ RecvFds(p) \/ Die(p)
      BY <1>2 DEF MemoryNext
    <2>2. CASE \E o \in may[p] : Delete(p, o)
      <3>1. PICK o \in DOMAIN Order : Delete(p, o)
        BY <2>2 DEF BaseInv, MemoryTypeOK
      <3> QED
        BY <3>1, ReleaseSize DEF Delete
    <2>3. CASE DeleteFailed(p)
      <3>1. call[p].obj \in DOMAIN Order
        BY <2>3 DEF DeleteFailed, At, BaseInv, CallInv, MemoryTypeOK
      <3> QED
        BY <2>3, <3>1, ReleaseSize DEF DeleteFailed
    <2> QED
      BY <2>1, <2>2, <2>3, CreateSize, SendFdsSize, OpenSize, OpenFrameSize, UnlinkSize, StatSize,
         TruncateSize, MapSize, IonAllocateSize, CallFailsSize, RecvFdsSize, DieSize
  <1> QED
    BY <1>1, <1>2

(* When all endpoints have one size, no mapping of a segment, an           *)
(* EventState or a frame ever reaches beyond the end of its file, whoever  *)
(* else opens, truncates or removes that file, fails or dies.              *)
THEOREM MappingsBacked ==
  ASSUME OneSize
  PROVE  MemorySpec => []Backed
  <1>1. MemoryInit => SizeInv
    BY InitSize
  <1>2. BaseInv /\ SizeInv /\ [MemoryNext]_memVars => SizeInv'
    BY NextSize
  <1>3. BaseInv /\ SizeInv => Backed
    BY DEF SizeInv, MapsSized, Backed
  <1> QED
    BY <1>1, <1>2, <1>3, AlwaysBase, PTL DEF MemorySpec

-----------------------------------------------------------------------------
(* What a call is about to map is not mapped yet: an object that is there  *)
(* is not made again, and a process has sockets of one mode.               *)
LEMMA HaveFacts ==
  ASSUME MemoryTypeOK, NEW p \in Procs, CallInv(p)
  PROVE  /\ Have(p) \subseteq Roles
         /\ \A r \in {"frame", "import"} : r \in Have(p) <=> r \in live[p]
         /\ call[p].pc = "idle" => Done(p) = {}
         /\ call[p].pc # "idle" =>
              /\ RolesOf(call[p].obj) = {Role(p)} \cup Done(p) \/ Role(p) = "fake_state"
              /\ RolesOf(call[p].obj) \cap (UNION {RolesOf(o) : o \in live[p]}) = {}
              /\ Role(p) \in RolesOf(call[p].obj) /\ Role(p) \notin Have(p)
              /\ Role(p) = "fake_state" => Done(p) = {}
  <1>1. live[p] \subseteq {"sub", "fake_sub", "pub", "handle", "frame", "import"}
        /\ ("sub" \notin may[p] \/ "fake_sub" \notin may[p]) /\ live[p] \subseteq may[p]
    BY OrderFacts DEF MemoryTypeOK, CallInv
  <1> DEFINE U == UNION {RolesOf(o) : o \in live[p]}
  <1>2. \A r : r \in U <=> \E o \in live[p] : r \in RolesOf(o)
    OBVIOUS
  <1>3. Have(p) = U \cup Done(p)
    BY DEF Have
  <1>4. call[p].pc = "idle" => Done(p) = {}
    BY IdleFacts DEF CallInv, Done
  <1>5. Done(p) \subseteq {"fake_state"}
    BY DEF Done
  <1>6. Have(p) \subseteq Roles /\ \A r \in {"frame", "import"} : r \in Have(p) <=> r \in live[p]
    <2>1. \A r : r \in Have(p) <=> r \in Done(p) \/ \E o \in live[p] : r \in RolesOf(o)
      <3> HIDE DEF U
      <3> QED
        BY <1>2, <1>3
    <2>2. \A o \in live[p] : RolesOf(o) \subseteq Roles
      BY <1>1, RolesFacts
    <2>3. "fake_state" \in Roles
      BY RolesFacts
    <2>4. \A o \in live[p] : /\ "frame" \in RolesOf(o) => o = "frame"
                             /\ "import" \in RolesOf(o) => o = "import"
      BY <1>1, RolesFacts
    <2>5. "frame" \in RolesOf("frame") /\ "import" \in RolesOf("import")
      BY RolesFacts
    <2>6. Have(p) \subseteq Roles
      BY <1>5, <2>1, <2>2, <2>3
    <2> QED
      BY <1>5, <2>1, <2>4, <2>5, <2>6
  <1>7. ASSUME call[p].pc # "idle"
        PROVE  /\ RolesOf(call[p].obj) = {Role(p)} \cup Done(p) \/ Role(p) = "fake_state"
               /\ RolesOf(call[p].obj) \cap (UNION {RolesOf(o) : o \in live[p]}) = {}
               /\ Role(p) \in RolesOf(call[p].obj) /\ Role(p) \notin Have(p)
               /\ Role(p) = "fake_state" => Done(p) = {}
    <2>1. call[p].obj \in may[p] \ live[p]
      BY <1>7 DEF CallInv
    <2>2. call[p].todo = <<"sub_q">> <=> Role(p) = "sub_q"
      BY <1>7, TodoFacts
    <2>3. Done(p) = IF call[p].obj = "fake_sub" /\ Role(p) = "sub_q" THEN {"fake_state"} ELSE {}
      BY <2>2 DEF Done
    <2> DEFINE Is(o, r) == call[p].obj = o /\ Role(p) = r
    <2>4. \/ Is("sub", "sub_q") \/ Is("fake_sub", "sub_q") \/ Is("fake_sub", "fake_state")
          \/ Is("pub", "pub_q") \/ Is("handle", "state") \/ Is("frame", "frame")
          \/ Is("import", "import")
      BY <1>7, TodoFacts DEF Doing
    <2>5. RolesOf(call[p].obj) = {Role(p)} \cup Done(p) \/ Role(p) = "fake_state"
      BY <2>3, <2>4, RolesFacts
    <2>6. Role(p) \in RolesOf(call[p].obj) /\ (Role(p) = "fake_state" => Done(p) = {})
      BY <2>3, <2>4, RolesFacts
    <2>7. ASSUME NEW o \in live[p], NEW r \in RolesOf(o) PROVE r \notin RolesOf(call[p].obj)
      BY <1>1, <2>1, <2>4, RolesFacts
    <2>8. Role(p) \notin Done(p)
      BY <2>3
    <2>9. RolesOf(call[p].obj) \cap U = {}
      BY <1>2, <2>7
    <2>10. Role(p) \notin Have(p)
      <3> HIDE DEF U
      <3> QED
        BY <1>3, <2>6, <2>8, <2>9
    <2> QED
      BY <2>5, <2>6, <2>9, <2>10
  <1> QED
    BY <1>4, <1>6, <1>7

(* The mappings stay owned when pointers and mappings stay as they are.    *)
LEMMA SameOwned ==
  ASSUME NEW have, NEW t, NEW m, NEW u, NEW n,
         Owned(have, t, m), \A r \in have : u[r] = t[r], \A a \in Addrs : n[a] = m[a]
  PROVE  Owned(have, u, n)
  BY DEF Owned

(* A mapping that is made is owned by the role that it is made for.        *)
LEMMA MoreOwned ==
  ASSUME NEW have, NEW t, NEW m, NEW u, NEW n, Owned(have, t, m),
         NEW r, r \notin have, NEW a \in Addrs, \A b \in Addrs \ {a} : n[b] = m[b],
         u[r] = a, \A s \in have : u[s] = t[s]
  PROVE  Owned(have \cup {r}, u, n)
  BY DEF Owned

Without(R, t, m, u, n) ==
  /\ R \subseteq Roles
  /\ \A a \in Addrs : n[a] = IF a # 0 /\ (\E r \in R : t[r] = a) THEN NoMap ELSE m[a]
  /\ \A r \in Roles : u[r] = IF r \in R THEN 0 ELSE t[r]

(* Every mapping that is left when those that the pointers of some roles   *)
(* point to are removed, whatever these pointers are, is owned by one of   *)
(* the other roles.                                                        *)
LEMMA LessOwned ==
  ASSUME NEW have, have \subseteq Roles, NEW t, NEW m, NEW u, NEW n,
         Owned(have, t, m), NEW R, Without(R, t, m, u, n)
  PROVE  Owned(have \ R, u, n)
  <1> SUFFICES ASSUME NEW b \in Addrs, n[b] # NoMap PROVE \E s \in have \ R : u[s] = b
    BY DEF Owned
  <1>1. (b = 0 \/ ~\E r \in R : t[r] = b) /\ m[b] # NoMap
    BY DEF Without
  <1>2. PICK s \in have : t[s] = b
    BY <1>1 DEF Owned
  <1>3. s \notin R
    BY <1>1, <1>2, MemoryAssumption
  <1> QED
    BY <1>2, <1>3 DEF Without

(* Pointers and mappings stay one to one when nothing changes.             *)
LEMMA SameOneToOne ==
  ASSUME NEW have, have \subseteq Roles, NEW t \in [Roles -> Addrs \cup {0}], NEW m, NEW u, NEW n,
         OneToOne(have, t, m), \A r \in have : u[r] = t[r], \A a \in Addrs : n[a] = m[a]
  PROVE  OneToOne(have, u, n)
  <1>1. \A r \in have : t[r] \in Addrs
    BY DEF OneToOne
  <1>2. Owned(have, u, n)
    BY SameOwned DEF OneToOne
  <1> QED
    BY <1>1, <1>2 DEF OneToOne

(* One more pointer to one more mapping keeps pointers and mappings in    *)
(* one-to-one correspondence.                                             *)
LEMMA MoreOneToOne ==
  ASSUME NEW have, have \subseteq Roles, NEW t \in [Roles -> Addrs \cup {0}], NEW m, NEW u, NEW n,
         OneToOne(have, t, m), NEW r \in Roles \ have, NEW a \in Addrs, a # 0, m[a] = NoMap,
         n[a] # NoMap, \A b \in Addrs \ {a} : n[b] = m[b],
         u[r] = a, \A s \in Roles \ {r} : u[s] = t[s]
  PROVE  OneToOne(have \cup {r}, u, n)
  <1>1. \A s \in have : t[s] \in Addrs /\ t[s] # a /\ u[s] = t[s]
    BY DEF OneToOne
  <1>2. \A s \in have \cup {r} : u[s] # 0 /\ n[u[s]] # NoMap
    BY <1>1 DEF OneToOne
  <1>3. \A s, q \in have \cup {r} : u[s] = u[q] => s = q
    BY <1>1 DEF OneToOne
  <1>4. Owned(have \cup {r}, u, n)
    BY <1>1, MoreOwned DEF OneToOne
  <1> QED
    BY <1>2, <1>3, <1>4 DEF OneToOne

(* So does giving up the pointers of some roles together with their       *)
(* mappings, if the pointers that had none point to nothing.              *)
LEMMA LessOneToOne ==
  ASSUME NEW have, have \subseteq Roles, NEW t \in [Roles -> Addrs \cup {0}], NEW m, NEW u, NEW n,
         OneToOne(have, t, m), NEW R, Without(R, t, m, u, n),
         \A r \in R \ have : t[r] # 0 => m[t[r]] = NoMap
  PROVE  OneToOne(have \ R, u, n)
  <1>1. \A s \in have : t[s] \in Addrs /\ t[s] # 0 /\ m[t[s]] # NoMap
    BY DEF OneToOne
  <1>2. \A s \in have \ R : u[s] = t[s] /\ ~\E r \in R : t[r] = t[s]
    <2>1. \A s \in have \ R, r \in R : t[r] # t[s]
      BY <1>1 DEF OneToOne
    <2> QED
      BY <2>1 DEF Without
  <1>3. \A s \in have \ R : u[s] # 0 /\ n[u[s]] # NoMap
    BY <1>1, <1>2 DEF Without
  <1>4. \A s, q \in have \ R : u[s] = u[q] => s = q
    BY <1>2 DEF OneToOne
  <1>5. Owned(have \ R, u, n)
    BY LessOwned DEF OneToOne
  <1> QED
    BY <1>3, <1>4, <1>5 DEF OneToOne

(* The same of what a process has while others move.                       *)
LEMMA HeldKept ==
  ASSUME NEW q, PointersInv(q), DescriptorsInv(q),
         UNCHANGED <<ion, call[q], live[q], fds[q], handles[q], ptr[q], vm[q]>>
  PROVE  PointersInv(q)' /\ DescriptorsInv(q)'
  BY DEF PointersInv, DescriptorsInv, Have, Done, HasFile, FramesOf

(* What a process owns, names or has been sent does not change with the   *)
(* steps of another.                                                      *)
LEMMA SetsKept ==
  ASSUME NEW q, NEW f, UNCHANGED <<call[q], live[q], ptr[q], vm[q]>>
  PROVE  /\ Own(q, f)' <=> Own(q, f)
         /\ Named(q, f)' <=> Named(q, f)
         /\ flight'[q] = flight[q] => (Got(q, f)' <=> Got(q, f))
  BY DEF Own, Named, Got, CallFile, HasFile, FileOf

(* The files of frames are apart when there are fewer of them, when one    *)
(* is new, when one is sent, and when a file with a name is opened.        *)
LEMMA FewerApart ==
  ASSUME ApartInv,
         \A q \in Procs, f \in Files : /\ Own(q, f)' => Own(q, f)
                                       /\ Got(q, f)' => Got(q, f)
                                       /\ Named(q, f)' => Named(q, f),
         dir'["segment"] = dir["segment"], dir'["state"] \in {0, dir["state"]}
  PROVE  ApartInv'
  <1>1. \A f \in Files : f # 0
    BY MemoryAssumption
  <1> QED
    BY <1>1 DEF ApartInv

(* An unused file is nobody's.                                             *)
LEMMA FreshApart ==
  ASSUME BaseInv, HoldInv, NEW f \in Files, Unused(f), NEW q \in Procs
  PROVE  ~Own(q, f) /\ ~Got(q, f) /\ ~Named(q, f)
  <1>1. f \notin fds[q] /\ f # flight[q]
    BY FreshFacts DEF BaseInv
  <1>2. HasFile(q) => call[q].file \in fds[q]
    BY DEF HasFile, BaseInv, CallInv
  <1>3. \A r \in {"frame", "import"} : r \in live[q] => FileOf(q, r) \in fds[q]
    BY DEF HoldInv, DescriptorsInv, FramesOf, FileOf
  <1> QED
    BY <1>1, <1>2, <1>3 DEF Own, Got, Named, CallFile

(* A new file is nobody else's.                                           *)
LEMMA NewApart ==
  ASSUME BaseInv, HoldInv, NEW p \in Procs, NEW g \in Files, Unused(g), dir' = dir,
         \A q \in Procs, f \in Files : /\ Own(q, f)' => Own(q, f) \/ (q = p /\ f = g)
                                       /\ Got(q, f)' => Got(q, f)
                                       /\ Named(q, f)' => Named(q, f)
  PROVE  ApartInv'
  <1>1. \A q \in Procs : ~Own(q, g) /\ ~Got(q, g) /\ ~Named(q, g)
    BY FreshApart
  <1>2. g # dir["segment"] /\ g # dir["state"]
    BY FreshFacts DEF BaseInv
  <1> QED
    BY <1>1, <1>2 DEF HoldInv, ApartInv

-----------------------------------------------------------------------------
(* A step of a call that leaves descriptors and mappings as they are.      *)
LEMMA StepHold ==
  ASSUME BaseInv, HoldInv, NEW p \in Procs,
         UNCHANGED <<ion, dir, fds, vm, handles, flight, ptr, live>>,
         \A q \in Procs \ {p} : call'[q] = call[q],
         Done(p)' = Done(p), HasFile(p)' <=> HasFile(p),
         HasFile(p) => call'[p].file = call[p].file /\ call'[p].obj = call[p].obj
  PROVE  HoldInv'
  <1>1. ASSUME NEW q \in Procs PROVE PointersInv(q)' /\ DescriptorsInv(q)'
    <2>1. CASE q # p
      BY <2>1, HeldKept DEF HoldInv
    <2>2. CASE q = p
      <3>1. PointersInv(p) /\ DescriptorsInv(p)
        BY DEF HoldInv
      <3>2. PointersInv(p)'
        BY <3>1 DEF PointersInv, Have
      <3>3. FramesOf(p)' = FramesOf(p)
        BY DEF FramesOf
      <3>4. DescriptorsInv(p)'
        BY <3>1, <3>3 DEF DescriptorsInv
      <3> QED
        BY <2>2, <3>2, <3>4
    <2> QED
      BY <2>1, <2>2
  <1>2. ASSUME NEW q \in Procs, NEW f \in Files
        PROVE  /\ Own(q, f)' => Own(q, f)
               /\ Got(q, f)' => Got(q, f)
               /\ Named(q, f)' => Named(q, f)
    <2>1. CASE q # p
      BY <2>1, SetsKept
    <2>2. CASE q = p
      BY <2>2 DEF Own, Got, Named, CallFile, FileOf
    <2> QED
      BY <2>1, <2>2
  <1>3. ApartInv'
    BY <1>2, FewerApart DEF HoldInv
  <1> QED
    BY <1>1, <1>3 DEF HoldInv

(* The start of a constructor keeps the holding invariant.                *)
LEMMA CreateHold ==
  ASSUME BaseInv, HoldInv, NEW p \in Procs, NEW o \in may[p], NEW n \in Sizes, Create(p, o, n)
  PROVE  HoldInv'
  <1>1. /\ call[p].pc = "idle" /\ call'[p].pc = "open" /\ call'[p].obj = o /\ call'[p].todo = Order[o]
        /\ (\A q \in Procs \ {p} : call'[q] = call[q])
        /\ UNCHANGED <<ion, dir, fds, vm, handles, flight, ptr, live>>
    BY CreateFacts DEF BaseInv, At
  <1>2. Done(p) = {} /\ Done(p)' = {}
    <2>1. Order["fake_sub"] # <<"sub_q">>
      <3> DEFINE s == <<"fake_state", "sub_q">>
                 t == <<"sub_q">>
      <3>1. s # t
        OBVIOUS
      <3> QED
        BY <3>1, OrderFacts
    <2>2. Done(p)' = {}
      BY <1>1, <2>1 DEF Done
    <2> QED
      BY <1>1, <2>2, HaveFacts DEF BaseInv
  <1>3. ~HasFile(p) /\ ~HasFile(p)'
    BY <1>1 DEF HasFile
  <1> QED
    BY <1>1, <1>2, <1>3, StepHold

(* A constructor that only goes to its next line changes nothing that is  *)
(* held.                                                                  *)
LEMMA GotoHold ==
  ASSUME BaseInv, HoldInv, NEW p \in Procs, NEW pc \in {"truncate", "map"}, Goto(p, pc), HasFile(p),
         UNCHANGED <<ion, dir, fds, vm, handles, flight, ptr, live>>
  PROVE  HoldInv'
  <1>1. pc \in CallPC
    BY DEF CallPC
  <1>2. /\ call'[p].pc = pc /\ call'[p].obj = call[p].obj /\ call'[p].todo = call[p].todo
        /\ call'[p].file = call[p].file
        /\ \A q \in Procs \ {p} : call'[q] = call[q]
    BY <1>1, GotoFacts DEF BaseInv
  <1>3. Done(p)' = Done(p) /\ HasFile(p)'
    BY <1>2 DEF Done, HasFile
  <1> QED
    BY <1>2, <1>3, StepHold

(* The unlink, the fstat and the ftruncate of a constructor change        *)
(* nothing that is held.                                                  *)
LEMMA ProceedHold ==
  ASSUME BaseInv, HoldInv, NEW p \in Procs, Unlink(p) \/ Stat(p) \/ Truncate(p)
  PROVE  HoldInv'
  <1>1. HasFile(p) /\ UNCHANGED <<ion, dir, fds, vm, handles, flight, ptr, live>>
    BY DEF Unlink, Stat, Truncate, At, HasFile
  <1>2. PICK pc \in {"truncate", "map"} : Goto(p, pc)
    BY DEF Unlink, Stat, Truncate
  <1> QED
    BY <1>1, <1>2, GotoHold

(* An opened file is a descriptor more; the pointer that changes is one of *)
(* a role that has no mapping yet.                                         *)
LEMMA OpenedHold ==
  ASSUME BaseInv, HoldInv, NEW p \in Procs, call[p].pc = "open", NEW f \in Files,
         NEW pc \in {"unlink", "stat", "truncate"}, Opened(p, f, pc), call[p].obj = "frame" => ~ion
  PROVE  /\ \A q \in Procs : PointersInv(q)' /\ DescriptorsInv(q)'
         /\ \A q \in Procs, g \in Files :
              /\ Own(q, g)' => Own(q, g) \/ (q = p /\ call[p].obj = "frame" /\ g = f)
              /\ Got(q, g)' => Got(q, g)
              /\ Named(q, g)' => Named(q, g) \/ (q = p /\ call[p].obj # "frame" /\ g = f)
  <1>1. pc \in CallPC /\ CallInv(p)
    BY DEF CallPC, BaseInv
  <1>2. /\ call'[p].pc = pc /\ call'[p].obj = call[p].obj /\ call'[p].todo = call[p].todo
        /\ call'[p].file = f
        /\ (\A q \in Procs \ {p} : call'[q] = call[q])
        /\ fds'[p] = fds[p] \cup {f}
        /\ (\A q \in Procs \ {p} : fds'[q] = fds[q] /\ ptr'[q] = ptr[q])
        /\ (\A r \in Roles \ {Role(p)} : ptr'[p][r] = ptr[p][r])
        /\ UNCHANGED <<ion, vm, handles, flight, live>>
    BY <1>1, OpenedFacts DEF BaseInv
  <1>3. \A r \in Have(p) : r \in Roles /\ ptr'[p][r] = ptr[p][r]
    <2>1. Role(p) \notin Have(p) /\ Have(p) \subseteq Roles
      BY <1>1, HaveFacts DEF BaseInv
    <2> QED
      BY <1>2, <2>1
  <1>4. PointersInv(p)'
    <2>1. Have(p)' = Have(p)
      BY <1>2 DEF Have, Done
    <2>2. Have(p) \subseteq Roles /\ ptr[p] \in [Roles -> Addrs \cup {0}]
      BY <1>1, HaveFacts DEF BaseInv, MemoryTypeOK
    <2>3. OneToOne(Have(p), ptr[p], vm[p])
      BY DEF HoldInv, PointersInv
    <2>4. OneToOne(Have(p), ptr'[p], vm'[p])
      BY <1>2, <1>3, <2>2, <2>3, SameOneToOne
    <2> QED
      BY <2>1, <2>4 DEF PointersInv
  <1>5. ~HasFile(p) /\ HasFile(p)'
    BY <1>2 DEF HasFile
  <1>6. \A r \in {"frame", "import"} : r \in live[p] => ptr'[p][r] = ptr[p][r]
    BY <1>1, <1>3, HaveFacts DEF BaseInv
  <1>7. DescriptorsInv(p)'
    <2>1. FramesOf(p)' = FramesOf(p)
      BY <1>2, <1>6 DEF FramesOf
    <2>2. DescriptorsInv(p)
      BY DEF HoldInv
    <2> QED
      BY <1>2, <1>5, <2>1, <2>2 DEF DescriptorsInv
  <1>8. ASSUME NEW q \in Procs PROVE PointersInv(q)' /\ DescriptorsInv(q)'
    <2>1. CASE q # p
      BY <1>2, <2>1, HeldKept DEF HoldInv
    <2> QED
      BY <1>4, <1>7, <2>1
  <1>9. ASSUME NEW q \in Procs, NEW g \in Files
        PROVE  /\ Own(q, g)' => Own(q, g) \/ (q = p /\ call[p].obj = "frame" /\ g = f)
               /\ Got(q, g)' => Got(q, g)
               /\ Named(q, g)' => Named(q, g) \/ (q = p /\ call[p].obj # "frame" /\ g = f)
    <2>1. CASE q # p
      BY <1>2, <2>1, SetsKept
    <2>2. CASE q = p
      <3>1. call[p].obj # "import"
        BY <1>1 DEF CallInv
      <3> QED
        BY <1>2, <1>6, <2>2, <3>1 DEF Own, Got, Named, CallFile, FileOf
    <2> QED
      BY <2>1, <2>2
  <1> QED
    BY <1>8, <1>9

(* The open of a named file keeps the holding invariant.                  *)
LEMMA OpenHold ==
  ASSUME BaseInv, HoldInv, NEW p \in Procs, Open(p)
  PROVE  HoldInv'
  <1>1. PICK n \in Names, f \in Files, pc \in {"truncate", "stat"} :
           /\ call[p].pc = "open" /\ Role(p) \notin Frames /\ Opened(p, f, pc)
           /\ dir' = [dir EXCEPT ![n] = f]
           /\ dir[n] = f \/ Unused(f)
    BY OpenFacts DEF BaseInv
  <1>2. call[p].obj # "frame"
    BY <1>1, TodoFacts DEF BaseInv, Doing, Frames
  <1>3. pc \in {"unlink", "stat", "truncate"}
    OBVIOUS
  <1>4. /\ \A q \in Procs : PointersInv(q)' /\ DescriptorsInv(q)'
        /\ \A q \in Procs, g \in Files :
              /\ Own(q, g)' => Own(q, g)
              /\ Got(q, g)' => Got(q, g)
              /\ Named(q, g)' => Named(q, g) \/ g = f
    BY <1>1, <1>2, <1>3, OpenedHold
  <1>5. \A q \in Procs : ~Own(q, f) /\ ~Got(q, f)
    BY <1>1, FreshApart DEF HoldInv, ApartInv, Names
  <1>6. \A m \in Names : dir'[m] \in {dir[m], f}
    BY <1>1 DEF BaseInv, MemoryTypeOK
  <1>7. ApartInv'
    BY <1>4, <1>5, <1>6 DEF HoldInv, ApartInv, Names
  <1> QED
    BY <1>4, <1>7 DEF HoldInv

(* The open of a frame file keeps the holding invariant.                  *)
LEMMA OpenFrameHold ==
  ASSUME BaseInv, HoldInv, NEW p \in Procs, OpenFrame(p)
  PROVE  HoldInv'
  <1> DEFINE f == NewFile
  <1>1. f \in Files /\ Unused(f)
    BY NewFileFacts DEF OpenFrame
  <1>2. PICK pc \in {"unlink", "stat", "truncate"} : pc = "unlink"
    OBVIOUS
  <1>3. call[p].pc = "open" /\ Opened(p, f, pc) /\ dir' = dir /\ ~ion /\ Role(p) = "frame"
    BY <1>2 DEF OpenFrame, At
  <1> HIDE DEF f
  <1>4. call[p].obj = "frame"
    BY <1>3, TodoFacts DEF BaseInv, Doing
  <1>5. /\ \A q \in Procs : PointersInv(q)' /\ DescriptorsInv(q)'
        /\ \A q \in Procs, g \in Files :
              /\ Own(q, g)' => Own(q, g) \/ (q = p /\ g = f)
              /\ Got(q, g)' => Got(q, g)
              /\ Named(q, g)' => Named(q, g)
    BY <1>1, <1>3, <1>4, OpenedHold
  <1>6. ApartInv'
    BY <1>1, <1>3, <1>5, NewApart
  <1> QED
    BY <1>5, <1>6 DEF HoldInv

(* A mapping more.                                                         *)
LEMMA MappedHave ==
  ASSUME BaseInv, NEW p \in Procs, call[p].pc # "idle", NEW f \in Files, Mapped(p, f)
  PROVE  Have(p)' = Have(p) \cup {Role(p)} /\ ~HasFile(p)' /\ (Role(p) \in Frames => call[p].obj = Role(p))
         /\ (Role(p) \in Frames => live'[p] = live[p] \cup {Role(p)})
         /\ (Role(p) \notin Frames => live'[p] \cap Frames = live[p] \cap Frames)
  <1>1. CallInv(p)
    BY DEF BaseInv
  <1>2. /\ Role(p) # "fake_state" => call'[p] = Idle /\ live'[p] = live[p] \cup {call[p].obj}
        /\ Role(p) = "fake_state" =>
              live'[p] = live[p] /\ call'[p].pc = "open" /\ call'[p].todo = <<"sub_q">>
              /\ call'[p].obj = call[p].obj
    BY <1>1, MappedFacts DEF BaseInv
  <1>3. /\ Role(p) = "fake_state" => call[p].obj = "fake_sub"
        /\ Role(p) \in Frames => call[p].obj = Role(p)
        /\ Role(p) \notin Frames => call[p].obj \notin Frames
    BY <1>1, TodoFacts DEF BaseInv, Doing, Frames
  <1>4. ~HasFile(p)'
    BY <1>2, IdleFacts DEF HasFile
  <1>5. CASE Role(p) = "fake_state"
    <2>1. Done(p) = {} /\ Done(p)' = {"fake_state"}
      BY <1>1, <1>2, <1>3, <1>5, HaveFacts DEF Done, BaseInv
    <2>2. Have(p)' = Have(p) \cup {Role(p)}
      BY <1>2, <1>5, <2>1 DEF Have
    <2> QED
      BY <1>2, <1>3, <1>4, <1>5, <2>2 DEF Frames
  <1>6. CASE Role(p) # "fake_state"
    <2> DEFINE U == UNION {RolesOf(o) : o \in live[p]}
               V == UNION {RolesOf(o) : o \in live'[p]}
    <2>1. V = U \cup RolesOf(call[p].obj)
      BY <1>2, <1>6
    <2>2. Done(p)' = {} /\ RolesOf(call[p].obj) = {Role(p)} \cup Done(p)
      BY <1>1, <1>2, <1>6, HaveFacts, IdleFacts DEF Done, BaseInv
    <2>3. Have(p) = U \cup Done(p) /\ Have(p)' = V \cup Done(p)'
      BY DEF Have
    <2> HIDE DEF U, V
    <2>4. Have(p)' = Have(p) \cup {Role(p)}
      BY <2>1, <2>2, <2>3
    <2> QED
      BY <1>2, <1>3, <1>4, <1>6, <2>4
  <1> QED
    BY <1>5, <1>6

(* A successful mmap gives the role a pointer and the process one         *)
(* mapping.                                                               *)
LEMMA MappedHold ==
  ASSUME BaseInv, HoldInv, NEW p \in Procs, call[p].pc # "idle", NEW f \in Files, Mapped(p, f)
  PROVE  /\ PointersInv(p)'
         /\ FramesOf(p)' = FramesOf(p) \cup (IF Role(p) \in Frames THEN {f} ELSE {})
         /\ \A r \in Frames : /\ r \in live[p] => FileOf(p, r)' = FileOf(p, r)
                              /\ r = Role(p) => FileOf(p, r)' = f
  <1> DEFINE a == NewAddr(p)
  <1>1. CallInv(p) /\ f # 0
    BY MemoryAssumption DEF BaseInv
  <1>2. /\ a \in Addrs /\ a # 0 /\ vm[p][a] = NoMap /\ vm'[p][a] = [file |-> f, len |-> Length(p)]
        /\ (\A b \in Addrs \ {a} : vm'[p][b] = vm[p][b])
        /\ ptr'[p][Role(p)] = a
        /\ \A r \in Roles \ {Role(p)} : ptr'[p][r] = ptr[p][r]
    BY <1>1, MappedFacts DEF BaseInv
  <1>3. vm'[p][a] # NoMap /\ vm'[p][a].file = f
    BY <1>1, <1>2 DEF NoMap
  <1> HIDE DEF a
  <1>4. Have(p) \subseteq Roles /\ Role(p) \in Roles \ Have(p)
    BY <1>1, HaveFacts, TodoFacts, RolesFacts DEF BaseInv, Doing
  <1>5. ptr[p] \in [Roles -> Addrs \cup {0}] /\ OneToOne(Have(p), ptr[p], vm[p])
    BY DEF BaseInv, MemoryTypeOK, HoldInv, PointersInv
  <1>6. PointersInv(p)'
    <2>1. OneToOne(Have(p) \cup {Role(p)}, ptr'[p], vm'[p])
      BY <1>2, <1>3, <1>4, <1>5, MoreOneToOne
    <2> QED
      BY <2>1, MappedHave DEF PointersInv
  <1>7. ASSUME NEW r \in Frames, r \in live[p]
        PROVE  r # Role(p) /\ vm'[p][ptr'[p][r]].file = vm[p][ptr[p][r]].file
    <2>1. r \in Have(p) /\ r \in Roles
      BY <1>1, <1>4, <1>7, HaveFacts DEF BaseInv, Frames
    <2>2. ptr[p][r] \in Addrs /\ vm[p][ptr[p][r]] # NoMap /\ r # Role(p)
      BY <1>4, <1>5, <2>1 DEF OneToOne
    <2> QED
      BY <1>2, <2>1, <2>2
  <1>8. Role(p) \in Frames => vm'[p][ptr'[p][Role(p)]].file = f
    BY <1>2, <1>3
  <1>9. \A r \in Frames : /\ r \in live[p] => FileOf(p, r)' = FileOf(p, r)
                          /\ r = Role(p) => FileOf(p, r)' = f
    BY <1>7, <1>8 DEF FileOf
  <1>10. /\ FramesOf(p) = {vm[p][ptr[p][r]].file : r \in Frames \cap live[p]}
         /\ FramesOf(p)' = {vm'[p][ptr'[p][r]].file : r \in Frames \cap live'[p]}
    BY DEF FramesOf, Frames
  <1>11. CASE Role(p) \in Frames
    <2>1. live'[p] = live[p] \cup {Role(p)}
      BY <1>11, MappedHave
    <2>2. FramesOf(p)' = FramesOf(p) \cup {f}
      BY <1>7, <1>8, <1>10, <1>11, <2>1
    <2> QED
      BY <1>6, <1>9, <1>11, <2>2
  <1>12. CASE Role(p) \notin Frames
    <2>1. Frames \cap live'[p] = Frames \cap live[p]
      BY <1>12, MappedHave
    <2>2. FramesOf(p)' = FramesOf(p)
      BY <1>7, <1>10, <2>1
    <2> QED
      BY <1>6, <1>9, <1>12, <2>2
  <1> QED
    BY <1>11, <1>12

(* Whose file is whose when p has mapped one, which was its own already    *)
(* or is new.                                                              *)
LEMMA MappedSets ==
  ASSUME BaseInv, HoldInv, NEW p \in Procs, call[p].pc # "idle", NEW f \in Files, Mapped(p, f),
         NEW q \in Procs, NEW g \in Files
  PROVE  /\ Own(q, g)' => Own(q, g) \/ (q = p /\ Role(p) = "frame" /\ g = f)
         /\ Got(q, g)' => Got(q, g) \/ (q = p /\ Role(p) = "import" /\ g = f)
         /\ Named(q, g)' => Named(q, g)
  <1>1. CallInv(p)
    BY DEF BaseInv
  <1>2. /\ (\A r \in Procs \ {p} : vm'[r] = vm[r] /\ ptr'[r] = ptr[r] /\ call'[r] = call[r]
                                   /\ live'[r] = live[r])
        /\ flight' = flight
    BY <1>1, MappedFacts DEF BaseInv
  <1>3. CASE q # p
    BY <1>2, <1>3, SetsKept
  <1>4. CASE q = p
    <2>1. ~HasFile(p)'
      BY MappedHave
    <2>2. \A r \in Frames : /\ r \in live[p] => FileOf(p, r)' = FileOf(p, r)
                            /\ r = Role(p) => FileOf(p, r)' = f
      BY MappedHold
    <2>3. \A r \in Frames : r \in live'[p] => r \in live[p] \/ r = Role(p)
      BY MappedHave
    <2> QED
      BY <1>2, <1>4, <2>1, <2>2, <2>3 DEF Own, Got, Named, CallFile, Frames
  <1> QED
    BY <1>3, <1>4

(* The mmap of the file keeps the holding invariant.                      *)
LEMMA MapHold ==
  ASSUME BaseInv, HoldInv, NEW p \in Procs, Map(p)
  PROVE  HoldInv'
  <1> DEFINE f == call[p].file
  <1>1. call[p].pc = "map" /\ HasFile(p) /\ CallInv(p) /\ f \in fds[p]
    BY DEF Map, At, HasFile, BaseInv, CallInv
  <1>2. f \in Files /\ call[p].pc # "idle"
    BY <1>1 DEF BaseInv, MemoryTypeOK
  <1>3. /\ Mapped(p, f) /\ ion' = ion /\ dir' = dir
        /\ fds' = IF Role(p) \in Frames THEN fds ELSE [fds EXCEPT ![p] = @ \ {f}]
        /\ handles' = IF Role(p) = "import" /\ ion THEN [handles EXCEPT ![p] = @ \cup {f}] ELSE handles
    BY DEF Map, Mapped
  <1>4. CallFile(p, {call[p].obj}, f)
    BY <1>1 DEF CallFile
  <1> HIDE DEF f
  <1>5. /\ fds'[p] = IF Role(p) \in Frames THEN fds[p] ELSE fds[p] \ {f}
        /\ handles'[p] = IF Role(p) = "import" /\ ion THEN handles[p] \cup {f} ELSE handles[p]
        /\ (\A q \in Procs \ {p} : fds'[q] = fds[q] /\ handles'[q] = handles[q])
    BY <1>3 DEF BaseInv, MemoryTypeOK
  <1>6. /\ PointersInv(p)'
        /\ FramesOf(p)' = FramesOf(p) \cup (IF Role(p) \in Frames THEN {f} ELSE {})
    BY <1>2, <1>3, MappedHold
  <1>7. ~HasFile(p)' /\ (Role(p) \in Frames => call[p].obj = Role(p))
    BY <1>2, <1>3, MappedHave
  <1>8. fds[p] = FramesOf(p) \cup {f} /\ handles[p] = (IF ion THEN FramesOf(p) ELSE {})
        /\ (call[p].obj = "frame" => ~ion)
    BY <1>1 DEF HoldInv, DescriptorsInv, f
  <1>9. Role(p) \notin Frames => f \notin FramesOf(p)
    <2>1. Role(p) \notin Frames => Named(p, f)
      BY <1>1, <1>2, <1>4, TodoFacts DEF BaseInv, Doing, Frames, Named, CallFile
    <2>2. Named(p, f) => ~Own(p, f) /\ ~Got(p, f)
      BY <1>2 DEF HoldInv, ApartInv
    <2>3. f \in FramesOf(p) => Own(p, f) \/ Got(p, f)
      BY DEF FramesOf, FileOf, Own, Got
    <2> QED
      BY <2>1, <2>2, <2>3
  <1>10. DescriptorsInv(p)'
    <2>1. fds'[p] = FramesOf(p)'
      BY <1>5, <1>6, <1>8, <1>9
    <2>2. handles'[p] = IF ion THEN FramesOf(p)' ELSE {}
      <3>1. CASE Role(p) = "import"
        BY <1>5, <1>6, <1>8, <3>1 DEF Frames
      <3>2. CASE Role(p) = "frame"
        BY <1>5, <1>7, <1>8, <3>2 DEF Frames
      <3>3. CASE Role(p) \notin Frames
        BY <1>5, <1>6, <1>8, <3>3 DEF Frames
      <3> QED
        BY <3>1, <3>2, <3>3 DEF Frames
    <2> QED
      BY <1>3, <1>7, <2>1, <2>2 DEF DescriptorsInv
  <1>11. ASSUME NEW q \in Procs PROVE PointersInv(q)' /\ DescriptorsInv(q)'
    <2>1. CASE q # p
      <3>1. MemoryTypeOK /\ Mapped(p, f)
        BY <1>3 DEF BaseInv
      <3>2. UNCHANGED <<call[q], live[q], ptr[q], vm[q]>>
        BY <1>1, <1>2, <2>1, <3>1, MappedFacts
      <3> QED
        BY <1>3, <1>5, <2>1, <3>2, HeldKept DEF HoldInv
    <2> QED
      BY <1>6, <1>10, <2>1
  <1>12. ASSUME NEW q \in Procs, NEW g \in Files
         PROVE  /\ Own(q, g)' => Own(q, g)
                /\ Got(q, g)' => Got(q, g)
                /\ Named(q, g)' => Named(q, g)
    <2>1. Role(p) = "frame" => Own(p, f)
      BY <1>4, <1>7 DEF Own, CallFile, Frames
    <2>2. Role(p) = "import" => Got(p, f)
      BY <1>4, <1>7 DEF Got, CallFile, Frames
    <2> QED
      BY <1>2, <1>3, <2>1, <2>2, MappedSets
  <1>13. ApartInv'
    BY <1>3, <1>12, FewerApart DEF HoldInv
  <1> QED
    BY <1>11, <1>13 DEF HoldInv

(* The allocation by the ion driver keeps the holding invariant.          *)
LEMMA IonAllocateHold ==
  ASSUME BaseInv, HoldInv, NEW p \in Procs, IonAllocate(p)
  PROVE  HoldInv'
  <1> DEFINE f == NewFile
  <1>1. f \in Files /\ Unused(f)
    BY NewFileFacts DEF IonAllocate
  <1>2. /\ call[p].pc = "open" /\ Role(p) = "frame" /\ Mapped(p, f) /\ ion /\ ion' = ion /\ dir' = dir
        /\ fds' = [fds EXCEPT ![p] = @ \cup {f}] /\ handles' = [handles EXCEPT ![p] = @ \cup {f}]
    BY DEF IonAllocate, At, Mapped
  <1> HIDE DEF f
  <1>3. /\ fds'[p] = fds[p] \cup {f} /\ handles'[p] = handles[p] \cup {f}
        /\ (\A q \in Procs \ {p} : fds'[q] = fds[q] /\ handles'[q] = handles[q])
    BY <1>2 DEF BaseInv, MemoryTypeOK
  <1>4. PointersInv(p)' /\ FramesOf(p)' = FramesOf(p) \cup {f} /\ ~HasFile(p)'
    BY <1>1, <1>2, MappedHold, MappedHave DEF Frames
  <1>5. DescriptorsInv(p)'
    <2>1. fds[p] = FramesOf(p) /\ handles[p] = FramesOf(p)
      BY <1>2 DEF HoldInv, DescriptorsInv, HasFile
    <2> QED
      BY <1>2, <1>3, <1>4, <2>1 DEF DescriptorsInv
  <1>6. ASSUME NEW q \in Procs PROVE PointersInv(q)' /\ DescriptorsInv(q)'
    <2>1. CASE q # p
      <3>1. CallInv(p) /\ call[p].pc # "idle"
        BY <1>2 DEF BaseInv
      <3>2. UNCHANGED <<call[q], live[q], ptr[q], vm[q]>>
        BY <1>1, <1>2, <2>1, <3>1, MappedFacts DEF BaseInv
      <3> QED
        BY <1>2, <1>3, <2>1, <3>2, HeldKept DEF HoldInv
    <2> QED
      BY <1>4, <1>5, <2>1
  <1>7. ASSUME NEW q \in Procs, NEW g \in Files
        PROVE  /\ Own(q, g)' => Own(q, g) \/ (q = p /\ g = f)
               /\ Got(q, g)' => Got(q, g)
               /\ Named(q, g)' => Named(q, g)
    BY <1>1, <1>2, MappedSets
  <1>8. ApartInv'
    BY <1>1, <1>2, <1>7, NewApart
  <1> QED
    BY <1>6, <1>8 DEF HoldInv

-----------------------------------------------------------------------------
(* A system call that fails keeps the holding invariant.                  *)
LEMMA CallFailsHold ==
  ASSUME BaseInv, HoldInv, NEW p \in Procs, CallFails(p)
  PROVE  HoldInv'
  <1>1. CallInv(p) /\ call[p].pc # "idle" /\ Role(p) \notin Frames
        /\ call[p].pc \in {"open", "stat", "truncate", "map"}
    BY DEF BaseInv, CallFails
  <1>2. /\ Role(p) \in Queues => /\ call'[p].pc = "failed" /\ call'[p].obj = call[p].obj
                                 /\ call'[p].todo = call[p].todo
        /\ Role(p) \notin Queues => call'[p] = Idle
        /\ (\A q \in Procs \ {p} : call'[q] = call[q] /\ fds'[q] = fds[q] /\ ptr'[q] = ptr[q])
        /\ fds'[p] = fds[p] \ {call[p].file}
        /\ (\A r \in Roles \ {Role(p)} : ptr'[p][r] = ptr[p][r])
        /\ UNCHANGED <<ion, dir, vm, handles, flight, live>>
    BY <1>1, CallFailsFacts DEF BaseInv
  <1>3. \A r \in Have(p) : r \in Roles /\ ptr'[p][r] = ptr[p][r]
    <2>1. Role(p) \notin Have(p) /\ Have(p) \subseteq Roles
      BY <1>1, HaveFacts DEF BaseInv
    <2> QED
      BY <1>2, <2>1
  <1>4. PointersInv(p)'
    <2>1. Done(p)' = Done(p)
      <3>1. CASE Role(p) \in Queues
        BY <1>2, <3>1 DEF Done
      <3>2. CASE Role(p) \notin Queues
        <4>1. call[p].todo # <<"sub_q">>
          BY <1>1, <3>2, TodoFacts DEF BaseInv, Queues
        <4> QED
          BY <1>2, <3>2, <4>1, IdleFacts DEF Done
      <3> QED
        BY <3>1, <3>2
    <2>2. Have(p)' = Have(p)
      BY <1>2, <2>1 DEF Have
    <2>3. Have(p) \subseteq Roles /\ ptr[p] \in [Roles -> Addrs \cup {0}]
      BY <1>1, HaveFacts DEF BaseInv, MemoryTypeOK
    <2>4. OneToOne(Have(p), ptr[p], vm[p])
      BY DEF HoldInv, PointersInv
    <2>5. OneToOne(Have(p), ptr'[p], vm'[p])
      BY <1>2, <1>3, <2>3, <2>4, SameOneToOne
    <2> QED
      BY <2>2, <2>5 DEF PointersInv
  <1>5. ~HasFile(p)'
    BY <1>2, IdleFacts DEF HasFile
  <1>6. \A r \in {"frame", "import"} : r \in live[p] => ptr'[p][r] = ptr[p][r]
    BY <1>1, <1>3, HaveFacts DEF BaseInv
  <1>7. DescriptorsInv(p)'
    <2>1. FramesOf(p)' = FramesOf(p)
      BY <1>2, <1>6 DEF FramesOf
    <2>2. DescriptorsInv(p) /\ fds[p] \subseteq Files
      BY DEF HoldInv, BaseInv, MemoryTypeOK
    <2>3. fds[p] \ {call[p].file} = FramesOf(p)
      <3>1. CASE HasFile(p)
        <4>1. call[p].file \in Files /\ Named(p, call[p].file)
          BY <1>1, <3>1, TodoFacts DEF BaseInv, CallInv, MemoryTypeOK, Doing, Frames, Named, CallFile
        <4>2. ~Own(p, call[p].file) /\ ~Got(p, call[p].file)
          BY <4>1 DEF HoldInv, ApartInv
        <4>3. call[p].file \notin FramesOf(p)
          BY <4>2 DEF FramesOf, FileOf, Own, Got
        <4> QED
          BY <2>2, <3>1, <4>3 DEF DescriptorsInv
      <3>2. CASE ~HasFile(p)
        <4>1. call[p].file = 0
          BY <1>1, <3>2 DEF CallInv, HasFile
        <4>2. 0 \notin Files
          BY MemoryAssumption
        <4> QED
          BY <2>2, <3>2, <4>1, <4>2 DEF DescriptorsInv
      <3> QED
        BY <3>1, <3>2
    <2> QED
      BY <1>2, <1>5, <2>1, <2>2, <2>3 DEF DescriptorsInv
  <1>8. ASSUME NEW q \in Procs PROVE PointersInv(q)' /\ DescriptorsInv(q)'
    <2>1. CASE q # p
      BY <1>2, <2>1, HeldKept DEF HoldInv
    <2> QED
      BY <1>4, <1>7, <2>1
  <1>9. ASSUME NEW q \in Procs, NEW g \in Files
        PROVE  /\ Own(q, g)' => Own(q, g)
               /\ Got(q, g)' => Got(q, g)
               /\ Named(q, g)' => Named(q, g)
    <2>1. CASE q # p
      BY <1>2, <2>1, SetsKept
    <2>2. CASE q = p
      BY <1>2, <1>5, <1>6, <2>2 DEF Own, Got, Named, CallFile, FileOf
    <2> QED
      BY <2>1, <2>2
  <1>10. ApartInv'
    BY <1>2, <1>9, FewerApart DEF HoldInv
  <1> QED
    BY <1>8, <1>10 DEF HoldInv

-----------------------------------------------------------------------------
(* The object that a destructor is called for: one of the process between  *)
(* calls, or the one that could not be completed.                          *)
Released(p, o) == \/ call[p].pc = "idle" /\ o \in live[p]
                  \/ call[p].pc = "failed" /\ o = call[p].obj

(* A destructor takes the roles of its object, and no others, from those   *)
(* that have a mapping.                                                    *)
LEMMA ReleasedHave ==
  ASSUME BaseInv, NEW p \in Procs, NEW o \in DOMAIN Order, Release(p, o), Released(p, o)
  PROVE  /\ Have(p)' = Have(p) \ RolesOf(o)
         /\ RolesOf(o) \subseteq Roles /\ Have(p) \subseteq Roles
         /\ call[p].pc = "idle" => RolesOf(o) \subseteq Have(p)
         /\ call[p].pc = "failed" => RolesOf(o) \ Have(p) \subseteq {Role(p)}
  <1> DEFINE U == UNION {RolesOf(x) : x \in live[p]}
             V == UNION {RolesOf(x) : x \in live[p] \ {o}}
  <1>1. live'[p] = live[p] \ {o} /\ call'[p] = Idle /\ CallInv(p)
    BY ReleaseFacts DEF BaseInv
  <1>2. Have(p) = U \cup Done(p) /\ Have(p)' = V
    <2>1. Done(p)' = {}
      BY <1>1, IdleFacts DEF Done
    <2> QED
      BY <1>1, <2>1 DEF Have
  <1>3. RolesOf(o) \subseteq Roles /\ Have(p) \subseteq Roles
    BY <1>1, HaveFacts, OrderFacts, RolesFacts DEF BaseInv
  <1>4. CASE call[p].pc = "idle"
    <2>1. o \in live[p] /\ Done(p) = {} /\ live[p] \subseteq may[p] /\ live[p] \subseteq DOMAIN Order
          /\ ("sub" \notin may[p] \/ "fake_sub" \notin may[p])
      BY <1>1, <1>4, HaveFacts DEF BaseInv, CallInv, MemoryTypeOK, Released
    <2>2. ASSUME NEW x \in live[p], x # o, NEW r \in RolesOf(x) PROVE r \notin RolesOf(o)
      BY <2>1, <2>2, RolesFacts, OrderFacts
    <2>3. \A r : r \in U <=> \E x \in live[p] : r \in RolesOf(x)
      OBVIOUS
    <2>4. \A r : r \in V <=> \E x \in live[p] : x # o /\ r \in RolesOf(x)
      OBVIOUS
    <2> HIDE DEF U, V
    <2>5. V = U \ RolesOf(o) /\ RolesOf(o) \subseteq U
      BY <2>1, <2>2, <2>3, <2>4
    <2> QED
      BY <1>2, <1>3, <1>4, <2>1, <2>5
  <1>5. CASE call[p].pc = "failed"
    <2>1. o = call[p].obj /\ o \notin live[p] /\ Role(p) \in Queues
      BY <1>1, <1>5 DEF CallInv, Released
    <2>2. RolesOf(o) = {Role(p)} \cup Done(p) /\ RolesOf(o) \cap U = {} /\ V = U
      <3>1. Role(p) # "fake_state"
        BY <2>1 DEF Queues
      <3>2. live[p] \ {o} = live[p]
        BY <2>1
      <3> QED
        BY <1>1, <1>5, <2>1, <3>1, <3>2, HaveFacts DEF BaseInv
    <2> HIDE DEF U, V
    <2> QED
      BY <1>2, <1>3, <1>5, <2>2
  <1> QED
    BY <1>4, <1>5 DEF Released

(* What is unmapped is what the pointers of the object point to.           *)
LEMMA ReleasedWithout ==
  ASSUME BaseInv, NEW p \in Procs, NEW o \in DOMAIN Order, Release(p, o), RolesOf(o) \subseteq Roles
  PROVE  Without(RolesOf(o), ptr[p], vm[p], ptr'[p], vm'[p])
  <1>1. /\ (\A a \in Addrs : vm'[p][a] = IF a \in Unmapped(p, o) THEN NoMap ELSE vm[p][a])
        /\ (\A r \in Roles : ptr'[p][r] = IF r \in RolesOf(o) THEN 0 ELSE ptr[p][r])
    BY ReleaseFacts DEF BaseInv
  <1>2. ASSUME NEW a PROVE a \in Unmapped(p, o) <=> a # 0 /\ \E r \in RolesOf(o) : ptr[p][r] = a
    BY DEF Unmapped
  <1> QED
    BY <1>1, <1>2 DEF Without

(* An object less, if a destructor that follows a failure hits nothing.    *)
LEMMA ReleaseHold ==
  ASSUME BaseInv, HoldInv, NEW p \in Procs, NEW o \in DOMAIN Order, Release(p, o), Released(p, o),
         call[p].pc = "failed" => ~Hits(p)
  PROVE  HoldInv'
  <1>1. CallInv(p) /\ ~HasFile(p)
    BY DEF BaseInv, HasFile, Released
  <1>2. /\ (\A a \in Addrs : vm'[p][a] = IF a \in Unmapped(p, o) THEN NoMap ELSE vm[p][a])
        /\ fds'[p] = fds[p] \ Dropped(p, o) /\ handles'[p] = handles[p] \ Dropped(p, o)
        /\ (\A r \in Roles : ptr'[p][r] = IF r \in RolesOf(o) THEN 0 ELSE ptr[p][r])
        /\ live'[p] = live[p] \ {o} /\ call'[p] = Idle
        /\ dir'["segment"] = dir["segment"] /\ dir'["state"] \in {0, dir["state"]}
        /\ (\A q \in Procs \ {p} : /\ vm'[q] = vm[q] /\ fds'[q] = fds[q] /\ handles'[q] = handles[q]
                                   /\ ptr'[q] = ptr[q] /\ live'[q] = live[q] /\ call'[q] = call[q])
        /\ UNCHANGED <<ion, flight>>
    BY ReleaseFacts DEF BaseInv
  <1>3. ~HasFile(p)'
    BY <1>2, IdleFacts DEF HasFile
  <1>4. RolesOf(o) \subseteq Roles /\ Have(p) \subseteq Roles /\ ptr[p] \in [Roles -> Addrs \cup {0}]
    BY <1>1, HaveFacts, OrderFacts, RolesFacts DEF BaseInv, MemoryTypeOK
  <1>5. Have(p)' = Have(p) \ RolesOf(o)
    BY ReleasedHave
  <1>6. OneToOne(Have(p), ptr[p], vm[p]) /\ DescriptorsInv(p)
    BY DEF HoldInv, PointersInv
  <1>7. PointersInv(p)'
    <2>1. Without(RolesOf(o), ptr[p], vm[p], ptr'[p], vm'[p])
      BY <1>4, ReleasedWithout
    <2>2. \A r \in RolesOf(o) \ Have(p) : ptr[p][r] # 0 => vm[p][ptr[p][r]] = NoMap
      BY ReleasedHave DEF Released, Hits
    <2>3. OneToOne(Have(p) \ RolesOf(o), ptr'[p], vm'[p])
      BY <1>4, <1>6, <2>1, <2>2, LessOneToOne
    <2> QED
      BY <1>5, <2>3 DEF PointersInv
  <1>8. ASSUME NEW r \in Frames, r \in live'[p]
        PROVE  vm'[p][ptr'[p][r]].file = vm[p][ptr[p][r]].file
    <2>1. r \in live[p] /\ r # o /\ r \in Roles /\ r \in Have(p)
      BY <1>1, <1>2, <1>4, <1>8, HaveFacts DEF BaseInv, Frames
    <2>2. r \notin RolesOf(o)
      BY <2>1, OrderFacts, RolesFacts DEF Frames
    <2>3. ptr'[p][r] = ptr[p][r] /\ ptr[p][r] \in Addrs /\ ptr[p][r] # 0
      BY <1>2, <1>4, <1>6, <2>1, <2>2 DEF OneToOne
    <2>4. ASSUME NEW s \in RolesOf(o), ptr[p][s] = ptr[p][r] PROVE FALSE
      <3>1. vm[p][ptr[p][r]] # NoMap
        BY <1>6, <2>1 DEF OneToOne
      <3>2. s \in Have(p)
        BY <2>3, <2>4, <3>1, ReleasedHave DEF Released, Hits
      <3> QED
        BY <1>6, <2>1, <2>2, <2>4, <3>2 DEF OneToOne
    <2>5. ptr[p][r] \notin Unmapped(p, o)
      BY <2>4 DEF Unmapped
    <2> QED
      BY <1>2, <2>3, <2>5
  <1>9. /\ FramesOf(p) = {vm[p][ptr[p][r]].file : r \in Frames \cap live[p]}
        /\ FramesOf(p)' = {vm'[p][ptr'[p][r]].file : r \in Frames \cap live'[p]}
    BY DEF FramesOf, Frames
  <1>10. FramesOf(p)' = FramesOf(p) \ Dropped(p, o)
    <2>1. CASE o \notin Frames
      <3>1. Dropped(p, o) = {}
        BY <2>1 DEF Dropped
      <3>2. Frames \cap live'[p] = Frames \cap live[p]
        BY <1>2, <2>1
      <3> QED
        BY <1>8, <1>9, <3>1, <3>2
    <2>2. CASE o \in Frames
      <3>1. o \in live[p]
        <4>1. CASE call[p].pc = "failed"
          BY <1>1, <2>2, <4>1, TodoFacts DEF BaseInv, CallInv, Doing, Frames, Queues, Released
        <4> QED
          BY <4>1 DEF Released
      <3>2. RolesOf(o) = {o} /\ o \in Have(p)
        BY <1>1, <2>2, <3>1, HaveFacts, RolesFacts DEF BaseInv, Frames
      <3>3. ptr[p][o] # 0
        BY <1>4, <1>6, <3>2 DEF OneToOne
      <3>4. Unmapped(p, o) = {ptr[p][o]}
        BY <3>2, <3>3 DEF Unmapped
      <3>5. Dropped(p, o) = {vm[p][ptr[p][o]].file}
        BY <2>2, <3>4 DEF Dropped
      <3>6. \A r \in Frames \cap live[p] : FileOf(p, r) \in Files
        <4>1. FramesOf(p) \subseteq fds[p] /\ fds[p] \subseteq Files
          BY <1>6 DEF DescriptorsInv, BaseInv, MemoryTypeOK
        <4> QED
          BY <1>9, <4>1 DEF FileOf
      <3>7. ASSUME NEW r \in Frames \cap live[p], r # o PROVE vm[p][ptr[p][r]].file # vm[p][ptr[p][o]].file
        <4>1. ~(Own(p, FileOf(p, r)) /\ Got(p, FileOf(p, r)))
          BY <3>6 DEF HoldInv, ApartInv
        <4>2. (r = "frame" /\ o = "import") \/ (r = "import" /\ o = "frame")
          BY <2>2, <3>7 DEF Frames
        <4> QED
          BY <3>1, <3>7, <4>1, <4>2 DEF Own, Got, FileOf
      <3>8. Frames \cap live'[p] = (Frames \cap live[p]) \ {o}
        BY <1>2
      <3> QED
        BY <1>8, <1>9, <3>5, <3>7, <3>8
    <2> QED
      BY <2>1, <2>2
  <1>11. DescriptorsInv(p)'
    <2>1. fds[p] = FramesOf(p) /\ handles[p] = IF ion THEN FramesOf(p) ELSE {}
      BY <1>1, <1>6 DEF DescriptorsInv
    <2> QED
      BY <1>2, <1>3, <1>10, <2>1 DEF DescriptorsInv
  <1>12. ASSUME NEW q \in Procs PROVE PointersInv(q)' /\ DescriptorsInv(q)'
    <2>1. CASE q # p
      BY <1>2, <2>1, HeldKept DEF HoldInv
    <2> QED
      BY <1>7, <1>11, <2>1
  <1>13. ASSUME NEW q \in Procs, NEW g \in Files
         PROVE  /\ Own(q, g)' => Own(q, g)
                /\ Got(q, g)' => Got(q, g)
                /\ Named(q, g)' => Named(q, g)
    <2>1. CASE q # p
      BY <1>2, <2>1, SetsKept
    <2>2. CASE q = p
      <3>1. \A r \in Frames : r \in live'[p] => r \in live[p] /\ FileOf(p, r)' = FileOf(p, r)
        BY <1>2, <1>8 DEF FileOf
      <3> QED
        BY <1>2, <1>3, <2>2, <3>1 DEF Own, Got, Named, CallFile, Frames
    <2> QED
      BY <2>1, <2>2
  <1>14. ApartInv'
    BY <1>2, <1>13, FewerApart DEF HoldInv
  <1> QED
    BY <1>12, <1>14 DEF HoldInv

(* The death of a process keeps the holding invariant.                    *)
LEMMA DieHold ==
  ASSUME BaseInv, HoldInv, NEW p \in Procs, Die(p)
  PROVE  HoldInv'
  <1>1. /\ call'[p] = Idle /\ fds'[p] = {} /\ handles'[p] = {} /\ flight'[p] = 0 /\ live'[p] = {}
        /\ (\A a \in Addrs : vm'[p][a] = NoMap) /\ (\A r \in Roles : ptr'[p][r] = 0)
        /\ (\A q \in Procs \ {p} : /\ call'[q] = call[q] /\ fds'[q] = fds[q] /\ handles'[q] = handles[q]
                                   /\ flight'[q] = flight[q] /\ live'[q] = live[q]
                                   /\ vm'[q] = vm[q] /\ ptr'[q] = ptr[q])
        /\ UNCHANGED <<ion, dir>>
    BY DieFacts DEF BaseInv
  <1>2. ~HasFile(p)'
    BY <1>1, IdleFacts DEF HasFile
  <1>3. Have(p)' = {}
    <2>1. Done(p)' = {}
      BY <1>1, IdleFacts DEF Done
    <2> QED
      BY <1>1, <2>1 DEF Have
  <1>4. PointersInv(p)'
    BY <1>1, <1>3 DEF PointersInv, OneToOne, Owned
  <1>5. DescriptorsInv(p)'
    <2>1. FramesOf(p)' = {}
      BY <1>1 DEF FramesOf
    <2> QED
      BY <1>1, <1>2, <2>1 DEF DescriptorsInv
  <1>6. ASSUME NEW q \in Procs PROVE PointersInv(q)' /\ DescriptorsInv(q)'
    <2>1. CASE q # p
      BY <1>1, <2>1, HeldKept DEF HoldInv
    <2> QED
      BY <1>4, <1>5, <2>1
  <1>7. ASSUME NEW q \in Procs, NEW g \in Files
        PROVE  /\ Own(q, g)' => Own(q, g)
               /\ Got(q, g)' => Got(q, g)
               /\ Named(q, g)' => Named(q, g)
    <2>1. CASE q # p
      BY <1>1, <2>1, SetsKept
    <2>2. CASE q = p
      <3>1. g # 0
        BY MemoryAssumption
      <3> QED
        BY <1>1, <1>2, <2>2, <3>1 DEF Own, Got, Named, CallFile
    <2> QED
      BY <2>1, <2>2
  <1>8. ApartInv'
    BY <1>1, <1>7, FewerApart DEF HoldInv
  <1> QED
    BY <1>6, <1>8 DEF HoldInv

(* A server sending the descriptors of its frame keeps the holding        *)
(* invariant.                                                             *)
LEMMA SendFdsHold ==
  ASSUME BaseInv, HoldInv, NEW p \in Procs, NEW c \in Procs \ {p}, SendFds(p, c)
  PROVE  HoldInv'
  <1>1. /\ "frame" \in live[p] /\ flight'[c] = FileOf(p, "frame")
        /\ (\A q \in Procs \ {c} : flight'[q] = flight[q])
        /\ UNCHANGED <<ion, dir, fds, vm, handles, ptr, live, call>>
    BY SendFdsFacts
  <1>2. ASSUME NEW q \in Procs PROVE PointersInv(q)' /\ DescriptorsInv(q)'
    BY <1>1, HeldKept DEF HoldInv
  <1>3. Own(p, FileOf(p, "frame"))
    BY <1>1 DEF Own
  <1>4. ASSUME NEW q \in Procs, NEW g \in Files
        PROVE  /\ Own(q, g)' <=> Own(q, g)
               /\ Got(q, g)' => Got(q, g) \/ (q = c /\ Own(p, g))
               /\ Named(q, g)' <=> Named(q, g)
    <2>1. /\ Own(q, g)' <=> Own(q, g)
          /\ Named(q, g)' <=> Named(q, g)
          /\ q # c => (Got(q, g)' <=> Got(q, g))
      BY <1>1, SetsKept
    <2>2. CASE q = c
      <3>1. Got(c, g)' => Got(c, g) \/ g = FileOf(p, "frame")
        BY <1>1 DEF Got, CallFile, HasFile, FileOf
      <3> QED
        BY <1>3, <2>1, <2>2, <3>1
    <2> QED
      BY <2>1, <2>2
  <1>5. ApartInv'
    BY <1>1, <1>4 DEF HoldInv, ApartInv
  <1> QED
    BY <1>2, <1>5 DEF HoldInv

(* A client receiving a descriptor keeps the holding invariant.           *)
LEMMA RecvFdsHold ==
  ASSUME BaseInv, HoldInv, NEW p \in Procs, RecvFds(p)
  PROVE  HoldInv'
  <1>1. /\ call[p].pc = "idle" /\ call'[p].pc = "map" /\ call'[p].obj = "import"
        /\ call'[p].file = flight[p] /\ flight'[p] = 0 /\ fds'[p] = fds[p] \cup {flight[p]}
        /\ (\A q \in Procs \ {p} : call'[q] = call[q] /\ flight'[q] = flight[q] /\ fds'[q] = fds[q])
        /\ UNCHANGED <<ion, dir, vm, handles, ptr, live>>
    BY RecvFdsFacts DEF BaseInv
  <1>2. HasFile(p)' /\ ~HasFile(p)
    BY <1>1 DEF HasFile
  <1>3. PointersInv(p)'
    <2>1. Done(p) = {} /\ Done(p)' = {}
      BY <1>1, HaveFacts DEF Done, BaseInv
    <2>2. Have(p)' = Have(p)
      BY <1>1, <2>1 DEF Have
    <2> QED
      BY <1>1, <2>2 DEF HoldInv, PointersInv
  <1>4. DescriptorsInv(p)'
    <2>1. FramesOf(p)' = FramesOf(p)
      BY <1>1 DEF FramesOf
    <2> QED
      BY <1>1, <1>2, <2>1 DEF HoldInv, DescriptorsInv
  <1>5. ASSUME NEW q \in Procs PROVE PointersInv(q)' /\ DescriptorsInv(q)'
    <2>1. CASE q # p
      BY <1>1, <2>1, HeldKept DEF HoldInv
    <2> QED
      BY <1>3, <1>4, <2>1
  <1>6. ASSUME NEW q \in Procs, NEW g \in Files
        PROVE  /\ Own(q, g)' => Own(q, g)
               /\ Got(q, g)' => Got(q, g)
               /\ Named(q, g)' => Named(q, g)
    <2>1. CASE q # p
      BY <1>1, <2>1, SetsKept
    <2>2. CASE q = p
      <3>1. g # 0
        BY MemoryAssumption
      <3> QED
        BY <1>1, <1>2, <2>2, <3>1 DEF Own, Got, Named, CallFile, FileOf
    <2> QED
      BY <2>1, <2>2
  <1>7. ApartInv'
    BY <1>1, <1>6, FewerApart DEF HoldInv
  <1> QED
    BY <1>5, <1>7 DEF HoldInv

-----------------------------------------------------------------------------
(* Nothing is held at the start.                                          *)
LEMMA InitHold == MemoryInit => HoldInv
  <1> SUFFICES ASSUME MemoryInit PROVE HoldInv
    OBVIOUS
  <1>1. ASSUME NEW p \in Procs
        PROVE  /\ live[p] = {} /\ fds[p] = {} /\ handles[p] = {} /\ flight[p] = 0 /\ call[p] = Idle
               /\ \A r \in Roles : ptr[p][r] = 0
               /\ \A a \in Addrs : vm[p][a] = NoMap
    BY DEF MemoryInit
  <1>2. ASSUME NEW p \in Procs PROVE PointersInv(p) /\ DescriptorsInv(p)
    <2>1. Done(p) = {} /\ ~HasFile(p) /\ FramesOf(p) = {}
      BY <1>1, IdleFacts DEF Done, HasFile, FramesOf
    <2>2. Have(p) = {}
      BY <1>1, <2>1 DEF Have
    <2>3. PointersInv(p)
      BY <1>1, <2>2 DEF PointersInv, OneToOne, Owned
    <2>4. DescriptorsInv(p)
      BY <1>1, <2>1 DEF DescriptorsInv
    <2> QED
      BY <2>3, <2>4
  <1>3. ApartInv
    <2>1. ASSUME NEW p \in Procs, NEW f \in Files PROVE ~Own(p, f) /\ ~Got(p, f) /\ ~Named(p, f)
      BY <1>1, IdleFacts, MemoryAssumption DEF Own, Got, Named, CallFile, HasFile
    <2> QED
      BY <2>1 DEF ApartInv
  <1> QED
    BY <1>2, <1>3 DEF HoldInv

(* Every step but a wild unmap keeps the holding invariant.               *)
LEMMA NextHold ==
  ASSUME BaseInv, HoldInv, [MemoryNext /\ NoWildUnmap]_memVars
  PROVE  HoldInv'
  <1>1. CASE UNCHANGED memVars
    <2>1. UNCHANGED <<ion, dir, fds, vm, handles, flight, ptr, live, call>>
      BY <1>1 DEF memVars
    <2>2. ASSUME NEW q \in Procs PROVE PointersInv(q)' /\ DescriptorsInv(q)'
      BY <2>1, HeldKept DEF HoldInv
    <2>3. ApartInv'
      BY <2>1, SetsKept, FewerApart DEF HoldInv
    <2> QED
      BY <2>2, <2>3 DEF HoldInv
  <1>2. CASE MemoryNext /\ NoWildUnmap
    <2>1. PICK p \in Procs :
            \/ \E o \in may[p], n \in Sizes : Create(p, o, n)
            \/ \E o \in may[p] : Delete(p, o)
            \/ \E c \in Procs \ {p} : SendFds(p, c)
            \/ Open(p) \/ OpenFrame(p) \/ Unlink(p) \/ Stat(p) \/ Truncate(p) \/ Map(p)
            \/ IonAllocate(p) \/ CallFails(p) \/ DeleteFailed(p) \/ RecvFds(p) \/ Die(p)
      BY <1>2 DEF MemoryNext
    <2>2. CASE \E o \in may[p] : Delete(p, o)
      <3>1. PICK o \in DOMAIN Order : Delete(p, o)
        BY <2>2 DEF BaseInv, MemoryTypeOK
      <3> QED
        BY <3>1, ReleaseHold DEF Delete, At, Released
    <2>3. CASE DeleteFailed(p)
      <3>1. call[p].obj \in DOMAIN Order
        BY <2>3 DEF DeleteFailed, At, BaseInv, CallInv, MemoryTypeOK
      <3> QED
        BY <1>2, <2>3, <3>1, ReleaseHold DEF DeleteFailed, At, Released, NoWildUnmap
    <2> QED
      BY <2>1, <2>2, <2>3, CreateHold, SendFdsHold, OpenHold, OpenFrameHold, ProceedHold,
         MapHold, IonAllocateHold, CallFailsHold, RecvFdsHold, DieHold
  <1> QED
    BY <1>1, <1>2

-----------------------------------------------------------------------------
(* Which steps make, remove or take over mappings.                         *)
Plain(p) == \/ \E o \in may[p], n \in Sizes : Create(p, o, n)
            \/ \E c \in Procs \ {p} : SendFds(p, c)
            \/ Open(p) \/ OpenFrame(p) \/ Unlink(p) \/ Stat(p) \/ Truncate(p)
            \/ CallFails(p) \/ RecvFds(p)

(* The others leave the mappings, and the pointers of the roles that have  *)
(* one, as they are.                                                       *)
LEMMA PlainFacts ==
  ASSUME BaseInv, NEW p \in Procs, Plain(p)
  PROVE  /\ vm' = vm /\ live' = live
         /\ Done(p)' = Done(p) /\ \A q \in Procs \ {p} : call'[q] = call[q] /\ ptr'[q] = ptr[q]
         /\ \A r \in Have(p) : ptr'[p][r] = ptr[p][r]
  <1>1. CallInv(p) /\ Have(p) \subseteq Roles
    BY HaveFacts DEF BaseInv
  <1>2. CASE \E o \in may[p], n \in Sizes : Create(p, o, n)
    <2>1. PICK o \in may[p], n \in Sizes : Create(p, o, n)
      BY <1>2
    <2>2. /\ call[p].pc = "idle" /\ call'[p].obj = o /\ call'[p].todo = Order[o]
          /\ (\A q \in Procs \ {p} : call'[q] = call[q])
          /\ UNCHANGED <<vm, ptr, live>>
      BY <2>1, CreateFacts DEF BaseInv, At
    <2>3. Order["fake_sub"] # <<"sub_q">>
      <3> DEFINE s == <<"fake_state", "sub_q">>
                 t == <<"sub_q">>
      <3>1. s # t
        OBVIOUS
      <3> QED
        BY <3>1, OrderFacts
    <2>4. Done(p) = {} /\ Done(p)' = {}
      BY <1>1, <2>2, <2>3, HaveFacts DEF BaseInv, Done
    <2> QED
      BY <2>2, <2>4
  <1>3. CASE \E c \in Procs \ {p} : SendFds(p, c)
    BY <1>3, SendFdsFacts DEF Done
  <1>4. CASE Open(p) \/ OpenFrame(p)
    <2>1. PICK f \in Files, pc \in {"truncate", "stat", "unlink"} : call[p].pc = "open" /\ Opened(p, f, pc)
      BY <1>4, OpenFacts, NewFileFacts DEF BaseInv, OpenFrame, At
    <2>2. pc \in CallPC
      BY DEF CallPC
    <2>3. /\ call'[p].obj = call[p].obj /\ call'[p].todo = call[p].todo
          /\ (\A q \in Procs \ {p} : call'[q] = call[q] /\ ptr'[q] = ptr[q])
          /\ (\A r \in Roles \ {Role(p)} : ptr'[p][r] = ptr[p][r])
          /\ UNCHANGED <<vm, live>>
      BY <1>1, <2>1, <2>2, OpenedFacts DEF BaseInv
    <2>4. Role(p) \notin Have(p) /\ Done(p)' = Done(p)
      BY <1>1, <2>1, <2>3, HaveFacts DEF BaseInv, Done
    <2> QED
      BY <1>1, <2>3, <2>4
  <1>5. CASE Unlink(p) \/ Stat(p) \/ Truncate(p)
    <2>1. PICK pc \in CallPC : Goto(p, pc)
      BY <1>5 DEF Unlink, Stat, Truncate, CallPC
    <2>2. UNCHANGED <<vm, ptr, live>>
      BY <1>5 DEF Unlink, Stat, Truncate
    <2> QED
      BY <2>1, <2>2, GotoFacts DEF BaseInv, Done
  <1>6. CASE CallFails(p)
    <2>1. /\ Role(p) \in Queues => call'[p].obj = call[p].obj /\ call'[p].todo = call[p].todo
          /\ Role(p) \notin Queues => call'[p] = Idle
          /\ (\A q \in Procs \ {p} : call'[q] = call[q] /\ ptr'[q] = ptr[q])
          /\ (\A r \in Roles \ {Role(p)} : ptr'[p][r] = ptr[p][r])
          /\ UNCHANGED <<vm, live>>
      BY <1>1, <1>6, CallFailsFacts DEF BaseInv
    <2>2. call[p].pc # "idle" /\ Role(p) \notin Have(p)
      BY <1>1, <1>6, HaveFacts DEF BaseInv, CallFails
    <2>3. Done(p)' = Done(p)
      <3>1. CASE Role(p) \in Queues
        BY <2>1, <3>1 DEF Done
      <3>2. CASE Role(p) \notin Queues
        <4>1. call[p].todo # <<"sub_q">>
          BY <1>1, <2>2, <3>2, TodoFacts DEF BaseInv, Queues
        <4> QED
          BY <2>1, <3>2, <4>1, IdleFacts DEF Done
      <3> QED
        BY <3>1, <3>2
    <2> QED
      BY <1>1, <2>1, <2>2, <2>3
  <1>7. CASE RecvFds(p)
    <2>1. /\ call[p].pc = "idle" /\ call'[p].obj = "import"
          /\ (\A q \in Procs \ {p} : call'[q] = call[q])
          /\ UNCHANGED <<vm, ptr, live>>
      BY <1>7, RecvFdsFacts DEF BaseInv
    <2> QED
      BY <1>1, <2>1, HaveFacts DEF BaseInv, Done
  <1> QED
    BY <1>2, <1>3, <1>4, <1>5, <1>6, <1>7 DEF Plain

(* The mappings of other processes stay owned, and it is enough to look at *)
(* the one that moves.                                                     *)
LEMMA OthersOwned ==
  ASSUME OwnedInv, NEW p \in Procs, Owned(Have(p), ptr[p], vm[p])',
         \A q \in Procs \ {p} : UNCHANGED <<call[q], live[q], ptr[q], vm[q]>>
  PROVE  OwnedInv'
  <1>1. ASSUME NEW q \in Procs PROVE Owned(Have(q), ptr[q], vm[q])'
    <2>1. CASE q = p
      BY <2>1
    <2>2. CASE q # p
      <3>1. Have(q)' = Have(q)
        BY <2>2 DEF Have, Done
      <3> QED
        BY <2>2, <3>1 DEF OwnedInv
    <2> QED
      BY <2>1, <2>2
  <1> QED
    BY <1>1 DEF OwnedInv

(* Every step, a wild unmap too, keeps all mappings owned.                 *)
LEMMA NextOwned ==
  ASSUME BaseInv, OwnedInv, [MemoryNext]_memVars
  PROVE  OwnedInv'
  <1>1. CASE UNCHANGED memVars
    BY <1>1 DEF memVars, OwnedInv, Have, Done
  <1>2. CASE MemoryNext
    <2>1. PICK p \in Procs : \/ Plain(p) \/ Map(p) \/ IonAllocate(p) \/ Die(p) \/ DeleteFailed(p)
                             \/ \E o \in may[p] : Delete(p, o)
      BY <1>2 DEF MemoryNext, Plain
    <2>2. Owned(Have(p), ptr[p], vm[p]) /\ CallInv(p) /\ MemoryTypeOK
      BY DEF OwnedInv, BaseInv
    <2>3. CASE Plain(p)
      <3>1. Have(p)' = Have(p)
        BY <2>3, PlainFacts DEF Have
      <3>2. Owned(Have(p), ptr'[p], vm'[p])
        BY <2>2, <2>3, PlainFacts, SameOwned
      <3> QED
        BY <2>3, <3>1, <3>2, PlainFacts, OthersOwned
    <2>4. CASE Map(p) \/ IonAllocate(p)
      <3>1. PICK f \in Files : Mapped(p, f) /\ call[p].pc # "idle"
        BY <2>2, <2>4, NewFileFacts DEF Map, IonAllocate, At, HasFile, CallInv, MemoryTypeOK
      <3>2. Role(p) \notin Have(p) /\ Have(p) \subseteq Roles
        BY <2>2, <3>1, HaveFacts
      <3>3. PICK a \in Addrs :
              /\ (\A b \in Addrs \ {a} : vm'[p][b] = vm[p][b]) /\ ptr'[p][Role(p)] = a
              /\ \A r \in Roles \ {Role(p)} : ptr'[p][r] = ptr[p][r]
        BY <2>2, <3>1, MappedFacts
      <3>4. Owned(Have(p) \cup {Role(p)}, ptr'[p], vm'[p])
        BY <2>2, <3>2, <3>3, MoreOwned
      <3>5. \A q \in Procs \ {p} : UNCHANGED <<call[q], live[q], ptr[q], vm[q]>>
        BY <2>2, <3>1, MappedFacts
      <3> QED
        BY <3>1, <3>4, <3>5, MappedHave, OthersOwned
    <2>5. CASE DeleteFailed(p) \/ \E o \in may[p] : Delete(p, o)
      <3>1. PICK o \in DOMAIN Order : Release(p, o) /\ Released(p, o)
        BY <2>2, <2>5 DEF DeleteFailed, Delete, At, Released, CallInv, MemoryTypeOK
      <3>2. Owned(Have(p) \ RolesOf(o), ptr'[p], vm'[p])
        BY <2>2, <3>1, ReleasedHave, ReleasedWithout, LessOwned
      <3>3. \A q \in Procs \ {p} : UNCHANGED <<call[q], live[q], ptr[q], vm[q]>>
        BY <2>2, <3>1, ReleaseFacts
      <3> QED
        BY <3>1, <3>2, <3>3, ReleasedHave, OthersOwned
    <2>6. CASE Die(p)
      <3>1. (\A a \in Addrs : vm'[p][a] = NoMap)
            /\ \A q \in Procs \ {p} : UNCHANGED <<call[q], live[q], ptr[q], vm[q]>>
        BY <2>2, <2>6, DieFacts
      <3>2. Owned(Have(p), ptr[p], vm[p])'
        BY <3>1 DEF Owned
      <3> QED
        BY <3>1, <3>2, OthersOwned
    <2> QED
      BY <2>1, <2>3, <2>4, <2>5, <2>6
  <1> QED
    BY <1>1, <1>2

(* Whatever memory held before a queue was made in it, every mapping that  *)
(* a process has between calls is one of an object that it has: no failed  *)
(* connect and no destructor leaves any behind.                            *)
THEOREM NothingLeaks == MemorySpec => []MappingsOwned
  <1>1. MemoryInit => OwnedInv
    BY DEF MemoryInit, OwnedInv, Owned
  <1>2. BaseInv /\ OwnedInv /\ [MemoryNext]_memVars => OwnedInv'
    BY NextOwned
  <1>3. BaseInv /\ OwnedInv => MappingsOwned
    <2> SUFFICES ASSUME BaseInv, OwnedInv, NEW p \in Procs, At(p, "idle"),
                        NEW a \in Addrs, vm[p][a] # NoMap
                 PROVE  a \in MappingsOf(p)
      BY DEF MappingsOwned
    <2>1. Have(p) = UNION {RolesOf(o) : o \in live[p]}
      <3>1. Done(p) = {}
        BY HaveFacts DEF BaseInv, At
      <3> QED
        BY <3>1 DEF Have
    <2>2. PICK r \in Have(p) : ptr[p][r] = a
      BY DEF OwnedInv, Owned
    <2> QED
      BY <2>1, <2>2 DEF MappingsOf
  <1> QED
    BY <1>1, <1>2, <1>3, AlwaysBase, PTL DEF MemorySpec

(* As long as no destructor of a queue that could not be connected unmaps  *)
(* by a pointer that happens to be in use, a process between calls holds   *)
(* the mappings, descriptors and ion handles of its objects and no others: *)
(* nothing leaks, and nothing that an object still uses is taken from it.  *)
THEOREM HoldsAll == CarefulSpec => []HoldsExactly
  <1>1. MemoryInit => HoldInv
    BY InitHold
  <1>2. BaseInv /\ HoldInv /\ [MemoryNext /\ NoWildUnmap]_memVars => HoldInv'
    BY NextHold
  <1>3. BaseInv /\ HoldInv => HoldsExactly
    <2> SUFFICES ASSUME BaseInv, HoldInv, NEW p \in Procs, At(p, "idle")
                 PROVE  /\ {a \in Addrs : vm[p][a] # NoMap} = MappingsOf(p)
                        /\ fds[p] = FramesOf(p)
                        /\ handles[p] = IF ion THEN FramesOf(p) ELSE {}
      BY DEF HoldsExactly
    <2> DEFINE U == UNION {RolesOf(o) : o \in live[p]}
    <2>1. ~HasFile(p) /\ call[p].pc = "idle"
      BY DEF At, HasFile
    <2>2. Have(p) = U /\ U \subseteq Roles
      <3>1. Done(p) = {} /\ Have(p) \subseteq Roles
        BY <2>1, HaveFacts DEF BaseInv
      <3> QED
        BY <3>1 DEF Have
    <2>3. OneToOne(U, ptr[p], vm[p]) /\ ptr[p] \in [Roles -> Addrs \cup {0}]
      BY <2>2 DEF HoldInv, PointersInv, BaseInv, MemoryTypeOK
    <2>4. fds[p] = FramesOf(p) /\ handles[p] = IF ion THEN FramesOf(p) ELSE {}
      BY <2>1 DEF HoldInv, DescriptorsInv
    <2>5. MappingsOf(p) = {ptr[p][r] : r \in U}
      BY DEF MappingsOf
    <2> HIDE DEF U
    <2>6. {a \in Addrs : vm[p][a] # NoMap} = {ptr[p][r] : r \in U}
      <3>1. \A r \in U : ptr[p][r] \in Addrs /\ vm[p][ptr[p][r]] # NoMap
        BY <2>2, <2>3 DEF OneToOne
      <3> QED
        BY <2>3, <3>1 DEF OneToOne, Owned
    <2> QED
      BY <2>4, <2>5, <2>6
  <1>4. CarefulSpec => MemorySpec
    BY PTL DEF CarefulSpec, MemorySpec
  <1> QED
    BY <1>1, <1>2, <1>3, <1>4, AlwaysBase, PTL DEF CarefulSpec
=============================================================================

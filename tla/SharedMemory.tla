---------------------------- MODULE SharedMemory ----------------------------
(***************************************************************************)
(* How the memory that processes share comes about, is mapped, and goes:   *)
(*                                                                         *)
(*   segment  the file of an endpoint, opened, truncated and mapped by     *)
(*            every SubSocket and PubSocket, and never removed             *)
(*   state    the EventState of an endpoint, mapped by event handles and   *)
(*            by SubSockets in fake mode, removed by its handle            *)
(*   frame    a VisionBuf, which has a name for a moment only (or never,   *)
(*            if ion provides it) and is shared by passing its descriptor  *)
(*                                                                         *)
(* There is one step per system call whose effect others can see; each may *)
(* fail, and a process may be killed between any two.  A failed assert is  *)
(* a way to be killed.  Lengths are in units of the shortest.              *)
(***************************************************************************)
EXTENDS Integers, Sequences, FiniteSets

CONSTANTS
  Procs,
  Scenarios,   (* which process may create which kinds of objects           *)
  Files,       (* the files that may exist at a time                        *)
  Addrs,       (* the addresses where mappings may be                       *)
  Sizes,       (* the segment sizes in use                                  *)
  Heap         (* what uninitialised memory may hold: "zero", "stale"       *)

(* The roles a mapping plays in an object, in the order they are opened.   *)
Order == [sub      |-> <<"sub_q">>,
          fake_sub |-> <<"fake_state", "sub_q">>,
          pub      |-> <<"pub_q">>,
          handle   |-> <<"state">>,
          frame    |-> <<"frame">>,
          import   |-> <<"import">>]
RolesOf(o) == {Order[o][i] : i \in DOMAIN Order[o]}
Roles  == UNION {RolesOf(o) : o \in DOMAIN Order}
Queues == {"sub_q", "pub_q"}
States == {"fake_state", "state"}
Frames == {"frame", "import"}

(* Fake mode is one of a whole process.                                    *)
ASSUME MemoryAssumption ==
  /\ (Files \cup Addrs \cup Sizes) \subseteq Nat \ {0}
  /\ Scenarios \subseteq [Procs -> SUBSET DOMAIN Order]
  /\ \A m \in Scenarios, p \in Procs : "sub" \notin m[p] \/ "fake_sub" \notin m[p]
  /\ Heap \subseteq {"zero", "stale"}

VARIABLES
  may,      (* the scenario, a member of Scenarios                          *)
  ion,      (* the build: frames from ion, or from /dev/shm                 *)
  dir,      (* the files named "segment" and "state", 0 for none            *)
  linked,   (* the frames that have a name                                  *)
  size,     (* the length of each file                                      *)
  fds,      (* per process, the files it has descriptors of                 *)
  vm,       (* per process and address, what is mapped there                *)
  handles,  (* per process, the frames it has ion handles of                *)
  flight,   (* per process, the frame in a message to it, 0 for none        *)
  ptr,      (* per process and role, the pointer to the mapping, 0 for null *)
  old,      (* per process, the mmap_p that freed memory still holds        *)
  live,     (* per process, the objects it has                              *)
  call      (* per process, the call in progress                            *)

memVars == <<may, ion, dir, linked, size, fds, vm, handles, flight, ptr, old, live, call>>

NoMap == [file |-> 0, len |-> 0]
Idle  == [pc |-> "idle", obj |-> "none", todo |-> <<>>, want |-> 0, file |-> 0]

MemoryInit ==
  /\ may \in Scenarios
  /\ ion \in BOOLEAN
  /\ dir = [n \in {"segment", "state"} |-> 0]
  /\ linked = {}
  /\ size    = [f \in Files |-> 0]
  /\ fds     = [p \in Procs |-> {}]
  /\ vm      = [p \in Procs |-> [a \in Addrs |-> NoMap]]
  /\ handles = [p \in Procs |-> {}]
  /\ flight  = [p \in Procs |-> 0]
  /\ ptr     = [p \in Procs |-> [r \in Roles |-> 0]]
  /\ old     = [p \in Procs |-> 0]
  /\ live    = [p \in Procs |-> {}]
  /\ call    = [p \in Procs |-> Idle]

(* The kernel keeps a file while it has a name or somebody refers to it.   *)
Referred(f) == \E p \in Procs : \/ f \in fds[p] \cup handles[p] \cup {flight[p]}
                                \/ \E a \in Addrs : vm[p][a].file = f
Unused(f) == ~Referred(f) /\ f \notin linked \cup {dir["segment"], dir["state"]}

(* Files and addresses are interchangeable: the first that is free is      *)
(* taken, so that an address is used again as soon as it can be.           *)
NewFile    == CHOOSE f \in Files : Unused(f) /\ \A g \in Files : Unused(g) => f <= g
NewAddr(p) == CHOOSE a \in Addrs : vm[p][a] = NoMap /\ \A b \in Addrs : vm[p][b] = NoMap => a <= b
Room       == \E f \in Files : Unused(f)

At(p, pc)    == call[p].pc = pc
Role(p)      == Head(call[p].todo)
Goto(p, pc)  == call' = [call EXCEPT ![p].pc = pc]
Length(p)    == IF Role(p) \in Queues THEN call[p].want ELSE 1

-----------------------------------------------------------------------------
(* SubSocket::create, PubSocket::create, SocketEventHandle and allocate.   *)
Create(p, o, n) ==
  /\ At(p, "idle") /\ o \in may[p] \ (live[p] \cup {"import"})
  /\ call' = [call EXCEPT ![p] = [pc |-> "open", obj |-> o, todo |-> Order[o],
                                  want |-> n, file |-> 0]]
  /\ UNCHANGED <<may, ion, dir, linked, size, fds, vm, handles, flight, ptr, old, live>>

(* new msgq_queue_t leaves mmap_p as the memory was.                       *)
NewPointer(p, q) ==
  \E h \in Heap : q = IF Role(p) \in Queues /\ h = "stale" THEN old[p] ELSE 0

Opened(p, f, pc) ==
  /\ fds' = [fds EXCEPT ![p] = @ \cup {f}]
  /\ call' = [call EXCEPT ![p].pc = pc, ![p].file = f]
  /\ \E q \in Addrs \cup {0} : NewPointer(p, q) /\ ptr' = [ptr EXCEPT ![p][Role(p)] = q]
  /\ UNCHANGED <<may, ion, vm, handles, flight, old, live>>

(* open or shm_open with O_CREAT: the file of that name, or a new one.     *)
Open(p) ==
  /\ At(p, "open") /\ Role(p) \notin Frames
  /\ LET n == IF Role(p) \in Queues THEN "segment" ELSE "state"
         f == IF dir[n] # 0 THEN dir[n] ELSE NewFile
     IN  /\ dir[n] # 0 \/ Room
         /\ dir' = [dir EXCEPT ![n] = f]
         /\ size' = IF dir[n] = 0 THEN [size EXCEPT ![f] = 0] ELSE size
         /\ Opened(p, f, IF n = "segment" THEN "truncate" ELSE "stat")
  /\ UNCHANGED linked

(* A mutant: the path of a frame is not removed.                           *)
OpenFrameLinked(p) ==
  /\ At(p, "open") /\ Role(p) = "frame" /\ ~ion /\ Room
  /\ linked' = linked \cup {NewFile}
  /\ size' = [size EXCEPT ![NewFile] = 0]
  /\ Opened(p, NewFile, "truncate")
  /\ UNCHANGED dir

(* The same of malloc_with_fd, whose path no other process uses.           *)
OpenFrame(p) ==
  /\ At(p, "open") /\ Role(p) = "frame" /\ ~ion /\ Room
  /\ linked' = linked \cup {NewFile}
  /\ size' = [size EXCEPT ![NewFile] = 0]
  /\ Opened(p, NewFile, "unlink")
  /\ UNCHANGED dir

Unlink(p) ==
  /\ At(p, "unlink")
  /\ linked' = linked \ {call[p].file}
  /\ Goto(p, "truncate")
  /\ UNCHANGED <<may, ion, dir, size, fds, vm, handles, flight, ptr, old, live>>

(* A mutant: only the process that creates the EventState gives it a size. *)
StatExisting(p) ==
  /\ At(p, "stat")
  /\ Goto(p, IF \E q \in Procs \ {p} : call[p].file \in fds[q] THEN "map" ELSE "truncate")
  /\ UNCHANGED <<may, ion, dir, linked, size, fds, vm, handles, flight, ptr, old, live>>

(* fstat: "only size it once".                                             *)
Stat(p) ==
  /\ At(p, "stat")
  /\ Goto(p, IF size[call[p].file] < Length(p) THEN "truncate" ELSE "map")
  /\ UNCHANGED <<may, ion, dir, linked, size, fds, vm, handles, flight, ptr, old, live>>

Truncate(p) ==
  /\ At(p, "truncate")
  /\ size' = [size EXCEPT ![call[p].file] = Length(p)]
  /\ Goto(p, "map")
  /\ UNCHANGED <<may, ion, dir, linked, fds, vm, handles, flight, ptr, old, live>>

(* mmap at some address that is free, of file f.  The descriptor of a      *)
(* frame is kept, the others are closed.  The object is complete, or has   *)
(* one more role to open.                                                  *)
Mapped(p, f) ==
  /\ \E a \in Addrs : vm[p][a] = NoMap
  /\ vm' = [vm EXCEPT ![p][NewAddr(p)] = [file |-> f, len |-> Length(p)]]
  /\ ptr' = [ptr EXCEPT ![p][Role(p)] = NewAddr(p)]
  /\ IF Len(call[p].todo) = 1
       THEN /\ live' = [live EXCEPT ![p] = @ \cup {call[p].obj}]
            /\ call' = [call EXCEPT ![p] = Idle]
       ELSE /\ call' = [call EXCEPT ![p].pc = "open", ![p].todo = Tail(@), ![p].file = 0]
            /\ UNCHANGED live
  /\ UNCHANGED <<may, ion, dir, linked, flight, old>>

Map(p) ==
  /\ At(p, "map")
  /\ Mapped(p, call[p].file)
  /\ fds' = IF Role(p) \in Frames THEN fds ELSE [fds EXCEPT ![p] = @ \ {call[p].file}]
  /\ handles' = IF Role(p) = "import" /\ ion
                  THEN [handles EXCEPT ![p] = @ \cup {call[p].file}] ELSE handles
  /\ UNCHANGED size

(* allocate with ion: ION_IOC_ALLOC, ION_IOC_SHARE, mmap.                  *)
IonAllocate(p) ==
  /\ At(p, "open") /\ Role(p) = "frame" /\ ion /\ Room
  /\ size' = [size EXCEPT ![NewFile] = Length(p)]
  /\ handles' = [handles EXCEPT ![p] = @ \cup {NewFile}]
  /\ fds' = [fds EXCEPT ![p] = @ \cup {NewFile}]
  /\ Mapped(p, NewFile)

(* A mutant: the descriptor stays open.                                    *)
KeepFd(p)  == UNCHANGED fds
CloseFd(p) == fds' = [fds EXCEPT ![p] = @ \ {call[p].file}]

(* A call fails: its descriptor is closed, and connect returns -1, or      *)
(* event_state_shm_mmap throws.  Frames assert instead.                    *)
CallFails(p) ==
  /\ call[p].pc \in {"open", "stat", "truncate", "map"} /\ Role(p) \notin Frames
  /\ IF At(p, "open")
       THEN \E q \in Addrs \cup {0} : NewPointer(p, q) /\ ptr' = [ptr EXCEPT ![p][Role(p)] = q]
       ELSE UNCHANGED ptr
  /\ CloseFd(p)
  /\ call' = [call EXCEPT ![p] = IF Role(p) \in Queues THEN [@ EXCEPT !.pc = "failed"] ELSE Idle]
  /\ UNCHANGED <<may, ion, dir, linked, size, vm, handles, flight, old, live>>

-----------------------------------------------------------------------------
(* The destructor of object o: it unmaps whatever its pointers point to.   *)
(* An event handle removes the name, a frame drops descriptor and handle.  *)
Release(p, o) ==
  LET as == {ptr[p][r] : r \in RolesOf(o)} \ {0}
      mine == IF o \in Frames THEN {vm[p][a].file : a \in as} ELSE {}
  IN /\ vm' = [vm EXCEPT ![p] = [a \in Addrs |-> IF a \in as THEN NoMap ELSE @[a]]]
     /\ fds' = [fds EXCEPT ![p] = @ \ mine]
     /\ handles' = [handles EXCEPT ![p] = @ \ mine]
     /\ dir' = IF o = "handle" THEN [dir EXCEPT !["state"] = 0] ELSE dir
     /\ old' = [old EXCEPT ![p] = IF o = "handle" \/ o \in Frames THEN @
                                  ELSE ptr[p][Order[o][Len(Order[o])]]]
     /\ ptr' = [ptr EXCEPT ![p] = [r \in Roles |-> IF r \in RolesOf(o) THEN 0 ELSE @[r]]]
     /\ live' = [live EXCEPT ![p] = @ \ {o}]
     /\ call' = [call EXCEPT ![p] = Idle]
     /\ UNCHANGED <<may, ion, linked, size, flight>>

Delete(p, o) == At(p, "idle") /\ o \in live[p] /\ Release(p, o)

(* create deletes a socket that could not connect.                         *)
DeleteFailed(p) == At(p, "failed") /\ Release(p, call[p].obj)

(* The listener of p sends client c the descriptor of its frame.           *)
SendFds(p, c) ==
  /\ "frame" \in live[p]
  /\ "import" \in may[c] \ live[c] /\ At(c, "idle") /\ flight[c] = 0
  /\ flight' = [flight EXCEPT ![c] = vm[p][ptr[p]["frame"]].file]
  /\ UNCHANGED <<may, ion, dir, linked, size, fds, vm, handles, ptr, old, live, call>>

(* recvmsg installs it, and import maps it.                                *)
RecvFds(p) ==
  /\ At(p, "idle") /\ flight[p] # 0
  /\ fds' = [fds EXCEPT ![p] = @ \cup {flight[p]}]
  /\ flight' = [flight EXCEPT ![p] = 0]
  /\ call' = [call EXCEPT ![p] = [pc |-> "map", obj |-> "import", todo |-> Order["import"],
                                  want |-> 0, file |-> flight[p]]]
  /\ UNCHANGED <<may, ion, dir, linked, size, vm, handles, ptr, old, live>>

(* The process is killed, or an assert fails; names stay.                  *)
Die(p) ==
  /\ live[p] # {} \/ ~At(p, "idle")
  /\ fds'     = [fds EXCEPT ![p] = {}]
  /\ vm'      = [vm EXCEPT ![p] = [a \in Addrs |-> NoMap]]
  /\ handles' = [handles EXCEPT ![p] = {}]
  /\ flight'  = [flight EXCEPT ![p] = 0]
  /\ ptr'     = [ptr EXCEPT ![p] = [r \in Roles |-> 0]]
  /\ old'     = [old EXCEPT ![p] = 0]
  /\ live'    = [live EXCEPT ![p] = {}]
  /\ call'    = [call EXCEPT ![p] = Idle]
  /\ UNCHANGED <<may, ion, dir, linked, size>>

MemoryNext ==
  \E p \in Procs :
    \/ \E o \in may[p], n \in Sizes : Create(p, o, n)
    \/ \E o \in may[p] : Delete(p, o)
    \/ \E c \in Procs \ {p} : SendFds(p, c)
    \/ Open(p) \/ OpenFrame(p) \/ Unlink(p) \/ Stat(p) \/ Truncate(p) \/ Map(p)
    \/ IonAllocate(p) \/ CallFails(p) \/ DeleteFailed(p) \/ RecvFds(p) \/ Die(p)

MemorySpec == MemoryInit /\ [][MemoryNext]_memVars

(***************************************************************************)
(* A queue that could not be connected has a pointer that nobody has set.  *)
(* If it is null, or an address where nothing is, the destructor unmaps    *)
(* nothing by it; if it happens to be in use again, the destructor takes   *)
(* the memory from another object.  CarefulSpec excludes the latter, and   *)
(* only the latter.  Behind such a step MemorySpec is about mappings only: *)
(* a frame has its descriptor no longer where it has lost its mapping.     *)
(***************************************************************************)
Hits(p) == LET a == ptr[p][Role(p)] IN a # 0 /\ vm[p][a] # NoMap
NoWildUnmap == \A p \in Procs : DeleteFailed(p) => ~Hits(p)

CarefulSpec == MemoryInit /\ [][MemoryNext /\ NoWildUnmap]_memVars

-----------------------------------------------------------------------------
(* Every mapping lies within its file, at every moment: no access raises   *)
(* SIGBUS, whoever opens, truncates, fails or dies in which order.         *)
Backed == \A p \in Procs, a \in Addrs :
            vm[p][a] # NoMap => vm[p][a].len <= size[vm[p][a].file]

(* Between calls every mapping is one of an object that the process has:   *)
(* no constructor that failed half-way, and no destructor, has left one,   *)
(* whatever the pointers that nobody had set.                              *)
MappingsOf(p) == {ptr[p][r] : r \in UNION {RolesOf(o) : o \in live[p]}}
MappingsOwned ==
  \A p \in Procs : At(p, "idle") => {a \in Addrs : vm[p][a] # NoMap} \subseteq MappingsOf(p)

(* Between calls a process holds what its objects need and nothing else:   *)
(* each object has its mapping, a frame its descriptor and ion handle, and *)
(* no failed or finished call has left anything, or taken anything away.   *)
FramesOf(p) == {vm[p][ptr[p][r]].file : r \in {"frame", "import"} \cap live[p]}
HoldsExactly ==
  \A p \in Procs : At(p, "idle") =>
    /\ {a \in Addrs : vm[p][a] # NoMap} = MappingsOf(p)
    /\ fds[p] = FramesOf(p)
    /\ handles[p] = IF ion THEN FramesOf(p) ELSE {}

(* A server that dies while it allocates leaves at most an empty file in   *)
(* /dev/shm: malloc_with_fd unlinks the path before it takes any memory.   *)
NothingLeftBehind == \A f \in linked : Referred(f) \/ size[f] = 0

(***************************************************************************)
(* Refuted: all who share an endpoint's EventState share one.  The handle  *)
(* removes the name while a SubSocket may still have it mapped, and the    *)
(* next handle makes another one.                                          *)
(***************************************************************************)
OneState ==
  \A p, q \in Procs, r, s \in States :
    (ptr[p][r] # 0 /\ ptr[q][s] # 0)
      => vm[p][ptr[p][r]].file = vm[q][ptr[q][s]].file
=============================================================================

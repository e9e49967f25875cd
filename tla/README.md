# A TLA+ model of msgq

msgq is a lock-free publish/subscribe queue in shared memory (`msgq/msgq.cc`),
with sockets and pollers on top (`msgq/ipc.cc`), a fake mode for deterministic
tests (`msgq/event.cc`) and a frame server (`msgq/visionipc`).  This project
models the four and the memory they share, checks them with TLC on small
instances, shows that the queue implements an abstract log, and proves their
safety properties with TLAPS for instances of every size.

## 1. Inventory

| Part | State | Operations | What is hard |
|---|---|---|---|
| Queue core, `msgq.cc` | header (num_readers, write_pointer, write_uid; per slot read_pointer, read_valid, read_uid), ring of words, locals of each process | init publisher, init subscriber with eviction, reset reader, send, ready, recv (also conflating), all_readers_updated | no locks: every access interleaves; copies torn by overwrites; wrap-around; 32-bit cycle counters; crash of a publisher anywhere; slots taken over |
| SubSocket, PubSocket, Poller, `ipc.cc` and `msgq_poll` | timeout, the sockets of a poller, the time that a nanosleep has left | create, connect, receive, setTimeout, poll, send, wait_for_readers, destructors | a signal lost between check and sleep; signals for others; repeated polls; several sockets; calls that fail half way |
| Fake events, `event.cc`, fake mode of `receive` | EventState (paths, enabled), fifos, descriptors kept by the socket | create and destroy a handle, enable, set, clear, wait, peek, wait_for_one | two processes in lockstep; a socket that opens fifos while they are being made; leftovers of a killed test |
| VisionIpc server and client | buffers and ring index, listener, socket path; mapped buffers, `connected` | create_buffers, get_buffer, send, listener, destructor; connect, recv, getAvailableStreams | buffers reused while read; packets of one server and buffers of another; shutdown against connections in progress |
| Shared memory: `msgq_new_queue`, `event_state_shm_mmap`, `VisionBuf` | files and their lengths; descriptors, mappings and ion handles of each process | open, truncate, map, unlink, pass a descriptor, unmap | every opener truncates; processes die and calls fail between any two steps; objects of one process share its address space |
| Python bindings | | | in part, see section 8 |
| Tests, build | | | not modelled, see section 8 |

The parts interact through shared memory (queue, EventState, frame buffers),
signals (SIGUSR2 from a publisher or an evicting subscriber to a sleeping
reader), fifos (fake events) and a unix socket (VisionIpc).  `SubSocket` calls
the queue core; VisionIpc announces frames over a msgq endpoint.

What makes them correct: a receive returns whole messages, in order, once, and
never bytes that are no message; no access leaves the segment; every reader a
publisher may have to invalidate is counted; every call ends; a message that is
there is found in the end; a timeout is not early; a test and its daemon stay in
step; a client never takes one frame for another, nor touches an unmapped
buffer; a destructor ends, and clients find the next server; no mapping lies
beyond its file, and no failed call leaves anything behind.

## 2. Modules

| Module | Models |
|---|---|
| `MsgqLayout` | positions, words of the data area, arithmetic of send and recv |
| `Msgq` | the queue core: one action per access to shared memory |
| `MsgqProperties` | what the queue promises, the inductive invariant, and statements of the docs |
| `PubSub` | the abstract specification: a log of messages, and readers that may be overtaken |
| `MsgqPubSub` | the refinement mapping from `Msgq` to `PubSub` |
| `MsgqProofs` | proofs: types, and the bounds of the stores and loads of `Msgq` |
| `MsgqRegistration` | EXTENDS `MsgqProofs`: the slots of the readers |
| `MsgqDelivery` | EXTENDS `MsgqRegistration`: delivery, and msgq_all_readers_updated |
| `SubSocket` | EXTENDS `Msgq`: receive, poll, timeouts, sleeps and signals composed with the queue |
| `Waits` | the wait loops for several sources: msgq_poll on Linux and macOS under a Poller, poll_events, wait_for_readers |
| `SharedMemory` | files, mappings, descriptors and ion handles of queues, event states and frames |
| `FakeEvents` | test and daemon of `tests/test_fake.py` with the fake mode of receive |
| `VisionIpc` | servers, listeners, clients, on an abstract msgq endpoint |
| `SubSocketProofs`, `WaitsProofs`, `SharedMemoryProofs`, `FakeEventsProofs`, `VisionIpcProofs` | proofs about the module of that name |
| `MCMsgq`, `MCMsgqPubSub`, `MCSubSocket`, `MCWaits`, `MCSharedMemory`, `MCFakeEvents`, `MCVisionIpc` | constants and symmetry for TLC |

Operators whose comment says "a mutant" are variants of the operator that
follows, with a bug in it.  No specification uses them; they are there to show
that the properties notice.

### Msgq

A publisher or a subscriber is one `msgq_queue_t` with its thread; its uid is
its name.  A name for a uid is enough: a process only ever writes its own uid,
or 0, to a slot.  `pub[p]` and `sub[s]` hold the program counter and the local
variables of the call in progress.  A step performs one atomic access, plus the
local work that follows.  The header fields are sequentially consistent atomics
in the code, and the model takes stores and loads of the payload in program
order too (the code has a full barrier on both sides of each copy); it copies
them one 8-byte word at a time, in ascending order.  The operands of
`all_readers_updated` are loaded from left to right.

A word of the ring is `zero`, a size prefix, the wrap-around tag, or one word of
a payload.  The number of the message and of the word in it are ghost fields.
Where a receive takes payload for a size, the value may be anything: -1, one that
fails an assertion and aborts the process (`aborted`), or one that passes both
(`SizeIn`, `TakeSize`); one value stands for all that cover the same number of
words.  The receive then goes on as the code does.  It copies that many bytes,
beyond the data area too, where a load faults or finds foreign bytes (`Loaded`,
`Faults`), and stores a read pointer that may lie anywhere, from which the next
receive starts.  `PtrMod` stands for the 2^32 values of an offset.

A crash is a process that takes no more steps: no safety property and no
liveness property assumes that a publisher ever moves.  A restart is another
publisher or subscriber that connects later.  `MaxSends` bounds the messages.

| Code | Actions |
|---|---|
| `msgq_init_publisher` | StoreWriteUid, ZeroNumReaders, WipeValid, WipeUid |
| `msgq_init_subscriber` | Connect, LoadSlotCount, EvictAll, EvictValid, EvictLoadUid, EvictUid, ClaimSlot, InitValid, InitReadPointer, InitUid, then msgq_reset_reader |
| `msgq_reset_reader` | ResetValid, ResetLoad, ResetStore |
| `msgq_msg_send` | BeginSend, CheckWriteUid, LoadNumReaders, LoadWritePointer, StoreWrapTag, CheckSlot, Invalidate, StoreWrap, StoreSize, StorePayload, StoreWritePointer, Notify |
| `msgq_msg_ready`, `msgq_msg_recv` | BeginReady, BeginRecv, CheckReadUid, CheckValid, LoadReadPointer, CheckNewMessage, LoadSize, CheckSize, WrapRead, SkipMessage, CopyWord, StoreReadPointer, CheckData |
| `msgq_all_readers_updated` | BeginUpdated, UpdatedValid, UpdatedWritePointer, UpdatedReadPointer |

**Timing assumptions.**  The protocol has windows in which a process must not be
overtaken.  `SteadySpec` excludes exactly these: a publisher starts only while
everybody else is between two calls, and no subscriber runs until it has wiped
the slots (`QuietStart`); nobody evicts (`NoEviction`); and a publisher does not
lap a reader between the load and the store of `msgq_reset_reader`
(`NoLapInReset`).  Each window is real: section 4 has what happens without the
assumption.  Types, the bounds of stores and liveness are checked on the plain
`Spec`, without any of them.

### PubSub and the refinement

`PubSub` says what a user of an endpoint may count on.  There is a log, and each
reader has a place in it, or none if it was overtaken or the publisher has
restarted.  A reader in place gets the message there and moves past it; one that
conflates may first pass over messages for newer ones.  It is told "empty" only
at the end of the log, and "ready" only before it or while a send is in progress.
It loses its place only when it is at least `Capacity` bytes behind, or a
publisher starts.  A reader without a place may be told anything, but gets only
messages newer than the last it got.

`MsgqPubSub` adds the history variable `published` to the queue, since the
segment forgets what was overwritten, and maps a read pointer to the place in the
log whose message is stored there and still intact.  A read pointer at the
wrap-around tag is the place behind it.  A receive that has stored its new pointer
but not yet checked its copy is still at its old place: that is where the message
counts as delivered.  `Capacity` is the segment less two of the largest messages:
the area that is about to be written, and what a wrap-around may leave unused.
TLC refutes a capacity that is 8 bytes larger, so this is exactly what the
queue guarantees.

### SubSocket

`sock[s]` is the state of the thread: which call, its limit, what nanosleep was
asked for and what is left of it.  Publishing and evicting signal a thread; a
signal ends a sleep and is lost otherwise.  Time is ticks of sleep; `slept`
counts them up to `SleptBound`.  A wait without timeout sleeps `PollTicks` at a
time, as the code sleeps 100 ms.

### Waits

One thread in one of four loops: msgq_poll as Linux and macOS compile it, under
Poller::poll; poll_events under Event::wait, peek and wait_for_one; and
wait_for_readers of the Python binding.  A source is abstract (a socket has a
message, a fifo has a byte, a subscriber is up to date), and others fill and
empty it at any moment, so that what a pass over the sources finds may be gone
before it ends.  `some` and `all` record which sources were ready at some and at
all moments since the thread last began to look.  Time is ticks of sleep, of
which a millisecond has `TicksPerMs`, because poll_events cuts the time to its
deadline to whole milliseconds.  Any number of signals may interrupt a sleep.
`SubSocket` has one socket and the real queue instead.

### SharedMemory

Each process has objects (SubSocket, the same in fake mode, PubSocket, event
handle, a frame it allocated, a frame it imported), each made of one or two
mappings.  A step is a system call that others can see.  Any call may fail, with
the code's clean-up, and a process may die anywhere; names and the files behind
them live on as the kernel keeps them.  A frame's descriptor travels in a message
and keeps the frame alive on its own.  `ptr` is what the object remembers, `vm`
what is mapped: a destructor unmaps the former.  `Heap` says what
`new msgq_queue_t` may find in `mmap_p`, which nothing initialises before mmap
succeeds: zero, or the pointer of the queue that was freed last (`old`).  If
connect fails, the destructor unmaps by it.  `MemorySpec` has all of this.
`CarefulSpec` leaves out one kind of step: such an unmap when the stale pointer is
an address that is in use again.  Behind such a step the model is right about
mappings only, since it finds the descriptor of a frame by its mapping.  `Files`
and `Addrs` bound the instance.

### FakeEvents

The test makes a handle, enables it, and in each round waits for RECV_CALLED,
clears it, sends, sets RECV_READY, and waits again.  `InitFresh` is a clean
system, in which the daemon may start at any time; `InitKilled` is one in which
an earlier test was killed before its destructor, with the state enabled or not.
There the daemon starts, as the test starts it, behind the complete handle;
`EarlyStart` lets it come earlier.  A fifo holds up to `FifoBytes` bytes.

### VisionIpc

A server has an application thread (create_buffers, get_buffer, write, send,
destructor), a listener thread, and a process that may be killed at any step
(`Crash`).  get_buffer takes the next buffer, or one of the application's choice;
`cur_idx` is kept modulo the number of buffers.  The ghost field `turn` numbers
the frames, and `explicit` is the last turn whose buffer was chosen.  A frame
that is being written is `Torn`.  Connections go through the backlog of the server bound to the path;
`conn[x].st` tells whether the peer sees it open, ended or reset.  The model
follows Linux: a connection in the backlog is reset when the listening socket
closes, and so is one with an unread request.  A
client may be killed while it has a connection (`Kill`).  A reply to it raises
SIGPIPE: `ReplyToNobody` kills the server, or loses the reply where the signal is
ignored, as Python does.  The backlog of 3 is never
exceeded by the instances, so its limit is not modelled.

## 3. Runs that pass

| Run | Instance | Shows |
|---|---|---|
| `steady` | 1 publisher, 1 reader, messages of 8 and 16 bytes in 80 bytes, 5 sends, a cycle counter of one bit | NoGarbage, LoadsInBounds, DeliveredIntact, ImplementsPubSub through two wraps, the second of which overflows the counter |
| `readers` | 2 subscribers, 2 slots, 3 sends | OwnersCounted, UpdatedMeansCaughtUp |
| `restart` | 2 publishers, 1 conflating reader, messages of 16 bytes in 104 bytes, 4 sends | DeliveredIntact, UpdatedMeansCaughtUp and ImplementsPubSub across a publisher's restart, and in the jumps of a conflating receive |
| `eviction` | 2 conflating subscribers for 1 slot, 2 sends, no timing assumption | TypeOK |
| `live` | 1 publisher that starts, laps and dies at any step, messages of 8 and 16 bytes in 72 bytes, 3 sends, no timing assumption | CallsReturn, CatchesUp, and StoresInBounds whatever readers take for a size |
| `wait` | receive and poll, timeouts 2 and none | NeverStuck, NoEarlyTimeout, and OverdueOnlyIfSeen: a receive outlasts its timeout only if its poll saw a message that was gone |
| `waits` | four loops, 2 sources, timeouts none, 0 and 2 ms | ResultJustified, TimeoutNotEarly, SleepWithinTimeout, WaitEnds |
| `memory` | CarefulSpec; 2 processes: two queues and one; a test and a daemon; a server and a client that serves too; `mmap_p` zero or stale | Backed, HoldsExactly, NothingLeftBehind |
| `fake` | 12 rounds, on a clean system and after a killed test | Lockstep, HeldUntilReleased, DescriptorsValid, TestEnds |
| `frames` | servers with 2 buffers and 3 frames, then 1 and 1 | FrameIntact, MappedExactly, and FailsOnlyWithServer: what a connect may blame on its server, and what not |
| `reconnect` | a server without the stream, then one with it, conflating client | ShutdownEnds, Reconnects |

**Bounds.**  A segment of 48 or 72 bytes is the least that the publisher's
assertion allows for its messages: three of the largest.  A wrap occurs every
second or third message.  80 bytes, in `steady`, leave a capacity of 32 bytes, in
which a reader may lag by a short message and still be in place; 104 bytes, in
`restart`, one of 56 bytes, which is two messages of 24: a reader with one or
two unread is in place, must find them, and may not be told that there is
nothing.  `CycleMod` is 2^32 in the code.  A wrap takes at least two messages, so
five sends are two wraps, and with a counter of one bit the second one overflows
in `steady`.  There the reader is less than CycleMod cycles behind at every
comparison that matters.  With six sends it need not be: a reader that is exactly
`CycleMod` cycles behind is mistaken for one that is up to date, and TLC finds
that ImplementsPubSub fails.  In the code that takes 2^32 wraps without a
receive.  The other runs do not reach an overflow.  `PtrMod` is the segment and
one word more: an offset past the end, from a size that was garbage, is either
one of the foreign word there or wraps around.  Liveness needs `MaxSends`: what
CallsReturn says holds once the sends have come to an end.  A publisher that
sends for ever, and laps the reader between each reset and the check that
follows, keeps msgq_msg_recv in its loop for as long.  CatchesUp excuses a
reader that has taken garbage, or that is whole cycles behind at the same
offset: section 4 has both.
One or two slots, publishers and readers are enough for
each pair of calls to interleave at every step.  In `frames`, three frames in
two buffers overwrite the first while a client holds it; its client calls connect
without blocking, and recv (`StreamsOnly`), and `reconnect` has blocking connects,
lists of streams and clients that are killed.  In `waits`, two sources
are the fewest of which one can hide the other, a timeout of two slices is the
shortest that macOS sleeps piecewise, and an interval of three ticks overshoots
the deadline.  In `memory` a process has at most two objects, so that one can
damage the other, four files are as many as two processes can refer to, and a
freed address is the next to be used, so that under `MemorySpec` a stale pointer hits.

**Deadlock** is checked in the queue and socket runs.  It is not in `fake`,
where the test ends and leaves the daemon waiting for a release, nor in the
VisionIpc runs, where all servers may be gone and the client aborted.

**Fairness.**  `FairSpec`: a subscriber finishes the call it is in (weak), and
its application calls receive again and again (strong, since another call may be
chosen each time).  `FairSocketSpec`: the thread runs and its sleeps pass.
`WaitsSpec`: the thread runs (weak), and time passes in its sleeps however often
signals interrupt them (strong: infinitely many interrupts take for ever).
Nothing is assumed of publishers or of signals.  `FakeEvents`: both processes
run; each blocks only in a wait.  `VisionIpc`: listener, destructor and a client
in a call run (a client that is stopped between its connect and its request
would stop the listener, and the destructor with it, for as long), and a client
that is not connected keeps calling connect.  No server has to start, send or
stop.  These are the threads' own loops; the operating system's scheduler is
fair to runnable threads.

## 4. What the code does not keep

The run `stale_reset` ends in a violation of NoGarbage: a publisher laps a reader
inside `msgq_reset_reader`.  Its loops saw the old pointer, so the reader stays
valid at an overwritten position, and the next receive takes payload for a size.

`PROJECT.json` quotes the sentence that this contradicts.

The modules state more that the code does not keep.  No configuration is kept for
these; TLC refutes each within seconds on the instance named here.

| Statement | Specification and instance | What happens |
|---|---|---|
| OwnersCounted (`README.md:122`, "A counter to the number of readers that are active") | Spec, as `readers` | a subscriber claims its slot, a publisher starts and wipes (`msgq.cc:162`), then the subscriber stores its uid: registered, but not counted, so neither invalidated nor notified |
| OwnersCounted, with evictions | Spec with QuietStart, as `eviction` | a subscriber claims the last slot, another finds none and evicts all before the first has stored its uid: the first is not counted, and the slot goes to the second too |
| NoGarbage, LoadsInBounds, uncounted reader (`README.md:161`, "This is to prevent a race condition where the size prefix was invalid, and the read could read outside of the buffer") | Spec, as `live`, 4 sends | the reader of the first row is never invalidated; a publisher overwrites its position, the reader takes payload for a size, and copies on beyond the data area |
| NoGarbage, with evictions | Spec with QuietStart and NoLapInReset, 72 bytes, messages of 8 and 16, 1 slot, 2 subscribers, 4 sends | an eviction stores num_readers = 0 (`msgq.cc:196`) before it clears the valid flags: a publisher that loads it in between overwrites the position of a reader that is still valid |
| DeliveredIntact, with two publishers (`msgq.cc:234`, "Die if we are no longer the active publisher") | Spec with NoEviction and NoLapInReset, 72 bytes, messages of 16, 2 publishers, 1 subscriber, 2 sends | the check is made once per send: a publisher behind it goes on writing next to its successor |
| RequestSent (the assertion at `visionipc_client.cc:54`) | VisionSpec, as `reconnect` | a server that goes between a client's connect and its request aborts the client |
| WholePauses (`msgq.cc:449`, only macOS has to "poll more frequently") | as `waits` | without a timeout, nanosleep continues with what an interrupted sleep left, and never sleeps 100 ms again (`msgq.cc:464`) |
| HoldsExactly | MemorySpec, as `memory` | `new msgq_queue_t` leaves `mmap_p` as it was; if connect fails, the destructor unmaps what a freed queue had there, by now the mapping of another object (`msgq.cc:151`); nothing is left over (MappingsOwned), but something is taken away |
| Backed | as `memory`, Sizes = {1, 2} | an opener with a smaller segment_size truncates the file under the others (`msgq.cc:105`) |
| OneState | as `memory` | a handle removes the EventState while a socket has it mapped; the next handle makes another (`event.cc:130`) |
| EmptyMeansDrained (`__init__.py:55`, "Receive all message currently available on the queue") | SteadySpec, 48 bytes, messages of 8, 1 reader, 6 sends | msgq_msg_recv compares offsets only (`msgq.cc:375`): a reader that is valid, and whole cycles behind at the offset of the write pointer, is told that there is nothing, for as long as nothing more is sent, although messages it has not read are stored intact |
| ConflateKeepsLatest (`README.md:70`, "Receive only the latest available message") | the same, conflating | the latest message is skipped because the write pointer has just wrapped |
| RemainderInvalidated (`README.md:141`, "no read pointers pointing to the remainder of the buffer") | the same | a reader exactly at the tag is not invalidated (`>`, `msgq.cc:269`) and may lag any number of cycles; this is behind EmptyMeansDrained, and makes all_readers_updated answer false for a reader that has read all |
| WaitBounded (`README.md:69`, "Wait up to 1000 milliseconds per receive") | SteadySocketSpec, the same instance, PollTicks 1, timeouts 2 and none | a receive whose poll saw a message that is gone waits its whole timeout again (`ipc.cc:108`) |
| ReleasedGoesOn (`ipc.cc:225`, "the sockets block in receive() until the test releases them") | KilledSpec, 2 rounds, EarlyStart | after a killed test a daemon pairs the new RECV_CALLED with the old RECV_READY (`event.cc:112`) |
| ConnectedHasBuffers (`test_visionipc.py:30-32`) | VisionSpec, as `reconnect` | a connection that ends without a reply counts as connected, with no buffers; the first packet corrects it (`reconnect` includes this case) |

Reconnects needs `OneAtATime`: if servers overlap, the listener of the old one
unlinks the socket of the new one (`visionipc_server.cc:143`), and TLC finds a
client that never connects.  Nothing in the repository promises overlap.

## 5. Proofs

Every invariant that a passing run checks is also proved, for every value of the
constants: any segment, set of message sizes, number of slots, publishers and
subscribers; any number of sources, timeouts and signals; any number of rounds,
servers, clients, buffers, processes and files.  So are the action properties.

| Module | Theorems | Under | Inductive invariant |
|---|---|---|---|
| `MsgqProofs` | TypeCorrect: TypeOK; StoresSafe: StoresInBounds | Spec | IInv |
| | LoadsSafe: LoadsInBounds | Spec, and NoGarbage throughout | IInv, ReadSound |
| `MsgqRegistration` | SlotsExclusive: OwnersCounted | QuietSpec | IInv, RegInv |
| `MsgqDelivery` | SizesAreTags: NoGarbage; SteadyLoadsSafe: LoadsInBounds; ReceivedIntact: DeliveredIntact | SteadySpec, MaxSends < CycleMod | IInv, ReadSound, RegInv, DeliveryInv |
| | AnswerHolds: UpdatedMeansCaughtUp | the same | the same, CaughtUpInv |
| `SubSocketProofs` | SocketsUseQueue: SocketSpec => Spec; LateOnlyIfSeen: OverdueOnlyIfSeen; NeverGivesUpEarly: NoEarlyTimeout | SocketSpec | SocketInv |
| `WaitsProofs` | TimeoutKept: SleepWithinTimeout; NeverEarly: TimeoutNotEarly; ResultsHold: ResultJustified | WaitsSpec | WaitsInv |
| `FakeEventsProofs` | RoundsInLockstep: Lockstep; DaemonHeld: HeldUntilReleased; FifosFound: DescriptorsValid | EventSpec, EarlyStart = FALSE | LockstepInv |
| `VisionIpcProofs` | NoMappingLeaks: MappedExactly; FramesStayWhole: FrameIntact; FailuresExplained: FailsOnlyWithServer | VisionSpec | VisionInv |
| `SharedMemoryProofs` | DeathLeavesNoMemory: NothingLeftBehind | MemorySpec | BaseInv |
| | MappingsBacked: Backed | MemorySpec, OneSize | BaseInv, SizeInv |
| | NothingLeaks: MappingsOwned | MemorySpec | BaseInv, OwnedInv |
| | HoldsAll: HoldsExactly | CarefulSpec | BaseInv, HoldInv |

**Assumptions.**  The named assumptions of the modules are what the code
establishes or its types give: three messages fit the segment (the publisher's
assertion), messages are not empty, there is at least one slot, uids differ from
0; a timeout is an int, and a message has room for a bounded number of
descriptors, so that there is a longest timeout and a largest number of buffers;
fake mode is one of a whole process.  The others are hypotheses of the theorems,
and sections 3 and 4 have what happens without them:

- TypeCorrect and StoresSafe have no timing assumption: they cover evictions,
  takeovers in the middle of a send (TLC agrees: two publishers, 72 bytes, messages
  of 8 and 16, 4 sends), crashes, and readers that take garbage for a size.  LoadsSafe has none either, but is about behaviours without garbage:
  section 4 has those with it, in which a load does leave the data area.
  Registration needs QuietStart and NoEviction (`QuietSpec`), delivery
  NoLapInReset too (`SteadySpec`); there SizesAreTags excludes garbage, and
  SteadyLoadsSafe follows.
- MaxSends < CycleMod says that the cycle counter does not overflow while the
  queue exists: in the code, fewer than 2^32 messages.  The proof compares
  positions by cycle and offset and so needs cycles that only grow.  Overflow is
  left to TLC, and to the run `steady`.
- Without EarlyStart = FALSE, a daemon may start among the leftovers of a killed
  test; OneSize, all endpoints of one name have one segment_size.
- Of what `new msgq_queue_t` finds in memory nothing is assumed.  HoldsAll excludes
  the steps in which a destructor unmaps by a stale pointer to an address in use
  (`CarefulSpec`), as no statement about what other objects keep can hold there;
  the failed connect, its destructor and stale pointers to free addresses are in.

### Why the invariants are what they are

*Memory safety.*  StoresInBounds is not inductive: a publisher stores where the
write pointer of a predecessor, perhaps still running, leads it.  It is in bounds
because of what holds for *all* write pointers of any age: each is aligned and
leaves 8 bytes (`Sound`), and a message that is being stored ends 8 bytes before
the end (`PubSound`).  Read pointers do not matter to it, which is why it holds
with garbage too.  IInv is TypeOK and Soundness, with one lemma per group of
actions over arithmetic lemmas about ALIGN.  For loads, `ReadSound` adds the read
pointers, which are sound unless garbage was taken for a size.  What a receive
accepts as a size may be stale, and the position it was read at may belong to a
slot with another owner; but a size prefix at any address, of any age, is that of
a message that fits there with a tag behind it (`SoundTag`), so that it never
leads past the end, and the pointer behind it is again sound.

*Registration.*  OwnersCounted says nothing while a publisher wipes the slots, so
RegInv has to carry it across: only the publisher named by write_uid sends or
starts, the slots below its loop variable are wiped, and everybody else rests
(`Sole`).  A subscriber's uid is in its own slot and nowhere else, and is there
throughout a call that has checked it (`Registered`): this is what makes the
check at the start of a call enough.

*Delivery.*  The data area is a chain: behind each message is the tag of the next,
the wrap-around tag, or the write position (`Chain`).  The publisher cuts the
chain at the write position, after it has invalidated every reader in the area
it is going to write.  `WriterOK` says how far it has come;
`ReaderOK` that a reader that is still valid holds a position of the chain, and
that what it has loaded from there is still there.  The check of read_valids
behind the copy is where this pays: the copy may be torn, but then the reader is
no longer valid.  `ResetOK` is about a reader in msgq_reset_reader, whom
NoLapInReset protects; `CycleBound` makes the cycle counter grow.

*Readers updated.*  The answer is about slots looked at one after the other, while
readers receive and reset.  It stays true because positions are ordered: a reader
stores no position ahead of write_pointer (`OrderInv`), so one that has reached it
has nothing else left to store; and a slot that was not looked at, because
nobody had claimed it, is not valid (`VacantInv`).

*Sockets.*  The time asleep and the time left add up to the timeout at every step
of receive and poll (`TimeOK`), until a poll has seen a message.  With
SocketsUseQueue every safety property of the queue under Spec carries over.

*Wait loops.*  The same sum for each loop: on macOS over the slices, in
poll_events up to what rounding drops, in wait_for_readers up to an interval
(`TimeInv`); and what a pass has seen and cannot have missed (`SeenInv`).

*Fake events.*  `PhaseInv` says for each step of the test where the daemon can be.
Between release and the next call the daemon goes once round its loop (`Round`),
and bytes in the fifos tell how far it is; a daemon that came before the handle
was complete found the fake mode disabled (`EarlyInv`).

*VisionIpc.*  FrameIntact needs where the ring stands relative to every packet
that is under way: until the server comes round, the index of the next buffer is
as many ahead as frames were sent since (`FreshIn`).  FailsOnlyWithServer needs
that a connection is in the hands of one listener, in its backlog or accepted,
and that an end or a reset is seen only after the listener let go of it
(`ListenerInv`, `CallInv`).

*Shared memory.*  Backed needs that nobody who has a file open will truncate it
below a mapping (`CallSized`).  MappingsOwned and HoldsExactly are about processes
between calls; within one, the mappings are those of the objects and of the
EventState of a SubSocket that is half-way (`Have`).  That each has an owner
(`OwnedInv`) is kept by every step, since a destructor unmaps all that its object
points to, and perhaps more.  That the pointers of the owners and the mappings
are one to one (`PointersInv`) needs that it unmaps no more; nothing is said of
the pointers of other roles.  A process has the descriptors of its frames and of
the file it is working on (`DescriptorsInv`), and no process is sent its own
frame or maps a frame by name (`ApartInv`).

### Only model-checked

- ImplementsPubSub, the refinement of `PubSub`.
- All liveness (CallsReturn, CatchesUp, NeverStuck, WaitEnds, TestEnds,
  ShutdownEnds, Reconnects): fairness and ENABLED are out of the prover's reach.
- Delivery across overflows of the cycle counter.

## 6. Hazards

`PROJECT.json` lists them at the lines where they bite, with the properties that
cover them.

## 7. Plan

1. Done: the queue core, with receives that take garbage for a size, its safety
   and liveness, the bounds of stores and loads proved.
2. Done: sockets and polling, fake events, VisionIpc.
3. Done: the abstract specification PubSub and the refinement; several sources,
   timeouts and macOS in `Waits`; files and mappings in `SharedMemory`;
   get_buffer with an explicit index.
4. Done: proofs of every invariant and action property that the runs check.
5. Next: the refinement of PubSub, from DeliveryInv, OrderInv and a history
   variable; delivery modulo CycleMod, for readers less than CycleMod cycles
   behind, in place of MaxSends < CycleMod.

## 8. Not modelled

- `msgq_wait_for_subscriber`, which spins on num_readers and writes nothing;
  `msgq_msg_init_*`, `msgq_msg_close` and `Message`, which manage local memory;
  paths and prefixes.
- A SubSocket or PubSocket that is connected twice, and a stream whose buffers
  are created twice: the code leaks the first queue, or buffers and publisher
  (the source has a TODO), and no caller in the repository does it.
- An event handle without override, the environment variables of the fake mode,
  and the hash that names an EventState.  A constructor of SocketEventHandle that
  throws after it has mapped the state (mkfifo fails) leaves the mapping.
- `init_yuv`, frame ids and the cache maintenance of `sync`: data of one frame,
  and a device call without a protocol.
- The backlog limit of 3, several streams of one server (they share the listener
  and nothing else), and a client's recv while another thread calls connect, which
  the code forbids.
- `ipc_py.cc` and `visionipc_py.cc` beyond wait_for_readers and the frame copy of
  `send`: conversions and exceptions.  The build, the test runner, the C++ tests.

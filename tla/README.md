# Verification of chain-socket

TLA+ models of chain-socket, a C++ callback library for TCP connections
(`src/code/ChainSocket`), their model checking with TLC, and theorems about them
checked by TLAPS. Paths below are relative to `src/code/ChainSocket`.

## 1. The system

An application derives from `MsgHub`, overrides `onAccept`, `onRecv`, `onConnect`
and `onConnectFailed`, and calls `waitMsg` in a loop. `MsgHub` derives from
`Poller`, of which there are two families: the IOCP poller of Windows
(`IOCPPoller.cpp`) and the event-driven one of Unix (`Poller.cpp` over epoll,
select or kqueue). At this commit only the IOCP family compiles with `MsgHub`:
`MsgHub::init` calls `Poller::init(Log*, IP::Version)`, which only
`IOCPPoller.h` declares.

| component | state | operations | works with | correct if |
|---|---|---|---|---|
| session buffers (`Buffer.*`) | bytes, size, capacity | push_back, alloc, erase, reset | pollers (recv, send), application (erase in onRecv) | FIFO, always room to receive, bounded growth |
| IOCP poller (`IOCPPoller.*`) | session table, last id, sockets, overlapped operations, completion port | loopOnce, initNewSession, closeSession, sendTo, postSend, postRecv, do_recv, listenTo | kernel (completions), application (callbacks that call back in) | each session has the operations it needs and no more, the table is consistent, completions reach their own session, bytes and closes are noticed |
| outgoing connections (`MsgHub.*`: `ConnectPoller`) | pending map, result map, check timer | connectTo, checkAllStatus, getResult, processConnectSockets | timers, poller (new session), application | each request is answered once, no descriptor leaks, the timer runs while needed |
| timers (`Timer.*`) | heap, index of each timer in it | Start, stop, DetectTimers | callbacks that start and stop timers | earliest first, never early, never missed, never after stop |
| task queue (`MsgHub::genTask`, `onTask`) | a multi-producer queue | enqueue from any thread, one dequeue per onTask | poller, lock-free queue | a task acts on the session it was made for or on none |
| lock-free queue (`Queue.h`) | per producer: counters, blocks, block index; a free list of blocks | enqueue, dequeue, add, try_get | any threads | each element out once and in order, blocks neither lost nor shared |
| Unix poller (`Poller.*`, `EpollPoller.*`, `SelectPoller.*`, `KqueuePoller.*`) | session table, next id, registered events, batch of events | loopOnce, handleReadEvent, postSend, initNewSession, closeSession, sendTo, listenTo | demultiplexer, application | no session goes deaf, events reach their own session, unsent bytes are sent, only sessions whose peer is gone are closed |
| WebSocket example (`example/wsserver`) | per session: handshake or frames; one handshake record; bytes parsed | onAccept, onConnect, onRecv, sendMsg, genTask, onTask | MsgHub, poller, session buffers | every message told once, whole and in order in any segmentation; silence after a close |
| Echo example (`example/Echo`) | none | onRecv: sendTo, closeSession | MsgHub | every message echoed |

One thread runs `waitMsg` and everything it calls; only `genTask` is meant for
other threads, through a lock-free queue. Outside that queue the hard part is
therefore not data races but the interleaving of the loop thread with the kernel
and the peers, and re-entrance: a callback may close the session being served,
open others, start and stop timers, while the code that called it goes on with
what it read before. Inside the queue it is the interleaving of every single
access to memory. `PROJECT.json` lists these
hazards line by line.

## 2. Modules

Each variable and action carries the name of the code it models;
`PROJECT.json` maps every definition to its lines.

**`MessageBuffer`** - the buffer, its growth arithmetic and its content. Bytes
are numbered modulo `Wrap` as they enter, so that loss and reordering show.
One action per method, plus `Recv` for the way `do_recv` fills the room behind
the last byte.

**`IocpPoller`** - the poller as `MsgHub` drives it. A session object is
identified by its allocation number: the code never frees one, which the numbering
takes from the code and no property shows. An id is an index of the table and is used
again. Of the sockets, `open` are those of sessions, `spare` those made for the
AcceptEx of a listener, `lost` those nothing refers to any more. The actions are of three kinds:
- *kernel and peers*: a connection arrives, bytes arrive, the peer closes or
  resets, an overlapped operation completes (or is aborted by a close);
- *the loop*: `DispatchRead`, `DispatchWrite` and `DispatchAccept` serve one
  completion up to the callback, `AfterRecv`, `AcceptNext`, `AcceptDone` and
  `AcceptFreed` (the listener was closed in its own `onAccept`) go on when it has
  returned. `pc` says which callback runs, `self` which session the
  loop is holding;
- *the application*: `ListenTo` with what its failures shut down (`ListenFails`,
  `winsock`), `Connected` (what `connectTo` does when a connect succeeds), `SendTo` and `UserClose`, allowed in callbacks and between
  two calls of `waitMsg`.

The four values of `Undefined` mark the points where the code leaves what C++
defines: `sessions[-1]` written, the freed context of a completion or of a listener
read, a null one dereferenced. The loop does not continue from them. `Faults` selects
what may go wrong without the peer's doing: WSASocket, the calls of `listenTo`, AcceptEx,
the association of a socket with the port, WSARecv and WSASend may fail; the application may
leave a connection it made unread (`MsgHub::onConnect` posts no read, so that is the
application's to do) or close a listener in its own `onAccept`. Data in sockets and buffers are byte counts; content and
order are `MessageBuffer`'s.

**`ConnectPoller`**, refining **`ConnectService`** - the pending and result maps,
the check timer and the callbacks, with time as the time left until the limit of
each pending socket. The abstract service says that a request is answered
exactly once, and eventually.

**`UnixPoller`** over **`Demultiplexer`** - the event-driven poller. The
demultiplexer is a set of operators chosen by `Demux`, the one the program was
built with, which `Init` takes from the constant `Demuxes`: what `pollAdd` and
`pollMod` register for a socket (`watch`), what `pollGetEvents` reports, and what a one-shot registration becomes after the report. The poller
takes a batch of events in `PollGetEvents`, and `Serve` takes one of them, in any
order: it ends at `onRecv` (`AfterRecv` goes on from there), in the accept loop
(`AcceptNext`, `AfterAccept`, `AcceptFails`) or back in the loop (`Finish`:
`postSend` and `pollMod`). Between `recv()` and `send()` (`pc` in `Serving`) the peer
may act. `deaf` are the sockets never registered: `pollAdd` failed, which its callers do not
look at, or the application posted no read for a connection it made. Descriptors are given out lowest first and used again
at once, ids from `curId` on. `lost` holds the sockets the code keeps open without
a session: one that could not be bound, or was connected with the table full.
`pc = "crashed"` is the null entry read at `Poller.cpp:190`.

**`TimerHeap`**, refining **`TimerService`** - the binary heap, one swap per step.
`heap[i]` is `heap_[i-1]`. The abstract service has no heap: a running timer has
an expiry, the one that fires is the earliest and due, and until its callback
returns (`firing`) it may be stopped and started like the others. `MCTimerHeap` adds the
symmetry of the timers for TLC. `DueShrinks` is the measure that makes
`DetectTimers` end: between two of its callbacks no timer becomes due at the time
the detection began with. (It holds for positive intervals: a circle timer of
interval 0 is fired for ever.)

**`WebSocketPoller`** - the WebSocket example over the IOCP poller, and the task
queue of `MsgHub`. What a peer writes is a sequence of items, a handshake and then
frames; an item is cut into the parts the parser tests for (header lines,
`\r\n\r\n`; fixed header, extended length, masking key, payload), one unit each, and
arrives in any segments; each item of a `stream` carries the unit at which it starts. `Recv` is `do_recv` up to `onRecv`; the actions from
`HeadersIncomplete` to `ParseAborts` are the paths of `onRecv`, which the
application interrupts in `onReadMsg` and `onHandShake`. `readBuffer` is a window
of the stream (`base`, `rsize`). `sendTo` may close the session at any time (the peer reset it, or WSASend failed), in which
case its object is cleared and `onRecv` goes on with it, as in the code. `tasks` keeps each thread's order and nothing more; `OnTask` looks the session up by
id and compares pointers; it drops a task that is not longer than its structure (`"SHORT"`) and
aborts on one of type 0 (`"NONE"`), as the code does. `hsKey` is whose key the one
handshake record holds, that of a request refused for another reason included.

**`FreeList`** - the free list of blocks of `Queue.h`: one action per access to an
atomic in `try_get`, `add` and `add_knowing_refcount_is_zero`, any number of threads.
`list` is the stack as history; `SpellsList` says the pointers in memory spell it.
The count of a node and its flag share a word, as in the code: the flag
`SHOULD_BE_ON_FREELIST` is a number above every count the threads can reach (2^31 in
`Queue.h`, a constant here).

**`ImplicitProducer`**, refining **`TaskFifo`** - what one thread's `enqueue` and any
number of threads' `dequeue` do in `Queue.h`: the four counters, the circular block
index with its growth, the blocks and their counts of elements moved out, the return
of blocks. `TaskFifo` is a queue whose consumers ask, claim the first element and are
answered; it may send a consumer away only if the queue was empty at some time during
its call or another consumer was asking, which is what `Queue.h:1097-1098` promises.
The pool of blocks is a set here: `FreeList` is what implements it. In both modules
memory is sequentially consistent: what the acquire and release orders of the code
allow beyond that is not modelled.

**`MessageBufferProofs`**, **`IocpPollerProofs`**, **`UnixPollerProofs`**,
**`ConnectPollerProofs`**, **`WebSocketPollerProofs`**, **`FreeListProofs`**,
**`TimerHeapProofs`**, **`ImplicitProducerProofs`** - for each of these components, an inductive invariant and the
theorems (section 4). Each extends the module it is named after.

Definitions marked *Mutant* are plausible errors of the code. They are used
nowhere in the specifications; putting one in place of the definition it varies
must make TLC report the property named in `PROJECT.json`.

## 3. Runs

| run | bounds | shows |
|---|---|---|
| `message_buffer` | unit 2, calls up to 9 bytes, contents to 12 | types, `RoomToReceive`, `CapacityFollowsPeak`, `FifoContent` |
| `iocp_safety` | table of 2, 3 sessions, 1 byte in flight, 2 unsent, all faults but ioctlsocket | types, `TableOK`, `OneSendWhileUnsent` (bytes added to a send in progress included), `OneReadWhileLive`, `DefinedInFirstLap`, with ids used again |
| `iocp_live` | table of 3, 2 sessions, 2 unsent bytes, no faults but ioctlsocket | `TableOK`, `SentOrClosed`, `GoneIsClosed`, `Delivered` |
| `iocp_accept` | table of 4, 3 sessions, no data, no faults | `BacklogServed`: with two sessions behind the listener, the second needs the AcceptEx posted again |
| `unix_epoll` | table of 2, 3 descriptors, 2 bytes in flight, 1 connection waiting, nothing sent, binds fail, connects with a full table | `Inv` (`TableOK`, `WatchesOwn`, `NeverDeaf`), `OnlyGoneClosed`, `Delivered`, `GoneIsClosed`, `BacklogServed` |
| `unix_others` | table of 2, 3 descriptors, each demultiplexer, 1 byte in flight, 1 unsent; registrations and `send()` fail, reads are not posted, read buffers over their limit | `Inv`, `OnlyKqueueCrashes` |
| `unix_unsent` | table of 2, 2 descriptors, 1 unsent byte, epoll | violates `SentOrClosed` (section 5) |
| `connect` | 3 requests, 2 descriptors, timeout 3, period 2, session table full at times | `Inv` (`ToldOnce`), `TimerWhilePending`, `NoSocketLeak`, refinement `AnsweredOnce` |
| `timer` | 6 timers of which 3 may run once time has passed, intervals 1 and 2, clock to 2 | `Inv` (`IndexOK`, `HeapOrder`), `NoneMissed`, `DueShrinks`, refinement `ImplementsService` |
| `websocket` | 1 id for 2 sessions, 3 items (a handshake and two frames, with or without mask and payload), 1 message or task | `Inv` (`MessagesInOrder`), `FramesWhole`, `SilentAfterClose`, `ActsOnItsSession`, `MessagesTold` |
| `free_list` | 3 threads, 2 nodes, flag 100 | `Inv` (`OneOwner`, `CountExact`), `SpellsList`, `PutBack`, no deadlock |
| `producer_queue` | 2 consumers, blocks of 2 elements, 2 blocks, index of 2 entries, 7 elements, no call begins after 5 counts | `Inv` (`OneHolder`), `EntryFound`, refinement `ImplementsFifo` |

An `Inv` is the conjunction of its module's type invariant and of the parts named
in brackets, each a definition of its own in the module.

Why the bounds are enough. Growth of a buffer is linear in the unit, and 12 bytes
of unit 2 cross several steps from each of the three formulas. In the poller two
sessions can only interact through the table and the listener: three objects are a
listener with two connections, or a session whose id was used twice and a third
beside it. One byte of difference tells an empty write buffer from a non-empty one,
two allow a partial send. The two descriptors of the connect runs are used again
by the third request. Two ids and three descriptors for the Unix poller make every
new session one under an id used before, let a batch hold events of two sessions,
and leave a descriptor to connect or accept with while the table is full; two bytes let
a `recv()` leave one behind. Nothing is sent in `unix_epoll`, since under epoll the loop
never sends (section 5) and bytes in a write buffer change nothing else: `unix_others`
has them. `ioctl` is a fault of `iocp_live` only, where it costs few states, for all it
does is to lose a socket. Six
timers make three levels of heap, the least in which the replacement of a removed entry must rise; they all run at the first
instant, and `MaxCrowd` bounds how many do later. Two frames behind a handshake
let a segment end inside, between and behind frames, a session be closed between two
messages, and its id be used again while a task is waiting. Two nodes and three
threads are the least for a node to be popped and pushed again while a third thread
is between two of its reads. Two blocks in an index of two entries make the index
wrap and be full; with both in use the memory is used up. Seven elements are four
blocks, so each block and each entry is used again, and the index may have grown.

`CHECK_DEADLOCK FALSE` is set for `IocpPoller` (bounded session objects, and no step
leaves an undefined state), for `unix_others` (nothing follows a crash), for
`TimerHeap` (the clock stops at its bound), for `WebSocketPoller` (nothing follows
an abort, and what the peers and the application do is bounded) and for
`ImplicitProducer` (elements and counts are bounded).

Fairness. `waitMsg` is called in a loop and `loopOnce` serves every entry of the
batch it takes, so `DispatchRead`, `DispatchWrite` and `DispatchAccept` of each
object are strongly fair: they are disabled while a callback runs. What follows a
callback is weakly fair, as are completions the kernel owes. A peer that stays up
reads, so a retried send that could empty the buffer eventually does; this is an
assumption on the peer, without which no server could promise `SentOrClosed`.
For the Unix poller the loop's steps, of which one is always possible, are weakly
fair, and the end of the accept loop strongly: connections do not arrive for ever
as fast as they are accepted. The connect run assumes that time passes and that
`waitMsg` is called. In the WebSocket run the steps of `onRecv`, one of which is always possible until it
returns, are weakly fair; receiving from a session and taking a task are strongly
fair, since both wait for the loop thread, which calls `waitMsg` and `onTask` again
and again. In the free list a thread finishes the call it began; nothing makes it
begin one. The timer and producer runs assume no fairness.

## 4. Theorems

TLC checks the instances above; TLAPS proves the following for every value of the
constants, from the `ASSUME`s of the modules only: positive sizes, a table of at
least two entries, finite sets of threads and nodes, a flag above the number of
threads, at least one interval, blocks and a first block index of more than one
place. Every inductive invariant was checked with TLC on the
instance of the run before it was proved.

| module | theorems | property of the runs |
|---|---|---|
| `MessageBufferProofs` | `TypeCorrect`, `RoomAlways`, `CapacityBounded`, `FifoAlways` | all of `message_buffer` |
| `IocpPollerProofs` | `TypeCorrect`, `TableAlways`, `SendsAlways`, `ReadsAlways`, `DefinedAlways` | the safety properties of the `iocp` runs |
| `UnixPollerProofs` | `InvHolds`, `OnlyGoneClosedHolds`, `OnlyKqueueCrashesHolds` | `Inv`, `OnlyGoneClosed`, `OnlyKqueueCrashes` |
| `ConnectPollerProofs` | `InvHolds`, `TimerHolds`, `NoLeakHolds`, `ServiceSafety` | `Inv`, `TimerWhilePending`, `NoSocketLeak`, the safety half of `AnsweredOnce` |
| `WebSocketPollerProofs` | `InvHolds`, `FramesWholeHolds`, `SilentAfterCloseHolds`, `ActsOnItsSessionHolds` | `Inv`, `FramesWhole`, `SilentAfterClose`, `ActsOnItsSession` |
| `FreeListProofs` | `InvHolds`, `SpellsListHolds` | `Inv`, `SpellsList` |
| `TimerHeapProofs` | `InvHolds`, `NoneMissedHolds`, `ServiceHolds`, `DueShrinksHolds` | `Inv`, `NoneMissed`, `ImplementsService`, `DueShrinks` |
| `ImplicitProducerProofs` | `InvHolds`, `EntryFoundHolds`, `ServiceHolds` | `Inv`, `EntryFound`, `ImplementsFifo` |

In all but the first two modules the inductive invariant is `IInv`, `Invariance` is
its theorem, and the others follow from it.

*Buffers.* `RoomAlways` and `CapacityBounded` are inductive with the types. The
facts about the growth formula (`GrownBounds`) rest on the quotient and
remainder lemmas at the start of the module. `FifoAlways` adds the order of the
content, for which the remainder modulo `Wrap` of consecutive numbers is needed.

*IOCP poller.* None of the properties is inductive alone. `IInv` joins
- `TInv`: the types, and what the thread serves in each callback (`Serving`);
- `TableOK`: an entry holds an object made, filed under its id, and the sockets are
  those of the table, of its listeners' AcceptEx, or lost;
- `FreshSends`, `FreshReads`: an object not made yet has no operation posted, so
  a new session starts with the counts it needs;
- `ServedMade`, `ServesKind`: the session in a callback was made and had its read
  posted, so that `AfterRecv` posts the only one, and is a listener in `onAccept` only;
- `FirstLap`: as long as the ids were not all used, object *o* has id *o-1* and
  the thread is in a defined state, or read the context of a listener closed in its
  own `onAccept`.

Each step is first reduced to what it does to the table (`StepTable`), to the
sends (`StepSends`), to the reads (`StepReads`) and to `pc` (`StepPc`); each part
of `IInv` is then proved over those few forms.

*Unix poller.* `NeverDeaf` depends on what the demultiplexer does with a
registration, so `Agree` says more of each of the three than the poller relies on: a
socket that is not known is watched for nothing, a listener is watched for good, only
session 0 is ever watched once under select, and only kqueue watches for room to send.
`BatchOK` says that the events not served yet are such as the demultiplexer in use
reports. Both are proved from lemmas about the operators of `Demultiplexer`
(`PollAddIs`, `PollModIs`, `ReportedIs`, `AfterReportIs`), one case per demultiplexer;
the steps of the poller then use the lemmas only. `OnlyKqueueCrashesHolds` follows: the
write branch is reached with `wants` or an event for writing, which `Agree` and
`BatchOK` leave to kqueue alone.

*Outgoing connections.* `HeldOnce` says that a waiting request is in exactly one entry
of `connectTime` or of the result map, and nothing else is there; with `Counted` it
gives `ToldOnce`. `SocketsOK` says that an open descriptor is pending, waiting for its
callback, owned by a session or lost for want of a table entry, and only one of these;
`NoneLeft`, that results do not outlive the call that collected them, without which
`getResult` could meet an old one under a descriptor used again. `ServiceSafety` says
that each step is a step of `ConnectService` or changes no outcome; the fairness of
`Service!Spec` is the half of `AnsweredOnce` that stays with TLC.

*WebSocket example.* `ReadingOK` is the heart: what was told are the first frames of
the stream, in order, and the parser stands at the unit where the next item starts (at
the one in hand while `onReadMsg` runs), wherever the segments were cut. It needs
`StreamOK`, that the items of a stream lie one behind the other (`Layout`), `LoopOK`,
what `onRecv` holds at each point, and `Gone`: nothing is read from a closed session.
`OutputOK` pairs every head with its body, but for the last head of a session that was
closed between the two `sendTo`. `TasksOK` is what makes the id and the pointer that
`onTask` compares enough.

*Timers.* `HeapOK` says what the heap is in the middle of a loop: in a rise only the
entry at `at` may be earlier than its parent, in a sink only the children of `at`
(`OrderedBut`, `OrderedBelow`), and in both what is below `at` is not earlier than what
is above (`Between`). `LoopOK` and `FiringOK` say where the loops are and which timer is
out of the heap. That the first entry is the earliest (`FirstIsEarliest`) is proved
without induction: of the places with an earlier entry there would be a least one, and
its parent is before it. `ServiceHolds` is the whole of `ImplementsService`, which has no
fairness: the expiry of a timer is `Time` of its entry, and each step of the heap leaves
`Time` of the timers it does not concern. `DueShrinksHolds` assumes that 0 is not an
interval: a circle timer of interval 0 is due again when its callback returns.

*Free list.* `NodeOK` speaks of one node. `Alone`: it is in use, in the list, or with
the one thread that adds or takes it. `Held`: nobody holds it while it is being linked,
and if it waits for its last reference, somebody does. `Counted`: the word in memory is
the number of its holders, plus the flag, plus one while the list has a reference.
Every step is then a change of at most one holder (`HoldingGains`, `HoldingLoses`), and
the nodes it does not touch are settled by one lemma (`Untouched`). `NextOK` is why the
compare-and-swaps are right: a thread about to pop has read the `next` its node has
now, because a node that is held is not linked again.

*One producer's queue.* Four groups of conjuncts, which need each other.
- The counters: `Tally`, every count taken was turned into a claim, given up, or will
  be; `ClaimsOK`, why a consumer that compared stale counters still finds an element:
  up to some count *m* there is an element for everyone who has a lower count, and
  whoever passes the second comparison with a higher one takes none of those;
  `ExcusesOK`, that a consumer that is alone and asked while an element waited reads
  counters that lead to it.
- The block index: `RingOK`, going back from the tail the keys are consecutive blocks,
  however often the index wrapped round; `IndexesOK` with `Coherent`, the distance
  of two entries in an old header is that in the new one, up to the size of the old
  header (growing turns the index by its tail and doubles it), so that a consumer which
  loaded a header before it was replaced still lands on its entry; `TailsOK`, the tail
  of every header, even one rewound after a failed allocation, has a key.
  `LookupIs` is the arithmetic of `get_block_index_index_for_index` on these.
- The producer and the consumers: `StepOK` and `FindersOK` say what each has read, and
  that it is still so.
- The blocks: `LinkedOK`, the elements a block counts as gone, those not claimed yet,
  and the consumers on their way add up to its size, so that one consumer counts the
  last and it alone unlinks; `ElementsOK`, an element is in its cell until it is moved;
  `PlacesOK`, a block is in one place.

Nothing in the proof needs the powers of two that `Queue.h` asserts: its masks are
remainders in the model, and any size above one will do. `ServiceHolds` maps `Publish`,
`Dequeue`, `Claim` and `Move` to the steps of `TaskFifo`, an unsuccessful `Compare` and
`GiveUp` to its `Refuse`, and everything else to no step.

Proving found what checking had not. Three `CASE`s whose arms overlap were made
exclusive in `Demultiplexer`, `ImplicitProducer` and `TaskFifo`; `Intervals` must not be empty
(`TimerAssumption`); and `MessagesInOrder` is false of sessions left behind by a crash
when two are live at once, which the run, with one id, does not meet: the part of it
that speaks of live sessions now excludes a crashed program.

Out of the prover's reach, and left to TLC: what rests on fairness or ENABLED, that is
`SentOrClosed`, `GoneIsClosed`, `Delivered`, `BacklogServed`, `PutBack`, `MessagesTold`, the
liveness of `AnsweredOnce`, and the absence of deadlock. Every other property of a
passing run has a theorem.

## 5. Findings and limits

`sendTo` of the Unix poller keeps what `send()` did not take in the write buffer and
registers nothing; `loopOnce` asks for a write event only while it serves one
(`Poller.cpp:174-186`). Under epoll none is ever asked for, and the bytes stay,
where `README.md:10` of the repository says that data that finds the socket's
buffer full is copied into the library's buffer to be sent. Run `unix_unsent`.

The following are limits of the code that the properties state as such, or that the
runs leave out:
- `initNewSession` does not test the id it got (`IOCPPoller.cpp:143-151`): with no
  free entry it writes `sessions[-1]`, where its callers expect a null result.
  `IdGen` never tries the last id it gave out, so this also happens with one entry
  free. And completions are matched to sessions by id alone, so that once ids are
  used again a late completion of a closed session meets the next one's entry.
  `DefinedInFirstLap` (and its theorem) says that neither is possible before the
  table was gone through once.
- A listener closed in its own `onAccept`: the loop goes on with the handle in its freed
  context (`IOCPPoller.cpp:365-371`; `pc = "freed"`). `DefinedInFirstLap` names it as its
  exception.
- `post_accept_ex` makes a socket for AcceptEx (line 73). When AcceptEx fails it stays with
  the listener, and when the listener is closed nothing closes it (664-676). `TableOK` says
  that these are, with the socket whose `ioctlsocket` fails in `listenTo` (702-707), the only
  ones lost.
- When `setsockopt`, `bind` or `listen` fails, `listenTo` calls `WSACleanup` and closes the
  completion port (709-782); when `WSASocket` fails, `WSACleanup` alone (696-699). Every
  session stays in the table, without a socket and, with the port closed, without a loop
  that serves it; `listenTo` returns -1, a true value. The model makes the steps
  (`winsock`), and `TableOK` asks for open sockets only while Winsock is up.
- `do_recv` closes a session when it meets the end of the stream, and what it read in the
  same pass goes unseen, without `onRecv` (467-470); so does an error. `Delivered` of
  `IocpPoller` counts such bytes as read: it says that no read is forgotten, not that
  every byte is told.
- Neither family posts a read for a connection made with `connectTo` (`MsgHub.cpp:302-307`): unless
  the application's `onConnect` does, `OneReadWhileLive` and `NeverDeaf` do not hold of it
  (`deaf`). On Unix the same goes for a session whose `pollAdd` failed
  (`Poller.cpp:107` and `128`).
- `SelectPoller::pollGetEvents` reports each event with a fresh structure whose
  descriptor is 0 (`SelectPoller.cpp:139-142`), which `loopOnce` takes for the session
  id: every event is served on session 0 and the other sessions are not read, so
  `Delivered`, checked under epoll, is false under select. `Inv` has the fault built in;
  `unix_others` checks that table and registrations stay sound with it.
- When `send()` fails in the write branch, `closeSession` empties the entry and
  `Poller.cpp:190` reads its descriptor. `OnlyKqueueCrashes` says that it takes an event
  for reading and writing, which kqueue's flags produce and the others never do here.
- `sendMsg2` calls `sendTo` for the head and for the payload of a frame; the first
  call may close the session (the peer reset it, or WSASend failed), and the second then
  follows a null context (`WebSocketPoller.hpp:232-234`; `pc = "crashed"`).
- `onTask` drops a task that is not longer than the structure it holds (the tests at
  `WebSocketPoller.hpp:93`, `100` and `106` are strict) and aborts on type 0 (112-114).
- A whole ping, pong or close frame does not move `parseSize`: `onRecv` does not
  return (`WebSocketPoller.hpp:405-414`). A length field of 127 aborts (line 377).
  `MessagesTold` names both as its exceptions (`Hung`).
- One handshake record serves all connections, and `onAccept` empties it: a request
  without a key is answered with the key of another connection, if one is left.
- Two consumers of one producer may send each other away for ever: each failed call
  raises `dequeueOptimisticCount` and `dequeueOvercommit` one after the other, and a
  consumer that reads between them sees too few elements. `ImplementsFifo` says when a
  call may fail so. The hub has a single consumer, the loop thread.
- `genTask` does not look at the result of `enqueue`: when no block can be allocated
  the task is gone.

## 6. Not modelled

- Allocation failure; `Poller::stop` and `reset`, which nothing calls.
- `getPeerIpPort`, `getLocalIpPort`, `peerAddrMap`: they read or fill addresses.
- The socket options `do_accept` sets: with `listenFD` always 0 it works on the
  session with id 0, if any.
- What follows once a freed or a null context was used. `onSend` does nothing in the
  library and is taken to do nothing.
- A second listener of the same poller, and a `pollMod` that fails: `pollMod` is called for
  sockets the demultiplexer has, and `pollAdd` is where a registration is refused.
- A read posted later than in the callbacks (`postRecv` is called in `onAccept` and, if
  at all, in `onConnect`).
- A second close of a socket handle by `closeSocket(client)` after the application
  closed that session in `onAccept`: handles are not used again in the model.
- The memory of a Unix session (`reset` runs on what `malloc` returned, and
  `closeSession` does not free the buffers), a listener opened in a callback, the
  limits on events per call, and `accept()` returning descriptor 0.
- The connect timeout of 0 or less, for which `tryConnect` blocks.
- In `Queue.h`: explicit producers, producer and consumer tokens, bulk operations,
  which nothing in the repository calls; the hash table that finds a thread's
  producer and the choice among producers in `try_dequeue`, of which the models above
  assume that a thread keeps its producer; destructors; exceptions of an element's
  constructor; indexes that pass 2^64; memory orders weaker than sequential
  consistency.
- In the WebSocket example: `makeFrameHead`, `mask`, `sendMsg1` and the functions of
  `websocket.cpp` that `onRecv` does not reach, the text of a handshake, SHA-1 and
  base64, the bytes of a payload (and that `sendMsg2` masks the caller's buffer in
  place), a callback that sends inside `onSend`.
- The Echo example: it keeps no state, and its callbacks are among those the
  application of `IocpPoller` and `UnixPoller` may make.
- Code that no target of the repository includes (`BlockQueue.h`, `catch.hpp`,
  `frame.hpp`, `main.bak`), logging, system wrappers and build scripts.

More than half of the lines of the repository are in those headers (`catch.hpp` alone has
15250 of them), and most of `Queue.h` is the interface the hub does not use. The
models cover the code that runs when the library does.

## 7. Plan

In this order:
1. The table of implicit producers (`get_or_add_implicit_producer`), and the queue
   composed of several producers.
2. A second listener, and one opened inside a callback.

# easyMq verification

TLA+ models of easyMQ, the TLC runs that check them and the proofs about them.
Paths are relative to the repository root.

## 1. The system

easyMQ is a topic publish/subscribe broker on top of an "MCP" process
framework.  One installation is a chain of processes that share memory and, as
`etc/` configures them, take no locks:

    clients --TCP--> CCS ==ring==> MCP            ==ring==> SCC --TCP--> other servers
                     CCS <==ring== (mq_server_mcp) <==ring== SCC

* **CCS** accepts client connections, cuts the byte stream into requests and
  puts each, behind a head that names the connection, into a ring.
* **MCP** (`src/server`) takes requests, answers them, and copies a published
  message to every subscriber of its topic.
* **SCC** does for outgoing connections what CCS does for incoming ones; only
  the agent (`src/agent`, unfinished) uses it.

### Components

| component | state | operations | hard part |
|---|---|---|---|
| `CCodeQueue` (`common/mcp/public/CodeQueue.cpp`) | begin, end, bytes in shared memory; a notification FIFO | append, peek, skip, take, wait | writer and reader race without a lock; either dies half way; edge of the ring |
| start-up of a ring (`CodeQueue.cpp:110-470`, `spin_lock.h`) | the segments of ring and lock, the lock's byte | create, find, attach, check, replace; lock, unlock | starts that overlap, a creator or a holder killed, an edited Size |
| `CCodeQueueMutil` | several queues, which one is next | the same over all of them | fairness; skip must match peek |
| `CFrameCtrl` (server) | the two queue sets | wait, take, call the handler, skip; send | works in place on the ring; a refused append is ignored |
| `CMasterCtrl`, `EasyMQServer` | `g_mapTopicToAgent` | init topic, publish, echo | in-place rewriting, death half way, stale subscribers |
| CCS `CAuxHandle` | connection table, `m_unID`, buffers, epoll | create and close a connection, receive, forward, deliver, flush | slots reused, replies that arrive late, partial reads and writes |
| CCS `CMainCtrl` | listening sockets, run flag, one pipe to each thread | accept, choose a thread, reload, exit | counters read without a lock, descriptors reused, signals that overwrite each other |
| SCC `CMainCtrl` | the same for outbound sockets | connect, send, receive, close | non-blocking connect, partial writes |
| `CBuffMng`, `TIdxObjMng` | pool of blocks, lists | append, skip, send, free | pool exhaustion, offset bookkeeping |
| agent `CAgentCtrl` | none | forward both ways | unfinished |
| client `clnt.h` | one socket | init topic, publish, receive | reads may hold part of a message or several |
| caches, hash maps, logs, ASN.1, MySQL | | | vendored or not used by the broker |

PROJECT.json lists every component with its status, and every hazard at the
line where it bites with the properties that watch it.

## 2. Modules

| module | models | builds on |
|---|---|---|
| `CodeQueue` | one ring, its writer and its reader, memory access by memory access | |
| `CodeQueueInv` | the inductive invariant `IInv` | `CodeQueue` |
| `MessageFifo` | abstract: what a ring promises | |
| `CodeQueueFifo` | the ring's bytes read as that FIFO | `CodeQueue`, `MessageFifo` |
| `SpinLock` | the lock of `spin_lock.h`: a signed byte, `lock; decb` | |
| `SharedRing` | how processes come to share a ring and its lock: starts, exits, kills, edits of Size, appends under the lock | `SpinLock` |
| `QueueSet` | several rings read as one | |
| `Pipes` | the two rings of CCS and MCP as FIFOs, the heads they carry | |
| `CcsAux` | CCS: accept, connection table, receive, deliver, restart | `Pipes` |
| `MasterCtrl` | MCP: handler, replies, copies, restart | `Pipes` |
| `Broker` | CCS and MCP composed, and the end-to-end properties | `CcsAux`, `MasterCtrl` |
| `PubSub` | abstract: what the broker promises to subscribers | |
| `BrokerPubSub` | the state of `Broker` read as that of `PubSub` | `Broker`, `PubSub` |
| `CcsThreads` | the threads of CCS: accept, choose, hand over, reload, exit | |
| `RecvFraming` | how CCS and SCC cut the byte stream of a connection into messages | |
| `OutStream` | how CCS and SCC send on a connection, and how SCC opens one | |
| `ByteFifos` | abstract: what the block buffers promise | |
| `BuffMng` | the block buffers of all connections, block by block | `ByteFifos` |
| `CodeQueueProofs`, `SharedRingProofs`, `QueueSetProofs`, `BrokerProofs`, `CcsThreadsProofs`, `OutStreamProofs`, `RecvFramingProofs`, `BuffMngProofs` | the theorems, see 4 | the module they are named after |
| `MCCodeQueue`, `MCBroker` | symmetry for the runs | `CodeQueue`, `BrokerPubSub` |

### CodeQueue

A step is what one process does between two accesses to memory that the other
may have changed.  `_AppendOneCode` (CodeQueue.cpp:1026-1110) becomes
`AppendBegin` (take both positions), `AppendCheck` (`GetCodeLength()` reads them
*again*), `AppendHeader`, `AppendBody`, `AppendPublish`, `AppendNotify`.  The
reader follows `CFrameCtrl::Run`: `Peek*` is `GetHeadCodePtr`, `hold` is the
handler working inside the ring, `SkipHeadCodePtr` gives the frame up, and
`GetHeadLength`, `GetHeadCopy`, `GetHeadPublish` are `GetHeadCode` for a frame the
edge breaks; `Wait*` is `WaitData`.  Either process may die in any of these
places and is restarted on the same memory.

A byte is a pair (value, index), so that a length field of which two bytes
belong to one frame and two to another is told apart from any length.  Memory
accesses are taken to become visible in program order, as on x86, which is what
the code relies on.  `WLock`/`RLock` are 0 in `etc/`: no lock is modelled here.

### SpinLock, SharedRing

`SharedRing` takes the start of a process apart into its system calls and its
stores to shared memory (`CreateMQShm`, `shm_spin_lock_init`, `AttachMem`): any
other process may be anywhere in its own start, or at work, between two of them.
`Excl`, `Open`, `OpenAny` are the three `shmget`s; `Stat`, `Remove`, `Recreate` replace
a segment that is too small when nobody else is attached; `InitHead` and
`InitSize` are the creator's stores, `Check` is everybody's assertions.  A killed process lets go of its
attachments and of nothing else.  Once up, a process appends: it takes the lock,
reads the end, publishes a new one, unlocks.

`SpinLock` keeps the byte as the signed byte it is: a `decb` by each who comes,
looped on until the result is not negative, and a store of 1 to unlock.  The
byte of a machine has `Half` = 128, the run 8.  `SpinLockAssumption` (processes and kills together
are no more than `Half`) keeps the byte above the wrap: what a wrap would do is
not modelled, and that no `decb` gets there is proved (`LockSafe`).

What holds needs a premise the code does not check: that no two starts overlap
(`overlapped`).  What it takes to break it is one `server_admin.sh start` while
another is on its way.  `FreshUntilSized`, `TypeOK` and `Startable` do not need it.

### QueueSet

Each ring is a FIFO of which only the kind of the head counts: whether the edge
of the ring breaks the frame, and whether it fits the buffer of `GetHeadCode`.
A look at one ring is a step, so the writers go on between two looks.  In this
commit nobody goes through the round: `CFrameCtrl` takes one ring out of its set
(`GetCodeQueue(m_iMcpIdx)`) and each thread of CCS its own; the loop of
`CFrameCtrl::Run` (frame_ctrl.cpp:452-484), written for this interface, is the reader modelled.

* A frame that is broken *and* does not fit stays in its ring for ever, and
  `HeadServed` is about the others.  A frame in one piece that does not fit can be
  handed out only in place, and the copying call passes it over; directly behind a
  ring with a stuck head it is never handed out.  The run leaves that kind out,
  the theorems do not.
* With a read lock a peek always fails, so everything is copied.

### CcsThreads

The main thread and each auxiliary thread take the steps of their loops one at a
time.  They share the counters of connections, the pipes, and the process's
table of descriptors (`kernel`): `close` and the reset of the slot are two steps,
and the number may be given to the next connection between them.  `Accept` gives
any free descriptor.  Two signals set one flag (`SetRunFlag`).

A thread closes a connection that has a slot because its client has ended, or
gives up one whose client is still there: at an event (a bad message, the load limit, a full
pipe to MCP, no room in the receive pool, events that are none, a flush that
failed: `HandleEvent`) or at a reply the send pool has no room for
(`AppendRefused`).  Which of these it is depends on data that is in other modules, so here
it is a choice.  A flush that fails leaves the rest of the batch undone; a
`send()` of a reply that fails closes nothing (auxhandle.cpp:298-302), the next event does.

### CcsAux, MasterCtrl, Broker

The rings are FIFOs with room for `PipeCap` frames; `CodeQueueFifo` is the reason
that is right.  A frame keeps what the properties tell apart: the client's
address (the key of the subscriber set), slot and `m_unID` (how CCS finds a
connection again), type, topic, and whether `msgLen` is right.  `req` and `conn`
in a frame, `sent` and `dropped` are history: no guard reads them.

* A complete request is read and put into the ring in one step
  (`RecvClientData`): how bytes become requests is `RecvFraming`.
* Delivered means handed to the socket or to its send buffer; how it gets from
  there to the peer is `OutStream`.
* The two processes are interleaved handler by handler.  They share nothing but
  the rings, and a ring is a FIFO of whole frames however its accesses interleave
  (`CodeQueueFifo`).
* A frame is worked on in the ring or in a copy (when the edge breaks it); the
  model leaves the choice open, and keeps the in-place rewriting that makes a
  restarted MCP find an answered head.
* `McpRestart` loses `g_mapTopicToAgent`.  `CcsRestart` loses the connections and
  sets `m_unID` back to 2 (the two pipes of a thread take 0 and 1).
* `etc/` sets `DisconnectNotify` and `TimeOutCheckSecs` to 0, so neither is there.

### PubSub

`PubSub` says it without processes, pipes, slots or numbers: requests are handled
one after the other, a message is owed to whoever had subscribed, each connection
gets what it is owed in order and once, or loses it.  `BrokerPubSub` maps `Broker`
to it: a request is handled when its head has been rewritten, what is owed to a
connection is its copies in `mcp2ccs` and the one its turn has not come for yet.
With two clients, a publication goes to two subscribers one after the other, and MCP may die
in between.

`MasterCtrl` keeps that an answer is built on the stack while `SendRsp` sends
what lies behind `pMQHeadInfo`, that is, the start of the request with its old
`msgLen` (master_ctrl.cpp:89): the acknowledgement of a publication announces
more bytes than it has.

### RecvFraming

One slot, used by one connection after the other.  A read returns any non-empty
part of what has arrived (`RecvClientData`), then messages are taken off the
front one at a time (`ForwardMessage`) and each goes into the pipe or, when that
is full, costs the client its connection in CCS (`PipeFullCloses`).  `program` says whose code runs: SCC goes on
after a full pipe (mainctrl.cpp:959), where CCS closes.
The completeness function is `asn20_complete.so`, modelled with a length that is
known once the head is there; its 4-byte tag is taken not to occur inside a
message.  A stream that does not begin with the tag closes the connection.

### OutStream

One slot that sends.  `DoSvrMessage` (CCS) and `CheckSvrMessage` (SCC, here
`ReqConn`, `DataTrans`, `ReqClose`) hand a message to the kernel, which takes a
part (`Takes`), or put it behind what is buffered.  `EpollWait` returns events, and
`HandleIn`, `HandleOut` work on them later, in two halves, when the slot may
have been freed or given to another connection.  The pool of blocks is a choice:
an append may fail (`NoBlocks`) at any time and closes the connection.
Left out: a `connect()` or a table that refuses at once (nothing changes and
nothing is answered) and a full pipe to MCP (the answer is lost).

### BuffMng

The pool is an array of blocks chained by index (`m_piDsInfo`); the same index
chains the free ones.  One action per call of `AppendBuffer`,
`SendBufferToSocket` (with every number of bytes the socket may take in all) and
`FreeBuffer`; each of them runs in one thread and is not interrupted.  An append
that runs out of blocks gives back what it took and leaves `m_iLastBuffIdx`
naming a free block: the model keeps that and, as all callers do, frees a buffer
after a refused append before anything else is done with the pool.  Were a caller
to append again, it would chain its blocks to a free one.

## 3. Runs

| run | question | answer |
|---|---|---|
| queue | do two processes without a lock keep the frames apart, through a death? | yes, but for one race (below) |
| queue_race | does every frame survive without any lock, as CodeQueue.hpp says? | no |
| queue_fifo | is the ring a FIFO of whole messages, and is every frame taken, also when the wake-up is lost with its writer? | yes |
| broker | do connections get what they asked for, in order, do subscribers get it all, and is what the broker does publish and subscribe (`PubSub`)? | yes |
| broker_live | over a death of CCS and of MCP: is every request handled, every reply taken, and nothing misrouted within a life of CCS? | yes |
| broker_reconnect | is a subscription that was confirmed there? | not after a reconnect from the same address |
| recv | do requests survive any split into reads, full pipes and reused slots? | yes in CCS |
| outstream | does a stream survive partial writes, late events and a pool that runs out, and is every request to connect answered? | yes |
| buffmng | does the pool keep every buffer's bytes and every block, however appends fail? | yes |
| queue_set | is every ring of a set served in its turn, beside rings that cannot be, and is the reader woken? | yes |
| ccs_threads | does every connection keep its own descriptor, get a thread and get closed, and does the server end when told to? | yes, but for a hand-over that found the pipe full and an exit during a reload (below) |
| shared_ring | do processes that start, die and start again share one ring and one lock, and can they start? | yes, if no two starts overlap |

The one race: the writer takes its position, reads both positions again to
compute the room, and chooses how to copy from the first reading.  If the reader
passes the edge in between, a body that must be split is copied straight over the
end of the memory (CodeQueue.cpp:1068).  The model marks such a frame (`over`)
and goes on; `FramesIntact` asks of it only that its length and its neighbours
are right, and `OverrunNeedsRace` says that a frame gets the mark in no other
way.  What is written behind the end of the ring is outside the model.

What the models show besides, and no run asks, since no comment or test claims the opposite of it clearly enough:

* `m_unID` is "the only ID" of a connection (ccs/src/define.h:169) within a life of
  CCS; after a restart a reply left in the pipe can reach another connection.
  `RoutedWithinLife` states what holds.
* SCC goes on after a full pipe and loses a message in silence
  (mainctrl.cpp:959), where CCS closes the connection.
* On a connection that `CMD_REQ_SCC_CONN` opened, SCC gives EPOLLOUT up before what
  is buffered is sent (mainctrl.cpp:613-621); it is sent with the next message.
* "mem must be crashed" (CodeQueue.cpp:463-468) also stops a start that overtakes
  the ring's creator, one after a creator was killed, and one after Size was made
  smaller (`Startable`).
* A lock whose holder was killed is freed only by a start that finds nobody else
  attached (spin_lock.h:91-101); `SeesItFree` excepts the rest (`stuck`).
* A signal to exit that comes during a reload is forgotten (ccs mainctrl.cpp:942;
  the same in frame_ctrl.cpp:442); `ExitObeyed` excepts it.
* A connection whose hand-over finds the pipe full stays open and is nobody's
  (`refused`).

Some properties are conjunctions of named parts, which the runs check together:
`IInv` of the ring (its types, `ReserveKept`, `FramesChained` and the rest of the
inductive invariant), `BufferRight` of `RecvFraming`, `StreamRight` of `OutStream`
(types and `StreamWhole`), `PoolRight` of `BuffMng` (types, `BlocksOwned`,
`ChainFits`), and of `CcsThreads` `Accounted` (types, `NobodyForgotten`,
`CountersRight`) and `Settled` (`AcceptedServed`, `EndedClosed`).  What is proved
and follows from another property of the same run (`QueueSet!TypeOK`,
`SharedRing!TypeOK` and `NothingOverwritten`) is in no run.

### Bounds

| run | bounds | distinct states |
|---|---|---|
| queue | ring of 18 bytes, bodies of 1 and 6, two payloads, one death of either process | 710,676 |
| queue_fifo | the same ring, a reader's buffer of 5 | 51,000 |
| broker | two clients, three requests, pipes of four frames, a death of MCP | 2.3 million |
| broker_live | one client twice, two requests, pipes of one frame, a death of each | 275,000 |
| recv | three messages of 2, 3 and 6 bytes, heads of 2, a buffer of 5, a pipe of one | 44,000 |
| outstream | three messages of 1 and 3 bytes, a kernel buffer of 2, two connections | 66,500 |
| buffmng | two buffers, three blocks of two bytes, appends of 1 and 3 | 21,600 |
| queue_set | three rings of two frames; heads in one piece, in two, and stuck | 1.6 million |
| ccs_threads | two threads, two ports, two descriptors that share a slot, two connections, two signals | 296,000 |
| shared_ring | two processes, two kills, two sizes and one edit, two segments, a ring of two frames | 668,000 |

* The ring: a frame of 10 or two of 5 fill it up to the reserve, so every
  append wraps within a few steps, every byte of a frame meets the edge once, and
  the larger frames are often refused.  There is no bound on the number of
  appends.
* The broker: a publisher and a subscriber, a subscriber that publishes, and two
  requests of one connection with a death between them; two slots and one
  connection more than one slot can hold make slots get reused.
  Two subscribers and a publication make a fan-out of two, with a death of MCP after the
  first copy.  Three requests can mean five frames to the clients, one more than the pipe
  holds, so that copies are dropped in the run broker; the other pipe is full in broker_live.
* The streams: three messages are one before, one at and one behind every place
  where a message is split; the buffer is shorter than the longest message, the
  kernel's buffer than the longest part.
* The blocks: one buffer can use up the pool, alone or next to the other; a block
  may be the first, a middle and the last one, full or not, begun or not.  Bytes
  are counted modulo 5, which tells all bytes of a buffer apart but the first and
  the last of six.
* The set: with three rings one is served while one is passed over and one is
  empty; two frames are enough for a ring to be refilled while its head is worked on.
* The threads: two descriptors that share a slot, and a limit of one connection,
  make every refusal, reuse and late event happen with two connections.
* The start: two processes overlap in every pair of places; two kills leave a torn
  ring and a dead holder in one behaviour.

Larger instances that were checked by hand without an error, too long to be
repeated each time: `SharedRing` with three processes (2.9 million states), and
`CcsThreads` with three connections, three descriptors and one signal (2.3 million, safety).
`ImplementsPubSub` was checked so with the bounds of broker_live as well, where CCS may die.

Deadlock is checked in the runs of the ring, of the set and of the blocks.  In the
others the system rests when the clients have closed and the bounds on
connections, requests, messages or signals are used up, when the server has
ended (ccs_threads), or when both processes have failed their assertions for good (shared_ring).

### Fairness

`CodeQueue!Fairness`: the reader's loop and a call of the writer go on.  Both are
loops that wait a millisecond at most, in processes of their own.  No caller has
to append.  `Broker!Fairness`: each process goes on with what it can do by
itself; no client has to connect, ask or close.
`RecvFraming` is fair to the process alone: epoll is level-triggered, so what has
arrived is read in the end; a full pipe makes it close, not wait, so nothing is
asked of MCP.  `OutStream` is fair to the
loop (`Loop`), and to the peer and the network as far as they read and answer a
connect (`PeerReads`, `Resolves`); a peer that stops reading for ever keeps what is
buffered, and no time-out of the code would free it.
`QueueSet` is fair to the reader's loop alone: no writer has to write or to notify.
`CcsThreads` is fair to each thread, not to clients or signals.  `SharedRing` is
fair to a process that was started, waits for the lock or holds it; nobody has to
start, append, exit or be killed.
`HeadTaken` excepts frames that the edge breaks and that are longer than the
buffer offered to `GetHeadCode`; such a frame stays at the head for ever.

## 4. Proofs

`CodeQueueProofs` proves, for every size of the ring (not less than the
reserve), every set of body lengths and payloads, every reader's buffer and any
number of deaths, that `IInv` is an invariant of `Spec`, and from it `TypeOK`,
`ReserveKept`, `FramesChained`, `FramesIntact`, `ReaderHasHead`, `HeldStable`,
`OverrunNeedsRace` and `NoLostWakeup`.

`FramesIntact` alone is not inductive: that an append leaves the unread bytes
alone needs the positions of all unread frames (`FramesChained`, `FramesApart`),
the room that is still free while an append is in progress (`ReserveKept`), and
what the two processes have read or written half way (`WriterLocals`,
`ReaderLocals`).  The argument is arithmetic of distances behind the reader's
position: every unread frame lies within the first `Used` bytes, what the writer
touches lies behind them and before the reserve, and a position is reduced
modulo the size at most once.  The lemmas at the head of the module state this
arithmetic; one lemma per action follows.

`SharedRingProofs` holds for any number of processes, segments, sizes,
edits and room in the ring, on the assumption that processes and kills together
are no more than the lock's signed byte counts (`SpinLockAssumption`).  The
lock's byte is 1 less those who wait, less one if somebody is in it, less the
killed who never gave theirs back; `LockSafe` is that count, and what follows
from it: one holder at a time, and every `decb` takes 1 from the byte, none wraps it.  `RingFresh`, which
needs no premise, rests on a segment having one creator and being zeros until
that one has stored the size (`OneCreator`, `Zeros`).  The others add, while no
two starts have overlapped, that all who are up are attached to the segment of
the key (`Together`) and that whoever initialises the lock is alone (`LockSide`).

`QueueSetProofs` holds for any number of rings, room and kinds of frames.  `BoundedOvertaking` is
not inductive: a ring may have been passed once for every ring between the place of the
reader and itself, so `Overtaken` bounds the count by that distance.  For
`NoLostWakeup` the rings already found empty in the current round must have a
notification or its writer still under way if they are not empty now (`Announced`).

`BrokerProofs` holds for any number of clients, topics, slots, connections,
requests and deaths and any room in the pipes.  MCP rewrites heads, keeps some of
them and sends copies, so what is proved of its steps is that they stay within
any set of frames its rewriting does not leave (`Closed`, `Within`); `TypeOK` takes all
frames for that set, `RoutedWithinLife` those whose number finds their own
connection or one of a later life (`Tagged`).  That this set does not shrink is
because numbers only go up within a life: `Tagged` says that the number is
below `m_unID`, so no later connection gets it, and that no slot has it now but
the frame's own.

The second half of `BrokerProofs` goes on from there to what reaches a connection, again
for any number of everything.  None of the three properties is inductive; each
rests on an invariant of its own, and the later ones on the earlier:

* `BrokerOnlyWhatWasAsked` (over deaths of both): whatever lies in a pipe, an inbox, the
  hand of MCP or the subscriptions goes back to a request that its addressee made
  (`Asking`).  Numbers decide who gets a frame, so `Tagged` is used again.
* `BrokerInOrder` (over deaths of both): a connection's frames in `ccs2mcp`, in MCP's hand, in
  `mcp2ccs` and in its inbox carry the orders of their requests, and each of
  these places lies wholly behind the next one (`Ordered`).  A head that was rewritten and
  is met again after a restart is the case that needs it: its answer may have
  gone out already (`OutBehind`).
* `BrokerSubscribersServed`: of every published message and everyone it
  is owed to, one of three holds (`Serving`): the message is still waiting, it is in MCP's hand
  and the addressee's turn has not passed, or its copy is in the pipe or
  delivered or lost to a full pipe.  Behind it are that a connection which is open
  finds what is sent to it (`Found`), that of the connections of one address only the
  last is open (`LastOpen`), and that whoever was told that it subscribed is in
  `g_mapTopicToAgent` as long as MCP has not died (`Remembered`).

`RecvFramingProofs` holds for any messages, head, buffer and pipe, for CCS and SCC.
That messages arrive whole is not inductive: what is in the buffer must be a begun
message of the connection that has the slot now (`HeldIsPartial`), nothing of an
earlier user (`OnePlace`), and must be followed by what the network still
holds (`NetIsSent`, `SentRuns`).  `NothingSkipped` is then that pipe, buffer and network in a row
are what was sent.

`OutStreamProofs` holds for messages of any lengths and any buffer of the kernel.  Between
the two halves of an event the slot may get another owner, so the invariant
says which kinds of node may be in hand there (`NodeTypes`), that a free slot buffers
nothing (`FreeIsEmpty`), and that of a failed connect nothing but the failure is told (`FailTold`).

`CcsThreadsProofs` holds for any number of threads, ports, descriptors, connections and
signals.  `DescriptorsTheirOwn` and `ClosedByItsThread` need that a connection is in one hand at a time:
new, in a pipe, or in a table (`NewApart`, `PipesApart`, `PipeTableApart`, `TablesApart`), and that what the
kernel says of a number agrees with whoever has it (`KernelRight`).  All of that ends when the
process does, which closes everything at once; what survives is `Accounted`.

`BuffMngProofs` holds for any pool, any size of a block, any number of buffers and any
lengths.  A chain is what a recursive function (`Walk`) finds along the links; the one
induction in it, over sets of numbers by the least element of a set, is `ChainIs`: if a
row of distinct blocks is linked one to the next and ends, it is the chain (`Follows`).
From there on the proof is about such rows and what `Linked` does to them
(`Created`, `Destroyed`), and about how many blocks a number of bytes needs
(`Needed`, `RoomBehind`, `BlocksLeft`).  `PoolRight` is not inductive: that all chains end (`ChainsEnd`)
and that a buffer without a block holds nothing while one with blocks holds the bytes that need them,
also when an append to it has just been refused (`ItemsWhole`), must be added;
`OneBuffer` says once what a step that works on one buffer must show of it.

`BuffImplementsFifos` is the refinement of `ByteFifos`: every step puts bytes at the end of one
buffer, takes some from its front, or changes none (`Puts`, `Takes`,
`Stays`).  It needs that no two places of a chain are the same byte of memory, which is
that no block is in it twice and a number is its quotient and its remainder
(`SamePlace`), that an append that runs out of blocks wrote only behind the bytes there were
(`Goes`), and that no other buffer has a block that was written or freed (`OthersUnchanged`).

TLC has checked every one of these inductive invariants on the instance of its
component's run (those of the broker on three) before they were proved.

Only model-checked:

* liveness (`HeadTaken`, `HeadServed`, `RequestsHandled`, `RepliesTaken`, `AllTaken`, `Drained`,
  `Answered`, `Settled`, `ExitObeyed`, `SeesItFree`), which TLAPS does not reach;
* the refinements `ImplementsFifo`, which decodes memory recursively, and `ImplementsPubSub`,
  whose mapping filters sequences.

## 5. Not modelled

* The variants of the ring with mutexes and with a read lock (they create, attach
  and initialise in the same steps as the write lock of `SharedRing`), `GetAppendPtr`
  and `AppendCodePtr` (no caller), the creation of the notification FIFO, the
  parsing of the queues' files.
* A second writer of the ring between CCS's threads: `NotifyAllThread`
  (auxhandle.cpp:1050) is reached by `CMD_CCS_MCP_NOTIFY_DISCONN` alone, which no
  process here sends.
* UDP, the admin ports, the contents of the address lists, what a reload reads,
  statistics, how the load is measured (`CcsThreads` chooses what the check says).
* Time-outs: CCS's is off in `etc/`; SCC's never advances its index
  (mainctrl.cpp:342-383).
* SCC's pause while its receive pool is nearly full (mainctrl.cpp:651-659).
* The agent: unfinished; its answers carry a head of SCC that CCS cannot route
  (agent_ctrl.cpp:67-85); its `frame_ctrl.cpp` is the server's but for names.
* The client library, but as the environment of CCS: `clnt.h` keeps no state, takes
  one read for one message and reads no field of an answer but the text it prints.
* Caches (`MemCache`, `MemKeyCache`, `NodeCache`, `DiskCache`), hash maps, timers, logs,
  ASN.1 and MySQL wrappers, `third_lib`, `tools`: vendored, generated or not linked into the
  message flow.  They are most of the repository's 140,000 lines: the broker, CCS, SCC, the
  rings and the block buffers are some 10,000 of them, and the map's share of the
  whole is small for that reason.

## 6. Plan

1. The steps of the broker against `PubSub`, with the filtered sequences as functions of the
   pipes.
2. The steps of the ring against `MessageFifo` with the decoding written as a function.
3. The mutex variant of the lock, should a configuration turn it on.

# A verification development for mymuduo

The repository is a C++ network library in the one-loop-per-thread style
(`src/muduo`), plus a small observer-pattern program (`src/design_pattern`).
This directory holds TLA+ models of its concurrent core, the TLC runs that check
them and the theorems TLAPS proves about them. Every definition is written from
the code; `PROJECT.json` maps definitions to source lines and lists runs,
mutants, findings, hazards and theorems.

## 1. Inventory

| Component | State | Operations | Interacts with | What is hard |
|---|---|---|---|---|
| `EventLoop` | `looping_`, `quit_`, `callingPendingFunctors_`, `pendingFunctors_` (mutex), `activateChannels_`, eventfd | `loop`, `quit`, `runInLoop`, `queueInLoop`, `weakup`, `handleRead`, `doPendingFunctors` | any thread calls in; calls the poller, channels, functors | lost wakeups, order of flag, swap and read, quit against poll and against entry |
| `EventLoopThread`, `Thread` | `loop_`, mutex and condition, the `std::thread` | constructor, `startLoop`, `threadFunc`, destructor | owner and worker share the object; the worker owns the loop on its stack | the handshake, unlocked read in the destructor, quit of a dying loop |
| `EventLoopThreadPool` | `threads_`, `loops_`, `next_` | `start`, `getNextLoop`, destruction of its threads | a member of `TcpServer`, destroyed before the acceptor | loops that stop with connections and functors on them |
| `Poller`, `EpollPoller` | `channels_`, `events_`, the kernel's interest list | `poll`, `updateChannel`, `removeChannel` | channels, the kernel | three books on one fact; unused slots of `events_`; descriptors reused |
| `Channel` | `events_`, `revents_`, `index_`, `tie_` | enable/disable, `remove`, `handleEvent` | its loop, its owner's callbacks | masks that share a bit; callbacks on an owner about to go |
| `TcpConnection` | `state_`, channel, input and output buffers | `send`, `shutdown`, four handlers, `conneectEstableished`, `conneectDestroyed` | its loop, other threads, `TcpServer` | partial writes, shutdown with output pending, two ways to end, lifetimes |
| `TcpServer` | `connections_`, `nextConnId_`, `started_` | `start`, `newConnection`, `removeConnection(InLoop)`, destructor | main loop and I/O loops | removal across two loops, destruction while loops run |
| `Acceptor`, `Socket` | listening socket and channel | `listen`, `handleRead`, `accept` | main loop, `TcpServer` | failing accept under level triggering |
| `Buffer` | vector, reader and writer index | `append`, `retrieve*`, `readFd`, `writeFd`, `makeSpace` | `TcpConnection` | index arithmetic, when to grow and when to compact |
| `Logger` | shared level | `setLoggerLevel`, `log` | everybody | the level is set and used in two calls |
| `Subject`, `Observer` | queue, list of weak observers, worker thread | `attach`, `detach`, `notify`, destructor | producers, worker, observers | unlocked list, order of members, draining at the end |

`InetAddress`, `Timestamp`, `CurrentThread`, the type aliases, `Logger` and the
demonstration in `my_test` are not modelled (section 7).

What makes the components correct, in a line each: a functor handed to a loop is
run once, in order, without waiting for a timeout, unless the loop stops
(`EventLoop`); the loop's address is given out only while the loop exists, and
the object outlives its thread (`EventLoopThread`); the poller, the channels and
the kernel agree on what is registered, and poll hands out live channels that
really are ready (`EpollPoller`); bytes are neither lost nor reordered, output
gets written, a connection ends once and ends disconnected (`TcpConnection`);
a connection is destroyed once, on its own loop, freed only when nothing can
reach it, and never left behind in a poller (`TcpServer`); bytes leave a buffer
in the order they came, and its memory follows its content (`Buffer`); each
message reaches each attached observer once and in order, and the destructor
drains the queue and returns (`Observer`).

## 2. Modules

    TaskQueue              what a loop promises: one FIFO, run while looping
    EventLoop              the loop in detail; implements TaskQueue
    EventLoopProofs        theorems about EventLoop
    EventLoopThread        owner and worker around EventLoop (EXTENDS it)
    EventLoopThreadProofs  theorems about the composition
    Channel                mask arithmetic and order of callbacks, masks as constants
    EpollPoller            poller, channels, kernel interest list (EXTENDS Channel)
    EpollPollerProofs      theorems about EpollPoller
    TcpConnection          a connection, its loop, callers, server (EXTENDS Channel)
    TcpConnectionProofs    theorems about TcpConnection
    ConnectionLife         what a connection promises: the one life it lives
    ConnectionLifeProofs   TcpConnection implements ConnectionLife (EXTENDS its proofs)
    TcpServer              server, acceptor, pool and loops over all connections
    TcpServerProofs        theorems about TcpServer
    ByteQueue              what a buffer promises: a FIFO of bytes
    Buffer                 the vector and its two indices; implements ByteQueue
    BufferProofs           theorems about Buffer
    Observer               Subject, worker thread, observers and their users
    ObserverProofs         theorems about Observer
    MC...                  constants for TLC

The models meet at what each shows of itself. `TcpConnection` and `TcpServer`
take a loop at `TaskQueue`, which `EventLoop` implements. `TcpServer` takes a
connection at its state, whether its poller knows it and how often it was
destroyed: the inside is `TcpConnection`'s, which in turn takes the server at
three facts. Both implement `ConnectionLife`: what the server does to each of its
connections, and what a connection does whatever its server and its user do, is
the same life. `TcpConnection` takes a buffer at its readable bytes, which `Buffer`
shows to be a queue.

### EventLoop

The loop's thread has a program counter `pc`; other threads appear through their
calls. A step ends where another thread can see the difference: the append of
`queueInLoop` and the eventfd write that follows it are two steps (`mustWeakup`
holds the threads in between), as are `quit_ = true` and its wakeup. The test in
`queueInLoop` is taken with the append: the flag it reads is only ever read and
written by the loop's own thread. `LoopStart` resets `quit_`, as the code does; it
makes the two stores of its first lines one step, since no other thread reads
`looping_`. A functor that is the last of its batch leaves the flag up until
`EndPendingFunctors`, and `TypeOK` says where it is up.
A callback and a functor are places (`callback`, `functor`) in which the loop's
thread may call the loop again. The eventfd counter saturates at `MaxCount`,
because the descriptor is non-blocking and a failed write is only logged. The
order of dispatch within a batch is left open, so nothing rests on it.

`poll` is taken at the contract of the abstract class `Poller`: it returns the
channels that are ready. `EpollPoller` does not keep that contract (section 5),
so what is shown of `EventLoop`, `EventLoopThread` and `TcpConnection` is what
they do over a poller that does.

`early` is a history variable: the functors the loop's own thread queued outside
`loop()`. They are the exception to the wakeup rule, and the exact one.

### EventLoopThread

The life of one object: `owner` walks through construction, `Thread::start` with
its semaphore, `startLoop` with its condition variable, use, and the destructor;
`worker` walks through `threadFunc`. Every `EventLoop` action is used as it is,
guarded by who has the loop's address. The unlock at the end of `threadFunc` is a
step of its own because the destructor does not take the mutex. For the same
reason its two reads of `loop_` are two steps (`tested` lies between them): between
them the worker may clear `loop_` or destroy the loop, and a second read that finds
null ends there (`crashed`). Waking from
`cond_.wait` for no reason is allowed, and never counted on. Calls by the owner
are made on a live loop: a caller that keeps the pointer after the loop stopped is
the application's mistake; what the destructor itself does is not so restricted.

### Channel and EpollPoller

Masks are sets of epoll bits, and `kReadEvent`, `kWriteEvent` are constants.
`EpollPoller` runs with the code's values. It keeps `index_`, `channels_`, the
kernel's `interest` list and the array `events_` with its null slots; `phase` is
the loop's cycle of poll, dispatch and pending functors, and channels are
constructed, changed, removed and destroyed in the last two. A poll that would
touch a null pointer ends the process (`stopped`), as does an `epoll_ctl` that
fails on ADD or MOD (`LOG_FATAL` exits). `revents_` is carried by the entries of
`activateChannels`. Closing a descriptor removes it from the interest list, as
the kernel does.

### TcpConnection

The connection's loop is taken at what `TaskQueue` promises: `pending` is a FIFO
of functors. A handler is one step up to the user callback it makes; what remains
of the handler stays in `work`, so that `handleClose` continues with the close
callback after the user's. Other threads take `send` in two steps (assertion,
queue) and `shutdown` in three (test, store, queue). `UserSend` and
`UserShutdown` are calls from callbacks on the loop's thread and run inline. A
string is a sequence of `Size` units, and a write takes any number of them, none
(`EWOULDBLOCK`), or fails (`EPIPE`, `ECONNRESET`; the application is taken to
ignore `SIGPIPE`, which the library does not). The
callbacks for write completion and high water are installed. Accepted sockets of
this library are blocking, which the nondeterministic writes include.

The connection is on a loop of the pool. One on the server's own loop differs in
the destructor alone, whose `runInLoop` runs `conneectDestroyed` at once: that is
`DestroyConnection` of `TcpServer`, in pools of 0.

The server is three facts: does it hold the connection, how many
`removeConnectionInLoop` are queued at the main loop, is it gone. Using a
destroyed server or connection ends the run (`stopped`). Functors run one at a
time and the object may be destroyed between any two, slightly finer than the
code, whose local vector keeps the shared pointers of a batch to its end; no
property below depends on it.

`Uses` names what the application does beyond the ordinary: send from other
threads, shut down from other threads, send temporaries, destroy the server
while loops run. `late` is a history variable: `shutdown` on another thread has
stored `kDisconnecting` over a connection that had meanwhile ended. It is the
exception to several properties, and the exact one.

### ConnectionLife

The life that user and server see of one connection, in four actions: it is
established, perhaps asked to end, closed by its peer, destroyed by the server. The
user is told of the end at most once: when it is closed, or when it is destroyed
while still established. In
`TcpConnection` the life's `ended` is that the server has let go and the
`conneectDestroyed` it queued has run (`Ended`). `TcpServer` keeps connections that
nobody shuts down, so its lives are those without `AskToEnd`; there a client that has not
connected is at its `Init`.

`Close` is possible after `End`: a connection that `conneectDestroyed` leaves
`kDisconnecting` is registered again by a `send` still queued, since `sendInLoop`
tests only for `kDisconnected`, and its peer may then close it.

### TcpServer

Loop 0 is the main loop, the pool's are 1, 2, ... Each has its place in `loop()`,
its `quit_`, its `pendingFunctors_` and its `batch`, the vector
`doPendingFunctors` has swapped out. The batch is kept whole until its end,
because the functors already run still hold their `shared_ptr`s; `Referenced`
is the reference count of a connection seen as a predicate: in `connections_`,
or bound in a functor somewhere. (A handler in progress is guarded by the
channel's tie; `HandleClose` is one step and its functor is queued in it.)

`Start`, `Accept`, `HandleClose`, the removal on two loops and the destructor
are actions; the destructor goes through `connections_` one at a time, in any
order, then through its members in the reverse order of their declaration: the
pool's threads, each `quit` and `join`, and then the acceptor. A functor still queued when a
loop dies is dropped, with its reference (`dropped`). `EnterLoop` resets `quit_`,
so the lost quit of section 5 can occur here too. The main thread owns the
server and destroys it outside `loop()`; it may run the main loop again afterwards,
and a functor that then uses the server ends the run (`crashed`).

### Buffer

The model is the vector, byte by byte, because the order of copying and the two
indices are the whole of this class; `ByteQueue` is what they add up to.
`given`, `received` and `out` are what the last operation was given by its caller,
took from the socket and handed out; `peak` is the longest content so far.
The constructor ignores the size it is given (`Buffer.h:15`), and so does `Init`.
`retrieve(len)` with exactly the readable length does not take the indices back
to the head: only a longer one does. `retrieveAsString` does not look at its
length; the model calls it with no more than is readable, as it would otherwise read
behind the written bytes.

`ReadFd` is the code's: `recv` is given the address of the array of iovecs and
the number of its elements as a length, so it overwrites at most two bytes of
that array and none of the buffer, and the writer moves on over whatever the
buffer held. What its comments promise, that the bytes received become readable
behind the others, is `ReadFdAppends`, and refuted (`buffer_readfd`). `ByteQueue`
knows no such operation: it is joined at the back and taken from at the front, by
the bytes given and handed out. `ByteQueueRefined` therefore names `readFd` as the
one step outside it and says what is left (`ReadFdKeepsFront`): what was readable
stays, in front of as many bytes as `recv` took. `TcpConnection` does not model
received bytes.

### Observer

`Users` share the Subject and run its operations; the worker runs the
callbacks, which may call the same operations. A user's `create_message` is two
steps (stored, notified) with `msg_mutex_` held across; `attach` and `detach` are
begun and ended, so that their overlap with the worker is a state. `~Observer`
detaches nothing, because `weak_from_this()` has expired by then, but it walks the
list (`walking`), also without the mutex. The worker's
iterator is an index into the list, moved by erasures before it. Whoever drops
the last `shared_ptr` runs `~Subject`, and during `update` the worker holds one. So
does a thread inside `remove_self`, for `lock()` returns one: `Holders` are the
owners and these, and `~Subject` may run on such a thread, inside `~Observer`. Who
holds the Subject and who may let an observer go are different threads (`MayCall`,
`MayRemove`).

`end` names what ended a run where the code is undefined or throws: the list
used by two threads at once and changed by one of them, the node under the iterator
erased, the message read while it is written, `remove_from_subject` for a Subject
without a callback (it goes through the end iterator), the worker joining itself.
Left out is that `find_if` holds a `shared_ptr` to each entry it looks at, which may
be the last one, and that an entry may expire between its two tests (`observer.h:46`).
`shutdown` starts as
either value and is initialised by a step of its own (`Constructed`), after the
worker has started: the code declares it after the thread. `taken`, `given` (what
of it is not empty, so goes to the observers), `since` and `seen` are history.

## 3. Runs

All bounds are small sets of model values. They are enough because the models
have no counting beyond them: one extra thread already gives every two-thread
race, two functors, strings or messages give order, three connections go round a
pool of two.

| Run | Bounds | Shows |
|---|---|---|
| `event_loop` | 2 threads and the loop's, 3 functors, 1 channel, eventfd counter up to 2 | `TypeOK`, `NoLostWakeup`, `QueuedRuns` and `QuitStops` (without the poll timeout), `TaskQueueRefined` |
| `thread_life` | 1 owner, 2 functors; owner, functors and destructor quit | `ThreadTypeOK`, `ObjectOutlivesWorker`, `PublishedLoopIsAlive`, `StartReturns`, `DestroyReturnsFromLoop` |
| `thread_destroy_hangs` | the same, only the destructor quits | `DestroyReturns` fails |
| `poller_books` | 2 channels, 2 reusable descriptors, 2 slots growing to 4 (16 in the code) | `TypeOK`, `BooksAgree`, `CtlNeverFatal`, `BatchIsAlive`, `SurvivingPollIsExact` |
| `poller_null` | 2 slots | `OnlyActiveFilled` fails |
| `connection` | 2 threads that send and shut down, 2 strings of 2 units, mark at 3; the server may be destroyed at any time; masks of one bit | `TypeOK`, `StreamIntact`, `ShutdownAfterOutput`, `CloseAsserts`, `EndsDisconnected`, `LivesOnce`, `HighWaterCrossings`, `ClosedIsFreed` |
| `connection_masks` | 1 thread, 1 string, the masks of the code | `OutputArmed` fails |
| `connection_strings` | 1 thread, 1 string that dies when `send` returns | `SentAsPassed` fails |
| `buffer` | head and body of 2 bytes, second buffer of 2, up to 3 readable, 2 values (symmetric) | `TypeOK`, `GrowthBounded`, `ByteQueueRefined` |
| `buffer_readfd` | the same | `ReadFdAppends` fails |
| `server` | pools of 0, 1 and 2 loops, 3 connections | `TypeOK`, `LivesOnce`, `FreedDisconnected`, `RegisteredIsAlive`, `CloseCallbacksEnd`, `RoundRobin`, `ClosedIsForgotten` |
| `observer` | 2 users, 2 observers, 2 messages, 2 list entries, 1 bare `notify`, 2 calls of `set_callback` by callbacks | `TypeOK`, `NotificationOrder`, `SeenInOrder`, `DrainedAtEnd`, `WorkerServes`, `DestructorReturns` |

The larger ones: `event_loop` has 67,270 distinct states, `thread_life` 24,939,
`connection` 658,408, `buffer` 14,968, `observer` 817,113.

What the properties except, they except by name: several of `TcpConnection` a `late`
store, `QueuedRuns` the `early` functors, `ObjectOutlivesWorker` and `StartReturns` a
loop that user code has quit, `FreedDisconnected` a connection whose last functors died
with their loop, `SeenInOrder` observers attached twice and a Subject already
being destroyed, `ByteQueueRefined` the bytes of `readFd`, the liveness of `Observer`
the runs that ended undefined. `EndsDisconnected` does not say that the destructor's
assertion holds, for it does not: it says on which connections it fails (section 5).

The passing connection run uses masks with one bit each, as the comments of
`Channel.h:39-51` describe them. With the masks of `Channel.cpp:10-11` `handleWrite`
never runs, nothing is ever written and no write side shut (`SharedBitSilences`), so a
run with them alone would leave half of the module untouched. No property of the run
rests on the difference: the theorems of section 6 hold for both, and the
properties that do, that buffered output is armed and that a shutdown completes, are
not claimed. `OutputArmed` is the run `connection_masks`; the other fails for the same
reason.
`MaxListSize` is the only bound that cuts a run by a state constraint
(`poller_books`): `events_` larger than 4 is not explored, and doubling behaves the
same at every size. `MaxReadable`, `MaxConns`, `MaxEntries`, `MaxAgain` and
`MaxNested` are bounds on what callers do. `MaxNested` is needed: an observer attached
by a callback is visited in the same delivery, so a callback that attaches at
every call keeps the worker in one delivery for ever. A buffer that holds 3 of
4 bytes reaches every case of `makeSpace`. Deadlock checking is off where the
system really ends: a destroyed object, a stopped process.

## 4. Fairness

Threads are scheduled: the loop's thread, a thread inside a call, the owner and
the worker keep stepping (weak fairness). `QueuedRuns` and `QuitStops` assume no
timeout and no peer: no run assumes `PollTimeout`, and `QueuedRuns` excepts the
early functors, which really wait for it (10 s). Nothing makes a caller call, a peer send or an owner
destroy. For a connection, functors and a readable socket are served however many
other events occur (strong fairness): `doPendingFunctors` follows every batch and
epoll is level-triggered. The main loop runs the removals queued at it, and the
last reference goes in the end (strong fairness, for calls in progress may hold one in
between). `ClosedIsFreed` assumes of the peer nothing beyond its close, which
the level-triggered poller reports until `handleRead` has seen the end of file.

In `TcpServer` a thread inside `loop()` keeps stepping, which rests on
`EventLoop`'s wakeups; no client, no user and no destructor step is assumed to
happen, so `ClosedIsForgotten` excepts only a main loop that has been left. In
`Observer` the worker steps, callbacks and operations already begun return, and
the constructor ends; a wait is ended for certain only by its notification. `Buffer`
and `EpollPoller` state no liveness.

## 5. Findings

Shown by a run that TLC refutes:

1. **Poll and unused slots** (`poller_null`): `fillActivateChannels` ignores the
   number of events, so a poll that does not fill `events_` dereferences null.
2. **Masks share `EPOLLPRI`** (`connection_masks`): `isWriting()` is true as soon as
   reading is enabled. Output is buffered and never written, and `shutdownInLoop`
   (`TcpConnection.cpp:187`) never shuts the write side, so that no `shutdown()`
   completes. `SharedBitSilences` proves both.
3. **Lost quit** (`thread_destroy_hangs`): `loop()` resets `quit_`; a destructor
   faster than the worker joins for ever.
4. **`readFd` reads nothing into the buffer** (`buffer_readfd`): `recv` is given the
   array of iovecs itself (`Buffer.h:101`).
5. **Dangling data** (`connection_strings`): `send` from another thread keeps a
   pointer into the caller's string.

Known from the models or met while reading, without a run of their own:

* `~TcpConnection` aborts on a connection that is `kDisconnecting` when
  `conneectDestroyed` runs, which changes the state of a `kConnected` one only
  (`TcpConnection.cpp:74`): a `shutdown()` before or after the server's destruction,
  and no close by the peer. `EndsDisconnected` says that this and a late store are
  the only ways, and `AssertionFailsHalfClosed` proves it;
* the destructor's `quit` of an `EventLoopThread` can write to the eventfd of a
  loop the worker has just destroyed; and when user code quits the loop, its second
  read of `loop_` can be null;
* `shutdown` tests and stores in two steps: its store can follow `handleClose`,
  which leaves a closed connection `kDisconnecting` for its destructor, and a
  later `sendInLoop` may enable its channel again (`late`);
* a connection shut down and then destroyed with its server stays `kDisconnecting`,
  and a `send` from another thread still queued then enables its channel again: the
  peer's close reaches `handleClose`, and the close callback a server that is gone
  (`Close` after `End` in `ConnectionLife`);
* a functor queued by the loop's own thread before `loop()` wakes nobody, at odds
  with the comment on `queueInLoop`, and may wait for the poll timeout (`early`);
* functors still queued when a loop of the pool stops are destroyed unrun. If a
  `conneectDestroyed` is among them, `~TcpConnection` asserts: this is the
  exception in `FreedDisconnected`;
* a removal or a `listen` queued at the main loop outlives the server: when the
  loop is run again afterwards it uses a destroyed object (`crashed`);
* the comment "reset" on `retrieve` in `retrieveAsString` promises more than
  happens when all of the buffer is retrieved;
* `Socket::accept` passes an uninitialised `len` (`Socket.cpp:31`), and the
  acceptor takes descriptor 0 for an error (its test is `connfd > 0`);
* `attach` and `detach` change `observers_` without the mutex the worker iterates
  under (`observer.h:40-51`); `main.cpp` attaches while the worker runs, and `~Observer`
  walks the list on whatever thread lets the observer go;
* `remove_from_subject` dereferences the end iterator for a Subject without a callback
  (`observer.h:148-149`);
* `shutdown_` is read by the worker before it is initialised: garbage that reads
  as true ends it at once, and nothing is ever delivered (`worker = "never"`);
* `~Observer` calls `remove_self`, but `weak_from_this()` has expired by then, so
  nothing is detached and the comment at `observer.h:125` ("remove itself from
  every subject") does not hold; the worker prunes the entry later;
* a callback that detaches its own observer erases the node under the worker's
  iterator; a second `set_callback` for one Subject attaches a second entry; a
  worker that drops the last reference to the Subject joins itself.

## 6. Proofs

`EventLoopProofs` proves, for every set of threads, channels and functors and
every counter limit, assuming only that the loop's thread is not one of the
others, the wakeup channel not one of the I/O channels, and the limit positive:

* `TypeCorrect`: `SafeSpec => []TypeOK`, inductive as it stands: `Typed`, `FlagUp`
  (the flag is up exactly from before the swap to the end of the batch),
  `BatchOver` and `LoopingInside`;
* `NoWakeupIsLost`: `SafeSpec => []NoLostWakeup`;
* `LoopIsTaskQueue`: `SafeSpec => TaskQueueRefined`, the refinement with
  `queue <- functors \o pendingFunctors`.

`NoLostWakeup` speaks of the places `check` and `poll` and is not inductive: a
step into `check` comes from `run`, where nothing is known. The invariant `IInv`
adds to `TypeOK` `WakeupOwed`: a waiting functor has a wakeup on its way everywhere
except between `handleRead` and the swap. The key steps:
`HandleRead` clears the counter, but leads only to the swap, which takes every
functor; a functor queued after the swap by the loop's own thread finds the flag
up, and by another thread is always followed by a wakeup; any functor can only
join `pendingFunctors` (`AwaitsAfterAppend`). The refinement uses that the batch
is empty when the swap takes place, so that the concatenation does not change, and
maps every other step to a step of `TaskQueue` or to a stutter.

`EventLoopThreadProofs` is about the composition, for every owner and every set
of quitters, assuming only that the owner is one of the threads:

* `ThreadRunsLoop`: `SpecThread => SafeSpec`. Every step in the life of an
  `EventLoopThread` is a step of its loop or leaves it alone, so that the theorems
  above carry over, with their exceptions;
* `ThreadTypeCorrect`, `PublishedIsAlive`, `WorkerIsJoined`, the last being
  `ObjectOutlivesWorker`. It is not inductive: that the object goes only after the
  worker rests on the destructor having found `loop_` set both times, which rests on the
  worker not having left `loop()`, which rests on nobody having quit it.
  `ThreadInv` says so: `PublishedInLoop` (`loop_` is set exactly between its two
  assignments), `QuitHasCause` and `StopHasCause` (a set `quit_`, a worker behind
  `loop()`, have the destructor or user code behind them), and where the
  worker is before the owner has the loop.

`BufferProofs` is for all sizes and alphabets, assuming the sizes are naturals:

* `IndicesInBounds` (`TypeOK`) and `MemoryBounded` (`GrowthBounded`), by the
  invariant that is their conjunction: growth happens only when the bytes
  already read do not make room, and then the new size is paid for by content;
* `BufferIsByteQueue`: `Spec => ByteQueueRefined` with `queue <- Readable`.
  The lemma `AppendKeeps` says what an append at any writer index does to the
  bytes before it, through the three cases of `makeSpace`; `readFd` and `append` use
  it. `AppendIsJoin`, `KeptIsFront`, `AdvanceIsTake` and `FrontOfReadable` turn
  statements about indices into statements about sequences.

`ObserverProofs` is for all users, observers, messages and bounds, assuming only
that the worker is not one of the users:

* `QueueIsDrained` (`DrainedAtEnd`). That `~Subject` returns on an empty queue rests
  on the worker having returned by itself (`GoneAfterWorker`), which it does only
  on `shutdown_` with nothing queued (`ReturnedEmpty`); that nothing is queued
  after that rests on nobody being left to call: a thread inside an operation holds
  the Subject (`InsideHolds`), and inside the destructor nobody does, callbacks
  included (`NobodyHolds`). `RaisedAtEnd` and `BeforeReady` tie `shutdown_` to the
  destructor on both sides of its late initialisation. Together they are `EndInv`;
* `NotifiedInOrder` (`NotificationOrder`), inductive together with `OneNoting`: that
  `msg_mutex_` has one holder.

* `TypeCorrect` (`TypeOK`, with the worker's iterator inside the list) and
  `ObserversSeeInOrder` (`SeenInOrder`). The property speaks of the time between
  deliveries; in the middle of one, `AllShown` says of every *entry* of the list that
  its observer was shown all messages up to `Reached`: all that were given, but for
  the current one where the worker has not come yet. That an observer stands for one
  entry is `ListedOnce`, and `IteratorInside` places the worker. The step that could
  go wrong is an erasure (`RemovalKeepsSeen`): entries behind it move up, and the worker
  with them if it stands behind it, so that each entry stays on its side of the
  worker. An observer attached by a callback comes behind the worker, and `since` counts
  the current message for it (`SetCallbackKeepsSeen`).

`EpollPollerProofs` is for any channels, descriptors, masks and first size of
`events_`, assuming that the masks are made of epoll bits, the size positive and
`Null` neither a channel nor a descriptor:

* `BooksStayInStep` (`BooksAgree`) and `CtlNeverExits` (`CtlNeverFatal`), from `BooksInv`:
  `index_` alone tells what `channels_` and the kernel say of a channel
  (`IndexTells`), no two live channels share a descriptor (`OwnDescriptor`), and nothing
  is said of a descriptor without a channel (`FreeIsBlank`). The last is what
  `BooksAgree` lacks to be inductive: descriptors are reused, and a new channel's
  `kNew` is right only over blank rows;
* `BatchStaysAlive`, `TypeCorrect`, and the action property `SurvivorsAreExact`
  (`SurvivingPollIsExact`), from `ListInv`. Its part `LastSlotNull` says that `events_`
  ends in a null slot before every poll: a poll survives only if it filled the array, and
  then the resize adds more. A poll that survives therefore handed out all slots.

`TcpConnectionProofs` is about `SafeSpec`, for any messages, sizes, threads, marks and
masks, assuming a positive size and mark, messages that differ from three
program places, and masks in which write is not empty and read has a bit of
its own: the masks in the code satisfy this too. `ConnInv` is inductive: `Ordered`
(what is left of a handler: the close callback directly or behind the user's, the
removal last), `Fresh`, `EstablishedOnce`, `Registration` (where the channel is
registered, and that it asks for reading until the end), `AfterTheEnd` (what is done
once, and only after the end), `OutputWaits`, `StreamIntact`, and `Stops` (what can have
ended the process).

* `StreamStaysIntact`, of the bytes that `sendInLoop` accepted and no others;
  `ClosesOnce` (`CloseAsserts`), `EndToldOnce` (`DownOnce`), `ShutdownIsLast`
  (`ShutdownAfterOutput`), `TypeCorrect`;
* `CrossingsAreTold` (`HighWaterCrossings`, an action property): the callbacks queued
  are counted by the cardinality of their places in the queue;
* `SharedBitSilences` has two hypotheses more, that read and write share a bit and that
  reading has no `EPOLLOUT`: the code's masks. Then nothing is ever written, and the
  write side is not shut before the connection is disconnected, short of a late store.
  Its invariant `Silent` says that an open channel asks for the events of reading and
  for no others, so that `handleWrite` is never due and `isWriting()` always true.

`ConnectionLifeProofs` adds the refinement, under the same assumptions: `ConnectionLivesOnce`
(`LivesOnce`), that every step is a step of `ConnectionLife` or leaves it alone unless a
late store came before, `ConnectionIsALife`, that without one the whole of it is
`Life!Spec`, and `AssertionFailsHalfClosed` (`EndsDisconnected`). `ConnInv` does not suffice: it says nothing of how often `conneectDestroyed`
is still to be called. `LetGo` counts: none while the server holds the connection, at
most one after, and exactly one until the connection has begun to end; and nobody is
told of the close when the server has erased it. `DueAppend` and `DueTail` say what
queueing and running a functor do to the count.

`TcpServerProofs` is for any size of pool and number of connections (`MaxThreads`
and `MaxConns` are only assumed to be naturals). `ServerInv` is `Typed`, `Threads` (a loop holds
a batch only while it runs functors), `Placed` (a functor is on the loop it is
for), `Lifetime` (which of the server, the pool and the main loop outlives which),
`Custody` and `Turn`.

* `Custody` carries `NotDestroyedTwice` (`DestroyedOnce`), `DestructorFindsDisconnected`
  (`FreedDisconnected`) and `ChannelsStayAlive` (`RegisteredIsAlive`). It says, for each
  connection, who has `conneectDestroyed` to call: the map `connections_`, exactly
  one functor of its loop, or nobody any more. What a loop has to do is `Todo`,
  the unrun part of its batch followed by its queue: the swap leaves it alone
  (`TodoSwap`), running a functor takes its head (`TodoRun`), and queueing appends. The
  lemmas `AcceptKeeps`, `CloseKeeps`, `EstablishedKeeps`, `RemovedKeeps`, `DestroyKeeps`,
  `DestroyedKeeps` and `DeathKeeps` are the hand-overs; functors lost with a loop are lost
  only after the server's end;
* `CloseCallbacksEndWithServer` (`CloseCallbacksEnd`) is `Lifetime` with `NoLateClose`;
* `LoopsTakeTurns` (`RoundRobin`) needs `Turn`: the loop of every connection counted back
  from `next_`, modulo the pool;
* `ConnectionsLiveOnce` (`LivesOnce`) and `EachIsALife`: for every client `c`,
  `Spec => Life(c)!Spec`. `Custody` is what it rests on: `DueToRun` says that the functor
  about to run is among what its loop has to do and behind nothing else, so that
  `Keeper` gives the state it finds its connection in; `LifeSteps` turns that state into
  a step of the life;
* `TypeCorrect`.

Every invariant that a passing run checks is a theorem. Only model-checked: all
liveness (fairness and `ENABLED` are beyond the prover), and the counterexamples of
section 5. The theorems about state machines are about the modules as they
stand, so that `TcpConnectionProofs` says of the code what `TcpConnection` does over
loops that keep `TaskQueue`'s promise, which `LoopIsTaskQueue` proves of `EventLoop`, and
over a poller that keeps `Poller`'s, which `EpollPoller` does not (section 5).

## 7. Not modelled

* `Logger`: the level is stored in a shared singleton and used by a second call,
  so that two threads may log at each other's level. Nothing but text depends on it.
* `InetAddress`, `Timestamp`, `CurrentThread`, the callback types: conversions,
  a cached id and names.
* `my_test/test.cpp`: a demonstration of the interface.
* What `accept` makes of its uninitialised length, and the single system calls of
  `Socket`: they change no state of the program.
* Received bytes of a connection, and so `messageCallback_`'s argument: `readFd`
  delivers none of them (section 2).
* The inside of a connection and of an `EventLoopThread` in `TcpServer`, which is
  what keeps three connections on three loops within reach.

## 8. Plan

Next: a composition of two Subjects that share an observer; `QuitStops`' safety half
as a theorem about `EventLoop` (a loop behind `loop()` has been quit); shorter proofs
where the server's lemmas repeat one another.

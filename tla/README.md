# HyperMuduo: TLA+ models and proofs

HyperMuduo is a C++ network library of the one-loop-per-thread kind. This
directory holds TLA+ modules of the library, the TLC configurations that check
them, and proofs of the safety of every part that is modelled. Line
references are to `src/`.

## 1. The system

| Part | State | Operations | What makes it correct |
|---|---|---|---|
| `EventLoop` | `quit_`, `is_processing_tasks_`, `task_queue_` under `task_mutex_`, the eventfd, `ready_channels_` | `loop`, `quit`, `runInLoop`, `queueInLoop`, `wakeup`, `executePendingTasks`, `updateChannel`, `removeChannel` | tasks run once and in order; the loop never sleeps on a task or a quit; only live channels are dispatched |
| `Channel` | event bits, callbacks, `tied_` | `listenTill...`, `ignore...`, `handleEvent` | the callbacks of the returned events run, in order |
| `Poller`, `Epoller` | pollfd vector and indices, `channel_map_` | `poll`, `updateChannel`, `removeChannel` | the registered descriptors are those of the live channels |
| `TimerQueue`, `Timer` | heap of (time, sequence), `timers_`, the timerfd | `addTimer`, `cancelTimer`, `handleExpiredTimers_` | armed for the earliest entry; one-shot timers fire once; cancelled timers do not fire |
| `EventLoopThread` | `thread_`, `loop_` under `mutex_` | `startLoop`, destructor | the loop is usable when `startLoop` returns; the destructor stops and joins |
| `EventLoopThreadPool` | `loops_`, `next_`, `started_` | `start`, `getNextLoop`, destructor | only started loops are handed out; no worker outlives the pool |
| `TcpConnection` | `state_`, channel bits, `send_buffer_` | `send`, `shutdown`, `connectionEstablished`, `connectionDestroyed`, `handleReadable`, `handleClose` | bytes leave in order; up and down callbacks once each; a close is always reported |
| `TcpServer`, `Acceptor` | `connections_`, `started_` | `start`, `listen`, accept, `removeConnection`, destructor | each accepted connection goes up once and down once, in its loop; a close ends in its removal |
| `Connector` | `connect_`, `state_`, `socket_`, `channel_`, `retry_delay_` | `start`, `stop`, `restart`, `retry` | one attempt at a time; stop is final |
| `TcpClient` | `connection_`, `retry_`, `connect_` | `connect`, `disconnect`, `stop`, close callback, destructor | reconnects while asked to; `connection_` is the open connection; nothing destroyed is used |
| `Buffer` | a vector, `read_index_`, `write_index_` | `append`, `prepend`, `retrieve...`, `ensureWritableBytes`, `readFd`, `writeFd`, `swap` | a queue of bytes; the indices stay within the vector |
| protobuf layer | none of its own | `Encode`, `Decode`, `OnMessage`, `Dispatch` | every complete frame is handled once and in order |
| `Socket`, `InetAddress`, `CurrentThread` | descriptors, addresses | system calls | not modelled |

Interaction. Every object but `EventLoopThread` belongs to one loop thread; other
threads reach it through `runInLoop`/`queueInLoop`. `Channel` callbacks and tasks
run in the loop thread and may call back into everything that lives there. The
plain members read across threads without that detour (`state_` of a connection,
`connect_` of a connector, `loop_` of an `EventLoopThread`) are where the
interleavings are hard. Other hard places: a batch of ready channels or expired
timers that the code it runs can change; the retry timer of a connector against
`stop`; the destruction of a loop against calls on it. `PROJECT.json` lists the
hazards with their lines.

## 2. The modules

| Module | Models |
|---|---|
| `TaskExecutor` | what queueing promises: tasks run in the order of submission, none before it is submitted |
| `EventLoop` | `net/EventLoop`, with what `poll` returns and `Channel` dispatch |
| `EventLoopThread` | `net/EventLoopThread`, composed with `EventLoop` (its actions are conjoined) |
| `ChannelRegistry` | what a poller promises, call by call: `updateChannel` sets what its channel is watched for, `removeChannel` ends its watch, and neither touches another channel |
| `Pollers` | `net/Poller` and `net/Epoller` side by side under the same calls, with `net/Channel`'s event bits and dispatch |
| `TimerQueue` | `net/TimerQueue`, `net/Timer` with a clock and the timerfd |
| `TcpConnection` | `net/TcpConnection` with its loop, calling threads, peer and the server's removal path |
| `ConnectionLife` | what an owner of connections promises: each goes up once and then down at most once |
| `TcpServer` | `net/TcpServer`, `net/Acceptor`, `net/EventLoopThreadPool` over a base loop and worker loops |
| `Connector` | `net/Connector`: attempts, retry timers, the kernel's answers |
| `TcpClient` | `net/TcpClient`, composed with `Connector` (its actions are conjoined) |
| `Buffer` | `net/Buffer`: the vector and its indices as a record, the operations as operators |
| `ByteQueue` | what a buffer promises: bytes put in at the back or in front come out once and in order |
| `BufferUse` | two or more buffers under every sequence of calls |
| `Codec` | `net/protobuf`: `Codec`, `ProtobufHandler`, `Dispatcher`, on two `Buffer`s |
| `EventLoopProofs`, `EventLoopThreadProofs`, `PollersProofs`, `BufferProofs`, `TimerQueueProofs`, `TcpConnectionProofs`, `TcpServerProofs`, `TcpClientProofs` | TLAPS proofs about the module of that name (`BufferProofs`: `BufferUse` and `Codec`; `TcpClientProofs`: `Connector` too) |
| `MC...` | what TLC instantiates |

A definition whose comment begins with "Mutant" is a plausible bug of the code in the
definition that follows it; no specification uses it. `PROJECT.json` says which property each breaks.

**EventLoop.** `pc` is the position of the loop thread in `loop()`; a step of it
lies between two accesses to shared state. `queueInLoop` and `quit` of another
thread are two steps each, the change and the `wakeup()`. A task is named by the
ordinal of its `push_back`; the eventfd counter is a Boolean. Application code runs
in the loop thread outside `loop()`, in callbacks and in tasks. `InBatchRemoval`
says whether it removes a channel that is still in the current batch. The code does
not survive that (`pc = "crashed"`): run `loop` excludes it, the proofs cover it.

**EventLoopThread.** The owner and the thread it starts; `early` records that
somebody other than the destructor has called `quit()`. Calls on the destroyed loop
whose `wakeup()` is still to come are modelled by their possible outcomes: unnoticed, or `"dangling"`.
Calls that begin after the loop has ended are left out.

**Pollers.** The calls of the channels' owners go to both backends at once, so that
their answers can be compared. A channel name stands for one object at a time, and
a descriptor is reused by every channel that `Fd` maps to it. A pollfd with `~fd`
is one with `on = FALSE`; positions count from 1. `Acceptors` are the channels destroyed without
`removeChannel`; their descriptors are recorded in `leaked`. What `poll` and
`epoll_wait` report is a function of the registration and of the conditions that
hold for the descriptor, and `HandleEvent` gives the callbacks that run (`POLLNVAL`, which
`poll` reports of a closed descriptor, runs none and is left out); the wait
itself is in `EventLoop`. Nothing here runs concurrently: all calls come from the loop thread.

**TimerQueue.** The heap is a set whose least entry is taken; `armed` is the time
of the timerfd, 0 when disarmed. `"ready"` is the interval in which the timerfd's
channel waits for its turn in a batch while other callbacks run. A `cancelTimer` of
the loop thread may come before the queued `addTimer` of another thread has run; it
then cancels nothing, as in the code, and the timer does not count as cancelled.

**TcpConnection.** The queue of functors is in FIFO order, which is what
`TasksInOrder` proves of the loop. Messages have `MsgLen` units so that writes can
be partial; the kernel takes any number of units of a direct write. `send` and
`shutdown` of other threads are split at the test of `state_`, its assignment and
the queueing. `handleWritable` has no caller: the constructor binds only the
read callback. Both overload families of `sendInLoop` are one operator; they differ
in that the `Buffer` one never queues the write-complete callback.

**TcpServer.** Loop 0 is the base loop, loops 1 to `Workers` are the pool's; each has
its FIFO queue of functors. Several threads (`Starters`) may call `start()`, which is
split at the test of `started_`, the call of `listen`, the compare-and-exchange of the pool and
each worker it starts. `loops_` is read by `getNextLoop` without a lock: while another
thread fills it, the base loop sees any number of entries up to the present one
(`Views`), or, while `reserve()` replaces the storage, garbage (`TornRead`). `raced`
records that a connection was made while another thread was in `start()`. A close goes from the
connection's loop to the base loop (`removeConnection`) and back (`connectionDestroyed`).
The destructor is `DestroyServer`, the quits and joins of the workers one after the
other, and `ServerGone`: `thread_pool_` is the last member, so it goes first. A
functor or close that runs after that uses a destroyed server (`crash = "dangling"`).
A connection is its loop, its `state_` and the callbacks made for it.

**Connector, TcpClient.** `Connector` has no specification of its own: `TcpClient`
conjoins its actions with what the client does around them. A user thread and code in the
loop thread call `connect`, `stop`, `disconnect` and the destructor. In the user thread `connect_` is assigned and
the functor queued in a second step; in the loop thread, callbacks included, `runInLoop` runs it at once (`LoopStart`, `LoopStop`).
`connect()` ends in one of three ways: under way, an error worth a retry, another
error (`gaveUp`). `incall` is the interval in which the loop thread is in the connection callback, `closing` the one
between the close callback's test of `connect_` and its `restart()`, in which another thread may stop, start or
destroy the client. `disconnect` is one step: the loop's steps commute with its parts, except that `Disconnecting` may
overwrite the `Disconnected` of a close, which is in `TcpConnection` and which `TcpClient` never reads.
The destructor is one step in the loop thread and two in another thread, where
`taken` is the connection it read under the mutex. Four history variables name the
uses that the code does not survive, and the properties except exactly them: `stale`
(`StartsOver`: started again over a retry timer, an attempt or a call from before, over a connection, open or closed since,
because `state_` stays `Connected`, or in the report of one; or restarted over what `Leftover` names), `overlap`
(`connect()` with a connection up), `latent` (a retry timer pending when `stop()` ran) and
`unsafe` (destroyed with something under way, see `Quiet`). What the repository's tests say of the
last one has a run of its own, `client_destruction`.
`crash` is the destroyed object that was used, the client or the connector.

**Buffer, BufferUse, ByteQueue.** A buffer is a record of the vector (a function from
`0..size-1`), its size and the two indices. `SpaceLeft` is computed modulo
`SizeModulus`, the range of `size_t`: `prepend` leaves `read_index_` below `CHEAP_PREPEND`, and the
subtraction in `makeSpace` then wraps around. `Overruns` says when the move that follows
writes past the vector; `BufferUse` sets `overrun` and stops there. `prepended`
records that a `prepend` was accepted. `readFd` puts what fits into the vector and
appends the rest from the extra array, as the code does. `Byte` is the set of values of a byte. The abstract state of a buffer is
`Content`, what `peek()` shows.

**Codec.** A byte is a pair of the number of its frame and its position in it, so that
a lost, moved or repeated byte is seen; the length field, the name, the payload and the
checksum are the kind and the length of the frame. A sender may be another
implementation: damaged frames and lengths out of range occur. The bytes move from the sender's to the receiver's
`Buffer` in pieces of any size; `OnMessage` is one step per turn of its loop. After a bad
length `Decode` discards the whole buffer and the stream continues in the middle of a frame: it is no longer `Aligned`,
any length and kind may be `Found` in it, and `lost` is set. `FramesInOrder` says that this happens at a frame
that was sent with a bad length and never otherwise. `erred` records that the last `OnMessage` ended with an error.

## 3. Runs

Passing runs:

| Run | Shows |
|---|---|
| `loop` | tasks once and in order (`TasksInOrder`), no sleep on a task (`NoLostWakeup`) or a quit (`NoLostQuit`), refinement of `TaskExecutor`; tasks run and `quit` ends the loop with no help from `kPollTime` |
| `loop_thread` | `startLoop` returns, with a loop that stays usable until somebody quits it; no thread is left behind a returned destructor, and the join is skipped only after a quit of somebody else; `join` ends once `loop()` runs |
| `pollers` | the index of every channel survives removals by swap and pop (`IndexConsistent`), `Poller` implements `ChannelRegistry`, each call for its own channel only, and both backends run the same callbacks of a channel that listens for something (`BackendsAgree`) |
| `timer` | one entry per live timer, timerfd armed for the earliest, one-shot timers fire, and once, cancellation final |
| `connection` | stream order, no abort, order of callbacks, end of stream reported, high water reported at the mark |
| `server` | `connections_` holds every open connection and none that is down; connections go to the workers only; each goes up once and down once (`ImplementsLife`); a close leads to the removal (`CloseIsRemoved`); no worker calls back after the destructor; no abort and no use of a destroyed server, but for the two uses in `NoCrash` |
| `client` | one attempt at a time, `connection_` is the open connection, stop is final, each connection goes up once and down once, nothing destroyed is used and nothing aborts, and a client with retry that is asked to be connected gets connected (`WishFulfilled`), but for the uses that the history variables name |
| `buffers` | buffers: indices within the vector through moves, growth, prepends and swaps, overrun only after a prepend (`WithinVector`); refinement of `ByteQueue`. Frames: no byte lost or moved whatever the pieces (`StreamIntact`); handled once, in order and as they deserve until one that was sent with a bad length (`FramesInOrder`); no complete frame left behind without an error (`NoFrameLeft`). A behaviour of the run is one of `BufferUse` or one of `Codec` |

Runs in which TLC finds the code to disagree with what the repository says of it:

| Run | Behaviour found |
|---|---|
| `loop_thread_hang` | `quit()` before `loop()` is overwritten by `quit_ = false`; the destructor joins for ever |
| `connection_flush` | data in `send_buffer_` is never written |
| `connection_shutdown` | `shutdown()` never reaches the socket |
| `client_destruction` | a client destroyed in its connection callback takes the `Connector` with it, which `handleWritable` then uses |

Other weaknesses of the code appear as the exceptions in the passing properties, or are
reachable in the models and listed under "hazards":

- a callback that destroys another channel of the batch: `loop()` dispatches it all the
  same, the `tie` guard is not called (`InBatchRemoval` in `EventLoop`);
- a destructor after somebody else's quit destroys a joinable thread (`early` in
  `EventLoopThread`); `wakeup()` of `quit()` on a loop destroyed in between (`"dangling"`);
- a late `send` registers a removed channel again, and a late `shutdown` overwrites
  `Disconnected` (`TcpConnection`);
- `start()` in another thread than the base loop's races with `getNextLoop`
  (`TcpServer.cpp:51`); a server destroyed while its base loop goes on is used by queued
  functors and closes (`TcpServer.cpp:63`);
- a retry timer that survives `stop()` (`latent` in `StopIsFinal`) connects again, where
  `test_connector.cpp:157` expects no callback (its test has no server and quits first), and aborts the
  program if the connector is started again before it fires; so does `connect()` over a
  connection, open or closed (`stale`); `stop()` and `connect()` in the connection callback leave
  an attempt whose socket `handleWritable` has closed; a `stop()` in another thread between the test and the
  `restart()` of a close callback leaves `connect_` set (`closing`);
- a client with `setRetry(false)` retries its first attempt, where `test_tcpclient.cpp:427` expects one attempt:
  `Connector::retry` does not know `TcpClient::retry_` (`WishFulfilled` speaks of clients with retry only);
- `~TcpClient` in one of its callbacks, or with a timer, an attempt or a close under
  way, leaves callbacks with a destroyed client (`unsafe`); in another thread it can give a
  connection a second down callback (`LifeOf` in `TcpClient`);
- an inline `cancelTimer` overtakes a queued `addTimer`; a timer at the clock's epoch stalls
  the timers (the exception in `TimersFire`);
- the registration of a destroyed `Acceptor` stays behind, and the next channel on its
  descriptor is not watched by `Epoller` (`leaked` in `Pollers`); after `ignoreAll` only
  `Epoller` still reports errors (the case `BackendsAgree` leaves out);
- `prepend` and then a large `append` write past the vector (`Buffer.cpp:81`);
- a bad length discards the receive buffer and the connection stays open, out of step;
  frames behind a bad one wait for more input; `Encode` does not test `MAX_LEN` (`Codec`).

Bounds. Two other threads are enough for two calls to overlap each other and the
loop; three tasks let one be running, one be swapped out and one be queued. Two channels
make a batch with a second entry. Two messages of two units against a mark of three
units give partial writes, a second message behind a partial first one, and a
buffer below, at and above the mark. Three timers, a clock
up to 3 and intervals 0 and 1 give equal times, ghost entries, repetition and
cancellation in a batch; the time point 0 is the epoch that disarms the timerfd. Three channels let the removed
entry, the moved one and an untouched one be different; one of them is an `Acceptor`'s, a
fourth reuses its descriptor, which leaks at most one registration. A server has two
starters, the base thread and another one, two workers, so that round robin wraps and
one worker runs on while the other is joined, and three connections, so that one worker has two.
A client makes four calls of connect, stop and restart: connect, stop, connect and a
reconnection; delays go from 1 to the cap 3, which truncates a doubling. Buffers have
`CHEAP_PREPEND` 2 and `INITIALIZE_SIZE` 1 against contents of up to three bytes from pieces of one and two, so that
a vector is filled exactly, moved, grown, prepended to in part and in full, and read into with
extra bytes; two prepended bytes and one more let the difference wrap, far above any size, and the move overrun the vector. Frames have a header of 2 and bodies of 1 and 2,
with one of 3 above `MAX_LEN`; a new receiver has room for 1 and 2 extra bytes, less than a frame,
so that every cut of a stream of three frames occurs. Deadlock is checked for the event loop and the pollers,
which always have a step; the other models stop when their bounds are used up or their objects are gone.

Fairness. A loop thread that has something to do does it and callbacks return
(weak fairness of its steps); a thread inside `queueInLoop`, `quit`, `send`,
`shutdown`, `start` or a destructor goes on. The timeout of `poll` is never relied on. Where one loop turn
dispatches channels and also runs tasks, each of the two has its own strong
fairness, since neither can starve the other in `loop()`. For the client the
environment is assumed to let some attempt succeed if there are infinitely many (strong fairness
of `OnConnection` and of a retry that gets under way): that is what
`WishFulfilled` is relative to. Peers need not close, accept or send.

## 4. Proofs

Every safety property of the passing runs, action properties and refinements included,
is a theorem for all values of the constants. Each rests on an
inductive invariant of its module. The bounds (`MaxTasks`,
`MaxTimers`, `MaxConns`, ...) are arbitrary natural numbers in the proofs. The parts below give the
invariant, what it adds to the properties, and why they need it.

`EventLoopProofs` proves for every set of threads and channels and every bound on
the number of tasks, from the assumptions that the bound is a natural number, that the wakeup
channel is not one of the others, and that `InBatchRemoval` is a Boolean:

- `TypeCorrect`: `Spec => []TypeOK`;
- `LoopInvariant`: `Spec => []LoopInv`, and from it `TasksStayInOrder`,
  `WakeupNeverLost`, `QuitNeverLost`;
- `RefinesTaskExecutor`: `Spec => ImplementsExecutor`.

`LoopInv` conjoins `TasksInOrder`, `NoLostWakeup` and `NoLostQuit` with two facts
they need. `BatchScoped`: the local vector of `executePendingTasks` is empty outside
its loop, without which the swap could drop tasks. `ProcessingFlag`:
`is_processing_tasks_` is true exactly from the start of
`executePendingTasks` to its end, without which `queueInLoop` of the loop thread
could skip a wakeup that is needed. `NoLostWakeup` is not inductive alone: the eventfd
is cleared by `HandleWakeup`, which is safe only because the swap still comes. The
lemmas have one step per action. The refinement follows from `TasksInOrder`: the task that runs is
`ran + 1`, and it has been posted.

`EventLoopThreadProofs` proves for every set of channels and number of tasks, from the same
assumptions and the one that the owner is the only other thread:

- `StartedLoopUsable`: `ELTSpec => []LoopUsable`;
- `DestructorLeavesNoThread`: `ELTSpec => []ThreadGoneWithOwner`;
- `LiveLoopNeverMissesWakeup`: `NoLostWakeup` and `NoLostQuit` as long as the thread lives;
- `ThreadRefinesTaskExecutor`: `ELTSpec => ImplementsExecutor`.

`ThreadInv` relates the two threads: `loop_` is set exactly between its publication and the end of
`loop()` (`LoopPublished`); what the owner has done bounds how far the thread can be (`OwnerKnows`); and a
loop that has ended was quit by somebody since it began (`QuitHasCause`), which is what makes a null `loop_`
in the destructor mean a quit of somebody else. The promises of `EventLoop` are proved again for the composition
(`LiveLoopInv`), with the action lemmas of `EventLoopProofs`: the owner's calls on a destroyed loop
and the end of the thread are steps that `EventLoop` alone does not have.

`PollersProofs` proves for every set of channels and descriptors, from the assumptions that each
channel has a descriptor and that `None` is neither a channel nor an entry of the kernel's list:

- `PollersTypeCorrect`: `Spec => []TypeOK`;
- `IndexStaysConsistent`: `Spec => []IndexConsistent`;
- `PollerImplementsRegistry`: `Spec => PollImplementsRegistry`;
- `PollAndEpollAgree`: `Spec => []BackendsAgree`.

`IndexConsistent` is about live channels of descriptors that were not leaked; it is not inductive,
because a leaked entry can be moved by the removal of a sound channel and the map then names a
channel that is dead or new. `PollerInv` therefore speaks of all of them: every live channel
owns the entry it remembers, leaked or not (`Owned`); live channels have different descriptors (`Distinct`);
the map gives a descriptor a channel of that descriptor (`MapOfFd`); and on descriptors that were
not leaked the map and the entries belong to live, registered channels (`CleanMap`,
`CleanEntries`). There is one lemma per action; the vector is handled by the lemmas `SwapAndPop`,
`SetEntry` and `AppendEntry`. The other two theorems add that an entry which asks for something is switched
on (`AskingIsOn`), so that `Poller` watches a registered channel for exactly its events
(`Watched`), and that on descriptors that were not leaked the map of `Epoller` and the kernel's list are functions of
`Poller`'s map (`CleanInterest`): without it `EPOLL_CTL_MOD` and `EPOLL_CTL_ADD` could be
confused. `CleanStep` and `OwnStep` say what a call does to other descriptors and to its own; from them, `OthersWatched` and
`OwnWatched` say what it does to the watched events of other channels and of the channel of the call, which is the refinement, call by call.

`BufferProofs` proves for every number of buffers, all sizes, bytes, data and bounds on the
content, from the assumptions that the sizes are natural numbers, that `SizeModulus` exceeds
the size of a new buffer, and that the data and the fill byte are made of bytes:

- `IndicesStayWithinVector`: `UseSpec => []WithinVector`;
- `RefinesByteQueue`: `UseSpec => ImplementsQueue`.

`BufferInv` says of every buffer that its vector is a function on `0..size-1` and its indices are in
order, and that as long as no prepend was accepted no read index is below `CHEAP_PREPEND`. The last
part is what rules out the overrun: then `space_left` is the residue of a natural number
(`Residue`), so it is at most the room there is (`NoOverrun`). One lemma per operation says what it does to the
content (`WriteHereIsPut`, `MakeSpaceKeeps`, `AppendIsPut`, `ReadFdIsPut`, `PrependIsPutFront`,
`RetrieveIsTake`), byte by byte; one lemma per action lifts it to the invariant and to a
step of `ByteQueue`. Refused prepends, retrievals from an empty buffer and the overrun are stutters.

The same module proves of `Codec`, for every set and number of frames, all lengths and all sizes of the buffers, from the
assumptions that the lengths are natural numbers, that the header and the shortest body are not empty and that
the bytes of a frame are bytes:

- `StreamStaysWhole`: `Spec => []StreamIntact`;
- `FramesHandledInOrder`: `Spec => []FramesInOrder`;
- `NoCompleteFrameLeft`: `Spec => []NoFrameLeft`.

The stream is `FlattenSeq` of the bytes of all frames, a recursive function. What the proof needs of it is that the bytes of
one more frame come last (`FlattenAppend`). It is shown by taking the least number at which it would fail
(`LeastNat`, from the well-foundedness of the naturals): the function exists (`JoinExists`) and is determined by its
equation (`JoinsAgree`). `StreamIntact` is then inductive with the facts that the buffers are sound and never prepended to, so
that `makeSpace` cannot overrun (`EncodeIsPut`, `Moved`, `TakenFromStream`). The other two are not: that the next header is
read where a frame begins is said by `Layout`, which gives the position of every frame in the stream, and
`AtFrame`, that the bytes consumed are those of the frames handled. From them, the bytes at the front of the receiver's
buffer are the header of the next frame as soon as there are enough of them (`FrameAtFront`), so `Decode` reads
the length that was sent (`TurnStep`). `NothingLeft` adds that this frame is incomplete when `OnMessage` has returned without an error.

`TimerQueueProofs` proves for every number of timers and cancellations, all times and intervals, from
the assumption that they are natural numbers:

- `TimersHaveOneEntry`: `Spec => []OneEntryPerTimer`;
- `TimerFdIsArmed`: `Spec => []ArmedForEarliest`;
- `OneShotTimersFireOnce`: `Spec => []OneShotFiresOnce`;
- `CancelledNeverFires`: `Spec => CancelIsFinal`.

`TimerInv` says of a live timer that it was not cancelled, that it has one entry or is the one whose callback
runs, and, if it is not repeated, that it has not fired before (`LiveOK`); of a timer whose addition is
queued, that the addition is the only one and nothing else is known of the timer (`AddsOK`); and that the heap and the expired batch are disjoint
(`BatchOK`). `AddsOK` is what `OneEntryPerTimer` lacks: a functor that ran twice, or after a
cancellation, would bring a timer back. `ArmedForEarliest` is inductive with the types, by two facts about the top of the
heap: there is one (`TopIsFirst`, from the well-foundedness of the naturals), and an added entry that is not as early as the new top leaves
the old top's time (`AddArms`).

`TcpConnectionProofs` proves for every set of threads, number of sends and length of messages, from the assumptions that the
length and the mark are positive:

- `NeverAborts`: `Spec => []NoAbort`;
- `CallbacksInOrder`: `Spec => []CallbackOrder`;
- `StreamStaysIntact`: `Spec => []StreamIntegrity`.

`LifeInv` says that before `connectionEstablished` its functor is all there is (`BeforeEstablished`) and after it `Connecting` never
returns (`AfterEstablished`), that a channel which listens for input belongs to a connection whose close is not reported and
whose `state_` is `Connected` or `Disconnecting` (`ReadingMeansOpen`; other threads can set the latter at any time, and
`handleClose` accepts it), and that `connectionDestroyed` is queued and run once (`DestroyedOnce`). The stream needs
no more than its type: a direct write happens only with an empty buffer.

`TcpServerProofs` proves for every set of starters, number of workers and number of connections:

- `ServerNeverCrashes`: `Spec => []NoCrash`; `MapIsExact`: `Spec => []MapTracksConnections`;
- `WorkersGetConnections`: `Spec => []WorkersOnly`; `QuietAfterDestroy`: `Spec => NothingAfterDestroy`;
- `ServerImplementsLife`: `Spec => ImplementsLife`.

`ServerInv` has two parts. `ConnInv` says what each functor in the queue of each loop finds when it runs (`Due`): an
establishment its connection in `Connecting`, a removal one that is closed and still in the map, a destruction one
that is closed, out of the map and not yet reported down; and that none is queued twice. No property mentions the queues, and none is inductive without
this. `StartInv` follows `start()`: the one winner of the exchange fills the pool, who listens is at or
past that exchange, and the workers are joined when the server is gone.

`TcpClientProofs` proves for every delay and number of calls, from the assumption that the first delay is positive and
at most the largest:

- `ConnectorMakesOneAttempt`: `Spec => []OneAttempt`; `StopEndsAttempts`: `Spec => StopIsFinal`;
- `ConnectionIsTracked`: `Spec => []TracksConnection`; `ClientNeverCrashes`: `Spec => []NoCrash`;
- `ClientImplementsLife`: `Spec => ImplementsLife`.

`ClientInv` strengthens `OneAttempt` to: at most one of a start that has yet to run, a retry timer and an attempt under way
(`OneThing`), because a queued `startInLoop` is what would meet another attempt. `HaltOK` keeps a stopped connector without timer and attempt, and `SocketOfAttempt` says whose the socket is while a callback runs. A queued
`connectionDestroyed` that comes from a close finds a closed connection not yet reported down, and is the only one of it; the
one of `~TcpClient` is the last functor of the queue (`DestroyedOK`). `TrackOK` adds that with a connection open nothing is under way that
could make another and no close callback is about to restart, and `GoneOK` that a client destroyed when nothing is under way leaves nothing behind that uses it.

Only model-checked are the liveness properties (`TasksEventuallyRun`, `QuitEndsLoop`, `StartLoopCompletes`, `JoinCompletes`, `CloseIsReported`,
  `HighWaterReported`, `TimersFire`, `WishFulfilled`, `CloseIsRemoved`): the prover has no `ENABLED`.

The type invariants are proved and not checked by runs of their own.

## 5. Not modelled

Not modelled: logging, socket options, address conversion, thread names, the wire
format of protobuf messages, memory lifetime of closures and of caller-owned
buffers (a `send` of a pointer from another thread), the reference count of a
connection whose close callback holds itself, nested `loop()` calls, abort on use of a loop from the
wrong thread. `Socket`, `InetAddress` and `CurrentThread` are wrappers of system calls
without a protocol of their own; what `connect`, `shutdownWrite`, `accept` and `getSocketError` return is part of
the actions that call them. `Channel::tie` and `handleEventWithGuard` are called by nothing.
Exceptions are not modelled: `Dispatch` finds a `default_cb_` (an empty one would throw at `Dispatcher.cpp:15`), and
`retrieveAsString` is called with at most `readableBytes()` (`Buffer.cpp:52` tests nothing). A closed descriptor that is still
registered, which `poll` answers with `POLLNVAL` and `epoll` forgets, occurs only after a leak or a stale start and runs no callback.

A worker of `TcpServer` is modelled by its phases. Composing the thread pool with
`EventLoopThread`, as that module is composed with `EventLoop`, would be the next step.

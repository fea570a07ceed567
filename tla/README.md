# A TLA+ verification project for ExploreNet

ExploreNet is a C++ network library in the manner of muduo: one event loop per
thread, non-blocking sockets, an epoll poller, timers on a timerfd and an HTTP
server on top.  This directory holds TLA+ models of its core, TLC configurations
that check them on small instances, and theorems that TLAPS proves for every
instance.  The models are translated from the code in `src/net` and `src/base`.

How to run it:

    tlc -workers 2 -config MCTimer.cfg MCTimer     # one check
    tlapm HttpServerProofs.tla                     # one set of proofs

## 1. The system

### Parts and how they interact

| component | state | operations | talks to |
|---|---|---|---|
| EventLoop (`net/core/EventLoop`) | `quit_`, `callingPendingFunctors_`, `pendingFunctors_` under `mutex_`, the eventfd, `activeChannels_` | `loop`, `quit`, `runInLoop`, `queueInLoop`, `doPendingFunctors`, `handleRead` | polls an EPollPoller, calls Channels, owns a Timer; called from every thread |
| EventLoopThread | `loop_` under `mutex_` + `cond_`, a Thread | constructor, `startLoop`, `threadFunc`, destructor | an EventLoop on the stack of its thread |
| EventLoopThreadPool | `loops_`, `next_` | `start`, `getNextLoop` | EventLoopThreads, used by TcpServer |
| Channel, EPollPoller | `events_`, `revents_`, `index_`; `channels_`, `events_` | `enable*`/`disable*`, `update`, `remove`, `handleEvent`, `poll` | the connection, acceptor, timer or eventfd that owns the channel |
| Timer, TimerNode | `timeQueue_`, `cancelingTimers_`, the timerfd | `addTimer`, `delTimer`, `handleRead`, `reset` | the loop's functor queue, user callbacks |
| TcpConnection | `state_`, `outputBuffer_`, `inputBuffer_`, channel, socket | `send`, `shutdown`, `connectEstablished`, `connectDestroyed`, `handleRead/Write/Close/Error` | its loop, the TcpServer, user callbacks |
| TcpServer | `connections_`, `nextConnId_`, `started_` | `start`, `newConnection`, `removeConnection`, `removeConnectionInLoop`, destructor | Acceptor, pool, connections; lives on the base loop |
| Acceptor, Socket | listening descriptor, `idleFd_` | `listen`, `handleRead` | TcpServer::newConnection |
| Buffer | a vector, `readerIndex_`, `writeIndex_` | `append`, `retrieve*`, `readFd`, `writeFd` | TcpConnection, HttpContext |
| HttpContext, HttpServer, HttpRouter, HttpResponse | parser state, the request being built | `parse`, `onMessage`, route handlers | llhttp (external), TcpServer |
| Logger, Thread, Timestamp, InetAddress | formatting, a thread id, values | | everybody |

A connection's life crosses two loops.  `TcpServer::newConnection` runs on the
base loop, enters the connection in `connections_` and queues
`connectEstablished` on one of the pool's loops.  When the peer closes,
`handleClose` on that loop calls `TcpServer::removeConnection`, which queues
`removeConnectionInLoop` on the base loop, which erases the entry and queues
`connectDestroyed` back on the connection's loop.  Timers and sends from other
threads go through the same queue.

### What is hard, and what makes each part correct

* **EventLoop**: any thread may call into a loop that is anywhere between two
  statements.  Correct when no functor and no `quit()` is left to the ten-second
  timeout of `poll`, functors run once and in order, and `quit()` ends `loop()`.
* **EventLoopThread**: a pointer to an object on another thread's stack, a
  condition variable, a destructor that tests `loop_` and uses it without the mutex.
  Correct when `startLoop` returns a live loop, the destructor still finds the loop
  whose address it tested, and it returns, leaving no thread behind.
* **Timer**: callbacks add and cancel timers while a batch of expired ones is
  run; other threads do so through the queue.  Correct when the timerfd is always
  armed early enough, a node is in one place, and a cancelled timer stays cancelled.
* **TcpConnection**: partial writes, two ways to send, `shutdown()` from other
  threads, four kinds of event in one report, three ways to be closed.  Correct
  when bytes are written once and in order, the FIN comes last, the user hears of
  the end at most once, and the poller never keeps a channel without an owner.
* **Channel, EPollPoller**: three records of what is watched (`index_`, the map
  `channels_`, the kernel's list), raw pointers walked while handlers change
  channels, descriptors that are reused, an event list that may be too short.
  Correct when the records agree, no `epoll_ctl` fails (the code answers a failed
  ADD or MOD with LOG_FATAL), what is active is still registered, and nobody starves.
* **Buffer**: unsigned index arithmetic, moving and growing, a second buffer on
  the stack.  Correct when it is a queue of bytes.
* **Acceptor, TcpServer, pool**: several connections over several loops, removed
  through two of them, a destructor that meets connections in any state, and the
  table of descriptors at its limit.  Correct when a poller points to live
  connections only, every closed connection is freed, clients are spread in turn
  and none is kept waiting, and the destructor returns and is reported.
* **HTTP**: requests cut anywhere by the network, a malformed one on a connection
  that goes on reading, answers computed elsewhere, a client that does not wait,
  several requests in one read.  Correct when a handler gets exactly what one
  request said, every request is answered, and nothing follows a malformed one.

`PROJECT.json` lists the hazards with their lines and the property that covers
each, or the reason why none does.

## 2. Modules

    TaskQueue    <== implemented by ==  EventLoop  <-- EXTENDS --  EventLoopThread
    TimerService <== implemented by ==  Timer   (sees the loop as EventLoop guarantees it)
    ByteQueue    <== implemented by ==  Buffer
    ByteStream   <== implemented by ==  TcpConnection
    Acceptor     <-- EXTENDS --         TcpServer   (acceptor, pool, connections)
    EPollPoller                         (channels and poller of one loop)
    HttpServer                          (sees the connection as TcpConnection does it)
    *Proofs                             (theorems about the module they are named for)
    MC*.tla, MC*.cfg                    (instances for TLC)

| module | models | state and actions |
|---|---|---|
| `TaskQueue` | the promise of `runInLoop`/`queueInLoop` | an abstract queue served by one thread |
| `EventLoop` | `EventLoop.cpp`, `poll` | one variable per member the calls share; `loopPc` is the place of the loop thread in `loop()` and `doPendingFunctors()`, `call[t]` the place of thread `t` in `queueInLoop` or `quit`. A step is what runs between two points where another thread can be noticed: the critical section of `queueInLoop`, then its test and `wakeup()`; the store of `quit`, then its `wakeup()`; each handler, each functor |
| `EventLoopThread` | `EventLoopThread.cpp`, with the EventLoop inside | `ownerPc` and `threadPc` for the two threads, `loop_` for the shared pointer. Steps under `mutex_` are one action as long as nobody can look in between; the destructor takes no lock, so its test of `loop_` ("tested"), the call of `quit()` up to its store ("quitting") and its wakeup are actions of their own, and so are the thread's `loop_ = nullptr` ("cleared"), its unlock ("unlocked") and the end of the EventLoop. A loop that ends under the destructor's hands makes it call through a null or dangling pointer: it may go on or crash ("crashed") |
| `Timer` | `Timer.cpp`, `TimerNode.cpp`, `EventLoop::runAt/runAfter/runEvery` from the delay on | `timeQueue_` is a set of nodes ordered by the comparator of the code, `expired` the batch of `handleRead`, in order; `armed`/`readable` are the timerfd. The functors other threads queue are `pending` |
| `TimerService` | the promise of `runAt`, `runAfter`, `runEvery` and `cancelTimer` | the timers that wait, the batch that is being run, those that came back or were cancelled. A cancel of a timer that came back may go unnoticed, as `timer_cancel` shows |
| `ByteStream` | the promise of `send` and `shutdown` | what was accepted, what was sent, and whether the stream is open, finished or closed |
| `TcpConnection` | `TcpConnection.cpp`, the channel's and the poller's part in it, the removal path of `TcpServer.cpp` | `reading`/`writing` are `events_`, `index_` is the poller's `kNew/kAdded/kDeleted`, `todo` what one `epoll_wait` reported and is not handled, in the order of `handleEventWithGuard` |
| `EPollPoller` | `Channel.cpp`, `EPollPoller.cpp` for several channels on several descriptors | `events_`, `index_`, `channels_` are the code's; `epoll` is the kernel's list, `listSize` the length of the event list, `active` the `activeChannels_` not handled yet. `condition` is what holds of a descriptor: events, and errors (EPOLLHUP, EPOLLERR), which are reported whatever the mask. An action is one `enable`, `disable`, `remove`, one `poll`, one `handleEvent` |
| `Acceptor` | `Acceptor.cpp` and the process's table of descriptors | `backlog` the clients that wait, `idleFd_` whether the reserve is there, `others` what other code holds open; at the limit the close, the accept and the open are steps of their own |
| `TcpServer` | `TcpServer.cpp`, `EventLoopThreadPool.cpp`, the life of several connections | loop 0 is the base loop, the others the pool's; per loop its place (a pool's thread is "starting" from the publication of its loop to the first statement of `loop()`), `active`, `queue` and `batch`, per connection `state_`, `index_`, `loopOf` and what the callback was `told`; `told_to_quit` counts the threads `~EventLoopThreadPool` has come to |
| `ByteQueue` | the promise of a buffer | a sequence of bytes |
| `Buffer` | `Buffer.h`, `readFd` | a record of the vector and the two indices; the operations are operators from buffers to buffers |
| `HttpServer` | `HttpContext.cpp`, `HttpServer.cpp`, `HttpRouter::execute` for one connection | `context` is the HttpContext with how far llhttp is in a message; an action is one `onMessage` on a read of any length, one executor's task, one queued `sendInLoop`. `requests`, `dispatched` and `answers` record what the client sent, the router got and the client is sent |

In the modules an operator commented *Mutant of X* stands before the definition
X.  It is X with a plausible mistake (a dropped test, a forgotten reset) and no
specification uses it; it documents which mistake which property notices
(`PROJECT.json`, "mutants").

### Abstractions

* An eventfd is a boolean: a read empties it, so only "is it readable" is seen.
* The descriptors of a loop other than the eventfd are one channel `"io"`, whose
  handler may call back into the loop.
* A tick of Timer's clock is the 100 microseconds below which the code does not
  arm a timerfd; so the clamp of `howMuchTimeFromNow` is one tick.  Intervals and
  delays are whole ticks.
* A byte of a TcpConnection is the message it belongs to: two bytes of one
  message are not told apart, two messages are.  `inputBuffer_` is the number of
  segments read; what the message callback does with it is the user's.
* A write on a socket takes any prefix, nothing when the socket is full, and
  fails for good after a reset or after our own FIN.  The process ignores SIGPIPE,
  as `src/README.md` shows an application doing.
* A request is a sequence of tokens between which a read may end; a URL's path, its
  query, a header's name or value, the body may be several tokens or one.  llhttp is
  external: it calls back for each stretch of one kind in a read, as its API says,
  and its error lasts until `llhttp_reset`.  The answer 400 has a number
  behind those of the requests.  The client need not wait for an answer;
  `merged` records that one read held the end of a request and more.  Every path has
  a handler unless its URL lost the path.
* User callbacks are assumed to be set, and may send and shut down any number of
  times within the bound.  In TcpConnection the base loop is on another thread than
  the connection's; the server without a pool is in TcpServer.
* TcpServer sees a loop as EventLoop guarantees it: poll, the handlers, the functors
  queued so far, the test of `quit_`; a wakeup that brings no work is left out.  A
  pool's thread is there from the publication of its loop, when `startLoop` returns;
  `loop()` comes later and resets `quit_`.  That only the destructor quits a pool's
  loop is assumed, and the rest of a thread's life is in EventLoopThread.  A connection
  is what concerns its server: established, shut down by its user (on its own loop;
  the races of `shutdown()` are in TcpConnection), closed by its peer, removed,
  destroyed; its descriptor is open while somebody holds a shared pointer to it.  A
  peer's close is noticed only while the channel is registered, so it happens only
  then, and clients come and go only while the server is there to accept them.
* `MaxFds` is what the process's limit leaves for connections, `idleFd_` and other
  code.  An accept fails for want of descriptors only; after other errors
  `handleRead` does nothing but log.
* In EPollPoller the owners keep the contract the library's own owners keep: a
  channel that was reported and is not handled yet is only given more events, is
  removed in a functor, and its descriptor is closed afterwards.  EPOLLHUP and EPOLLERR
  are one condition, "error": the poller treats them alike, and what the handler does
  with each is in TcpConnection.  A descriptor's condition changes while the loop is in
  `poll`, for only `epoll_wait` looks at it.
* An identity that `addTimer` reads out of a node already freed (`Timer.cpp:58`) is
  that of a node made there since, or one no node has; one mixed from two nodes, a
  number that `genId_` has yet to give, and a crash on the read are left out.
* Buffer's `retrieve` and `retrieveAsString` are modelled for lengths up to
  `readableBytes()`, and without trimming.  `retrieveAsString(len)` copies `len` bytes
  unchecked (`Buffer.h:53-58`); no caller in `src` asks for more than is there.
* Logging is left out: `errno` is compared as accept and write left it.  That the
  logger may change it first is a hazard on the list without a property.

## 3. Checks

Every run of TLC is exhaustive for its instance.  "States" are distinct states.

| run | instance | what it shows |
|---|---|---|
| `thread` | owner, one client, 3 functors; 32 654 states | the loop: `NoLostWakeup`, `QuitWakesLoop` (a loop that blocks, or will, with a functor waiting or `quit_` set is being woken), `ImplementsTaskQueue` with its liveness. Its thread: `DestructorFindsLoop`, `NoThreadLeftBehind`, `StartLoopReturns` with no help of a spurious wakeup, `DestroyRunningLoop`. Clients and callbacks may quit the loop too, at any moment of the destructor |
| `timer` | 2 timers, delays 0 or 2, intervals 0 or 1, clock to 2; 83 166 states | `NoMissedTimer`, `OnePlacePerNode`, `DueTimersLeave`: a timer that is due leaves the queue; and `ImplementsTimerService`: a callback runs when it is due and never before, once for every time and in order, and what is cancelled before its first restart never comes back |
| `conn` | 3 messages of 1 or 2 bytes, a worker that sends, peer FIN and reset, server destroyed at any time; 2 529 040 states | `NoByteLost`, `SenderOrder`, `WaitingOutputIsWatched`, `OneUpOneDown`, `RegisteredIsOwned`, and `ImplementsByteStream`: our FIN is the last thing sent, nothing is accepted or sent after it or after the close |
| `conn_workers` | 2 messages of 2 bytes, a worker that also calls `shutdown()`; 144 836 states | `EndingsComplete`: a shutdown takes effect, a connection the peer closes is reported and leaves |
| `server` | no pool or 2 loops, 3 clients, the second of which may be in `shutdown()`, a table of 3 descriptors of which other code takes up to 1; 312 388 states | `RegisteredIsAlive`, `EndIsReported`, `SpreadEvenly`, `ClosedConnectionFreed`, `ClientsAnswered`, `ServerEnds` |
| `poller` | 3 channels on 2 descriptors, an event list of 1; 726 337 states | `RecordsAgree`, `NoCtlFails`, `ActiveIsRegistered`, `NoStarvation` |
| `buffer` | bytes 0..2, `kCheapPrepend` 1, initial size 1, extra buffer 2, inputs up to 3 bytes, 4 readable; 1 949 states | index order and `ImplementsByteQueue` |
| `http` | 2 requests of 3 shapes (query and header, body, malformed), sent with or without waiting, read in pieces of any length, an executor; 9 203 states | `RequestsStayApart`, `BodiesAreWhole`, `BadRequestIsLast`, `EveryRequestIsAnswered` |

Every run also checks the type invariant of its module, but `conn_workers`, which
checks liveness only.

The bounds are the smallest with which every case of the code happens.

* `thread`: the owner and a client can each be inside a call while the loop's own
  callback is inside a third; three functors let one be executed, one be in the
  batch and one arrive meanwhile.
* `timer`: two nodes are due together or one before the other, in either order of
  being added, overdue or ahead, and expire in one batch or two;
  clock 2 lets a repeating timer be restarted and expire again.  At the
  bound of the clock an alarm one tick ahead still fires, so that "not missed"
  does not depend on where the clock ends.
* `conn`: a message of two bytes is cut by a partial write, three messages let one
  wait in the buffer, one be queued by a worker and one be sent directly; a high
  water mark of 2 is crossed and not crossed.
* `server`: with three clients on two loops the turn comes round; a table of three
  leaves two connections beside `idleFd_`, one when other code holds a file, and the
  third client meets the limit; the destructor meets connections that are not yet
  established, in `shutdown()`, closed, and half removed.  Without a pool the base loop
  does it all.
* `poller`: two channels come one after the other on one descriptor, the third is
  ready beside them, and with an event list of one they compete for it.  A channel
  that wants nothing is added all the same, and reported when its descriptor fails.
* `buffer`: with an initial size of 1 the vector grows at once; the same inputs
  meet all of "fits", "move to the front", "grow" and "spills into the extra buffer".
* `http`: the second request meets what the first left in the context and the
  buffer, before or after its answer; each kind of token that a callback collects
  comes twice in some shape.

Deadlock is checked for the loop on its thread (an owner that is gone stays so),
the poller and the buffer.  Timer, TcpConnection, TcpServer and HttpServer may
really stop: the bounded timers, messages, clients and requests are used up, a
destroyed connection or server has nothing to do.

### Where the code and its documentation disagree

Four runs are expected to find a violation.  Each checks what a comment or a
document says.

| run | what happens |
|---|---|
| `thread_lost_quit` | `loop()` starts by storing false to `quit_` (`EventLoop.cpp:69`). The destructor's `quit()` may come just before, and `join()` never returns. |
| `timer_cancel` | The key of a timer contains its expiration, which `restart` changes (`TimerNode.cpp:39`): a repeating timer cannot be cancelled after its first restart. |
| `conn_down_twice` | `shutdown()` on another thread tests and later stores `state_` (`TcpConnection.cpp:275-277`) and may overwrite the `kDisconnected` of `handleClose` with `kDisconnecting`. A send is then accepted; written in part, it makes `enableWriting` put the channel, which `handleClose` had taken out of epoll, back; the next event reports a connection that is down as down again. |
| `http_cut` | A URL, a header name or a header value that comes in two reads is reported in two pieces; `assign` keeps the last, `insert` the first (`HttpContext.cpp:42,52,61`). The handler gets a fragment of the request that `assets/docs/HTTP.md:27` promises complete. |

Because of `conn_down_twice`, `OneUpOneDown`, `RegisteredIsOwned`,
`WaitingOutputIsWatched` and `ImplementsByteStream` do not hold when other threads
call `shutdown()`; run `conn` checks them without (`WorkersShutDown = FALSE`), and
their theorems assume it.  `NoByteLost` and `SenderOrder` are proved with and
without.  Because of `thread_lost_quit`, `DestroyRunningLoop` speaks of a loop that
has entered `loop()`, and `ServerEnds` makes an exception of a quit that is lost in
this way (`QuitIsLost`).  Because the destructor of EventLoopThread uses `loop_`
without the mutex, `DestroyRunningLoop` ends in its return or in a crash, the latter
only when somebody else has told the loop to quit; `DestructorFindsLoop` says so.  `FirstCancelHolds`, which
`ImplementsTimerService` implies, is the part of `CancelledNotRequeued` the code
keeps.

Smaller observations, in no run of their own.  Each names the definition with which
TLC shows it, where there is one.

* `queueInLoop` on the loop's own thread before `loop()` wakes nobody
  (`EventLoop.cpp:123`): with `EarlyCalls = TRUE` in `MCEventLoopThread.cfg`,
  `NoLostWakeup` is violated.
* `quit()` stores `quit_` and then calls `wakeup()` (`EventLoop.cpp:94-97`); the loop
  may see the flag, return and be destroyed in between.  With `ThreadSafeSpec`,
  `CallsOnLiveLoop` is violated.
* The thread stores null in `loop_` and then unlocks `mutex_`
  (`EventLoopThread.cpp:56-58`); a destructor that reads the null, without the mutex,
  may return and destroy the mutex in between.  Added to `MCEventLoopThread.cfg`,
  `MutexOutlivesThread` is violated (some client must have quit the loop).
* `connectDestroyed` tells the user only in `kConnected` (`TcpConnection.cpp:264`), so
  a connection in `kDisconnecting` under a dying server ends without a callback: added
  to `MCTcpConnectionSafety.cfg`, `DestroyedWasReported` is violated.
* The comment at `TcpConnection.cpp:195` says that after `shutdown` nothing more can be
  sent, but line 196 tests for `kDisconnected` only, so a send in `kDisconnecting` with
  output waiting is accepted.  The model does what the code does, and `NoByteLost` and
  `ImplementsByteStream` cover such a send: it goes out before the FIN.
* `~TcpServer` queues `connectDestroyed` on the pool's loops (`TcpServer.cpp:43`) and
  then the pool's destructor calls `quit()`.  A loop that is between its swap and its
  test of `quit_` leaves without running it: the connection ends unreported, though it
  is freed.  So does a connection in `shutdown()`, with a pool or without.  Added to
  `MCTcpServer.cfg`, `EveryEndIsReported` is violated; `EndIsReported` is what is left:
  without a pool every end is reported but that of a connection in `kDisconnecting`.
* While `handleRead` has `idleFd_` closed (`Acceptor.cpp:74-77`) another thread may take
  its place; the reserve is then gone for good and a waiting client stays there until
  a descriptor is free.  `ClientsAnswered` excludes that state.
* A read that holds the end of one request and more gives one completion, one dispatch
  and one reset (`HttpServer.cpp:52-73`): the rest of the read is merged into the request
  or lost.  `RequestsStayApart`, `BodiesAreWhole` and `EveryRequestIsAnswered` exclude
  such reads (`merged`).  And an executor's answers go out as they are ready: added to
  `MCHttpServer.cfg`, `AnswersInOrder` is violated.
* Read, not modelled: `Timestamp::toString` and `toFileNameString` give `localtime` a
  count of microseconds where it takes seconds (`Timestamp.cpp:26,40`).  A second
  `Logger::enableFileLog` opens a stream that is open, which sets its failbit
  (`Logger.cpp:89`); from then on nothing is written to the file.

### Fairness

Liveness rests on weak fairness of the threads' own steps: a thread inside a
call finishes it, a loop thread runs, callbacks return.  Not assumed: that
anybody calls the loop, that another descriptor becomes ready, a spurious
wakeup of the condition variable, or poll's timeout.  `epoll_wait` is assumed to
report a readable eventfd (`WF(wakeupFd_ /\ PollReady)`; level-triggered epoll
does).  Timer adds that time passes and an armed timerfd expires.  TcpConnection
adds one strong fairness, on polls that find the socket writable: the peer reads
what it is sent, otherwise no amount of code completes a shutdown.  TcpServer
assumes that each of its threads runs: main with the base loop, and each pool loop;
not that a client comes, a peer closes or anybody quits the base loop.  EPollPoller
assumes that the loop's thread runs and nothing of which ready descriptors
`epoll_wait` prefers.  HttpServer assumes that its loop runs, that what waits for the
socket is sent, and that the executor runs its tasks.

## 4. Proofs

TLAPS checks the following for every value of the constants.

**EventLoopThreadProofs** (any set of threads, clients and functors).  Of the loop:

* `TypeCorrect`: `SafeSpec => []TypeOK`.
* `QuitIsNoticed`: `SafeSpec => []QuitWakesLoop`.  The property is inductive only
  together with where the loop may be while `callingPendingFunctors_` is up and a
  batch is held (`Phases`); `IInv == TypeOK /\ Phases /\ QuitWakesLoop` is the
  invariant, `PhasesInvariant` its proof.  The step that matters is `HandleRead`:
  it empties the eventfd, but the loop then goes on to `"test"` before it blocks,
  and `TestQuit` looks at `quit_`.
* `WakeupsAreKept`: `SafeSpec => []NoLostWakeup`, assuming `~EarlyCalls`, that is,
  the loop's own thread queues nothing before `loop()`; without it TLC finds a
  counterexample (section 3).  The argument: a functor that arrives after the
  swap comes from another thread, which will write the eventfd, or from a functor,
  and then `callingPendingFunctors_` is up; only `HandleRead` empties the eventfd,
  and a swap follows it before the loop blocks.
* `ImplementsTaskQueueSafely`: `SafeSpec => TQ!SafeSpec`, the refinement without
  its liveness; the waiting functors are `functors \o pendingFunctors_`.

Of the loop on a thread of its own:

* `ImplementsEventLoop`: `ThreadSafeSpec => SafeSpec`.  The owner, `threadFunc` and
  the clients use the loop only as EventLoop's interface allows, so its theorems
  hold inside the composition (`WakeupsAreKeptOnThread` is one of them).
* `ThreadTypeCorrect`, `LoopIsFound`, `NobodyLeftBehind`: types,
  `DestructorFindsLoop` and `NoThreadLeftBehind`.  The strengthening is `Lockstep`:
  `loop_` is set from publication to the end of `loop()`, an owner is past
  `startLoop` only by a published loop, and enters the destructor only from there
  or before the thread was started, so that the null it may read in the
  destructor never means "not published yet"; and `LoopOver`: a loop that has ended
  was told to by somebody, the destructor or, if they may, the clients.

**BufferProofs** (any bytes, prepend, sizes and inputs; from the named
assumptions of `Buffer`).

* `TypeCorrect`: `Spec => []TypeOK`; `IndexesOK` is inductive as it stands.
* `BufferIsAByteQueue`: `Spec => ImplementsByteQueue`.  Contents are compared byte
  by byte (`ContentByByte`, `ContentEqual`); `CopyToByCell` and `ResizeByCell` say
  where a cell comes from, `EnsureKeepsContent` that making room moves bytes and
  loses none, `CutAndJoin` that the two areas of `readFd` make one piece of data.

**TcpConnectionProofs** (any workers, lengths, high water mark and bounds).

* `TypeCorrect` and `BytesAreKept`: `SafeSpec => []TypeOK` and `[]NoByteLost`.
  `IInv` is `TypeOK /\ NoByteLost` in parts.  `SendInLoopKeepsBytes` is the heart:
  a direct write happens only with an empty buffer, and what it leaves is put
  behind; `WriteBufferedKeepsBytes` cuts the buffer in two and joins it again.
  No assumption is made on who calls `shutdown()`: the race that breaks the
  down callback does not touch the bytes.

**TcpConnectionLifeProofs** (likewise; all but the first assume `~WorkersShutDown`,
without which run `conn_down_twice` refutes `OneUpOneDown`).

* `SendersKeepOrder`: `SafeSpec => []SenderOrder`: each message is accepted in one
  piece, and those of one thread in the order they were sent.  `SInv` orders the numbers of each
  thread's messages through what was accepted and what is queued, and keeps the
  loop's own messages out of the queue, so that they cannot be overtaken there.
* `UpAndDownOnce`, `OutputIsWatched`, `RegisteredHasOwner`: `OneUpOneDown`,
  `WaitingOutputIsWatched`, `RegisteredIsOwned`.  None is inductive.  `Machine` ties
  `state_` to the channel, the buffer and the events still to be handled, in
  particular that one report closes the connection at most once (`EventsOnce`);
  `Queue` says that `connectEstablished` is the first functor, and who will take the
  channel out of the poller.
* `ConnectionIsAStream`: `SafeSpec => ImplementsByteStream`, step by step: each step
  is `Transfer`, `Finish` or `Close`, or leaves the stream alone.

**TimerProofs** (any number of timers, delays, intervals and clock).

* `TypeCorrect`, `NothingMissed`, `OnePlace`, `FirstCancel`: `TypeOK`,
  `NoMissedTimer`, `OnePlacePerNode`, `FirstCancelHolds`.  A node's place is inductive
  only with the functors nodes still come from (`Places`).  `NoMissedTimer` rests on
  the queue having an earliest node, which a finite set with distinct identities has.
  `FirstCancelHolds` needs that the identities clients hold are exact until the
  restart (`Exact`) and that `cancelingTimers_` remembers what was cancelled out of a
  batch (`Remembered`).
* `TimersAreServed`: `SafeSpec => ImplementsTimerService`.  A timer waits, for the service,
  in `timeQueue_` or in another thread's functor (`Queued`); the batch is what is left of
  `expired` and what was run of it.  Most steps of the code are none of the service's.
  `TakeServed` needs that `getExpired` takes all that is due and each once (a sequence
  without repetition as long as a finite set is all of it), `CancelServed` the exact
  identities, `FinishServed` the converse of `Remembered` as well: whatever `reset` leaves
  out was cancelled (`Accounted`).

**EPollPollerProofs** (any channels on any descriptors).

* `TypeCorrect`, `RecordsAlwaysAgree`, `EveryCtlSucceeds`, `ActiveAreRegistered`: `TypeOK`,
  `RecordsAgree`, `NoCtlFails`, `ActiveIsRegistered`.  Removing a channel empties the place
  of its descriptor, which must not be another channel's: the strengthening says whose
  each place is (`EntriesOwned`, `MapOwned`) and that a descriptor has one owner at a
  time (`OneOwner`).  That the event list stays bounded is part of `TypeOK`.

**TcpServerProofs** (any number of pool threads, clients and descriptors).

* `RegisteredStaysAlive`: `SafeSpec => []RegisteredIsAlive`.  `Owned` says that a
  connection that is registered, or will be, is in `connections_` or has its
  `connectDestroyed` still to run; it is inductive only with the order of a loop's
  functors, never `connectEstablished` behind `connectDestroyed` (`Ordered`), and with
  what walks the channels (`Walked`).
* `EndsAreReported`: `SafeSpec => []EndIsReported`, from `Told`: without a pool, the
  end of every connection is reported unless it is in `shutdown()` then.
* `TypeCorrect` and `LoopsTakeTurns`: `SafeSpec => []TypeOK` and `[]SpreadEvenly`, from
  `Whole`, which adds four parts.  `Reported`: one `connectEstablished` at most waits for
  a connection, and the callback's past follows from `state_`, so it hears up once and
  then down once.  `Ended`: nothing is queued on a loop that is gone.  `Table`: the
  open descriptors are counted and fit.  `InTurn`: the k-th connection is on loop k
  modulo the pool's size, so that `SpreadEvenly`, which counts sets, becomes arithmetic.

**HttpServerProofs** (any set of requests, any number of them, cut and joined in any way).

* `TypeCorrect`, `RequestsApart`, `BodiesWhole`, `NothingAfterBadRequest`: `TypeOK`,
  `RequestsStayApart`, `BodiesAreWhole`, and `NothingFollows`, the action part of
  `BadRequestIsLast`.  The properties speak of what was dispatched; inductive is only
  what they say together with the parser and the wire.  `Stream`: the wire holds what the
  requests end with, in order.  `Counted`: a request is dispatched after its last token
  was read, so there are never more dispatches than requests.  `Apart`: until a read
  holds parts of two requests the context is where the wire begins, has the body up to
  there, and holds tokens of that request only; this is what `HttpContext::reset` after a
  dispatch is for.  `Refused`: once a 400 was sent the parser has failed for good.
* `parse` recurses over the tokens of a read.  The library's induction theorems are out
  of reach, but the well-foundedness of < on the naturals is not: `ParsedUnfolds` shows
  that the recursive function exists and satisfies its equation, and `ParseInduction`
  that a claim every span keeps holds at the end of a read, both from the least number
  at which they would fail.  `Consumption` says what one span does to a context and
  `RequestParsed` what a read inside one request does.

Only model-checked: all liveness properties and the liveness half of
`ImplementsTaskQueue` (the prover does neither fairness nor ENABLED): among them the
second half of `BadRequestIsLast`, that the output is shut, and `EveryRequestIsAnswered`.

## 5. Not modelled, and what is left

* The registration of routes (`HttpRouter::GET`, `POST`, `setDefaultHandler`) is done
  before the server starts, by one thread; HttpResponse and HttpRequest build text.
* Thread: `start` waits on a semaphore for the thread's id.  The id is used for logs
  and names only; `EventLoopThread` models start, join and detach.
* Logger formats and writes under one mutex; nothing else depends on what it does.
* Timestamp, InetAddress, nocopyable and Callbacks are values and declarations.
* llhttp is an external library, the methods of Socket are system-call wrappers.  That
  llhttp may report an empty stretch when a read ends just where a URL, a field or a
  value does is left out; no property of a passing run depends on it.
* Build files, pictures and examples.

What could still be added: an abstract server of requests that HttpServer implements
while no read is merged.

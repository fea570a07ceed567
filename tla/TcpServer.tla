----------------------------- MODULE TcpServer -----------------------------
(***************************************************************************)
(* A TcpServer (net/core/TcpServer.cpp) with its Acceptor, its             *)
(* EventLoopThreadPool and any number of connections spread over the       *)
(* loops, from start() to the end of ~TcpServer.                           *)
(*                                                                         *)
(* Loop 0 is the base loop, on which the server is built and destroyed;    *)
(* loops 1 .. numThreads_ are the pool's.  With an empty pool the base     *)
(* loop serves the connections as well, and runInLoop runs on the spot     *)
(* what it otherwise queues.  A loop is seen as EventLoop guarantees it:   *)
(* poll, the handlers of what was ready, the functors queued so far, the   *)
(* test of quit_.  Of a connection there is what concerns its server:      *)
(* established, shut down by its user, closed by its peer, removed,        *)
(* destroyed.  Everything else is in TcpConnection.  Of a pool thread      *)
(* there is its loop from the return of startLoop on; that nobody but the  *)
(* destructor makes it quit is assumed here, and the rest of its life is   *)
(* in EventLoopThread.                                                     *)
(*                                                                         *)
(* A TcpConnection lives as long as a shared pointer to it: in             *)
(* connections_ or in a functor.  Its descriptor is closed with it.        *)
(***************************************************************************)
EXTENDS Acceptor, Sequences, Functions, FiniteSets

CONSTANTS
  MaxThreads,     \* bound: the threads of the pool
  ShutdownConns,  \* bound: the connections whose user may call shutdown()
  ThreadNums      \* the arguments of setThreadNum

ASSUME ThreadsAssumption == MaxThreads \in Nat /\ ThreadNums \subseteq 0 .. MaxThreads
ASSUME ShutdownAssumption == ShutdownConns \subseteq 1 .. MaxClients

Base == 0
Loops == 0 .. MaxThreads
Conns == 1 .. MaxClients

\* The channels of a loop: its connections', and on the base loop the acceptor's.
Listener == 0

VARIABLES
  serverPc,        \* where the owner of the server is, see ServerPcs
  numThreads_,     \* EventLoopThreadPool::numThreads_
  next_,           \* EventLoopThreadPool::next_, counted from 0
  told_to_quit,    \* how many threads of the pool the destructor has reached
  connections_,    \* TcpServer::connections_
  nextConnId_,     \* TcpServer::nextConnId_, the name of the next connection
  loopOf,          \* TcpConnection::loop_
  state_,          \* TcpConnection::state_
  index_,          \* Channel::index_ of the connection's channel
  peerClosed,      \* the connections whose peer has closed
  told,            \* history: the calls of connectionCallback_
  pc, quit_,       \* per loop: where it is, and EventLoop::quit_
  active,          \* per loop: activeChannels_ still to be handled
  queue,           \* per loop: pendingFunctors_
  batch, ran       \* per loop: functors of doPendingFunctors, how many have run

poolVars == <<numThreads_, next_, told_to_quit>>
connVars == <<state_, index_, told>>
serverVars == <<connections_, nextConnId_, loopOf>>
loopVars == <<pc, quit_, active, batch, ran>>
vars == <<acceptorVars, serverPc, poolVars, connVars, serverVars, loopVars,
          queue, peerClosed>>

\* Before and after start(); base loop entered; in the body of ~TcpServer;
\* in ~EventLoopThreadPool; destroyed.
ServerPcs == {"built", "started", "serving", "destroying", "joining", "gone"}

\* Outside loop(); published by its thread and not yet in loop(); blocked in
\* poll; walking activeChannels_; running functors; destroyed.
Pcs == {"out", "starting", "poll", "events", "functors", "gone"}

ConnStates == {"kConnecting", "kConnected", "kDisconnecting", "kDisconnected"}

Ops == {"established", "remove", "destroyed"}
F(op, c) == [op |-> op, conn |-> c]
Functors == {F(op, c) : op \in Ops, c \in Conns}

Init ==
  /\ AcceptorInit
  /\ serverPc = "built"
  /\ numThreads_ \in ThreadNums
  /\ next_ = 0
  /\ told_to_quit = 0
  /\ connections_ = {}
  /\ nextConnId_ = 1
  /\ loopOf = [c \in Conns |-> Base]
  /\ state_ = [c \in Conns |-> "kConnecting"]
  /\ index_ = [c \in Conns |-> "kNew"]
  /\ peerClosed = {}
  /\ told = [c \in Conns |-> <<>>]
  /\ pc = [l \in Loops |-> "out"]
  /\ quit_ = [l \in Loops |-> FALSE]
  /\ active = [l \in Loops |-> {}]
  /\ queue = [l \in Loops |-> <<>>]
  /\ batch = [l \in Loops |-> <<>>]
  /\ ran = [l \in Loops |-> 0]

Pool == 1 .. numThreads_
Accepted == 1 .. nextConnId_ - 1

\* The functors a loop holds; the vector of doPendingFunctors keeps those
\* that have run until the batch ends.
Held(l) == Range(queue[l]) \union Range(batch[l])

Alive(c) ==
  \/ c \in connections_
  \/ \E l \in Loops : \E f \in Held(l) : f.conn = c

\* The descriptors of connections.
Open == Cardinality({c \in Accepted : Alive(c)})

\* EventLoop::queueInLoop
Queued(l, op, c) == [queue EXCEPT ![l] = Append(@, F(op, c))]

-----------------------------------------------------------------------------
(* What a connection does on its own loop.                                 *)

ConnectEstablished(c) ==
  /\ state_' = [state_ EXCEPT ![c] = "kConnected"]
  /\ index_' = [index_ EXCEPT ![c] = "kAdded"]
  /\ told' = [told EXCEPT ![c] = Append(@, "up")]

\* Mutant of IndexAfterDestroyed: channel_->remove() is forgotten.
KeepsIndex(c) == index_[c]

IndexAfterDestroyed(c) == "kNew"

\* Mutant of TellsDown: the callback is called whatever the state.
TellsDownAlways(c) == TRUE

\* The test of connectDestroyed.
TellsDown(c) == state_[c] = "kConnected"

ConnectDestroyed(c) ==
  /\ state_' = [state_ EXCEPT ![c] = IF TellsDown(c) THEN "kDisconnected" ELSE @]
  /\ index_' = [index_ EXCEPT ![c] = IndexAfterDestroyed(c)]
  /\ told' = [told EXCEPT ![c] = IF TellsDown(c) THEN Append(@, "down") ELSE @]

\* shutdown(), from any callback that the loop's thread runs: a message, say,
\* wakes the loop for that alone.  The calls of other threads, with their
\* race, are in TcpConnection.
Shutdown(c) ==
  /\ c \in ShutdownConns
  /\ state_[c] = "kConnected"
  /\ pc[loopOf[c]] # "gone"
  /\ loopOf[c] = Base => acceptPc = "idle"
  /\ state_' = [state_ EXCEPT ![c] = "kDisconnecting"]
  /\ UNCHANGED <<acceptorVars, serverPc, poolVars, index_, told, serverVars,
                 loopVars, queue, peerClosed>>

-----------------------------------------------------------------------------
(* The acceptor's handler on the base loop, with newConnection.            *)

\* Mutant of NextAfter: next_ is not advanced.
StaysPut == next_

\* ++next_, and back to 0 at the end of loops_.
NextAfter == IF next_ + 1 >= numThreads_ THEN 0 ELSE next_ + 1

\* getNextLoop: loops_[next_], or the base loop when the pool is empty.
NextLoop == IF numThreads_ = 0 THEN Base ELSE next_ + 1

\* A step of the base loop at the acceptor's channel.
AtListener ==
  /\ pc[Base] = "events"
  /\ Listener \in active[Base]

DoneWithListener ==
  /\ active' = [active EXCEPT ![Base] = @ \ {Listener}]
  /\ UNCHANGED <<pc, quit_, batch, ran>>

NewConnection ==
  LET c == nextConnId_
      l == NextLoop
  IN
  /\ AtListener
  /\ Accept(Open)
  /\ DoneWithListener
  /\ next_' = NextAfter
  /\ nextConnId_' = c + 1
  /\ loopOf' = [loopOf EXCEPT ![c] = l]
  /\ connections_' = connections_ \union {c}
  /\ IF l = Base
       THEN ConnectEstablished(c) /\ UNCHANGED queue
       ELSE queue' = Queued(l, "established", c) /\ UNCHANGED connVars
  /\ UNCHANGED <<serverPc, numThreads_, told_to_quit, peerClosed>>

ListenerFull ==
  /\ AtListener
  /\ TableFull(Open)
  /\ UNCHANGED <<serverPc, poolVars, connVars, serverVars, loopVars, queue,
                 peerClosed>>

RefuseClient ==
  /\ Refuse(Open)
  /\ UNCHANGED <<serverPc, poolVars, connVars, serverVars, loopVars, queue,
                 peerClosed>>

ReopenIdle ==
  /\ Reopen(Open)
  /\ DoneWithListener
  /\ UNCHANGED <<serverPc, poolVars, connVars, serverVars, queue, peerClosed>>

-----------------------------------------------------------------------------
(* The loops.                                                              *)

\* A step of loop l, which on the base loop is not inside Acceptor::handleRead.
At(l, where) == pc[l] = where /\ (l = Base => acceptPc = "idle")

\* The first statements of loop() reset quit_: a quit() that came before them
\* is forgotten.
EnterLoop(l) ==
  /\ pc[l] = "starting"
  /\ pc' = [pc EXCEPT ![l] = "poll"]
  /\ quit_' = [quit_ EXCEPT ![l] = FALSE]
  /\ UNCHANGED <<acceptorVars, serverPc, poolVars, connVars, serverVars,
                 active, batch, ran, queue, peerClosed>>

\* Level-triggered: what epoll_wait would report now.
Ready(l) ==
  {c \in Accepted : loopOf[c] = l /\ index_[c] = "kAdded" /\ c \in peerClosed}
  \union {x \in {Listener} : l = Base /\ HasClient}

\* Mutant of WokenUp: quit() does not write the eventfd.
WokenByFunctors(l) == queue[l] # <<>>

\* Somebody has written the eventfd since the loop looked: see EventLoop.
WokenUp(l) == queue[l] # <<>> \/ quit_[l]

Poll(l) ==
  /\ At(l, "poll")
  /\ Ready(l) # {} \/ WokenUp(l)
  /\ pc' = [pc EXCEPT ![l] = "events"]
  /\ active' = [active EXCEPT ![l] = Ready(l)]
  /\ UNCHANGED <<acceptorVars, serverPc, poolVars, connVars, serverVars,
                 quit_, batch, ran, queue, peerClosed>>

\* Mutant of Removed: the entry of the closed connection stays.
NotErased(c) == connections_

\* connections_.erase
Removed(c) == connections_ \ {c}

\* TcpConnection::handleClose, and removeConnection: on the base loop at once,
\* from a pool loop through the base loop's queue.
HandleClose(l, c) ==
  /\ At(l, "events")
  /\ c \in active[l] \ {Listener}
  /\ active' = [active EXCEPT ![l] = @ \ {c}]
  /\ state_' = [state_ EXCEPT ![c] = "kDisconnected"]
  /\ index_' = [index_ EXCEPT ![c] = "kDeleted"]
  /\ told' = [told EXCEPT ![c] = Append(@, "down")]
  /\ IF l = Base
       THEN /\ connections_' = Removed(c)
            /\ queue' = Queued(loopOf[c], "destroyed", c)
       ELSE /\ UNCHANGED connections_
            /\ queue' = Queued(Base, "remove", c)
  /\ UNCHANGED <<acceptorVars, serverPc, poolVars, nextConnId_, loopOf, pc,
                 quit_, batch, ran, peerClosed>>

\* The swap of doPendingFunctors.
TakeFunctors(l) ==
  /\ At(l, "events")
  /\ active[l] = {}
  /\ pc' = [pc EXCEPT ![l] = "functors"]
  /\ batch' = [batch EXCEPT ![l] = queue[l]]
  /\ ran' = [ran EXCEPT ![l] = 0]
  /\ queue' = [queue EXCEPT ![l] = <<>>]
  /\ UNCHANGED <<acceptorVars, serverPc, poolVars, connVars, serverVars,
                 quit_, active, peerClosed>>

\* removeConnectionInLoop, on the base loop
RemoveConnectionInLoop(c) ==
  /\ connections_' = Removed(c)
  /\ queue' = Queued(loopOf[c], "destroyed", c)
  /\ UNCHANGED connVars

RunFunctor(l) ==
  LET f == batch[l][ran[l] + 1] IN
  /\ At(l, "functors")
  /\ ran[l] < Len(batch[l])
  /\ ran' = [ran EXCEPT ![l] = @ + 1]
  /\ \/ f.op = "established" /\ ConnectEstablished(f.conn)
        /\ UNCHANGED <<connections_, queue>>
     \/ f.op = "destroyed" /\ ConnectDestroyed(f.conn)
        /\ UNCHANGED <<connections_, queue>>
     \/ f.op = "remove" /\ RemoveConnectionInLoop(f.conn)
  /\ UNCHANGED <<acceptorVars, serverPc, poolVars, nextConnId_, loopOf, pc,
                 quit_, active, batch, peerClosed>>

\* The batch is released and quit_ tested.  A pool thread that leaves loop()
\* destroys its EventLoop and with it the functors that still wait.
EndOfFunctors(l) ==
  /\ At(l, "functors")
  /\ ran[l] = Len(batch[l])
  /\ batch' = [batch EXCEPT ![l] = <<>>]
  /\ ran' = [ran EXCEPT ![l] = 0]
  /\ pc' = [pc EXCEPT ![l] = IF ~quit_[l] THEN "poll"
                             ELSE IF l = Base THEN "out" ELSE "gone"]
  /\ queue' = IF quit_[l] /\ l # Base THEN [queue EXCEPT ![l] = <<>>] ELSE queue
  /\ UNCHANGED <<acceptorVars, serverPc, poolVars, connVars, serverVars,
                 quit_, active, peerClosed>>

LoopStep(l) ==
  \/ EnterLoop(l)
  \/ Poll(l)
  \/ \E c \in Conns : HandleClose(l, c)
  \/ TakeFunctors(l) \/ RunFunctor(l) \/ EndOfFunctors(l)

AcceptorStep == NewConnection \/ ListenerFull \/ RefuseClient \/ ReopenIdle

-----------------------------------------------------------------------------
(* The owner of the server: main.                                          *)

\* start(): the pool's threads have published their loops when startLoop
\* returns, and the acceptor listens.  Only the first call does anything.
Start ==
  /\ serverPc = "built"
  /\ serverPc' = "started"
  /\ pc' = [l \in Loops |-> IF l \in Pool THEN "starting" ELSE "out"]
  /\ Listen
  /\ UNCHANGED <<poolVars, connVars, serverVars, quit_, active, batch, ran,
                 queue, peerClosed>>

RunBaseLoop ==
  /\ serverPc = "started"
  /\ serverPc' = "serving"
  /\ pc' = [pc EXCEPT ![Base] = "poll"]
  /\ UNCHANGED <<acceptorVars, poolVars, connVars, serverVars, quit_, active,
                 batch, ran, queue, peerClosed>>

\* quit() on the base loop, from a callback or from anywhere.
QuitBaseLoop ==
  /\ serverPc = "serving"
  /\ quit_' = [quit_ EXCEPT ![Base] = TRUE]
  /\ UNCHANGED <<acceptorVars, serverPc, poolVars, connVars, serverVars, pc,
                 active, batch, ran, queue, peerClosed>>

\* ~TcpServer, once the base loop has returned.
DestroyServer ==
  /\ serverPc = "serving"
  /\ pc[Base] = "out"
  /\ serverPc' = "destroying"
  /\ UNCHANGED <<acceptorVars, poolVars, connVars, serverVars, loopVars, queue,
                 peerClosed>>

\* Mutant of RunsHere: queueInLoop where the code has runInLoop.
RunsNever(c) == FALSE

\* runInLoop(connectDestroyed) in the destructor: on the base thread at once.
RunsHere(c) == loopOf[c] = Base

\* One round of the destructor's loop, for the connections in any order.
DestroyConnection(c) ==
  /\ serverPc = "destroying"
  /\ c \in connections_
  /\ connections_' = connections_ \ {c}
  /\ IF RunsHere(c)
       THEN ConnectDestroyed(c) /\ UNCHANGED queue
       ELSE queue' = Queued(loopOf[c], "destroyed", c) /\ UNCHANGED connVars
  /\ UNCHANGED <<acceptorVars, serverPc, poolVars, nextConnId_, loopOf,
                 loopVars, peerClosed>>

DestroyPool ==
  /\ serverPc = "destroying"
  /\ connections_ = {}
  /\ serverPc' = "joining"
  /\ UNCHANGED <<acceptorVars, poolVars, connVars, serverVars, loopVars, queue,
                 peerClosed>>

\* ~EventLoopThread has joined the thread of loop l.
Joined(l) == pc[l] = "gone"

\* ~EventLoopThread of the pool's threads, first to last: quit() and join().
QuitPoolLoop(l) ==
  /\ serverPc = "joining"
  /\ l \in Pool /\ l = told_to_quit + 1
  /\ \A k \in 1 .. told_to_quit : Joined(k)
  /\ told_to_quit' = l
  /\ quit_' = [quit_ EXCEPT ![l] = TRUE]
  /\ UNCHANGED <<acceptorVars, serverPc, numThreads_, next_, connVars,
                 serverVars, pc, active, batch, ran, queue, peerClosed>>

DestroyAcceptor ==
  /\ serverPc = "joining"
  /\ \A l \in Pool : Joined(l)
  /\ CloseAcceptor
  /\ serverPc' = "gone"
  /\ UNCHANGED <<poolVars, connVars, serverVars, loopVars, queue, peerClosed>>

\* The base EventLoop, declared before the server, is destroyed after it.
DestroyBaseLoop ==
  /\ serverPc = "gone"
  /\ pc[Base] = "out"
  /\ pc' = [pc EXCEPT ![Base] = "gone"]
  /\ queue' = [queue EXCEPT ![Base] = <<>>]
  /\ UNCHANGED <<acceptorVars, serverPc, poolVars, connVars, serverVars, quit_,
                 active, batch, ran, peerClosed>>

OwnerStep ==
  \/ DestroyServer
  \/ \E c \in Conns : DestroyConnection(c)
  \/ DestroyPool \/ DestroyAcceptor \/ DestroyBaseLoop
  \/ \E l \in Loops : QuitPoolLoop(l)

-----------------------------------------------------------------------------

\* A peer that closes before its channel is registered is seen when it is:
\* the poller cannot tell it from one that closes then.
PeerCloses(c) ==
  /\ c \in Accepted \ peerClosed
  /\ index_[c] = "kAdded"
  /\ peerClosed' = peerClosed \union {c}
  /\ UNCHANGED <<acceptorVars, serverPc, poolVars, connVars, serverVars,
                 loopVars, queue>>

\* Who connects and what other code opens matters while somebody accepts.
Environment ==
  \/ /\ serverPc \in {"started", "serving"}
     /\ ClientArrives \/ OtherOpens(Open) \/ OtherCloses
     /\ UNCHANGED <<serverPc, poolVars, connVars, serverVars, loopVars, queue,
                    peerClosed>>
  \/ \E c \in Conns : PeerCloses(c)

Next ==
  \/ Start \/ RunBaseLoop \/ QuitBaseLoop \/ OwnerStep
  \/ AcceptorStep
  \/ \E l \in Loops : LoopStep(l)
  \/ \E c \in Conns : Shutdown(c)
  \/ Environment

\* Every thread runs: main with the base loop, and the pool's.  Nobody has to
\* connect, to shut down, to close, to open a file or to quit the base loop.
Fairness ==
  /\ WF_vars(OwnerStep \/ AcceptorStep \/ LoopStep(Base))
  /\ \A l \in Loops \ {Base} : WF_vars(LoopStep(l))

SafeSpec == Init /\ [][Next]_vars
Spec == SafeSpec /\ Fairness

-----------------------------------------------------------------------------
(* Properties.                                                             *)

\* The types of the variables; the callback hears of a connection at most up
\* and then down; the table of descriptors is never overfull; a loop that is
\* destroyed holds no functor.
TypeOK ==
  /\ AcceptorTypeOK(Open)
  /\ serverPc \in ServerPcs
  /\ numThreads_ \in ThreadNums
  /\ next_ \in 0 .. MaxThreads
  /\ told_to_quit \in 0 .. MaxThreads
  /\ connections_ \subseteq Accepted
  /\ nextConnId_ \in 1 .. MaxClients + 1
  /\ loopOf \in [Conns -> Loops]
  /\ state_ \in [Conns -> ConnStates]
  /\ index_ \in [Conns -> {"kNew", "kAdded", "kDeleted"}]
  /\ peerClosed \subseteq Accepted
  /\ told \in [Conns -> {<<>>, <<"up">>, <<"up", "down">>}]
  /\ pc \in [Loops -> Pcs]
  /\ quit_ \in [Loops -> BOOLEAN]
  /\ active \in [Loops -> SUBSET (Conns \union {Listener})]
  /\ \A l \in Loops : /\ Held(l) \subseteq Functors
                      /\ pc[l] = "gone" => Held(l) = {}
                      /\ ran[l] \in 0 .. Len(batch[l])

\* A poller never points to a connection that is gone (removeConnectionInLoop
\* and ~TcpServer keep it alive until connectDestroyed has run on its loop):
\* a channel that is registered or active belongs to a connection somebody
\* owns, unless the poller itself is gone.
RegisteredIsAlive ==
  \A c \in Accepted :
    (index_[c] # "kNew" \/ c \in active[loopOf[c]]) /\ pc[loopOf[c]] # "gone"
      => Alive(c)

\* Without a pool the server's end is reported (~TcpServer, "destroy the
\* connection"): whoever was told that a connection is up has been told that
\* it is down when the destructor returns, unless the connection was still in
\* shutdown() then: connectDestroyed reports none that is not kConnected.
EndIsReported ==
  serverPc = "gone" =>
    \A c \in Accepted : loopOf[c] = Base =>
      \/ told[c] = <<"up", "down">>
      \/ told[c] = <<"up">> /\ state_[c] = "kDisconnecting"

\* The pool's loops are served in turn (getNextLoop, "round robin"): no loop
\* has been given two connections more than another, and the base loop none.
SpreadEvenly ==
  LET Given(l) == Cardinality({c \in Accepted : loopOf[c] = l})
  IN  \A k, l \in Pool : Given(k) <= Given(l) + 1 /\ Given(Base) = 0

\* A connection whose peer has closed leaves connections_, is destroyed and
\* gives its descriptor back, through the two loops (handleClose,
\* removeConnectionInLoop, connectDestroyed), while the base loop runs: again
\* and again none of them is left.
ClosedConnectionFreed ==
  []<>(quit_[Base] \/ \A c \in peerClosed : ~Alive(c))

\* No client is left waiting (Acceptor::handleRead and idleFd_): with
\* descriptors or without, every client is accepted or turned away, while the
\* base loop runs and unless another thread has taken the place of idleFd_.
ClientsAnswered ==
  (serverPc = "serving" /\ backlog > 0)
    ~> (backlog = 0 \/ quit_[Base] \/ (~idleFd_ /\ FreeFds(Open) = 0))

\* A thread of the pool that is told to quit has forgotten it.
QuitIsLost == \E l \in 1 .. told_to_quit : ~quit_[l]

\* ~TcpServer returns (its pool's threads are joined), and by the end of the
\* base loop no connection is left, unless one of the pool's threads had not
\* begun loop() when it was told to quit (run thread_lost_quit, where join()
\* waits for ever).
ServerEnds ==
  serverPc = "destroying" ~>
    \/ pc[Base] = "gone" /\ \A c \in Accepted : ~Alive(c)
    \/ QuitIsLost

\* Whoever was told that a connection is up has been told that it is down when
\* the server is gone (~TcpServer, "destroy the connection").  It does not
\* hold: a connection in shutdown() is not reported, and with a pool quit()
\* may overtake the queued connectDestroyed.
EveryEndIsReported ==
  serverPc = "gone" =>
    \A c \in Accepted : told[c] # <<"up">>
=============================================================================

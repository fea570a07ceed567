--------------------------- MODULE TcpConnection ---------------------------
(***************************************************************************)
(* One TcpConnection (net/core/TcpConnection.cpp) from newConnection to    *)
(* connectDestroyed: its I/O loop, which handles its channel's events and  *)
(* runs the functors queued for it, the threads that call send and         *)
(* shutdown on it, the base loop of its TcpServer, and the peer.           *)
(*                                                                         *)
(* The I/O loop is seen as EventLoop guarantees it: poll, the handlers,    *)
(* then the functors queued so far, in order.  The server has at least one *)
(* pool thread, so that the base loop is another thread.  A byte is        *)
(* represented by the message it belongs to.                               *)
(***************************************************************************)
EXTENDS Naturals, Sequences

CONSTANTS
  Workers,          \* threads outside the two loops that use the connection
  Io,               \* the thread of the connection's loop
  MaxMessages,      \* bound: the calls of send
  Lengths,          \* the lengths of messages
  HighWaterMark,    \* TcpConnection::highWaterMark_
  MaxIncoming,      \* bound: the segments the peer sends
  PeerResets,       \* may the peer reset the connection?
  WorkersShutDown,  \* may a worker call shutdown()?
  ServerDies        \* may the TcpServer be destroyed under the connection?

ASSUME IoAssumption == Io \notin Workers
ASSUME BoundsAssumption == MaxMessages \in Nat /\ MaxIncoming \in Nat
ASSUME LengthsAssumption == Lengths \subseteq Nat \ {0}
ASSUME HighWaterMarkAssumption == HighWaterMark \in Nat
ASSUME FlagsAssumption ==
  PeerResets \in BOOLEAN /\ WorkersShutDown \in BOOLEAN /\ ServerDies \in BOOLEAN

VARIABLES
  state_,           \* TcpConnection::state_
  reading, writing, \* the two bits of Channel::events_
  index_,           \* Channel::index_, the poller's view of the channel
  outputBuffer_,    \* the bytes that wait for the socket to be writable
  functors,         \* the I/O loop's pendingFunctors_, this connection's
  pc, todo, batch,  \* the I/O loop: phase, events to handle, functors to run
  inMap,            \* the server's connections_ holds the connection
  removals,         \* removeConnectionInLoop functors in the base loop
  serverAlive,      \* the TcpServer exists
  calling,          \* per worker: how far it is in shutdown()
  incoming,         \* segments the socket has for us
  peerFin, reset,   \* the peer has closed its side; has reset us
  soError,          \* SO_ERROR is pending
  writeShut,        \* our side was shut down
  nextMessage,      \* history: the number of the next message
  accepted,         \* history: the bytes sendInLoop took charge of
  sent,             \* history: the bytes written to the socket
  ups, downs,       \* history: connectionCallback_ when up and when down
  destroyed         \* history: connectDestroyed has run

connVars == <<state_, outputBuffer_, functors, accepted, sent>>
channelVars == <<reading, writing, index_>>
loopVars == <<pc, todo, batch>>
serverVars == <<inMap, removals, serverAlive>>
socketVars == <<incoming, peerFin, reset, soError, writeShut>>
countVars == <<ups, downs, destroyed>>
vars == <<connVars, channelVars, loopVars, serverVars, socketVars, countVars,
          calling, nextMessage>>

States == {"kDisconnected", "kConnecting", "kConnected", "kDisconnecting"}
Indexes == {"kNew", "kAdded", "kDeleted"}
Events == {"close", "error", "read", "write"}

\* The I/O thread blocks ("poll"), handles events, is in a user callback of
\* one, is in the down callback of handleClose, runs functors, is in a user
\* callback of one, or has left loop() for good.
Pcs == {"poll", "events", "callback", "closing", "functors", "fcallback",
        "stopped"}

Threads == Workers \union {Io}
Messages == [id : 1 .. MaxMessages, from : Threads]

\* The functors queued for this connection; data is empty but for "send".
Ops == {"established", "destroyed", "send", "shutdown", "writeComplete",
        "highWater"}
F(op) == [op |-> op, data |-> <<>>]

\* newConnection has created the connection, entered it in connections_ and
\* queued connectEstablished.
Init ==
  /\ state_ = "kConnecting"
  /\ reading = FALSE /\ writing = FALSE /\ index_ = "kNew"
  /\ outputBuffer_ = <<>>
  /\ functors = <<F("established")>>
  /\ pc = "poll" /\ todo = {} /\ batch = 0
  /\ inMap = TRUE /\ removals = 0 /\ serverAlive = TRUE
  /\ calling = [w \in Workers |-> "no"]
  /\ incoming = 0
  /\ peerFin = FALSE /\ reset = FALSE /\ soError = FALSE /\ writeShut = FALSE
  /\ nextMessage = 1
  /\ accepted = <<>> /\ sent = <<>>
  /\ ups = 0 /\ downs = 0 /\ destroyed = FALSE

\* Mutant of Queued: last in, first out.
QueuedInFront(f) == <<f>> \o functors

\* EventLoop::queueInLoop on the I/O loop.
Queued(f) == Append(functors, f)

-----------------------------------------------------------------------------
(* The channel and the poller.                                             *)

\* Channel::update after a change of events_, EPollPoller::updateChannel.
NewIndex(r, w) ==
  IF index_ # "kAdded" THEN "kAdded"
  ELSE IF r \/ w THEN "kAdded" ELSE "kDeleted"

Update(r, w) ==
  /\ reading' = r
  /\ writing' = w
  /\ index_' = NewIndex(r, w)

\* Mutant of RemovedIndex: Channel::remove is forgotten.
NotRemoved == index_

\* EPollPoller::removeChannel, whatever the index was.
RemovedIndex == "kNew"

\* A write on the socket fails for good.
Broken == writeShut \/ reset

-----------------------------------------------------------------------------
(* send and shutdown.                                                      *)

\* Mutant of NothingWaits: sendInLoop always tries to write.
WritesAnyway == TRUE

\* No output waits: sendInLoop may write directly.
NothingWaits == ~writing /\ outputBuffer_ = <<>>

CrossesHighWater(rest) ==
  /\ Len(outputBuffer_) + Len(rest) >= HighWaterMark
  /\ Len(outputBuffer_) < HighWaterMark

\* Mutant of WatchOutput: enableWriting is forgotten.
WatchesNothing == UNCHANGED channelVars

\* if (!channel_->isWriting()) channel_->enableWriting()
WatchOutput == IF writing THEN UNCHANGED channelVars ELSE Update(reading, TRUE)

\* The second half of sendInLoop keeps what was not written; q is the functor
\* queue at that time.
Keep(rest, q) ==
  /\ functors' = IF CrossesHighWater(rest) THEN Append(q, F("highWater")) ELSE q
  /\ outputBuffer_' = outputBuffer_ \o rest
  /\ WatchOutput

\* sendInLoop writes n bytes on the spot.
WriteSome(bytes, n, q) ==
  /\ sent' = sent \o SubSeq(bytes, 1, n)
  /\ IF n = Len(bytes)
       THEN /\ functors' = Append(q, F("writeComplete"))
            /\ UNCHANGED <<outputBuffer_, channelVars>>
       ELSE Keep(SubSeq(bytes, n + 1, Len(bytes)), q)

\* sendInLoop.  The socket takes any part of the bytes, none if it is full;
\* EPIPE and ECONNRESET drop the message.
SendInLoop(bytes, q) ==
  \/ /\ \/ state_ = "kDisconnected"
        \/ state_ # "kDisconnected" /\ NothingWaits /\ Broken
     /\ functors' = q
     /\ UNCHANGED <<accepted, sent, outputBuffer_, channelVars>>
  \/ /\ state_ # "kDisconnected"
     /\ NothingWaits /\ ~Broken
     /\ accepted' = accepted \o bytes
     /\ \E n \in 0 .. Len(bytes) : WriteSome(bytes, n, q)
  \/ /\ state_ # "kDisconnected"
     /\ ~NothingWaits
     /\ accepted' = accepted \o bytes
     /\ Keep(bytes, q)
     /\ UNCHANGED sent

NewMessage(t, len) == [i \in 1 .. len |-> [id |-> nextMessage, from |-> t]]

\* send() on the loop's thread, from a user callback.
InUserCallback == pc \in {"callback", "closing", "fcallback"}

Send(len) ==
  /\ InUserCallback
  /\ nextMessage <= MaxMessages
  /\ nextMessage' = nextMessage + 1
  /\ SendInLoop(NewMessage(Io, len), functors)
  /\ UNCHANGED <<state_, loopVars, serverVars, socketVars, countVars, calling>>

\* A worker got hold of the connection in the up callback, and has it until
\* the loop is gone.
WorkerMayUse(w) == ups > 0 /\ pc # "stopped" /\ calling[w] = "no"

\* send() on another thread queues sendInLoop.
SendElsewhere(w, len) ==
  /\ WorkerMayUse(w)
  /\ nextMessage <= MaxMessages
  /\ nextMessage' = nextMessage + 1
  /\ functors' = Queued([op |-> "send", data |-> NewMessage(w, len)])
  /\ UNCHANGED <<state_, outputBuffer_, accepted, sent, channelVars, loopVars,
                 serverVars, socketVars, countVars, calling>>

\* Mutant of MayShutWrite: shutdownInLoop does not look at the channel.
ShutsWriteAtOnce(w) == TRUE

\* shutdownInLoop: the write side is shut only when no output waits.
MayShutWrite(w) == ~w

\* shutdown() on the loop's thread.
Shutdown ==
  /\ InUserCallback
  /\ state_ = "kConnected"
  /\ state_' = "kDisconnecting"
  /\ writeShut' = (writeShut \/ MayShutWrite(writing))
  /\ UNCHANGED <<outputBuffer_, functors, accepted, sent, channelVars, loopVars,
                 serverVars, incoming, peerFin, reset, soError, countVars,
                 calling, nextMessage>>

\* shutdown() on a worker: the test of state_, the store to it, and the
\* queueing of shutdownInLoop are three steps.
ShutdownTests(w) ==
  /\ WorkersShutDown
  /\ WorkerMayUse(w)
  /\ state_ = "kConnected"
  /\ calling' = [calling EXCEPT ![w] = "tested"]
  /\ UNCHANGED <<connVars, channelVars, loopVars, serverVars, socketVars,
                 countVars, nextMessage>>

ShutdownStores(w) ==
  /\ calling[w] = "tested"
  /\ state_' = "kDisconnecting"
  /\ calling' = [calling EXCEPT ![w] = "stored"]
  /\ UNCHANGED <<outputBuffer_, functors, accepted, sent, channelVars, loopVars,
                 serverVars, socketVars, countVars, nextMessage>>

ShutdownQueues(w) ==
  /\ calling[w] = "stored"
  /\ functors' = Queued(F("shutdown"))
  /\ calling' = [calling EXCEPT ![w] = "no"]
  /\ UNCHANGED <<state_, outputBuffer_, accepted, sent, channelVars, loopVars,
                 serverVars, socketVars, countVars, nextMessage>>

-----------------------------------------------------------------------------
(* Events on the channel.                                                  *)

\* What epoll reports; out is whether the socket has room to write.  Only
\* HUP and ERR are reported without being asked for.
ReadEvent == reading /\ (incoming > 0 \/ peerFin \/ reset)

HangUp == reset \/ (peerFin /\ writeShut)

Revents(out) ==
  IF index_ # "kAdded" THEN {}
  ELSE {e \in Events :
         \/ e = "close" /\ HangUp /\ ~ReadEvent
         \/ e = "error" /\ soError
         \/ e = "read"  /\ ReadEvent
         \/ e = "write" /\ writing /\ (out \/ Broken)}

\* poll returns because of this channel or of a wakeup.
Poll(out) ==
  /\ pc = "poll"
  /\ Revents(out) # {} \/ functors # <<>>
  /\ todo' = Revents(out)
  /\ pc' = "events"
  /\ UNCHANGED <<batch, connVars, channelVars, serverVars, socketVars, countVars,
                 calling, nextMessage>>

\* handleEventWithGuard goes through the events in this order.
Rank(e) == CASE e = "close" -> 1 [] e = "error" -> 2
             [] e = "read" -> 3 [] e = "write" -> 4

IsNext(e) ==
  /\ pc = "events"
  /\ e \in todo
  /\ \A f \in todo : Rank(e) <= Rank(f)

Done(e) == todo' = todo \ {e} /\ UNCHANGED batch

\* handleClose up to the return of the connection callback ...
HandleClose(e) ==
  /\ Done(e)
  /\ pc' = "closing"
  /\ state_' = "kDisconnected"
  /\ Update(FALSE, FALSE)
  /\ downs' = downs + 1
  /\ UNCHANGED <<outputBuffer_, functors, accepted, sent, serverVars, socketVars,
                 ups, destroyed, calling, nextMessage>>

\* ... and its close callback, TcpServer::removeConnection, which queues
\* removeConnectionInLoop on the base loop.
CloseCallback ==
  /\ pc = "closing"
  /\ pc' = "events"
  /\ removals' = removals + 1
  /\ UNCHANGED <<todo, batch, connVars, channelVars, inMap, serverAlive,
                 socketVars, countVars, calling, nextMessage>>

ChannelClose == IsNext("close") /\ HandleClose("close")

\* handleError reads SO_ERROR, which clears it, and logs.
HandleError ==
  /\ IsNext("error")
  /\ Done("error")
  /\ soError' = FALSE
  /\ UNCHANGED <<pc, connVars, channelVars, serverVars, incoming, peerFin, reset,
                 writeShut, countVars, calling, nextMessage>>

\* handleRead gets some of the data and calls messageCallback_,
ReadData ==
  /\ IsNext("read")
  /\ incoming > 0
  /\ \E left \in 0 .. incoming - 1 : incoming' = left
  /\ Done("read")
  /\ pc' = "callback"
  /\ UNCHANGED <<connVars, channelVars, serverVars, peerFin, reset, soError,
                 writeShut, countVars, calling, nextMessage>>

\* or an error, which it logs,
ReadError ==
  /\ IsNext("read")
  /\ incoming = 0
  /\ soError
  /\ soError' = FALSE
  /\ Done("read")
  /\ UNCHANGED <<pc, connVars, channelVars, serverVars, incoming, peerFin, reset,
                 writeShut, countVars, calling, nextMessage>>

\* or the end of the stream: the peer's FIN, or a reset whose SO_ERROR was
\* taken already.
ReadEnd ==
  /\ IsNext("read")
  /\ incoming = 0
  /\ peerFin \/ ~soError
  /\ HandleClose("read")

\* Mutant of FinishesShutdown: handleWrite forgets that shutdown() waits.
ForgetsShutdown == FALSE

\* shutdownInLoop after the buffer was drained.
FinishesShutdown == state_ = "kDisconnecting"

\* handleWrite writes n bytes of the buffer.
WriteBuffered(n) ==
  /\ sent' = sent \o SubSeq(outputBuffer_, 1, n)
  /\ outputBuffer_' = SubSeq(outputBuffer_, n + 1, Len(outputBuffer_))
  /\ IF n = Len(outputBuffer_)
       THEN /\ Update(reading, FALSE)
            /\ functors' = Queued(F("writeComplete"))
            /\ writeShut' = (writeShut \/ FinishesShutdown)
       ELSE UNCHANGED <<channelVars, functors, writeShut>>

\* handleWrite: a channel that no longer writes and an error are only logged.
HandleWrite ==
  /\ IsNext("write")
  /\ Done("write")
  /\ IF writing /\ ~Broken
       THEN \E n \in 1 .. Len(outputBuffer_) : WriteBuffered(n)
       ELSE UNCHANGED <<sent, outputBuffer_, channelVars, functors, writeShut>>
  /\ UNCHANGED <<pc, state_, accepted, serverVars, incoming, peerFin, reset,
                 soError, countVars, calling, nextMessage>>

-----------------------------------------------------------------------------
(* The rest of the I/O loop.                                               *)

ReturnFromCallback ==
  /\ pc \in {"callback", "fcallback"}
  /\ pc' = IF pc = "callback" THEN "events" ELSE "functors"
  /\ UNCHANGED <<todo, batch, connVars, channelVars, serverVars, socketVars,
                 countVars, calling, nextMessage>>

\* Mutant of EventsHandled: a channel's events are not all handled.
DropsEvents == TRUE

EventsHandled == todo = {}

\* doPendingFunctors takes what is queued by now, after the last handler.
TakeFunctors ==
  /\ pc = "events"
  /\ EventsHandled
  /\ pc' = "functors"
  /\ batch' = Len(functors)
  /\ UNCHANGED <<todo, connVars, channelVars, serverVars, socketVars, countVars,
                 calling, nextMessage>>

NextFunctor(op) ==
  /\ pc = "functors"
  /\ batch > 0
  /\ batch' = batch - 1
  /\ Head(functors).op = op

\* connectEstablished, up to the call of connectionCallback_.
ConnectEstablished ==
  /\ NextFunctor("established")
  /\ state_' = "kConnected"
  /\ Update(TRUE, writing)
  /\ ups' = ups + 1
  /\ pc' = "fcallback"
  /\ functors' = Tail(functors)
  /\ UNCHANGED <<todo, outputBuffer_, accepted, sent, serverVars, socketVars,
                 downs, destroyed, calling, nextMessage>>

\* Mutant of TellsDown: connectDestroyed does not look at the state.
TellsDownAlways == TRUE

\* connectDestroyed calls connectionCallback_ only in state kConnected; in
\* any state it takes the channel out of the poller.
TellsDown == state_ = "kConnected"

ConnectDestroyed ==
  /\ NextFunctor("destroyed")
  /\ IF TellsDown
       THEN /\ state_' = "kDisconnected"
            /\ reading' = FALSE /\ writing' = FALSE
            /\ downs' = downs + 1
       ELSE UNCHANGED <<state_, reading, writing, downs>>
  /\ index_' = RemovedIndex
  /\ destroyed' = TRUE
  /\ functors' = Tail(functors)
  /\ UNCHANGED <<pc, todo, outputBuffer_, accepted, sent, serverVars, socketVars,
                 ups, calling, nextMessage>>

RunSend ==
  /\ NextFunctor("send")
  /\ SendInLoop(Head(functors).data, Tail(functors))
  /\ UNCHANGED <<pc, todo, state_, serverVars, socketVars, countVars, calling,
                 nextMessage>>

RunShutdown ==
  /\ NextFunctor("shutdown")
  /\ writeShut' = (writeShut \/ MayShutWrite(writing))
  /\ functors' = Tail(functors)
  /\ UNCHANGED <<pc, todo, state_, outputBuffer_, accepted, sent, channelVars,
                 serverVars, incoming, peerFin, reset, soError, countVars,
                 calling, nextMessage>>

\* writeCompleteCallback_ and highWaterMarkCallback_.
RunNotification ==
  /\ NextFunctor("writeComplete") \/ NextFunctor("highWater")
  /\ pc' = "fcallback"
  /\ functors' = Tail(functors)
  /\ UNCHANGED <<todo, state_, outputBuffer_, accepted, sent, channelVars,
                 serverVars, socketVars, countVars, calling, nextMessage>>

RunFunctor == ConnectEstablished \/ ConnectDestroyed \/ RunSend \/ RunShutdown
              \/ RunNotification

\* The end of an iteration of loop().  Once the server is being destroyed the
\* pool's destructor makes the loop quit here.
EndOfFunctors ==
  /\ pc = "functors"
  /\ batch = 0
  /\ \/ pc' = "poll"
     \/ ~serverAlive /\ pc' = "stopped"
  /\ UNCHANGED <<todo, batch, connVars, channelVars, serverVars, socketVars,
                 countVars, calling, nextMessage>>

-----------------------------------------------------------------------------
(* The base loop and the peer.                                             *)

\* removeConnectionInLoop, on the base loop's thread.
RemoveConnectionInLoop ==
  /\ serverAlive
  /\ removals > 0
  /\ removals' = removals - 1
  /\ inMap' = FALSE
  /\ functors' = Queued(F("destroyed"))
  /\ UNCHANGED <<state_, outputBuffer_, accepted, sent, channelVars, loopVars,
                 serverAlive, socketVars, countVars, calling, nextMessage>>

\* ~TcpServer, after the base loop has left loop().
DestroyServer ==
  /\ ServerDies
  /\ serverAlive
  /\ serverAlive' = FALSE
  /\ inMap' = FALSE
  /\ functors' = IF inMap THEN Queued(F("destroyed")) ELSE functors
  /\ UNCHANGED <<removals, state_, outputBuffer_, accepted, sent, channelVars,
                 loopVars, socketVars, countVars, calling, nextMessage>>

PeerSends ==
  /\ incoming < MaxIncoming /\ ~peerFin /\ ~reset
  /\ incoming' = incoming + 1
  /\ UNCHANGED <<connVars, channelVars, loopVars, serverVars, peerFin, reset,
                 soError, writeShut, countVars, calling, nextMessage>>

PeerCloses ==
  /\ ~peerFin /\ ~reset
  /\ peerFin' = TRUE
  /\ UNCHANGED <<connVars, channelVars, loopVars, serverVars, incoming, reset,
                 soError, writeShut, countVars, calling, nextMessage>>

PeerResetsUs ==
  /\ PeerResets
  /\ ~reset
  /\ reset' = TRUE
  /\ soError' = TRUE
  /\ UNCHANGED <<connVars, channelVars, loopVars, serverVars, incoming, peerFin,
                 writeShut, countVars, calling, nextMessage>>

-----------------------------------------------------------------------------

HandleEvent ==
  \/ ChannelClose \/ CloseCallback
  \/ HandleError
  \/ ReadData \/ ReadError \/ ReadEnd
  \/ HandleWrite

IoStep == HandleEvent \/ ReturnFromCallback \/ TakeFunctors \/ RunFunctor
          \/ EndOfFunctors

WorkerStep(w) == ShutdownStores(w) \/ ShutdownQueues(w)

PollSome == \E out \in BOOLEAN : Poll(out)

Next ==
  \/ \E len \in Lengths : Send(len)
  \/ Shutdown
  \/ \E w \in Workers : \/ \E len \in Lengths : SendElsewhere(w, len)
                        \/ ShutdownTests(w)
                        \/ WorkerStep(w)
  \/ PollSome
  \/ IoStep
  \/ RemoveConnectionInLoop \/ DestroyServer
  \/ PeerSends \/ PeerCloses \/ PeerResetsUs

SafeSpec == Init /\ [][Next]_vars

\* The threads run; the peer reads what we send, so that the socket is not
\* full every time the loop polls.  The peer and the users need do nothing
\* else; the peer may send for ever.
Fairness ==
  /\ WF_vars(IoStep)
  /\ WF_vars(PollSome)
  /\ SF_vars(Poll(TRUE))
  /\ WF_vars(RemoveConnectionInLoop)
  /\ \A w \in Workers : WF_vars(WorkerStep(w))

Spec == SafeSpec /\ Fairness

-----------------------------------------------------------------------------
(* Properties.                                                             *)

\* The types of the variables; events are pending only while one is handled.
TypeOK ==
  /\ state_ \in States
  /\ reading \in BOOLEAN /\ writing \in BOOLEAN
  /\ index_ \in Indexes
  /\ outputBuffer_ \in Seq(Messages)
  /\ functors \in Seq([op : Ops, data : Seq(Messages)])
  /\ pc \in Pcs
  /\ todo \subseteq Events
  /\ todo # {} => pc \in {"events", "callback", "closing"}
  /\ batch \in 0 .. Len(functors)
  /\ inMap \in BOOLEAN /\ removals \in Nat /\ serverAlive \in BOOLEAN
  /\ calling \in [Workers -> {"no", "tested", "stored"}]
  /\ incoming \in 0 .. MaxIncoming
  /\ peerFin \in BOOLEAN /\ reset \in BOOLEAN /\ soError \in BOOLEAN
  /\ writeShut \in BOOLEAN
  /\ nextMessage \in 1 .. MaxMessages + 1
  /\ accepted \in Seq(Messages) /\ sent \in Seq(Messages)
  /\ ups \in Nat /\ downs \in Nat /\ destroyed \in BOOLEAN

\* What sendInLoop took charge of is written or waits, in that order, nothing
\* lost, doubled or overtaken between the direct write and the buffer
\* (sendInLoop, handleWrite).
NoByteLost == sent \o outputBuffer_ = accepted

\* The messages of one thread reach the socket in the order of its calls to
\* send, and no byte of another message, whoever sends it, comes between the
\* bytes of one, although the loop's thread sends at once and the others
\* through the queue (TcpConnection::send).
SenderOrder ==
  /\ \A i, j \in DOMAIN accepted :
       i < j /\ accepted[i].from = accepted[j].from => accepted[i].id <= accepted[j].id
  /\ \A i, j \in DOMAIN accepted :
       accepted[i].id = accepted[j].id =>
         \A k \in i .. j : accepted[k].id = accepted[i].id

\* Output that waits is watched for: on a connection that is not closed the
\* channel asks for EPOLLOUT exactly when the buffer holds something, and is
\* registered then (enableWriting and disableWritting in sendInLoop and
\* handleWrite).
WaitingOutputIsWatched ==
  state_ \in {"kConnected", "kDisconnecting"} /\ ~destroyed =>
    /\ writing <=> outputBuffer_ # <<>>
    /\ index_ = "kAdded" /\ reading

\* The connection implements the stream its users think of: see ByteStream.
\* Our FIN does not overtake the data in the buffer (shutdownInLoop), nothing
\* is accepted or written after it, and nothing after handleClose, whatever
\* is sent late or is still queued.
Stream == INSTANCE ByteStream WITH
            phase <- IF state_ = "kDisconnected" THEN "closed"
                     ELSE IF writeShut THEN "finished" ELSE "open"

ImplementsByteStream == Stream!Spec

\* The connection callback runs once when the connection goes up and at most
\* once when it goes down, in this order, though a connection may be closed
\* by the peer, by an error and by removeConnectionInLoop.
OneUpOneDown == ups <= 1 /\ downs <= ups

\* A channel whose address the poller holds is that of a connection somebody
\* will take out of the poller: it is in the server's map, on its way out of
\* it, or connectDestroyed is queued (removeConnection,
\* removeConnectionInLoop, connectDestroyed).
RegisteredIsOwned ==
  index_ # "kNew" =>
    \/ inMap
    \/ removals > 0
    \/ \E i \in DOMAIN functors : functors[i].op = "destroyed"

\* Whoever ends a connection sees it end.  shutdown() takes effect: the write
\* side is shut once the peer has read what waits, or the connection is closed
\* or destroyed (shutdown, and handleWrite on an empty buffer).  A connection
\* the peer has closed leaves the server's map, is told to leave the poller,
\* and its down callback has run (handleRead, handleClose, removeConnection,
\* connectDestroyed), through two loops and back.
EndingsComplete ==
  /\ state_ = "kDisconnecting" ~> writeShut \/ state_ = "kDisconnected" \/ destroyed
  /\ peerFin /\ state_ # "kConnecting" ~> ~inMap /\ destroyed /\ downs > 0

\* The connection callback runs "when a connection is established or
\* terminated" (README): a connection that was up and is destroyed was
\* reported down.
DestroyedWasReported == destroyed => downs = ups
=============================================================================

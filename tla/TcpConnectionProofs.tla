------------------------ MODULE TcpConnectionProofs ------------------------
(***************************************************************************)
(* Theorems about TcpConnection, for any number of workers and messages.   *)
(***************************************************************************)
EXTENDS TcpConnection, SequenceTheorems, TLAPS

\* The functors of a connection's queue.
Tasks == [op : Ops, data : Seq(Messages)]

-----------------------------------------------------------------------------
(* Cutting a sequence in two.                                              *)

\* The two halves of a sequence are sequences, and give it back when joined.
LEMMA CutAndJoin ==
  ASSUME NEW S, NEW s \in Seq(S), NEW n \in 0 .. Len(s)
  PROVE  /\ SubSeq(s, 1, n) \in Seq(S)
         /\ SubSeq(s, n + 1, Len(s)) \in Seq(S)
         /\ SubSeq(s, 1, n) \o SubSeq(s, n + 1, Len(s)) = s
<1> DEFINE l == SubSeq(s, 1, n)
           r == SubSeq(s, n + 1, Len(s))
<1>0. Len(s) \in Nat /\ n \in Nat
  OBVIOUS
<1>1. l \in Seq(S) /\ Len(l) = n /\ \A i \in 1 .. n : l[i] = s[i]
  BY <1>0
<1>2. r \in Seq(S) /\ Len(r) = Len(s) - n /\ \A i \in 1 .. Len(s) - n : r[i] = s[n + i]
  <2>1. \A i \in n + 1 .. Len(s) : s[i] \in S
    BY <1>0
  <2>2. /\ r \in Seq(S)
        /\ Len(r) = IF n + 1 <= Len(s) THEN Len(s) - (n + 1) + 1 ELSE 0
        /\ \A i \in 1 .. Len(s) - (n + 1) + 1 : r[i] = s[(n + 1) + i - 1]
    BY <1>0, <2>1, SubSeqProperties
  <2>3. Len(s) - (n + 1) + 1 = Len(s) - n
    BY <1>0
  <2>4. \A i \in 1 .. Len(s) - n : (n + 1) + i - 1 = n + i
    BY <1>0
  <2> HIDE DEF r
  <2>5. Len(r) = Len(s) - n
    BY <1>0, <2>2
  <2> QED
    BY <2>2, <2>3, <2>4, <2>5
<1> HIDE DEF l, r
<1>3. l \o r \in Seq(S) /\ Len(l \o r) = Len(s)
  <2>1. l \o r \in Seq(S) /\ Len(l \o r) = Len(l) + Len(r)
    BY <1>1, <1>2, ConcatProperties
  <2>2. n + (Len(s) - n) = Len(s)
    BY <1>0
  <2> QED
    BY <1>1, <1>2, <2>1, <2>2
<1>4. ASSUME NEW i \in 1 .. Len(s)
      PROVE  (l \o r)[i] = s[i]
  <2>1. CASE i <= n
    BY <1>0, <1>1, <1>2, <2>1
  <2>2. CASE ~(i <= n)
    <3>1. i - n \in 1 .. Len(s) - n /\ n + (i - n) = i
      BY <1>0, <2>2
    <3>2. (l \o r)[i] = r[i - n]
      BY <1>0, <1>1, <1>2, <2>2, <3>1
    <3> QED
      BY <1>2, <3>1, <3>2
  <2> QED
    BY <2>1, <2>2
<1>5. l \o r = s
  BY <1>3, <1>4, SeqEqual
<1> QED
  BY <1>1, <1>2, <1>5 DEF l, r

\* Three sequences are joined in whatever order.
LEMMA JoinThree ==
  ASSUME NEW S, NEW s \in Seq(S), NEW u \in Seq(S), NEW v \in Seq(S)
  PROVE  /\ s \o u \in Seq(S) /\ u \o v \in Seq(S)
         /\ (s \o u) \o v = s \o (u \o v)
<1>1. s \o u \in Seq(S) /\ u \o v \in Seq(S)
  BY ConcatProperties
<1>2. (s \o u) \o v = s \o (u \o v)
  BY ConcatAssociative
<1> QED
  BY <1>1, <1>2

-----------------------------------------------------------------------------
(* sendInLoop and handleWrite.                                             *)

\* The bytes and the functors of a connection have their types.
BytesOK ==
  /\ accepted \in Seq(Messages)
  /\ sent \in Seq(Messages)
  /\ outputBuffer_ \in Seq(Messages)
  /\ NoByteLost

QueueOK == functors \in Seq(Tasks)

ChannelOK == reading \in BOOLEAN /\ writing \in BOOLEAN /\ index_ \in Indexes

\* The channel's flags stay flags.
LEMMA UpdateTypes ==
  ASSUME NEW r \in BOOLEAN, NEW w \in BOOLEAN, Update(r, w)
  PROVE  ChannelOK'
BY DEF Update, NewIndex, Indexes, ChannelOK

\* Adding a functor to a queue makes it longer.
LEMMA QueueGrows ==
  ASSUME NEW q \in Seq(Tasks), NEW op \in Ops
  PROVE  /\ Append(q, F(op)) \in Seq(Tasks)
         /\ Len(q) <= Len(Append(q, F(op)))
<1>1. F(op) \in Tasks
  BY DEF F, Tasks
<1> HIDE DEF Tasks
<1>2. Append(q, F(op)) \in Seq(Tasks) /\ Len(Append(q, F(op))) = Len(q) + 1
  BY <1>1, AppendProperties
<1>3. Len(q) \in Nat
  BY LenProperties
<1> QED
  BY <1>2, <1>3

\* What the second half of sendInLoop keeps is put behind the buffer.
LEMMA KeepTypes ==
  ASSUME outputBuffer_ \in Seq(Messages), ChannelOK,
         NEW rest \in Seq(Messages), NEW q \in Seq(Tasks), Keep(rest, q)
  PROVE  /\ functors' \in Seq(Tasks)
         /\ Len(q) <= Len(functors')
         /\ outputBuffer_' = outputBuffer_ \o rest
         /\ ChannelOK'
<1>1. functors' \in Seq(Tasks) /\ Len(q) <= Len(functors')
  <2>1. "highWater" \in Ops
    BY DEF Ops
  <2>2. CASE functors' = Append(q, F("highWater"))
    BY <2>1, <2>2, QueueGrows
  <2>3. CASE functors' = q
    <3>1. Len(q) \in Nat
      BY LenProperties
    <3> QED
      BY <2>3, <3>1
  <2> QED
    BY <2>2, <2>3 DEF Keep
<1>2. ChannelOK'
  <2>1. CASE UNCHANGED channelVars
    BY <2>1 DEF channelVars, ChannelOK
  <2>2. CASE Update(reading, TRUE)
    <3>1. reading \in BOOLEAN
      BY DEF ChannelOK
    <3> QED
      BY <2>2, <3>1, UpdateTypes
  <2> QED
    BY <2>1, <2>2 DEF Keep, WatchOutput
<1> QED
  BY <1>1, <1>2 DEF Keep

\* sendInLoop, run with q as the functor queue, loses no byte: it writes a
\* first part of the message only if nothing waits, and puts the rest behind.
LEMMA SendInLoopKeepsBytes ==
  ASSUME BytesOK, ChannelOK,
         NEW bytes \in Seq(Messages), NEW q \in Seq(Tasks), SendInLoop(bytes, q)
  PROVE  BytesOK' /\ QueueOK' /\ ChannelOK' /\ Len(q) <= Len(functors')
<1>0. /\ accepted \in Seq(Messages) /\ sent \in Seq(Messages)
      /\ outputBuffer_ \in Seq(Messages)
  BY DEF BytesOK
<1>a. sent \o outputBuffer_ = accepted
  BY DEF BytesOK, NoByteLost
<1>1. CASE functors' = q /\ UNCHANGED <<accepted, sent, outputBuffer_, channelVars>>
  <2>1. Len(q) \in Nat
    BY LenProperties
  <2> QED
    BY <1>1, <2>1 DEF BytesOK, NoByteLost, QueueOK, ChannelOK, channelVars
<1>2. CASE /\ outputBuffer_ = <<>>
           /\ accepted' = accepted \o bytes
           /\ \E n \in 0 .. Len(bytes) : WriteSome(bytes, n, q)
  <2>1. PICK n \in 0 .. Len(bytes) : WriteSome(bytes, n, q)
    BY <1>2
  <2> DEFINE l == SubSeq(bytes, 1, n)
             r == SubSeq(bytes, n + 1, Len(bytes))
  <2>2. l \in Seq(Messages) /\ r \in Seq(Messages) /\ l \o r = bytes
    BY CutAndJoin
  <2>3. sent' = sent \o l
    BY <2>1 DEF WriteSome
  <2>4. sent = accepted
    BY <1>0, <1>a, <1>2, ConcatEmptySeq
  <2>5. accepted' \in Seq(Messages)
    BY <1>0, <1>2, ConcatProperties
  <2>6. CASE n = Len(bytes)
    <3>1. functors' = Append(q, F("writeComplete"))
          /\ UNCHANGED <<outputBuffer_, channelVars>>
      BY <2>1, <2>6 DEF WriteSome
    <3>2. l = bytes
      BY <2>6, SubSeqFull
    <3> HIDE DEF l, r
    <3>3. sent' = accepted'
      BY <1>2, <2>3, <2>4, <3>2
    <3>4. sent' \o outputBuffer_' = accepted'
      BY <1>2, <2>5, <3>1, <3>3, ConcatEmptySeq
    <3>5. BytesOK'
      BY <1>0, <2>5, <3>1, <3>3, <3>4 DEF BytesOK, NoByteLost
    <3>6. "writeComplete" \in Ops
      BY DEF Ops
    <3>7. QueueOK' /\ Len(q) <= Len(functors')
      BY <3>1, <3>6, QueueGrows DEF QueueOK
    <3> QED
      BY <3>1, <3>5, <3>7 DEF ChannelOK, channelVars
  <2>7. CASE n # Len(bytes)
    <3>1. Keep(r, q)
      BY <2>1, <2>7 DEF WriteSome
    <3> HIDE DEF l, r
    <3>2. /\ functors' \in Seq(Tasks) /\ Len(q) <= Len(functors')
          /\ outputBuffer_' = outputBuffer_ \o r
          /\ ChannelOK'
      BY <1>0, <2>2, <3>1, KeepTypes
    <3>3. outputBuffer_' = r
      BY <1>2, <2>2, <3>2, ConcatEmptySeq
    <3>4. sent \o l \in Seq(Messages) /\ (sent \o l) \o r = sent \o (l \o r)
      <4>1. sent \in Seq(Messages) /\ l \in Seq(Messages) /\ r \in Seq(Messages)
        BY <1>0, <2>2
      <4> QED
        BY <4>1, JoinThree
    <3>5. (sent \o l) \o r = accepted'
      BY <1>2, <2>2, <2>4, <3>4
    <3>6. BytesOK'
      BY <2>2, <2>3, <2>5, <3>3, <3>4, <3>5 DEF BytesOK, NoByteLost
    <3> QED
      BY <3>2, <3>6 DEF QueueOK
  <2> QED
    BY <2>6, <2>7
<1>3. CASE accepted' = accepted \o bytes /\ Keep(bytes, q) /\ UNCHANGED sent
  <2>1. /\ functors' \in Seq(Tasks) /\ Len(q) <= Len(functors')
        /\ outputBuffer_' = outputBuffer_ \o bytes
        /\ ChannelOK'
    BY <1>0, <1>3, KeepTypes
  <2>2. /\ outputBuffer_ \o bytes \in Seq(Messages)
        /\ (sent \o outputBuffer_) \o bytes = sent \o (outputBuffer_ \o bytes)
    <3>1. sent \in Seq(Messages) /\ outputBuffer_ \in Seq(Messages)
      BY <1>0
    <3> QED
      BY <3>1, JoinThree
  <2>3. accepted' \in Seq(Messages)
    BY <1>0, <1>3, ConcatProperties
  <2>4. BytesOK'
    BY <1>0, <1>a, <1>3, <2>1, <2>2, <2>3 DEF BytesOK, NoByteLost
  <2> QED
    BY <2>1, <2>4 DEF QueueOK
<1> QED
  BY <1>1, <1>2, <1>3 DEF SendInLoop, NothingWaits

\* handleWrite moves the first bytes of the buffer to the socket.
LEMMA WriteBufferedKeepsBytes ==
  ASSUME BytesOK, ChannelOK, QueueOK, UNCHANGED accepted,
         NEW n \in 1 .. Len(outputBuffer_), WriteBuffered(n)
  PROVE  BytesOK' /\ QueueOK' /\ ChannelOK' /\ Len(functors) <= Len(functors')
<1> DEFINE l == SubSeq(outputBuffer_, 1, n)
           r == SubSeq(outputBuffer_, n + 1, Len(outputBuffer_))
<1>0. /\ accepted \in Seq(Messages) /\ sent \in Seq(Messages)
      /\ outputBuffer_ \in Seq(Messages)
      /\ functors \in Seq(Tasks)
      /\ reading \in BOOLEAN
  BY DEF BytesOK, QueueOK, ChannelOK
<1>1. l \in Seq(Messages) /\ r \in Seq(Messages) /\ l \o r = outputBuffer_
  <2>1. n \in 0 .. Len(outputBuffer_)
    OBVIOUS
  <2> QED
    BY <1>0, <2>1, CutAndJoin
<1>2. sent' = sent \o l /\ outputBuffer_' = r
  BY DEF WriteBuffered
<1>3. ASSUME n = Len(outputBuffer_)
      PROVE  QueueOK' /\ ChannelOK' /\ Len(functors) <= Len(functors')
  <2>1. Update(reading, FALSE) /\ functors' = Append(functors, F("writeComplete"))
    BY <1>3 DEF WriteBuffered, Queued
  <2>2. "writeComplete" \in Ops
    BY DEF Ops
  <2> QED
    BY <1>0, <2>1, <2>2, QueueGrows, UpdateTypes DEF QueueOK
<1>4. ASSUME n # Len(outputBuffer_)
      PROVE  QueueOK' /\ ChannelOK' /\ Len(functors) <= Len(functors')
  <2>1. UNCHANGED <<channelVars, functors>>
    BY <1>4 DEF WriteBuffered
  <2>2. Len(functors) \in Nat
    BY <1>0, LenProperties
  <2> QED
    BY <1>0, <2>1, <2>2 DEF ChannelOK, QueueOK, channelVars
<1> HIDE DEF l, r
<1>5. sent \o l \in Seq(Messages) /\ (sent \o l) \o r = sent \o (l \o r)
  <2>1. sent \in Seq(Messages) /\ l \in Seq(Messages) /\ r \in Seq(Messages)
    BY <1>0, <1>1
  <2> QED
    BY <2>1, JoinThree
<1>6. sent \o outputBuffer_ = accepted
  BY DEF BytesOK, NoByteLost
<1>7. BytesOK'
  BY <1>0, <1>1, <1>2, <1>5, <1>6 DEF BytesOK, NoByteLost
<1> QED
  BY <1>3, <1>4, <1>7

-----------------------------------------------------------------------------
(* The invariant.                                                          *)

\* The part of TypeOK that sendInLoop and handleWrite do not touch.
OthersOK ==
  /\ state_ \in States
  /\ pc \in Pcs
  /\ todo \subseteq Events
  /\ todo # {} => pc \in {"events", "callback", "closing"}
  /\ inMap \in BOOLEAN /\ removals \in Nat /\ serverAlive \in BOOLEAN
  /\ calling \in [Workers -> {"no", "tested", "stored"}]
  /\ incoming \in 0 .. MaxIncoming
  /\ peerFin \in BOOLEAN /\ reset \in BOOLEAN /\ soError \in BOOLEAN
  /\ writeShut \in BOOLEAN
  /\ nextMessage \in 1 .. MaxMessages + 1
  /\ ups \in Nat /\ downs \in Nat /\ destroyed \in BOOLEAN

BatchOK == batch \in 0 .. Len(functors)

\* TypeOK and NoByteLost, in the parts the lemmas speak of.
IInv == BytesOK /\ QueueOK /\ ChannelOK /\ BatchOK /\ OthersOK

\* The invariant of the proof is the one the runs check, by parts.
LEMMA IInvIsTypeOK == IInv <=> TypeOK /\ NoByteLost
BY DEF IInv, BytesOK, QueueOK, ChannelOK, BatchOK, OthersOK, TypeOK, Tasks

\* A message is made of bytes.
LEMMA MessageType ==
  ASSUME OthersOK, nextMessage <= MaxMessages, NEW t \in Threads, NEW len \in Lengths
  PROVE  NewMessage(t, len) \in Seq(Messages)
<1>1. nextMessage \in 1 .. MaxMessages
  BY BoundsAssumption DEF OthersOK
<1>2. len \in Nat
  BY LengthsAssumption
<1> QED
  BY <1>1, <1>2 DEF NewMessage, Messages

\* The queue with a functor behind it is a longer queue.
LEMMA QueueingKeeps ==
  ASSUME QueueOK, BatchOK, NEW f \in Tasks,
         functors' = Queued(f), UNCHANGED batch
  PROVE  QueueOK' /\ BatchOK'
<1>1. functors \in Seq(Tasks) /\ Len(functors) \in Nat
  BY LenProperties DEF QueueOK
<1>2. functors' \in Seq(Tasks) /\ Len(functors') = Len(functors) + 1
  BY <1>1, AppendProperties DEF Queued
<1> QED
  BY <1>1, <1>2 DEF QueueOK, BatchOK

\* The first functor of the batch is a functor; the rest is the queue without it.
LEMMA NextFunctorTypes ==
  ASSUME QueueOK, BatchOK, NEW op, NextFunctor(op)
  PROVE  /\ Head(functors) \in Tasks
         /\ Tail(functors) \in Seq(Tasks)
         /\ batch' \in 0 .. Len(Tail(functors))
<1>1. functors \in Seq(Tasks) /\ functors # <<>>
  BY DEF QueueOK, BatchOK, NextFunctor
<1>2. /\ Head(functors) \in Tasks /\ Tail(functors) \in Seq(Tasks)
      /\ Len(Tail(functors)) = Len(functors) - 1
  BY <1>1, HeadTailProperties
<1>3. Len(functors) \in Nat
  BY <1>1, LenProperties
<1> QED
  BY <1>2, <1>3 DEF BatchOK, NextFunctor
\* No action of the connection, its loop, the workers, the base loop or the
\* peer breaks the invariant.
LEMMA StepKeepsInvariant == IInv /\ [Next]_vars => IInv'
<1> SUFFICES ASSUME IInv, [Next]_vars PROVE IInv'
  OBVIOUS
<1>0. /\ BytesOK /\ QueueOK /\ ChannelOK /\ BatchOK /\ OthersOK
      /\ functors \in Seq(Tasks)
      /\ Len(functors) \in Nat
  BY LenProperties DEF IInv, QueueOK
\* Most actions leave the bytes, the queue or the channel alone.
<1>b. UNCHANGED <<accepted, sent, outputBuffer_>> => BytesOK'
  BY <1>0 DEF BytesOK, NoByteLost
<1>q. UNCHANGED <<functors, batch>> => QueueOK' /\ BatchOK'
  BY <1>0 DEF QueueOK, BatchOK
<1>c. UNCHANGED channelVars => ChannelOK'
  BY <1>0 DEF ChannelOK, channelVars
<1>g. functors' \in Seq(Tasks) /\ Len(functors) <= Len(functors') /\ UNCHANGED batch
        => QueueOK' /\ BatchOK'
  <2> SUFFICES ASSUME functors' \in Seq(Tasks), Len(functors) <= Len(functors'), UNCHANGED batch
               PROVE  QueueOK' /\ BatchOK'
    OBVIOUS
  <2>1. Len(functors') \in Nat
    BY LenProperties
  <2> QED
    BY <1>0, <2>1 DEF QueueOK, BatchOK
<1>1. ASSUME NEW len \in Lengths, Send(len)
      PROVE  IInv'
  <2>1. NewMessage(Io, len) \in Seq(Messages)
    BY <1>0, <1>1, MessageType DEF Send, Threads
  <2>2. BytesOK' /\ QueueOK' /\ ChannelOK' /\ Len(functors) <= Len(functors')
    BY <1>0, <1>1, <2>1, SendInLoopKeepsBytes DEF Send
  <2>3. QueueOK' /\ BatchOK'
    BY <1>g, <1>1, <2>2 DEF Send, loopVars, QueueOK
  <2>4. OthersOK'
    BY <1>0, <1>1, BoundsAssumption DEF Send, OthersOK, loopVars, serverVars, socketVars, countVars
  <2> QED
    BY <2>2, <2>3, <2>4 DEF IInv
<1>2. CASE Shutdown
  <2>1. OthersOK'
    BY <1>0, <1>2 DEF Shutdown, OthersOK, States, loopVars, serverVars, countVars
  <2> QED
    BY <1>b, <1>q, <1>c, <1>2, <2>1 DEF Shutdown, loopVars, IInv
<1>3. ASSUME NEW w \in Workers, NEW len \in Lengths, SendElsewhere(w, len)
      PROVE  IInv'
  <2>1. NewMessage(w, len) \in Seq(Messages)
    BY <1>0, <1>3, MessageType DEF SendElsewhere, Threads
  <2>2. [op |-> "send", data |-> NewMessage(w, len)] \in Tasks
    BY <2>1 DEF Tasks, Ops
  <2>3. QueueOK' /\ BatchOK'
    BY <1>0, <1>3, <2>2, QueueingKeeps DEF SendElsewhere, loopVars
  <2>4. OthersOK'
    BY <1>0, <1>3, BoundsAssumption
       DEF SendElsewhere, OthersOK, loopVars, serverVars, socketVars, countVars
  <2> QED
    BY <1>b, <1>c, <1>3, <2>3, <2>4 DEF SendElsewhere, IInv
<1>4. ASSUME NEW w \in Workers, ShutdownTests(w) \/ ShutdownStores(w)
      PROVE  IInv'
  <2>1. OthersOK'
    BY <1>0, <1>4 DEF ShutdownTests, ShutdownStores, OthersOK, States, connVars,
                      loopVars, serverVars, socketVars, countVars
  <2>2. UNCHANGED <<accepted, sent, outputBuffer_, functors, batch, channelVars>>
    BY <1>4 DEF ShutdownTests, ShutdownStores, connVars, loopVars
  <2> QED
    BY <1>b, <1>q, <1>c, <2>1, <2>2 DEF IInv
<1>5. ASSUME NEW w \in Workers, ShutdownQueues(w)
      PROVE  IInv'
  <2>1. OthersOK'
    BY <1>0, <1>5 DEF ShutdownQueues, OthersOK, loopVars, serverVars, socketVars, countVars
  <2>2. F("shutdown") \in Tasks
    BY DEF F, Tasks, Ops
  <2>3. QueueOK' /\ BatchOK'
    BY <1>0, <1>5, <2>2, QueueingKeeps DEF ShutdownQueues, loopVars
  <2> QED
    BY <1>b, <1>c, <1>5, <2>1, <2>3 DEF ShutdownQueues, IInv
<1>6. CASE PollSome
  <2>1. PICK out \in BOOLEAN : Poll(out)
    BY <1>6 DEF PollSome
  <2>2. OthersOK'
    BY <1>0, <2>1 DEF Poll, Revents, OthersOK, Pcs, Events, connVars, serverVars,
                      socketVars, countVars
  <2>3. UNCHANGED <<accepted, sent, outputBuffer_, functors, batch, channelVars>>
    BY <2>1 DEF Poll, connVars
  <2> QED
    BY <1>b, <1>q, <1>c, <2>2, <2>3 DEF IInv
<1>7. ASSUME NEW e, HandleClose(e), pc = "events", UNCHANGED <<serverVars, socketVars>>
      PROVE  IInv'
  <2>1. OthersOK'
    BY <1>0, <1>7 DEF HandleClose, Done, OthersOK, Pcs, States, loopVars, serverVars,
                      socketVars
  <2>2. ChannelOK'
    BY <1>7, UpdateTypes DEF HandleClose
  <2> QED
    BY <1>b, <1>q, <1>7, <2>1, <2>2 DEF HandleClose, Done, IInv
<1>8. CASE CloseCallback
  <2>1. OthersOK'
    BY <1>0, <1>8 DEF CloseCallback, OthersOK, Pcs, connVars, socketVars, countVars
  <2> QED
    BY <1>b, <1>q, <1>c, <1>8, <2>1 DEF CloseCallback, connVars, IInv
<1>9. CASE HandleError \/ ReadData \/ ReadError
  <2>1. CASE HandleError
    <3>1. OthersOK'
      BY <1>0, <2>1 DEF HandleError, Done, OthersOK, connVars, serverVars, countVars, IsNext
    <3> QED
      BY <1>b, <1>q, <1>c, <2>1, <3>1 DEF HandleError, Done, connVars, IInv
  <2>2. CASE ReadData
    <3>1. incoming' \in 0 .. MaxIncoming
      BY <1>0, <2>2, BoundsAssumption DEF ReadData, OthersOK
    <3>2. OthersOK'
      BY <1>0, <2>2, <3>1 DEF ReadData, Done, OthersOK, Pcs, connVars, serverVars, countVars
    <3> QED
      BY <1>b, <1>q, <1>c, <2>2, <3>2 DEF ReadData, Done, connVars, IInv
  <2>3. CASE ReadError
    <3>1. OthersOK'
      BY <1>0, <2>3 DEF ReadError, Done, OthersOK, connVars, serverVars, countVars, IsNext
    <3> QED
      BY <1>b, <1>q, <1>c, <2>3, <3>1 DEF ReadError, Done, connVars, IInv
  <2> QED
    BY <1>9, <2>1, <2>2, <2>3
<1>10. CASE HandleWrite
  <2>1. OthersOK'
    <3>1. writeShut' \in BOOLEAN
      BY <1>0, <1>10 DEF HandleWrite, WriteBuffered, OthersOK, FinishesShutdown
    <3> QED
      BY <1>0, <1>10, <3>1 DEF HandleWrite, Done, OthersOK, serverVars, countVars, IsNext
  <2>2. CASE \E n \in 1 .. Len(outputBuffer_) : WriteBuffered(n)
    <3>1. BytesOK' /\ QueueOK' /\ ChannelOK' /\ Len(functors) <= Len(functors')
      BY <1>0, <1>10, <2>2, WriteBufferedKeepsBytes DEF HandleWrite
    <3>2. BatchOK'
      BY <1>g, <1>10, <3>1 DEF HandleWrite, Done, QueueOK
    <3> QED
      BY <2>1, <3>1, <3>2 DEF IInv
  <2>3. CASE UNCHANGED <<sent, outputBuffer_, channelVars, functors>>
    BY <1>b, <1>q, <1>c, <1>10, <2>1, <2>3 DEF HandleWrite, Done, IInv
  <2> QED
    BY <1>10, <2>2, <2>3 DEF HandleWrite
<1>11. CASE ReturnFromCallback \/ TakeFunctors \/ EndOfFunctors
  <2>1. OthersOK'
    BY <1>0, <1>11 DEF ReturnFromCallback, TakeFunctors, EndOfFunctors, EventsHandled,
                       OthersOK, Pcs, connVars, serverVars, socketVars, countVars
  <2>2. UNCHANGED <<accepted, sent, outputBuffer_, functors, channelVars>>
    BY <1>11 DEF ReturnFromCallback, TakeFunctors, EndOfFunctors, connVars
  <2>3. batch' \in 0 .. Len(functors)
    BY <1>0, <1>11 DEF ReturnFromCallback, TakeFunctors, EndOfFunctors, BatchOK
  <2>4. QueueOK' /\ BatchOK'
    BY <1>0, <2>2, <2>3 DEF QueueOK, BatchOK
  <2> QED
    BY <1>b, <1>c, <2>1, <2>2, <2>4 DEF IInv
<1>12. CASE RunFunctor
  <2>t. ASSUME NEW op, NextFunctor(op), functors' = Tail(functors)
        PROVE  QueueOK' /\ BatchOK'
    BY <1>0, <2>t, NextFunctorTypes DEF QueueOK, BatchOK
  <2>1. CASE ConnectEstablished
    <3>1. OthersOK'
      BY <1>0, <2>1 DEF ConnectEstablished, OthersOK, Pcs, States, serverVars, socketVars,
                        NextFunctor, TakeFunctors
    <3>2. ChannelOK'
      BY <1>0, <2>1, UpdateTypes DEF ConnectEstablished, ChannelOK
    <3> QED
      BY <1>b, <2>t, <2>1, <3>1, <3>2 DEF ConnectEstablished, IInv
  <2>2. CASE ConnectDestroyed
    <3>1. OthersOK'
      BY <1>0, <2>2 DEF ConnectDestroyed, OthersOK, States, serverVars, socketVars
    <3>2. ChannelOK'
      BY <1>0, <2>2 DEF ConnectDestroyed, ChannelOK, RemovedIndex, Indexes
    <3> QED
      BY <1>b, <2>t, <2>2, <3>1, <3>2 DEF ConnectDestroyed, IInv
  <2>3. CASE RunSend
    <3>1. OthersOK'
      BY <1>0, <2>3 DEF RunSend, OthersOK, serverVars, socketVars, countVars
    <3>2. /\ Head(functors) \in Tasks /\ Tail(functors) \in Seq(Tasks)
          /\ batch' \in 0 .. Len(Tail(functors))
      BY <1>0, <2>3, NextFunctorTypes DEF RunSend
    <3>3. Head(functors).data \in Seq(Messages)
      BY <3>2 DEF Tasks
    <3>4. /\ BytesOK' /\ QueueOK' /\ ChannelOK'
          /\ Len(Tail(functors)) <= Len(functors')
      BY <1>0, <2>3, <3>2, <3>3, SendInLoopKeepsBytes DEF RunSend
    <3>5. Len(Tail(functors)) \in Nat /\ Len(functors') \in Nat
      BY <3>2, <3>4, LenProperties DEF QueueOK
    <3>6. BatchOK'
      BY <3>2, <3>4, <3>5 DEF BatchOK
    <3> QED
      BY <3>1, <3>4, <3>6 DEF IInv
  <2>4. CASE RunShutdown
    <3>1. OthersOK'
      BY <1>0, <2>4 DEF RunShutdown, OthersOK, MayShutWrite, serverVars, countVars
    <3> QED
      BY <1>b, <1>c, <2>t, <2>4, <3>1 DEF RunShutdown, IInv
  <2>5. CASE RunNotification
    <3>1. OthersOK'
      BY <1>0, <2>5 DEF RunNotification, NextFunctor, OthersOK, Pcs, serverVars,
                        socketVars, countVars
    <3> QED
      BY <1>b, <1>c, <2>t, <2>5, <3>1 DEF RunNotification, IInv
  <2> QED
    BY <1>12, <2>1, <2>2, <2>3, <2>4, <2>5 DEF RunFunctor
<1>13. CASE RemoveConnectionInLoop \/ DestroyServer
  <2>1. OthersOK'
    <3>1. CASE RemoveConnectionInLoop
      <4>1. removals' \in Nat
        BY <1>0, <3>1 DEF RemoveConnectionInLoop, OthersOK
      <4> QED
        BY <1>0, <3>1, <4>1 DEF RemoveConnectionInLoop, OthersOK, loopVars, socketVars,
                                countVars
    <3>2. CASE DestroyServer
      BY <1>0, <3>2 DEF DestroyServer, OthersOK, loopVars, socketVars, countVars
    <3> QED
      BY <1>13, <3>1, <3>2
  <2>2. F("destroyed") \in Tasks
    BY DEF F, Tasks, Ops
  <2>3. functors' = Queued(F("destroyed")) \/ functors' = functors
    BY <1>13 DEF RemoveConnectionInLoop, DestroyServer
  <2>4. UNCHANGED <<accepted, sent, outputBuffer_, batch, channelVars>>
    BY <1>13 DEF RemoveConnectionInLoop, DestroyServer, loopVars
  <2>5. QueueOK' /\ BatchOK'
    BY <1>0, <1>q, <2>2, <2>3, <2>4, QueueingKeeps
  <2> QED
    BY <1>b, <1>c, <2>1, <2>4, <2>5 DEF IInv
<1>14. CASE PeerSends \/ PeerCloses \/ PeerResetsUs
  <2>1. OthersOK'
    <3>1. CASE PeerSends
      <4>1. incoming' \in 0 .. MaxIncoming
        BY <1>0, <3>1, BoundsAssumption DEF PeerSends, OthersOK
      <4> QED
        BY <1>0, <3>1, <4>1 DEF PeerSends, OthersOK, connVars, loopVars, serverVars, countVars
    <3>2. CASE PeerCloses
      BY <1>0, <3>2 DEF PeerCloses, OthersOK, connVars, loopVars, serverVars, countVars
    <3>3. CASE PeerResetsUs
      BY <1>0, <3>3 DEF PeerResetsUs, OthersOK, connVars, loopVars, serverVars, countVars
    <3> QED
      BY <1>14, <3>1, <3>2, <3>3
  <2>2. UNCHANGED <<accepted, sent, outputBuffer_, functors, batch, channelVars>>
    BY <1>14 DEF PeerSends, PeerCloses, PeerResetsUs, connVars, loopVars
  <2> QED
    BY <1>b, <1>q, <1>c, <2>1, <2>2 DEF IInv
<1>15. CASE UNCHANGED vars
  <2>1. OthersOK'
    BY <1>0, <1>15 DEF vars, OthersOK, connVars, loopVars, serverVars, socketVars, countVars
  <2> QED
    BY <1>b, <1>q, <1>c, <1>15, <2>1 DEF vars, connVars, loopVars, IInv
<1>16. CASE ChannelClose \/ ReadEnd
  BY <1>7, <1>16 DEF ChannelClose, ReadEnd, IsNext, HandleClose
<1>17. CASE IoStep
  BY <1>8, <1>9, <1>10, <1>11, <1>12, <1>16, <1>17 DEF IoStep, HandleEvent
<1> QED
  BY <1>1, <1>2, <1>3, <1>4, <1>5, <1>6, <1>13, <1>14, <1>15, <1>17 DEF Next, WorkerStep

\* It holds in every reachable state of the connection.
LEMMA Invariant == SafeSpec => []IInv
<1>1. Init => IInv
  <2>1. F("established") \in Tasks
    BY DEF F, Tasks, Ops
  <2>2. <<F("established")>> \in Seq(Tasks) /\ Len(<<F("established")>>) = 1
    BY <2>1
  <2>3. Init => BytesOK
    BY DEF Init, BytesOK, NoByteLost
  <2>4. Init => OthersOK
    <3>1. 0 \in 0 .. MaxIncoming /\ 1 \in 1 .. MaxMessages + 1
      BY BoundsAssumption
    <3>2. Init => calling \in [Workers -> {"no", "tested", "stored"}]
      BY DEF Init
    <3>3. Init => state_ \in States /\ pc \in Pcs /\ todo = {}
      BY DEF Init, States, Pcs
    <3>4. Init => /\ incoming \in 0 .. MaxIncoming /\ nextMessage \in 1 .. MaxMessages + 1
                  /\ removals \in Nat /\ ups \in Nat /\ downs \in Nat
      BY <3>1 DEF Init
    <3>5. Init => /\ inMap \in BOOLEAN /\ serverAlive \in BOOLEAN /\ peerFin \in BOOLEAN
                  /\ reset \in BOOLEAN /\ soError \in BOOLEAN /\ writeShut \in BOOLEAN
                  /\ destroyed \in BOOLEAN
      BY DEF Init
    <3> QED
      BY <3>2, <3>3, <3>4, <3>5 DEF OthersOK
  <2>5. Init => QueueOK /\ BatchOK
    BY <2>2 DEF Init, QueueOK, BatchOK
  <2>6. Init => ChannelOK
    BY DEF Init, ChannelOK, Indexes
  <2> QED
    BY <2>3, <2>4, <2>5, <2>6 DEF IInv
<1> QED
  BY <1>1, StepKeepsInvariant, PTL DEF SafeSpec

\* Every variable of a connection keeps its type, whoever calls it and
\* whatever the peer does (TcpConnection.cpp).
THEOREM TypeCorrect == SafeSpec => []TypeOK
BY Invariant, IInvIsTypeOK, PTL

\* No byte that sendInLoop took charge of is lost, doubled or reordered
\* between the direct write and the buffer, with any number of workers,
\* messages of any length, and writes that take any part of them.
THEOREM BytesAreKept == SafeSpec => []NoByteLost
BY Invariant, IInvIsTypeOK, PTL
=============================================================================

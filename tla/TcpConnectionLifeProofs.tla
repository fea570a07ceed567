---------------------- MODULE TcpConnectionLifeProofs ----------------------
(***************************************************************************)
(* Theorems about the life of a TcpConnection, for any number of workers   *)
(* and messages: the order of what is sent, and, as long as no worker      *)
(* calls shutdown() (the race of run conn_down_twice), that it goes up and *)
(* down once, watches the output that waits, is taken out of the poller by *)
(* somebody, and implements ByteStream.                                    *)
(*                                                                         *)
(* None of these is inductive alone.  Machine relates state_ to the        *)
(* channel, the buffer and the events that are still to be handled; Queue  *)
(* says that connectEstablished runs before every other functor, and who   *)
(* takes the channel out of the poller.                                    *)
(***************************************************************************)
EXTENDS TcpConnectionProofs

-----------------------------------------------------------------------------
(* The invariants.                                                         *)

Up == state_ \in {"kConnected", "kDisconnecting"}

\* Before connectEstablished the connection does nothing.
NotUpYet ==
  ups = 0 => /\ index_ = "kNew" /\ ~reading /\ ~writing /\ outputBuffer_ = <<>>
             /\ ~destroyed
             /\ todo = {}
             /\ pc \in {"poll", "events", "functors", "stopped"}

\* state_ tells how often the connection callback has run.
Phases ==
  /\ ups \in {0, 1}
  /\ state_ = "kConnecting" <=> ups = 0
  /\ downs = IF state_ = "kDisconnected" THEN 1 ELSE 0

\* The channel of a connection that is up, and of one that is no longer.
Watched ==
  /\ Up => (writing <=> outputBuffer_ # <<>>)
  /\ Up /\ ~destroyed => index_ = "kAdded" /\ reading
  /\ state_ = "kDisconnected" => ~writing /\ index_ # "kAdded"
  /\ destroyed => index_ = "kNew" /\ state_ \in {"kDisconnecting", "kDisconnected"}

\* A shutdown() waits for the output, or is done; then nothing waits.
ShutOrWaits ==
  /\ state_ = "kDisconnecting" => writing \/ writeShut
  /\ writeShut => ~writing

\* At most one of the events still to be handled closes the connection, and
\* only one that is not closed yet.
EventsOnce ==
  /\ todo # {} => ~destroyed
  /\ "close" \in todo \/ "read" \in todo => state_ # "kDisconnected"
  /\ ~("close" \in todo /\ "read" \in todo)

Machine ==
  /\ \A w \in Workers : calling[w] = "no"
  /\ NotUpYet /\ Phases /\ Watched /\ ShutOrWaits /\ EventsOnce

\* connectEstablished is at the head of the queue until it runs.
EstablishedFirst(q, u) ==
  /\ u = 0 => q # <<>>
  /\ \A i \in DOMAIN q : q[i].op = "established" <=> i = 1 /\ u = 0

HasDestroyed(q) == \E i \in DOMAIN q : q[i].op = "destroyed"

Queue ==
  /\ EstablishedFirst(functors, ups)
  /\ index_ # "kNew" \/ ups = 0 => inMap \/ removals > 0 \/ HasDestroyed(functors)

LInv == Machine /\ Queue

\* Messages of one thread are in the order of their numbers, each in one piece.
InOnePiece(s) ==
  \A i, j \in DOMAIN s : s[i].id = s[j].id => \A k \in i .. j : s[k].id = s[i].id

Ordered(s) ==
  /\ \A i, j \in DOMAIN s : i < j /\ s[i].from = s[j].from => s[i].id <= s[j].id
  /\ InOnePiece(s)

\* The two hold nothing of the same message.
Precedes(s, t) ==
  \A i \in DOMAIN s, j \in DOMAIN t :
    /\ s[i].id # t[j].id
    /\ s[i].from = t[j].from => s[i].id <= t[j].id

Below(s, n) == \A i \in DOMAIN s : s[i].id < n

NotFromIo(s) == \A i \in DOMAIN s : s[i].from # Io

\* What was accepted precedes what is queued, which is queued in order; what
\* the loop's thread sends is never queued.
OrderOf(acc, q) ==
  /\ Ordered(acc)
  /\ \A k \in DOMAIN q : Ordered(q[k].data) /\ Precedes(acc, q[k].data)
  /\ \A k, l \in DOMAIN q : k < l => Precedes(q[k].data, q[l].data)
  /\ \A k \in DOMAIN q : NotFromIo(q[k].data)

NumbersOf(acc, q, n) == Below(acc, n) /\ \A k \in DOMAIN q : Below(q[k].data, n)

SInv == OrderOf(accepted, functors) /\ NumbersOf(accepted, functors, nextMessage)

-----------------------------------------------------------------------------
(* Sequences of bytes in order.                                            *)

\* The elements of a joined sequence are those of the two parts, in place.
LEMMA ConcatByIndex ==
  ASSUME NEW s \in Seq(Messages), NEW t \in Seq(Messages)
  PROVE  \A i \in DOMAIN (s \o t) :
           \/ i \in DOMAIN s /\ (s \o t)[i] = s[i]
           \/ /\ i \in Nat /\ i > Len(s) /\ i - Len(s) \in DOMAIN t
              /\ (s \o t)[i] = t[i - Len(s)]
<1>1. Len(s) \in Nat /\ Len(t) \in Nat /\ DOMAIN s = 1 .. Len(s) /\ DOMAIN t = 1 .. Len(t)
  BY LenProperties
<1>2. /\ DOMAIN (s \o t) = 1 .. Len(s) + Len(t)
      /\ \A i \in 1 .. Len(s) + Len(t) :
           (s \o t)[i] = IF i <= Len(s) THEN s[i] ELSE t[i - Len(s)]
  BY ConcatProperties, LenProperties
<1> QED
  BY <1>1, <1>2

\* Two ordered runs of bytes, the first before the second, are one.
LEMMA ConcatInOrder ==
  ASSUME NEW s \in Seq(Messages), NEW t \in Seq(Messages),
         Ordered(s), Ordered(t), Precedes(s, t)
  PROVE  Ordered(s \o t)
<1> DEFINE c == s \o t
<1>1. \A i \in DOMAIN c :
        \/ i \in DOMAIN s /\ c[i] = s[i]
        \/ i \in Nat /\ i > Len(s) /\ i - Len(s) \in DOMAIN t /\ c[i] = t[i - Len(s)]
  BY ConcatByIndex
<1>2. Len(s) \in Nat /\ DOMAIN s = 1 .. Len(s)
  BY LenProperties
<1> HIDE DEF c
<1>p. ASSUME NEW i \in DOMAIN c, NEW j \in DOMAIN c, c[i].id = c[j].id,
             NEW k \in i .. j
      PROVE  c[k].id = c[i].id
  <2>1. k \in DOMAIN c /\ i \in Nat /\ j \in Nat /\ k \in Nat /\ i <= k /\ k <= j
    BY ConcatProperties, LenProperties, <1>p DEF c
  <2>2. CASE i \in DOMAIN s /\ c[i] = s[i] /\ j \in DOMAIN s /\ c[j] = s[j]
    <3>1. k \in DOMAIN s /\ c[k] = s[k]
      BY <1>1, <1>2, <2>1, <2>2
    <3>2. s[k].id = s[i].id
      BY <1>p, <2>1, <2>2 DEF Ordered, InOnePiece
    <3> QED
      BY <2>2, <3>1, <3>2
  <2>3. CASE /\ i \in DOMAIN s /\ c[i] = s[i]
             /\ j - Len(s) \in DOMAIN t /\ c[j] = t[j - Len(s)]
    BY <1>p, <2>3 DEF Precedes
  <2>4. CASE /\ i > Len(s) /\ i - Len(s) \in DOMAIN t /\ c[i] = t[i - Len(s)]
             /\ j > Len(s) /\ j - Len(s) \in DOMAIN t /\ c[j] = t[j - Len(s)]
    <3>1. k - Len(s) \in (i - Len(s)) .. (j - Len(s)) /\ c[k] = t[k - Len(s)]
      BY <1>1, <1>2, <2>1, <2>4
    <3>2. t[k - Len(s)].id = t[i - Len(s)].id
      BY <1>p, <2>4, <3>1 DEF Ordered, InOnePiece
    <3> QED
      BY <2>4, <3>1, <3>2
  <2>5. CASE i > Len(s) /\ j \in DOMAIN s
    BY <1>2, <2>1, <2>5
  <2> QED
    BY <1>1, <2>2, <2>3, <2>4, <2>5
<1> SUFFICES ASSUME NEW i \in DOMAIN c, NEW j \in DOMAIN c, i < j, c[i].from = c[j].from
             PROVE  c[i].id <= c[j].id
  BY <1>p DEF Ordered, InOnePiece, c
<1>3. CASE i \in DOMAIN s /\ c[i] = s[i] /\ j \in DOMAIN s /\ c[j] = s[j]
  BY <1>3 DEF Ordered
<1>4. CASE /\ i \in DOMAIN s /\ c[i] = s[i]
           /\ j - Len(s) \in DOMAIN t /\ c[j] = t[j - Len(s)]
  BY <1>4 DEF Precedes
<1>5. CASE /\ i \in Nat /\ i - Len(s) \in DOMAIN t /\ c[i] = t[i - Len(s)]
           /\ j \in Nat /\ j - Len(s) \in DOMAIN t /\ c[j] = t[j - Len(s)]
  <2>1. i - Len(s) < j - Len(s)
    BY <1>2, <1>5
  <2> QED
    BY <1>5, <2>1 DEF Ordered
<1>6. CASE /\ i \in Nat /\ i > Len(s)
           /\ j \in DOMAIN s
  BY <1>2, <1>6
<1> QED
  BY <1>1, <1>3, <1>4, <1>5, <1>6

\* What comes after both runs comes after their concatenation.
LEMMA ConcatPrecedes ==
  ASSUME NEW s \in Seq(Messages), NEW t \in Seq(Messages), NEW u,
         Precedes(s, u), Precedes(t, u)
  PROVE  Precedes(s \o t, u)
BY ConcatByIndex DEF Precedes

\* A bound on the numbers of both runs bounds their concatenation.
LEMMA ConcatBelow ==
  ASSUME NEW s \in Seq(Messages), NEW t \in Seq(Messages), NEW n,
         Below(s, n), Below(t, n)
  PROVE  Below(s \o t, n)
BY ConcatByIndex DEF Below

\* The number of a byte is a number.
LEMMA ByteNumber ==
  ASSUME NEW s \in Seq(Messages)
  PROVE  \A i \in DOMAIN s : s[i].id \in Nat
<1>1. \A i \in DOMAIN s : s[i] \in Messages
  BY ElementOfSeq, LenProperties
<1> QED
  BY <1>1, BoundsAssumption DEF Messages

\* All bytes of one message have the same number, one that no byte had before.
LEMMA NewMessageIsLast ==
  ASSUME nextMessage \in Nat, NEW t, NEW len \in Nat
  PROVE  /\ Ordered(NewMessage(t, len))
         /\ Below(NewMessage(t, len), nextMessage + 1)
         /\ t # Io => NotFromIo(NewMessage(t, len))
         /\ \A s \in Seq(Messages) :
              Below(s, nextMessage) => Precedes(s, NewMessage(t, len))
<1> DEFINE m == NewMessage(t, len)
<1>1. \A i \in DOMAIN m : m[i].id = nextMessage /\ m[i].from = t
  BY DEF NewMessage
<1> HIDE DEF m
<1>d. \A i, j \in DOMAIN m : i .. j \subseteq DOMAIN m
  BY DEF m, NewMessage
<1>2. Ordered(m) /\ Below(m, nextMessage + 1) /\ (t # Io => NotFromIo(m))
  BY <1>1, <1>d DEF Ordered, InOnePiece, Below, NotFromIo
<1>3. ASSUME NEW s \in Seq(Messages), Below(s, nextMessage) PROVE Precedes(s, m)
  <2>1. \A i \in DOMAIN s : s[i].id \in Nat /\ s[i].id < nextMessage
    BY <1>3, ByteNumber DEF Below
  <2> QED
    BY <1>1, <2>1 DEF Precedes
<1> QED
  BY <1>2, <1>3 DEF m

\* The numbers stay below the next message's when that grows.
LEMMA BelowGrows ==
  ASSUME NEW s \in Seq(Messages), nextMessage \in Nat, Below(s, nextMessage)
  PROVE  Below(s, nextMessage + 1)
<1>1. \A i \in DOMAIN s : s[i].id \in Nat /\ s[i].id < nextMessage
  BY ByteNumber DEF Below
<1> QED
  BY <1>1 DEF Below

-----------------------------------------------------------------------------
(* What queueing, running and accepting do to the order.                   *)

\* A functor of a queue and its data.
LEMMA DataType ==
  ASSUME NEW q \in Seq(Tasks)
  PROVE  \A k \in DOMAIN q : q[k].data \in Seq(Messages) /\ q[k].op \in Ops
<1>1. \A k \in DOMAIN q : q[k] \in Tasks
  BY ElementOfSeq, LenProperties
<1> QED
  BY <1>1 DEF Tasks

\* Queueing a functor whose bytes come last keeps the order.
LEMMA QueueDataInOrder ==
  ASSUME NEW q \in Seq(Tasks), NEW f \in Tasks, NEW acc \in Seq(Messages), NEW n,
         OrderOf(acc, q), NumbersOf(acc, q, n),
         Ordered(f.data), Precedes(acc, f.data), NotFromIo(f.data), Below(f.data, n),
         \A k \in DOMAIN q : Precedes(q[k].data, f.data)
  PROVE  OrderOf(acc, Append(q, f)) /\ NumbersOf(acc, Append(q, f), n)
<1> DEFINE a == Append(q, f)
<1>1. \A k \in DOMAIN a : \/ k \in DOMAIN q /\ a[k] = q[k]
                          \/ k = Len(q) + 1 /\ a[k] = f
  <2> HIDE DEF Tasks
  <2> QED
    BY AppendProperties, LenProperties
<1>2. Len(q) \in Nat /\ DOMAIN q = 1 .. Len(q)
  BY LenProperties
<1> HIDE DEF a
<1>3. ASSUME NEW k \in DOMAIN a, NEW l \in DOMAIN a, k < l
      PROVE  Precedes(a[k].data, a[l].data)
  <2>1. k \in DOMAIN q /\ a[k] = q[k]
    BY <1>1, <1>2, <1>3
  <2> QED
    BY <1>1, <1>3, <2>1 DEF OrderOf
<1>4. \A k \in DOMAIN a : /\ Ordered(a[k].data) /\ Precedes(acc, a[k].data)
                          /\ NotFromIo(a[k].data) /\ Below(a[k].data, n)
  BY <1>1 DEF OrderOf, NumbersOf
<1> QED
  BY <1>3, <1>4 DEF OrderOf, NumbersOf, a

\* A functor without data disturbs nothing.
LEMMA QueueEmptyInOrder ==
  ASSUME NEW q \in Seq(Tasks), NEW op \in Ops, NEW acc \in Seq(Messages), NEW n,
         OrderOf(acc, q), NumbersOf(acc, q, n)
  PROVE  OrderOf(acc, Append(q, F(op))) /\ NumbersOf(acc, Append(q, F(op)), n)
<1>1. F(op) \in Tasks /\ F(op).data = <<>>
  BY DEF F, Tasks
<1>2. /\ Ordered(<<>>) /\ NotFromIo(<<>>) /\ Below(<<>>, n)
      /\ \A s : Precedes(s, <<>>)
  BY DEF Ordered, InOnePiece, NotFromIo, Below, Precedes
<1> QED
  BY <1>1, <1>2, QueueDataInOrder

\* Taking the first functor off the queue keeps the order.
LEMMA TailInOrder ==
  ASSUME NEW q \in Seq(Tasks), q # <<>>, NEW acc \in Seq(Messages), NEW n,
         OrderOf(acc, q), NumbersOf(acc, q, n)
  PROVE  OrderOf(acc, Tail(q)) /\ NumbersOf(acc, Tail(q), n)
<1> DEFINE t == Tail(q)
<1>1. \A k \in DOMAIN t : k \in Nat /\ k + 1 \in DOMAIN q /\ t[k] = q[k + 1]
  <2> HIDE DEF Tasks
  <2> QED
    BY HeadTailProperties, LenProperties
<1> HIDE DEF t
<1>2. ASSUME NEW k \in DOMAIN t, NEW l \in DOMAIN t, k < l PROVE k + 1 < l + 1
  BY <1>1, <1>2
<1>3. \A k, l \in DOMAIN t : k < l => Precedes(t[k].data, t[l].data)
  BY <1>1, <1>2 DEF OrderOf
<1> QED
  BY <1>1, <1>3 DEF OrderOf, NumbersOf, t

\* Accepting bytes that precede everything queued.
LEMMA AcceptInOrder ==
  ASSUME NEW q \in Seq(Tasks), NEW acc \in Seq(Messages), NEW bytes \in Seq(Messages),
         NEW n, OrderOf(acc, q), NumbersOf(acc, q, n),
         Ordered(bytes), Precedes(acc, bytes), Below(bytes, n),
         \A k \in DOMAIN q : Precedes(bytes, q[k].data)
  PROVE  OrderOf(acc \o bytes, q) /\ NumbersOf(acc \o bytes, q, n)
<1>1. Ordered(acc \o bytes) /\ Below(acc \o bytes, n)
  BY ConcatInOrder, ConcatBelow DEF OrderOf, NumbersOf
<1>2. \A k \in DOMAIN q : Precedes(acc \o bytes, q[k].data)
  BY ConcatPrecedes DEF OrderOf
<1> QED
  BY <1>1, <1>2 DEF OrderOf, NumbersOf

\* What sendInLoop, run with q as the functor queue, does to both.
LEMMA SendInLoopShape ==
  ASSUME NEW bytes, NEW q, SendInLoop(bytes, q)
  PROVE  /\ accepted' = accepted \/ accepted' = accepted \o bytes
         /\ \/ functors' = q
            \/ \E op \in {"writeComplete", "highWater"} : functors' = Append(q, F(op))
BY DEF SendInLoop, WriteSome, Keep

\* sendInLoop accepts its bytes in order when they come before the queued ones.
LEMMA SendInLoopInOrder ==
  ASSUME accepted \in Seq(Messages), NEW q \in Seq(Tasks), NEW bytes \in Seq(Messages),
         NEW n, OrderOf(accepted, q), NumbersOf(accepted, q, n),
         Ordered(bytes), Precedes(accepted, bytes), Below(bytes, n),
         \A k \in DOMAIN q : Precedes(bytes, q[k].data),
         SendInLoop(bytes, q)
  PROVE  OrderOf(accepted', functors') /\ NumbersOf(accepted', functors', n)
<1>1. /\ accepted' \in Seq(Messages)
      /\ OrderOf(accepted', q) /\ NumbersOf(accepted', q, n)
  <2>1. CASE accepted' = accepted
    BY <2>1
  <2>2. CASE accepted' = accepted \o bytes
    BY <2>2, AcceptInOrder, ConcatProperties
  <2> QED
    BY <2>1, <2>2, SendInLoopShape
<1>2. CASE functors' = q
  BY <1>1, <1>2
<1>3. ASSUME NEW op \in {"writeComplete", "highWater"}, functors' = Append(q, F(op))
      PROVE  OrderOf(accepted', functors') /\ NumbersOf(accepted', functors', n)
  <2>1. op \in Ops
    BY DEF Ops
  <2> QED
    BY <1>1, <1>3, <2>1, QueueEmptyInOrder
<1> QED
  BY <1>2, <1>3, SendInLoopShape

\* Every byte and every queued message is older than the next message.
LEMMA NumbersGrow ==
  ASSUME NEW acc \in Seq(Messages), NEW q \in Seq(Tasks), nextMessage \in Nat,
         NumbersOf(acc, q, nextMessage)
  PROVE  NumbersOf(acc, q, nextMessage + 1)
BY BelowGrows, DataType DEF NumbersOf

\* Every step keeps the bytes of each sender in order.
LEMMA StepKeepsOrder == IInv /\ SInv /\ [Next]_vars => SInv'
<1> SUFFICES ASSUME IInv, SInv, [Next]_vars PROVE SInv'
  OBVIOUS
<1>0. /\ accepted \in Seq(Messages) /\ functors \in Seq(Tasks)
      /\ nextMessage \in Nat
      /\ OrderOf(accepted, functors) /\ NumbersOf(accepted, functors, nextMessage)
  BY BoundsAssumption DEF IInv, BytesOK, QueueOK, OthersOK, SInv
<1>u. UNCHANGED <<accepted, functors, nextMessage>> => SInv'
  BY DEF SInv
<1>q. ASSUME NEW op \in Ops, functors' = Append(functors, F(op)),
             UNCHANGED <<accepted, nextMessage>>
      PROVE  SInv'
  <2>1. /\ OrderOf(accepted, Append(functors, F(op)))
        /\ NumbersOf(accepted, Append(functors, F(op)), nextMessage)
    BY <1>0, QueueEmptyInOrder
  <2> QED
    BY <1>q, <2>1 DEF SInv
<1>t. ASSUME NEW op, NextFunctor(op), functors' = Tail(functors),
             UNCHANGED <<accepted, nextMessage>>
      PROVE  SInv'
  <2>1. functors # <<>>
    BY <1>t DEF NextFunctor, IInv, BatchOK
  <2>2. /\ OrderOf(accepted, Tail(functors))
        /\ NumbersOf(accepted, Tail(functors), nextMessage)
    BY <1>0, <2>1, TailInOrder
  <2> QED
    BY <1>t, <2>2 DEF SInv
<1>1. ASSUME NEW len \in Lengths, Send(len)
      PROVE  SInv'
  <2> DEFINE m == NewMessage(Io, len)
  <2>1. m \in Seq(Messages)
    BY <1>1, MessageType DEF IInv, Send, Threads
  <2>2. /\ Ordered(m) /\ Below(m, nextMessage + 1) /\ Precedes(accepted, m)
    BY <1>0, LengthsAssumption, NewMessageIsLast DEF NumbersOf
  <2>3. \A k \in DOMAIN functors : Precedes(m, functors[k].data)
    <3>1. \A i \in DOMAIN m : m[i].id = nextMessage /\ m[i].from = Io
      BY DEF NewMessage
    <3>2. \A k \in DOMAIN functors : \A j \in DOMAIN functors[k].data :
            functors[k].data[j].id \in Nat /\ functors[k].data[j].id < nextMessage
      BY <1>0, DataType, ByteNumber DEF NumbersOf, Below
    <3> QED
      BY <1>0, <3>1, <3>2 DEF OrderOf, NotFromIo, Precedes
  <2>4. SendInLoop(m, functors) /\ nextMessage' = nextMessage + 1
    BY <1>1 DEF Send
  <2> HIDE DEF m
  <2>5. /\ OrderOf(accepted', functors')
        /\ NumbersOf(accepted', functors', nextMessage + 1)
    BY <1>0, <2>1, <2>2, <2>3, <2>4, NumbersGrow, SendInLoopInOrder
  <2> QED
    BY <2>4, <2>5 DEF SInv
<1>2. ASSUME NEW w \in Workers, NEW len \in Lengths, SendElsewhere(w, len)
      PROVE  SInv'
  <2> DEFINE m == NewMessage(w, len)
             f == [op |-> "send", data |-> m]
  <2>1. m \in Seq(Messages)
    BY <1>2, MessageType DEF IInv, SendElsewhere, Threads
  <2>2. /\ Ordered(m) /\ Below(m, nextMessage + 1) /\ Precedes(accepted, m)
        /\ NotFromIo(m)
    BY <1>0, LengthsAssumption, IoAssumption, NewMessageIsLast DEF NumbersOf
  <2>3. \A k \in DOMAIN functors : Precedes(functors[k].data, m)
    BY <1>0, LengthsAssumption, DataType, NewMessageIsLast DEF NumbersOf
  <2>4. functors' = Append(functors, f) /\ nextMessage' = nextMessage + 1
        /\ accepted' = accepted
    BY <1>2 DEF SendElsewhere, Queued
  <2> HIDE DEF m
  <2>5. f \in Tasks /\ f.data = m
    BY <2>1 DEF Tasks, Ops
  <2> HIDE DEF f
  <2>6. /\ OrderOf(accepted, Append(functors, f))
        /\ NumbersOf(accepted, Append(functors, f), nextMessage + 1)
    BY <1>0, <2>2, <2>3, <2>5, NumbersGrow, QueueDataInOrder
  <2> QED
    BY <2>4, <2>6 DEF SInv
<1>3. CASE RunSend
  <2> DEFINE m == Head(functors).data
             t == Tail(functors)
  <2>1. functors # <<>> /\ SendInLoop(m, t) /\ nextMessage' = nextMessage
    BY <1>3 DEF RunSend, NextFunctor, IInv, BatchOK
  <2>2. /\ 1 \in DOMAIN functors /\ m = functors[1].data
        /\ t \in Seq(Tasks)
        /\ \A k \in DOMAIN t : k + 1 \in DOMAIN functors /\ 1 < k + 1
                               /\ t[k] = functors[k + 1]
    <3> HIDE DEF Tasks
    <3> QED
      BY <1>0, <2>1, HeadTailProperties, LenProperties
  <2>3. m \in Seq(Messages)
    BY <1>0, <2>2, DataType
  <2>4. Ordered(m) /\ Precedes(accepted, m) /\ Below(m, nextMessage)
    BY <1>0, <2>2 DEF OrderOf, NumbersOf
  <2>5. OrderOf(accepted, t) /\ NumbersOf(accepted, t, nextMessage)
    BY <1>0, <2>1, TailInOrder
  <2>6. \A k \in DOMAIN t : Precedes(m, t[k].data)
    BY <1>0, <2>2 DEF OrderOf
  <2> HIDE DEF m, t
  <2>7. OrderOf(accepted', functors') /\ NumbersOf(accepted', functors', nextMessage)
    BY <1>0, <2>1, <2>2, <2>3, <2>4, <2>5, <2>6, SendInLoopInOrder
  <2> QED
    BY <2>1, <2>7 DEF SInv
<1>4. ASSUME NEW w \in Workers, ShutdownTests(w) \/ ShutdownStores(w)
      PROVE  SInv'
  BY <1>u, <1>4 DEF ShutdownTests, ShutdownStores, connVars
<1>5. ASSUME NEW w \in Workers, ShutdownQueues(w)
      PROVE  SInv'
  BY <1>q, <1>5 DEF ShutdownQueues, Queued, Ops
<1>6. CASE RemoveConnectionInLoop \/ DestroyServer
  BY <1>u, <1>q, <1>6 DEF RemoveConnectionInLoop, DestroyServer, Queued, Ops
<1>7. CASE HandleWrite
  <2>1. /\ UNCHANGED <<accepted, nextMessage>>
        /\ \/ functors' = functors
           \/ functors' = Append(functors, F("writeComplete"))
    BY <1>7 DEF HandleWrite, WriteBuffered, Queued
  <2> QED
    BY <1>u, <1>q, <2>1 DEF Ops
<1>8. CASE ConnectEstablished \/ ConnectDestroyed \/ RunShutdown \/ RunNotification
  BY <1>t, <1>8 DEF ConnectEstablished, ConnectDestroyed, RunShutdown, RunNotification
<1>9. CASE \/ Shutdown \/ PollSome \/ ChannelClose \/ CloseCallback \/ HandleError
           \/ ReadData \/ ReadError \/ ReadEnd \/ ReturnFromCallback \/ TakeFunctors
           \/ EndOfFunctors \/ PeerSends \/ PeerCloses \/ PeerResetsUs \/ UNCHANGED vars
  BY <1>u, <1>9 DEF Shutdown, PollSome, Poll, ChannelClose, CloseCallback, HandleError,
     ReadData, ReadError, ReadEnd, HandleClose, ReturnFromCallback, TakeFunctors,
     EndOfFunctors, PeerSends, PeerCloses, PeerResetsUs, vars, connVars
<1> QED
  BY <1>1, <1>2, <1>3, <1>4, <1>5, <1>6, <1>7, <1>8, <1>9
  DEF Next, WorkerStep, IoStep, HandleEvent, RunFunctor

\* The messages of one thread are accepted, and so written, in the order of its
\* calls to send, and no other message comes between the bytes of one, for any
\* number of threads that send at once and with the race of shutdown() or
\* without (TcpConnection::send).
THEOREM SendersKeepOrder == SafeSpec => []SenderOrder
<1>1. Init => SInv
  <2> SUFFICES ASSUME Init PROVE SInv
    OBVIOUS
  <2>1. accepted = <<>> /\ functors = <<F("established")>>
    BY DEF Init
  <2>2. \A k \in DOMAIN functors : k = 1 /\ functors[k].data = <<>>
    BY <2>1 DEF F
  <2> QED
    BY <2>1, <2>2 DEF SInv, OrderOf, NumbersOf, Ordered, InOnePiece, Precedes,
       Below, NotFromIo
<1>2. SInv => SenderOrder
  BY DEF SInv, OrderOf, Ordered, InOnePiece, SenderOrder
<1> QED
  BY <1>1, <1>2, StepKeepsOrder, Invariant, PTL DEF SafeSpec

-----------------------------------------------------------------------------
(* The queue of functors.                                                  *)

\* Another functor leaves connectEstablished where it is.
LEMMA AppendKeepsFirst ==
  ASSUME NEW q \in Seq(Tasks), NEW f \in Tasks, NEW u, EstablishedFirst(q, u),
         f.op # "established"
  PROVE  /\ EstablishedFirst(Append(q, f), u)
         /\ HasDestroyed(q) \/ f.op = "destroyed" => HasDestroyed(Append(q, f))
<1> DEFINE a == Append(q, f)
<1>1. /\ Len(q) \in Nat /\ DOMAIN q = 1 .. Len(q) /\ DOMAIN a = 1 .. Len(q) + 1
      /\ \A k \in DOMAIN q : k \in DOMAIN a /\ a[k] = q[k]
      /\ Len(q) + 1 \in DOMAIN a /\ a[Len(q) + 1] = f
      /\ a # <<>>
  <2> HIDE DEF Tasks
  <2> QED
    BY AppendProperties, LenProperties
<1>2. \A k \in DOMAIN a : k \in DOMAIN q \/ k = Len(q) + 1
  BY <1>1
<1>3. u = 0 => 1 \in DOMAIN q
  BY <1>1 DEF EstablishedFirst
<1>4. Len(q) + 1 = 1 => ~(1 \in DOMAIN q)
  BY <1>1
<1> HIDE DEF a
<1>5. EstablishedFirst(a, u)
  BY <1>1, <1>2, <1>3, <1>4 DEF EstablishedFirst
<1>6. HasDestroyed(q) \/ f.op = "destroyed" => HasDestroyed(a)
  BY <1>1 DEF HasDestroyed
<1> QED
  BY <1>5, <1>6 DEF a

\* Running the head: it is connectEstablished if and only if that has not run.
LEMMA TailKeepsFirst ==
  ASSUME NEW q \in Seq(Tasks), q # <<>>, NEW u, EstablishedFirst(q, u)
  PROVE  /\ Head(q).op = "established" <=> u = 0
         /\ EstablishedFirst(Tail(q), 1)
         /\ HasDestroyed(q) /\ Head(q).op # "destroyed" => HasDestroyed(Tail(q))
<1> DEFINE t == Tail(q)
<1>1. /\ 1 \in DOMAIN q /\ Head(q) = q[1]
      /\ \A k \in DOMAIN t : k + 1 \in DOMAIN q /\ k + 1 # 1 /\ t[k] = q[k + 1]
      /\ \A k \in DOMAIN q : k # 1 => k - 1 \in DOMAIN t /\ t[k - 1] = q[k]
  <2> HIDE DEF Tasks
  <2> QED
    BY HeadTailProperties, LenProperties
<1> HIDE DEF t
<1>2. EstablishedFirst(t, 1)
  BY <1>1 DEF EstablishedFirst
<1>3. HasDestroyed(q) /\ Head(q).op # "destroyed" => HasDestroyed(t)
  BY <1>1 DEF HasDestroyed
<1>4. Head(q).op = "established" <=> u = 0
  BY <1>1 DEF EstablishedFirst
<1> QED
  BY <1>2, <1>3, <1>4 DEF t

\* The three ways in which a step leaves Queue true.
LEMMA QueueSame ==
  ASSUME Queue, UNCHANGED <<functors, ups, inMap>>, removals > 0 => removals' > 0,
         index_' # "kNew" => index_ # "kNew"
  PROVE  Queue'
BY DEF Queue

\* Queueing a functor keeps what the queue promises of connectEstablished.
LEMMA QueueAppended ==
  ASSUME Queue, functors \in Seq(Tasks), NEW f \in Tasks, f.op # "established",
         functors' = Append(functors, f), UNCHANGED ups,
         index_' # "kNew" => index_ # "kNew",
         f.op = "destroyed" \/ UNCHANGED <<inMap, removals>>
  PROVE  Queue'
BY AppendKeepsFirst DEF Queue

\* Running a functor but connectEstablished keeps it, and finds it already run.
LEMMA QueueRun ==
  ASSUME Queue, functors \in Seq(Tasks), BatchOK, NEW op \in Ops, NextFunctor(op),
         op # "established",
         NEW q \in Seq(Tasks), functors' = q,
         \/ q = Tail(functors)
         \/ \E o \in {"writeComplete", "highWater"} : q = Append(Tail(functors), F(o)),
         UNCHANGED <<ups, inMap, removals>>, Phases,
         index_' # "kNew" => index_ # "kNew" /\ op # "destroyed"
  PROVE  Queue' /\ ups = 1
<1> DEFINE t == Tail(functors)
<1>1. functors # <<>> /\ Head(functors).op = op
  BY DEF BatchOK, NextFunctor
<1>2. t \in Seq(Tasks)
  <2> HIDE DEF Tasks
  <2> QED
    BY <1>1, HeadTailProperties
<1>3. /\ ups # 0 /\ EstablishedFirst(t, 1)
      /\ HasDestroyed(functors) /\ op # "destroyed" => HasDestroyed(t)
  BY <1>1, TailKeepsFirst DEF Queue
<1>4. ups = 1
  BY <1>3 DEF Phases
<1> HIDE DEF t
<1>5. EstablishedFirst(q, 1) /\ (HasDestroyed(t) => HasDestroyed(q))
  <2>1. CASE q = t
    BY <1>3, <2>1
  <2>2. ASSUME NEW o \in {"writeComplete", "highWater"}, q = Append(t, F(o))
        PROVE  EstablishedFirst(q, 1) /\ (HasDestroyed(t) => HasDestroyed(q))
    <3>1. F(o) \in Tasks /\ F(o).op # "established"
      BY DEF F, Tasks, Ops
    <3> QED
      BY <1>2, <1>3, <2>2, <3>1, AppendKeepsFirst
  <2> QED
    BY <2>1, <2>2 DEF t
<1> QED
  BY <1>3, <1>4, <1>5 DEF Queue

-----------------------------------------------------------------------------
(* The connection and its channel.                                         *)

\* sendInLoop watches what it keeps, and does nothing on a connection that is
\* closed or whose write side is shut.
LEMMA SendInLoopWatches ==
  ASSUME outputBuffer_ \in Seq(Messages), ups = 1, state_ \in States,
         Phases, Watched, ShutOrWaits,
         NEW bytes \in Seq(Messages), NEW q, SendInLoop(bytes, q)
  PROVE  /\ UNCHANGED <<reading, index_>>
         /\ Up => (writing' <=> outputBuffer_' # <<>>)
         /\ writing => writing'
         /\ writing' => writing \/ (Up /\ ~writeShut)
         /\ ~Up => UNCHANGED <<writing, outputBuffer_>>
         /\ (Up /\ ~writeShut) \/ UNCHANGED <<accepted, sent>>
<1>1. state_ = "kDisconnected" \/ Up
  BY DEF Phases, States, Up
<1>2. CASE UNCHANGED <<accepted, sent, outputBuffer_, channelVars>>
  BY <1>2 DEF channelVars, Watched
<1>3. CASE /\ state_ # "kDisconnected" /\ NothingWaits /\ ~Broken
           /\ \E n \in 0 .. Len(bytes) : WriteSome(bytes, n, q)
  <2>1. Up /\ ~writing /\ outputBuffer_ = <<>> /\ ~writeShut
    BY <1>1, <1>3 DEF NothingWaits, Broken
  <2>2. state_ = "kConnected" /\ ~destroyed /\ index_ = "kAdded" /\ reading
    BY <2>1 DEF ShutOrWaits, Watched, Up
  <2>3. PICK n \in 0 .. Len(bytes) : WriteSome(bytes, n, q)
    BY <1>3
  <2>4. CASE n = Len(bytes)
    <3>1. UNCHANGED <<outputBuffer_, channelVars>>
      BY <2>3, <2>4 DEF WriteSome
    <3> QED
      BY <2>1, <3>1 DEF channelVars
  <2>5. CASE n # Len(bytes)
    <3> DEFINE r == SubSeq(bytes, n + 1, Len(bytes))
    <3>1. r \in Seq(Messages) /\ r # <<>>
      <4>1. Len(bytes) \in Nat /\ n < Len(bytes) /\ n \in 0 .. Len(bytes)
        BY <2>5, LenProperties
      <4>2. r \in Seq(Messages)
        BY CutAndJoin
      <4>3. Len(r) > 0
        BY <4>1
      <4> HIDE DEF r
      <4> QED
        BY <4>2, <4>3
    <3>2. Keep(r, q)
      BY <2>3, <2>5 DEF WriteSome
    <3> HIDE DEF r
    <3>3. outputBuffer_' = r
      BY <2>1, <3>1, <3>2, ConcatEmptySeq DEF Keep
    <3>4. reading' = reading /\ writing' = TRUE /\ index_' = "kAdded"
      BY <2>1, <2>2, <3>2 DEF Keep, WatchOutput, Update, NewIndex
    <3> QED
      BY <2>1, <2>2, <3>1, <3>3, <3>4
  <2> QED
    BY <2>4, <2>5
<1>4. CASE /\ state_ # "kDisconnected" /\ ~NothingWaits /\ Keep(bytes, q)
  <2>1. Up /\ writing /\ outputBuffer_ # <<>> /\ ~writeShut
    BY <1>1, <1>4 DEF NothingWaits, Watched, ShutOrWaits
  <2>2. UNCHANGED channelVars
    BY <1>4, <2>1 DEF Keep, WatchOutput
  <2>3. outputBuffer_' = outputBuffer_ \o bytes /\ outputBuffer_' # <<>>
    <3>1. outputBuffer_' = outputBuffer_ \o bytes
      BY <1>4 DEF Keep
    <3>2. Len(outputBuffer_) \in Nat /\ Len(outputBuffer_) > 0 /\ Len(bytes) \in Nat
      BY <2>1, LenProperties, EmptySeq
    <3>3. Len(outputBuffer_ \o bytes) > 0
      BY <3>2, ConcatProperties
    <3> QED
      BY <3>1, <3>3
  <2> QED
    BY <2>1, <2>2, <2>3 DEF channelVars
<1>5. \/ UNCHANGED <<accepted, sent, outputBuffer_, channelVars>>
      \/ /\ state_ # "kDisconnected" /\ NothingWaits /\ ~Broken
         /\ \E n \in 0 .. Len(bytes) : WriteSome(bytes, n, q)
      \/ state_ # "kDisconnected" /\ ~NothingWaits /\ Keep(bytes, q)
  BY DEF SendInLoop
<1> QED
  BY <1>2, <1>3, <1>4, <1>5

\* A step that leaves the connection and the channel alone, and adds no event.
LEMMA MachineSame ==
  ASSUME Machine, UNCHANGED <<calling, state_, reading, writing, index_, outputBuffer_,
                              writeShut, ups, downs, destroyed>>,
         todo' \subseteq todo,
         ups = 0 => pc' \in {"poll", "events", "functors", "stopped"}
  PROVE  Machine'
<1>1. NotUpYet' /\ Phases'
  BY DEF Machine, NotUpYet, Phases
<1>2. Watched' /\ ShutOrWaits'
  BY DEF Machine, Watched, ShutOrWaits, Up
<1>3. EventsOnce'
  BY DEF Machine, EventsOnce
<1> QED
  BY <1>1, <1>2, <1>3 DEF Machine

\* A message sent by the loop's thread, or by another through the queue.
LEMMA MachineSends ==
  ASSUME Machine, outputBuffer_ \in Seq(Messages), state_ \in States, ups = 1,
         NEW bytes \in Seq(Messages), NEW q, SendInLoop(bytes, q),
         UNCHANGED <<calling, state_, todo, writeShut, ups, downs, destroyed>>
  PROVE  Machine' /\ UNCHANGED index_
<1>1. /\ UNCHANGED <<reading, index_>>
      /\ Up => (writing' <=> outputBuffer_' # <<>>)
      /\ writing => writing'
      /\ writing' => writing \/ (Up /\ ~writeShut)
      /\ ~Up => UNCHANGED <<writing, outputBuffer_>>
  BY SendInLoopWatches DEF Machine
<1>2. NotUpYet' /\ Phases'
  BY DEF Machine, NotUpYet, Phases
<1>3. Watched'
  BY <1>1 DEF Machine, Watched, Up
<1>4. ShutOrWaits' /\ EventsOnce'
  BY <1>1 DEF Machine, ShutOrWaits, EventsOnce
<1> QED
  BY <1>1, <1>2, <1>3, <1>4 DEF Machine

-----------------------------------------------------------------------------
(* The steps.                                                              *)

\* handleWrite empties the buffer and stops watching it, or does neither.
LEMMA HandleWriteKeeps ==
  ASSUME IInv, LInv, HandleWrite
  PROVE  /\ LInv'
         /\ (Up /\ ~writeShut) \/ UNCHANGED <<sent, writeShut>>
         /\ writeShut' => writeShut \/ outputBuffer_' = <<>>
<1>1. /\ "write" \in todo /\ todo' = todo \ {"write"}
      /\ UNCHANGED <<pc, state_, accepted, serverVars, countVars, calling>>
  BY DEF HandleWrite, IsNext, Done
<1>2. ups = 1 /\ ~destroyed /\ outputBuffer_ \in Seq(Messages) /\ state_ \in States
      /\ functors \in Seq(Tasks)
  BY <1>1 DEF LInv, Machine, NotUpYet, Phases, EventsOnce, IInv, BytesOK, OthersOK, QueueOK
<1>3. CASE UNCHANGED <<sent, outputBuffer_, channelVars, functors, writeShut>>
  <2>1. Machine'
    BY <1>1, <1>2, <1>3, MachineSame DEF LInv, countVars, channelVars
  <2>2. Queue'
    BY <1>1, <1>3, QueueSame DEF LInv, countVars, channelVars, serverVars
  <2> QED
    BY <1>3, <2>1, <2>2 DEF LInv
<1>4. ASSUME writing, NEW n \in 1 .. Len(outputBuffer_), WriteBuffered(n)
      PROVE  /\ LInv'
             /\ (Up /\ ~writeShut) \/ UNCHANGED <<sent, writeShut>>
             /\ writeShut' => writeShut \/ outputBuffer_' = <<>>
  <2>1. Up /\ ~writeShut /\ index_ = "kAdded" /\ reading
    BY <1>2, <1>4 DEF LInv, Machine, Watched, ShutOrWaits, Phases, Up, States
  <2>2. /\ Len(outputBuffer_) \in Nat /\ n \in Nat /\ n <= Len(outputBuffer_)
        /\ outputBuffer_' = SubSeq(outputBuffer_, n + 1, Len(outputBuffer_))
    BY <1>2, <1>4, LenProperties DEF WriteBuffered
  <2>3. CASE n = Len(outputBuffer_)
    <3>1. outputBuffer_' = <<>>
      BY <1>2, <2>2, <2>3
    <3>2. /\ reading' = reading /\ writing' = FALSE /\ index_' = "kAdded"
          /\ functors' = Append(functors, F("writeComplete"))
          /\ writeShut' = (writeShut \/ state_ = "kDisconnecting")
      BY <1>4, <2>1, <2>3 DEF WriteBuffered, Update, NewIndex, Queued, FinishesShutdown
    <3>3. Machine'
      BY <1>1, <1>2, <2>1, <3>1, <3>2
      DEF LInv, Machine, NotUpYet, Phases, Watched, ShutOrWaits, EventsOnce, Up, countVars
    <3>4. F("writeComplete") \in Tasks /\ F("writeComplete").op # "established"
      BY DEF F, Tasks, Ops
    <3>5. Queue'
      BY <1>1, <1>2, <2>1, <3>2, <3>4, QueueAppended DEF LInv, countVars, serverVars
    <3> QED
      BY <2>1, <3>1, <3>3, <3>5 DEF LInv
  <2>4. CASE n # Len(outputBuffer_)
    <3>1. outputBuffer_' # <<>>
      <4> DEFINE r == SubSeq(outputBuffer_, n + 1, Len(outputBuffer_))
      <4>1. Len(r) > 0
        BY <1>2, <2>2, <2>4
      <4>2. outputBuffer_' = r
        BY <2>2
      <4> HIDE DEF r
      <4>3. r # <<>>
        BY <4>1
      <4> QED
        BY <4>2, <4>3
    <3>2. UNCHANGED <<reading, writing, index_, functors, writeShut>>
      BY <1>4, <2>4 DEF WriteBuffered, channelVars
    <3>3. Machine'
      BY <1>1, <1>2, <1>4, <2>1, <3>1, <3>2
      DEF LInv, Machine, NotUpYet, Phases, Watched, ShutOrWaits, EventsOnce, Up, countVars
    <3>4. Queue'
      BY <1>1, <3>2, QueueSame DEF LInv, countVars, serverVars
    <3> QED
      BY <2>1, <3>2, <3>3, <3>4 DEF LInv
  <2> QED
    BY <2>3, <2>4
<1> QED
  BY <1>3, <1>4 DEF HandleWrite

\* The connection goes down once.
LEMMA HandleCloseKeeps ==
  ASSUME IInv, LInv, NEW e \in {"close", "read"}, e \in todo, HandleClose(e)
  PROVE  LInv'
<1>1. /\ todo' = todo \ {e} /\ state_' = "kDisconnected" /\ Update(FALSE, FALSE)
      /\ downs' = downs + 1 /\ pc' = "closing"
      /\ UNCHANGED <<outputBuffer_, functors, inMap, removals, writeShut, ups,
                     destroyed, calling>>
  BY DEF HandleClose, Done, serverVars, socketVars
<1>2. /\ ups = 1 /\ ~destroyed /\ Up /\ downs = 0
  BY DEF LInv, Machine, NotUpYet, Phases, EventsOnce, Up, IInv, OthersOK, States
<1>3. index_ = "kAdded"
  BY <1>2 DEF LInv, Machine, Watched
<1>4. ~reading' /\ ~writing' /\ index_' = "kDeleted"
  BY <1>1, <1>3 DEF Update, NewIndex
<1>5. Machine'
  <2>1. NotUpYet' /\ Phases'
    BY <1>1, <1>2 DEF LInv, Machine, NotUpYet, Phases
  <2>2. Watched' /\ ShutOrWaits'
    BY <1>1, <1>2, <1>4 DEF Watched, ShutOrWaits, Up
  <2>3. EventsOnce'
    BY <1>1, <1>2 DEF LInv, Machine, EventsOnce
  <2> QED
    BY <1>1, <2>1, <2>2, <2>3 DEF LInv, Machine
<1>6. Queue'
  BY <1>1, <1>3, QueueSame DEF LInv
<1> QED
  BY <1>5, <1>6 DEF LInv

\* Every step keeps what holds of the life of the connection.
LEMMA StepKeepsLife ==
  ASSUME ~WorkersShutDown, IInv, LInv, [Next]_vars
  PROVE  LInv'
<1>0. /\ functors \in Seq(Tasks) /\ BatchOK
      /\ outputBuffer_ \in Seq(Messages) /\ state_ \in States
      /\ Machine /\ Queue /\ Phases
      /\ todo # {} => ups = 1
      /\ pc \in {"callback", "closing", "fcallback"} => ups = 1
  BY DEF IInv, QueueOK, BytesOK, OthersOK, LInv, Machine, NotUpYet, Phases
\* Steps that move the loop, the peer or the history on and nothing else.
<1>s. ASSUME UNCHANGED <<calling, state_, reading, writing, index_, outputBuffer_,
                         functors, writeShut, ups, downs, destroyed, inMap>>,
             removals > 0 => removals' > 0,
             todo' \subseteq todo,
             ups = 0 => pc' \in {"poll", "events", "functors", "stopped"}
      PROVE  LInv'
  BY <1>0, <1>s, MachineSame, QueueSame DEF LInv
\* Functors that change nothing but what sendInLoop changes.
<1>1. ASSUME NEW len \in Lengths, Send(len)
      PROVE  LInv'
  <2> DEFINE m == NewMessage(Io, len)
  <2>1. m \in Seq(Messages) /\ ups = 1
    BY <1>0, <1>1, MessageType DEF IInv, Send, Threads, InUserCallback
  <2>2. /\ SendInLoop(m, functors)
        /\ UNCHANGED <<calling, state_, todo, writeShut, ups, downs, destroyed, inMap,
                       removals>>
    BY <1>1 DEF Send, loopVars, serverVars, socketVars, countVars
  <2> HIDE DEF m
  <2>3. Machine' /\ UNCHANGED index_
    BY <1>0, <2>1, <2>2, MachineSends
  <2>4. Queue'
    <3>1. CASE functors' = functors
      BY <1>0, <2>2, <2>3, <3>1, QueueSame
    <3>2. ASSUME NEW op \in {"writeComplete", "highWater"},
                 functors' = Append(functors, F(op))
          PROVE  Queue'
      <4>1. F(op) \in Tasks /\ F(op).op # "established"
        BY DEF F, Tasks, Ops
      <4> QED
        BY <1>0, <2>2, <2>3, <3>2, <4>1, QueueAppended
    <3> QED
      BY <2>2, <3>1, <3>2, SendInLoopShape
  <2> QED
    BY <2>3, <2>4 DEF LInv
<1>2. CASE Shutdown
  <2>1. /\ state_ = "kConnected" /\ state_' = "kDisconnecting"
        /\ writeShut' = (writeShut \/ ~writing)
        /\ UNCHANGED <<calling, reading, writing, index_, outputBuffer_, functors, todo,
                       pc, ups, downs, destroyed, inMap, removals>>
    BY <1>2 DEF Shutdown, MayShutWrite, channelVars, loopVars, serverVars, countVars
  <2>2. Machine'
    BY <1>0, <2>1 DEF Machine, NotUpYet, Phases, Watched, ShutOrWaits, EventsOnce, Up
  <2>3. Queue'
    BY <1>0, <2>1, QueueSame
  <2> QED
    BY <2>2, <2>3 DEF LInv
<1>3. ASSUME NEW w \in Workers, NEW len \in Lengths, SendElsewhere(w, len)
      PROVE  LInv'
  <2> DEFINE f == [op |-> "send", data |-> NewMessage(w, len)]
  <2>1. NewMessage(w, len) \in Seq(Messages)
    BY <1>3, MessageType DEF IInv, SendElsewhere, Threads
  <2>2. f \in Tasks /\ f.op # "established"
    BY <2>1 DEF Tasks, Ops
  <2>3. /\ functors' = Append(functors, f)
        /\ UNCHANGED <<calling, state_, reading, writing, index_, outputBuffer_, todo, pc,
                       writeShut, ups, downs, destroyed, inMap, removals>>
    BY <1>3 DEF SendElsewhere, Queued, channelVars, loopVars, serverVars, socketVars,
                countVars
  <2> HIDE DEF f
  <2>4. Machine'
    BY <1>0, <2>3, MachineSame DEF Machine, NotUpYet
  <2>5. Queue'
    BY <1>0, <2>2, <2>3, QueueAppended
  <2> QED
    BY <2>4, <2>5 DEF LInv
<1>4. ASSUME NEW w \in Workers, ShutdownTests(w) \/ WorkerStep(w)
      PROVE  FALSE
  BY <1>0, <1>4 DEF ShutdownTests, WorkerStep, ShutdownStores, ShutdownQueues, Machine
<1>5. CASE PollSome
  <2>1. PICK out \in BOOLEAN : Poll(out)
    BY <1>5 DEF PollSome
  <2>2. /\ todo' = Revents(out) /\ pc' = "events"
        /\ UNCHANGED <<calling, state_, reading, writing, index_, outputBuffer_, functors,
                       writeShut, ups, downs, destroyed, inMap, removals>>
    BY <2>1 DEF Poll, connVars, channelVars, serverVars, socketVars, countVars
  <2>3. /\ todo' # {} => index_ = "kAdded"
        /\ ~("close" \in todo' /\ "read" \in todo')
    BY <2>2 DEF Revents
  <2>4. index_ = "kAdded" => ~destroyed /\ state_ # "kDisconnected" /\ ups = 1
    BY <1>0 DEF Machine, Watched, NotUpYet, Phases
  <2>5. NotUpYet' /\ EventsOnce'
    BY <1>0, <2>2, <2>3, <2>4 DEF Machine, NotUpYet, EventsOnce
  <2>6. Phases' /\ Watched' /\ ShutOrWaits'
    BY <1>0, <2>2 DEF Machine, Phases, Watched, ShutOrWaits, Up
  <2>7. Queue'
    BY <1>0, <2>2, QueueSame
  <2> QED
    BY <1>0, <2>2, <2>5, <2>6, <2>7 DEF LInv, Machine
<1>6. CASE ChannelClose \/ ReadEnd
  BY <1>6, HandleCloseKeeps DEF ChannelClose, ReadEnd, IsNext
<1>7. CASE CloseCallback \/ HandleError \/ ReadData \/ ReadError
  <2>1. /\ UNCHANGED <<calling, state_, reading, writing, index_, outputBuffer_,
                       functors, writeShut, ups, downs, destroyed, inMap>>
        /\ todo' \subseteq todo
        /\ removals' \in {removals, removals + 1}
    BY <1>7 DEF CloseCallback, HandleError, ReadData, ReadError, Done, connVars,
                channelVars, serverVars, socketVars, countVars
  <2>2. removals > 0 => removals' > 0
    BY <2>1 DEF IInv, OthersOK
  <2>3. ups = 1
    BY <1>0, <1>7 DEF CloseCallback, HandleError, ReadData, ReadError, IsNext
  <2> QED
    BY <1>s, <2>1, <2>2, <2>3
<1>8. CASE HandleWrite
  BY <1>8, HandleWriteKeeps
<1>9. CASE \/ ReturnFromCallback \/ TakeFunctors \/ EndOfFunctors
           \/ PeerSends \/ PeerCloses \/ PeerResetsUs \/ UNCHANGED vars
  <2>1. /\ UNCHANGED <<calling, state_, reading, writing, index_, outputBuffer_,
                       functors, writeShut, ups, downs, destroyed, inMap, removals, todo>>
        /\ \/ pc' = pc
           \/ pc' \in {"poll", "functors", "stopped"}
           \/ pc = "callback"
    BY <1>9 DEF ReturnFromCallback, TakeFunctors, EndOfFunctors, PeerSends, PeerCloses,
                PeerResetsUs, vars, connVars, channelVars, loopVars, serverVars,
                socketVars, countVars
  <2>2. ups = 0 => pc' \in {"poll", "events", "functors", "stopped"}
    BY <1>0, <2>1 DEF Machine, NotUpYet
  <2> QED
    BY <1>s, <2>1, <2>2
<1>10. CASE ConnectEstablished
  <2>1. functors # <<>> /\ Head(functors).op = "established"
    BY <1>0, <1>10 DEF ConnectEstablished, NextFunctor, BatchOK
  <2>2. /\ ups = 0 /\ EstablishedFirst(Tail(functors), 1)
        /\ HasDestroyed(functors) => HasDestroyed(Tail(functors))
    BY <1>0, <2>1, TailKeepsFirst DEF Queue
  <2>3. /\ state_' = "kConnected" /\ Update(TRUE, writing) /\ ups' = ups + 1
        /\ functors' = Tail(functors)
        /\ UNCHANGED <<calling, outputBuffer_, todo, writeShut, downs, destroyed, inMap,
                       removals>>
    BY <1>10 DEF ConnectEstablished, serverVars, socketVars
  <2>4. /\ index_ = "kNew" /\ ~writing /\ outputBuffer_ = <<>> /\ ~destroyed /\ todo = {}
        /\ state_ = "kConnecting" /\ downs = 0
    BY <1>0, <2>2 DEF Machine, NotUpYet, Phases
  <2>5. reading' /\ ~writing' /\ index_' = "kAdded" /\ ups' = 1
    BY <2>2, <2>3, <2>4 DEF Update, NewIndex
  <2>6. Machine'
    <3>1. NotUpYet' /\ Phases'
      BY <2>3, <2>4, <2>5 DEF NotUpYet, Phases
    <3>2. Watched' /\ ShutOrWaits' /\ EventsOnce'
      BY <2>3, <2>4, <2>5 DEF Watched, ShutOrWaits, EventsOnce, Up
    <3> QED
      BY <1>0, <2>3, <3>1, <3>2 DEF Machine
  <2>7. Queue'
    BY <1>0, <2>2, <2>3, <2>5 DEF Queue
  <2> QED
    BY <2>6, <2>7 DEF LInv
<1>11. CASE ConnectDestroyed
  <2>1. /\ NextFunctor("destroyed") /\ functors' = Tail(functors) /\ index_' = "kNew"
        /\ destroyed' = TRUE
        /\ UNCHANGED <<calling, outputBuffer_, todo, writeShut, ups, inMap, removals>>
    BY <1>11 DEF ConnectDestroyed, RemovedIndex, serverVars, socketVars
  <2>2. functors # <<>> /\ Tail(functors) \in Seq(Tasks)
    BY <1>0, <2>1, NextFunctorTypes DEF QueueOK, NextFunctor, BatchOK
  <2>3. Queue' /\ ups = 1
    BY <1>0, <2>1, <2>2, QueueRun DEF Ops
  <2>4. todo = {}
    BY <2>1 DEF NextFunctor, IInv, OthersOK
  <2>5. state_ # "kConnecting"
    BY <1>0, <2>3 DEF Phases
  <2>6. CASE state_ = "kConnected"
    <3>1. state_' = "kDisconnected" /\ ~reading' /\ ~writing' /\ downs' = downs + 1
      BY <1>11, <2>6 DEF ConnectDestroyed, TellsDown
    <3>2. downs = 0
      BY <1>0, <2>6 DEF Phases
    <3>3. NotUpYet' /\ Phases'
      BY <2>1, <2>3, <3>1, <3>2 DEF NotUpYet, Phases
    <3>4. Watched' /\ ShutOrWaits' /\ EventsOnce'
      BY <2>1, <2>4, <3>1 DEF Watched, ShutOrWaits, EventsOnce, Up
    <3> QED
      BY <1>0, <2>1, <2>3, <3>3, <3>4 DEF LInv, Machine
  <2>7. CASE state_ # "kConnected"
    <3>1. UNCHANGED <<state_, reading, writing, downs>>
      BY <1>11, <2>7 DEF ConnectDestroyed, TellsDown
    <3>2. state_ \in {"kDisconnecting", "kDisconnected"}
      BY <1>0, <2>5, <2>7 DEF States
    <3>3. NotUpYet' /\ Phases'
      BY <1>0, <2>1, <2>3, <3>1 DEF NotUpYet, Phases
    <3>4. Watched' /\ ShutOrWaits' /\ EventsOnce'
      BY <1>0, <2>1, <2>4, <3>1, <3>2 DEF Machine, Watched, ShutOrWaits, EventsOnce, Up
    <3> QED
      BY <1>0, <2>1, <2>3, <3>3, <3>4 DEF LInv, Machine
  <2> QED
    BY <2>6, <2>7
<1>12. CASE RunSend
  <2> DEFINE m == Head(functors).data
             t == Tail(functors)
  <2>1. /\ NextFunctor("send") /\ SendInLoop(m, t)
        /\ UNCHANGED <<calling, state_, todo, writeShut, ups, downs, destroyed, inMap,
                       removals>>
    BY <1>12 DEF RunSend, serverVars, socketVars, countVars
  <2>2. m \in Seq(Messages) /\ t \in Seq(Tasks) /\ functors # <<>>
        /\ Head(functors).op = "send"
    BY <1>0, <2>1, NextFunctorTypes DEF QueueOK, NextFunctor, BatchOK, Tasks
  <2>3. ups = 1
    <3>1. ups # 0
      BY <1>0, <2>2, TailKeepsFirst DEF Queue
    <3> QED
      BY <1>0, <3>1 DEF Phases
  <2>4. Machine' /\ UNCHANGED index_
    <3> HIDE DEF m, t
    <3> QED
      BY <1>0, <2>1, <2>2, <2>3, MachineSends
  <2>5. functors' \in Seq(Tasks)
    BY <1>0, <1>12, StepKeepsInvariant DEF IInv, QueueOK, Next, IoStep, RunFunctor
  <2>6. \/ functors' = t
        \/ \E op \in {"writeComplete", "highWater"} : functors' = Append(t, F(op))
    BY <2>1, SendInLoopShape
  <2>7. Queue'
    <3> DEFINE q == functors'
    <3>1. CASE functors' = t
      BY <1>0, <2>1, <2>2, <2>4, <3>1, QueueRun DEF Ops
    <3>2. ASSUME NEW op \in {"writeComplete", "highWater"}, functors' = Append(t, F(op))
          PROVE  Queue'
      <4>1. F(op) \in Tasks
        BY DEF F, Tasks, Ops
      <4>2. Append(t, F(op)) \in Seq(Tasks)
        <5> HIDE DEF Tasks, t
        <5> QED
          BY <2>2, <4>1, AppendProperties
      <4> QED
        BY <1>0, <2>1, <2>4, <3>2, <4>2, QueueRun DEF Ops
    <3> QED
      BY <2>6, <3>1, <3>2
  <2> QED
    BY <2>4, <2>7 DEF LInv
<1>13. ASSUME NEW op \in {"shutdown", "writeComplete", "highWater"}, NextFunctor(op),
              functors' = Tail(functors),
              UNCHANGED <<calling, state_, reading, writing, index_, outputBuffer_, todo,
                          ups, downs, destroyed, inMap, removals>>,
              writeShut => writeShut', writeShut' => writeShut \/ ~writing
       PROVE  LInv'
  <2>1. functors # <<>> /\ Tail(functors) \in Seq(Tasks)
    BY <1>0, <1>13, NextFunctorTypes DEF QueueOK, NextFunctor, BatchOK
  <2>2. Queue' /\ ups = 1
    BY <1>0, <1>13, <2>1, QueueRun DEF Ops
  <2>3. NotUpYet' /\ Phases'
    BY <1>0, <1>13, <2>2 DEF NotUpYet, Phases
  <2>4. Watched' /\ ShutOrWaits' /\ EventsOnce'
    BY <1>0, <1>13 DEF Machine, Watched, ShutOrWaits, EventsOnce, Up
  <2> QED
    BY <1>0, <1>13, <2>2, <2>3, <2>4 DEF LInv, Machine
<1>14. CASE RunShutdown
  BY <1>13, <1>14 DEF RunShutdown, MayShutWrite, channelVars, serverVars, countVars
<1>15. CASE RunNotification
  BY <1>13, <1>15 DEF RunNotification, channelVars, serverVars, socketVars, countVars
<1>16. CASE RemoveConnectionInLoop \/ DestroyServer
  <2>1. UNCHANGED <<calling, state_, reading, writing, index_, outputBuffer_, todo, pc,
                    writeShut, ups, downs, destroyed>>
    BY <1>16 DEF RemoveConnectionInLoop, DestroyServer, channelVars, loopVars, socketVars,
                 countVars
  <2>2. Machine'
    BY <1>0, <2>1, MachineSame DEF Machine, NotUpYet
  <2>3. F("destroyed") \in Tasks /\ F("destroyed").op = "destroyed"
    BY DEF F, Tasks, Ops
  <2>4. CASE functors' = Append(functors, F("destroyed"))
    BY <1>0, <2>1, <2>2, <2>3, <2>4, QueueAppended DEF LInv
  <2>5. CASE functors' # Append(functors, F("destroyed"))
    <3>1. UNCHANGED <<functors, inMap, removals>>
      BY <1>16, <2>5 DEF RemoveConnectionInLoop, DestroyServer, Queued, IInv, OthersOK
    <3> QED
      BY <1>0, <2>1, <2>2, <3>1, QueueSame DEF LInv
  <2> QED
    BY <2>4, <2>5
<1> QED
  BY <1>1, <1>2, <1>3, <1>4, <1>5, <1>6, <1>7, <1>8, <1>9, <1>10, <1>11, <1>12, <1>14,
     <1>15, <1>16
  DEF Next, IoStep, HandleEvent, RunFunctor

-----------------------------------------------------------------------------
(* The refinement of ByteStream.                                           *)

\* A sequence is a prefix of any that continues it.
LEMMA PrefixOfConcat ==
  ASSUME NEW s \in Seq(Messages), NEW t \in Seq(Messages)
  PROVE  Stream!IsPrefix(s, s \o t)
<1>1. Len(s) \in Nat /\ Len(t) \in Nat
  BY LenProperties
<1>2. Len(s \o t) = Len(s) + Len(t) /\ s \o t \in Seq(Messages)
  BY ConcatProperties
<1>3. SubSeq(s, 1, Len(s)) = SubSeq(s \o t, 1, Len(s))
  <2>1. CASE Len(s) = 0
    <3>1. SubSeq(s, 1, 0) = <<>> /\ SubSeq(s \o t, 1, 0) = <<>>
      BY <1>2, SubSeqEmpty
    <3> QED
      BY <2>1, <3>1
  <2>2. CASE Len(s) # 0
    <3>1. 1 \in 1 .. Len(s) /\ Len(s) \in 1 .. Len(s)
      BY <1>1, <2>2
    <3> QED
      BY <3>1, SubSeqOfConcat1
  <2> QED
    BY <2>1, <2>2
<1> QED
  BY <1>1, <1>2, <1>3 DEF Stream!IsPrefix

\* Bytes that do not change are a prefix of themselves.
LEMMA PrefixOfSame ==
  ASSUME NEW s \in Seq(Messages)
  PROVE  Stream!IsPrefix(s, s)
<1>1. s \o <<>> = s /\ <<>> \in Seq(Messages)
  BY ConcatEmptySeq
<1> QED
  BY <1>1, PrefixOfConcat

\* What is accepted and sent grows, and nothing is sent that was not accepted.
LEMMA BytesAdvance ==
  ASSUME BytesOK, BytesOK', NEW b \in Seq(Messages), NEW c \in Seq(Messages),
         accepted' = accepted \/ accepted' = accepted \o b,
         sent' = sent \/ sent' = sent \o c
  PROVE  Stream!Advance
<1>1. accepted \in Seq(Messages) /\ sent \in Seq(Messages)
  BY DEF BytesOK
<1>2. Stream!IsPrefix(accepted, accepted') /\ Stream!IsPrefix(sent, sent')
  BY <1>1, PrefixOfSame, PrefixOfConcat
<1>3. Stream!IsPrefix(sent', accepted')
  <2>1. ASSUME NEW s \in Seq(Messages), NEW o \in Seq(Messages), NEW a, s \o o = a
        PROVE  Stream!IsPrefix(s, a)
    BY <2>1, PrefixOfConcat
  <2>2. /\ sent' \in Seq(Messages) /\ outputBuffer_' \in Seq(Messages)
        /\ sent' \o outputBuffer_' = accepted'
    BY DEF BytesOK, NoByteLost
  <2> QED
    BY <2>1, <2>2
<1> QED
  BY <1>2, <1>3 DEF Stream!Advance

\* With nothing in the buffer, all that was accepted was sent.
LEMMA EmptyBufferAllSent ==
  ASSUME BytesOK, outputBuffer_ = <<>>
  PROVE  sent = accepted
BY ConcatEmptySeq DEF BytesOK, NoByteLost

\* What sendInLoop accepts and sends are bytes of its message.
LEMMA SendInLoopAdvances ==
  ASSUME BytesOK, BytesOK', NEW bytes \in Seq(Messages), NEW q, SendInLoop(bytes, q)
  PROVE  Stream!Advance
<1>1. accepted' = accepted \/ accepted' = accepted \o bytes
  BY SendInLoopShape
<1>2. CASE sent' = sent
  BY <1>1, <1>2, BytesAdvance
<1>3. ASSUME NEW n \in 0 .. Len(bytes), WriteSome(bytes, n, q)
      PROVE  Stream!Advance
  <2>1. sent' = sent \o SubSeq(bytes, 1, n)
    BY <1>3 DEF WriteSome
  <2>2. SubSeq(bytes, 1, n) \in Seq(Messages)
    BY CutAndJoin
  <2> QED
    BY <1>1, <2>1, <2>2, BytesAdvance
<1> QED
  BY <1>2, <1>3 DEF SendInLoop

\* A functor other than connectEstablished runs on a connection that was up.
LEMMA RunsWhenUp ==
  ASSUME IInv, LInv, NEW op, op # "established", NextFunctor(op)
  PROVE  ups = 1 /\ (Up \/ state_ = "kDisconnected")
<1>1. functors \in Seq(Tasks) /\ functors # <<>> /\ Head(functors).op = op
  BY DEF IInv, QueueOK, BatchOK, NextFunctor
<1>2. ups # 0
  BY <1>1, TailKeepsFirst DEF LInv, Queue
<1> QED
  BY <1>2 DEF LInv, Machine, Phases, IInv, OthersOK, States, Up

\* Every step of the connection is a step of the byte stream, or changes
\* nothing the stream has.
LEMMA StepIsStreamStep ==
  ASSUME ~WorkersShutDown, IInv, LInv, IInv', [Next]_vars
  PROVE  [Stream!Next]_(Stream!vars)
<1>0. /\ BytesOK /\ BytesOK' /\ state_ \in States /\ outputBuffer_ \in Seq(Messages)
      /\ Machine /\ Queue /\ Phases /\ Watched /\ ShutOrWaits
  BY DEF IInv, BytesOK, OthersOK, LInv, Machine
<1>s. UNCHANGED <<accepted, sent, state_, writeShut>> => UNCHANGED Stream!vars
  BY DEF Stream!vars
\* sendInLoop.
<1>1. ASSUME NEW bytes \in Seq(Messages), NEW q, SendInLoop(bytes, q), ups = 1,
             UNCHANGED <<state_, writeShut>>
      PROVE  [Stream!Next]_(Stream!vars)
  <2>1. (Up /\ ~writeShut) \/ UNCHANGED <<accepted, sent>>
    BY <1>0, <1>1, SendInLoopWatches
  <2>2. CASE Up /\ ~writeShut
    <3>1. Stream!Advance
      BY <1>0, <1>1, SendInLoopAdvances
    <3>2. Stream!Transfer
      BY <1>1, <2>2, <3>1 DEF Stream!Transfer, Up
    <3> QED
      BY <3>2 DEF Stream!Next
  <2> QED
    BY <1>1, <1>s, <2>1, <2>2
<1>2. ASSUME NEW len \in Lengths, Send(len)
      PROVE  [Stream!Next]_(Stream!vars)
  <2>1. NewMessage(Io, len) \in Seq(Messages)
    BY <1>2, MessageType DEF IInv, Send, Threads
  <2>2. ups = 1
    BY <1>0, <1>2 DEF Send, InUserCallback, Machine, NotUpYet, Phases
  <2>3. SendInLoop(NewMessage(Io, len), functors) /\ UNCHANGED <<state_, writeShut>>
    BY <1>2 DEF Send, socketVars
  <2> QED
    BY <1>1, <2>1, <2>2, <2>3
<1>3. CASE RunSend
  <2>1. /\ NextFunctor("send") /\ SendInLoop(Head(functors).data, Tail(functors))
        /\ UNCHANGED <<state_, writeShut>>
    BY <1>3 DEF RunSend, socketVars
  <2>2. Head(functors).data \in Seq(Messages)
    BY <2>1, NextFunctorTypes DEF IInv, Tasks
  <2>3. ups = 1
    BY <2>1, RunsWhenUp
  <2> QED
    BY <1>1, <2>1, <2>2, <2>3
\* The end of the stream.
<1>4. ASSUME Up, UNCHANGED <<accepted, sent>>, Up',
             writeShut => writeShut', writeShut' => writeShut \/ ~writing
      PROVE  [Stream!Next]_(Stream!vars)
  <2>1. CASE writeShut \/ ~writeShut'
    <3>1. UNCHANGED Stream!vars
      BY <1>4, <2>1 DEF Stream!vars, Up
    <3> QED
      BY <3>1
  <2>2. CASE ~writeShut /\ writeShut'
    <3>1. sent' = accepted'
      BY <1>0, <1>4, <2>2, EmptyBufferAllSent DEF Watched
    <3>2. Stream!Advance
      <4>1. <<>> \in Seq(Messages)
        OBVIOUS
      <4> QED
        BY <1>0, <1>4, <4>1, BytesAdvance
    <3>3. Stream!Finish
      BY <1>4, <2>2, <3>1, <3>2 DEF Stream!Finish, Up
    <3> QED
      BY <3>3 DEF Stream!Next
  <2> QED
    BY <2>1, <2>2
<1>5. CASE Shutdown
  BY <1>4, <1>5 DEF Shutdown, MayShutWrite, Up
<1>6. CASE RunShutdown
  <2>1. /\ NextFunctor("shutdown") /\ writeShut' = (writeShut \/ ~writing)
        /\ UNCHANGED <<accepted, sent, state_>>
    BY <1>6 DEF RunShutdown, MayShutWrite
  <2>2. CASE Up
    BY <1>4, <2>1, <2>2 DEF Up
  <2>3. CASE state_ = "kDisconnected"
    BY <2>1, <2>3 DEF Stream!vars
  <2> QED
    BY <2>1, <2>2, <2>3, RunsWhenUp
\* The connection is closed.
<1>7. ASSUME state_ # "kDisconnected", state_' = "kDisconnected",
             UNCHANGED <<accepted, sent>>
      PROVE  [Stream!Next]_(Stream!vars)
  <2>1. Stream!Close
    BY <1>7 DEF Stream!Close
  <2> QED
    BY <2>1 DEF Stream!Next
<1>8. ASSUME NEW e \in {"close", "read"}, e \in todo, HandleClose(e)
      PROVE  [Stream!Next]_(Stream!vars)
  BY <1>0, <1>7, <1>8 DEF HandleClose, Machine, EventsOnce
<1>9. CASE ConnectDestroyed
  <2>1. /\ UNCHANGED <<accepted, sent, writeShut>>
        /\ state_' = state_ \/ (state_ = "kConnected" /\ state_' = "kDisconnected")
    BY <1>9 DEF ConnectDestroyed, TellsDown, socketVars
  <2> QED
    BY <1>s, <1>7, <2>1
<1>10. CASE ConnectEstablished
  <2>1. /\ UNCHANGED <<accepted, sent, writeShut>> /\ state_' = "kConnected"
        /\ functors # <<>> /\ Head(functors).op = "established"
        /\ functors \in Seq(Tasks)
    BY <1>10 DEF ConnectEstablished, socketVars, NextFunctor, IInv, BatchOK, QueueOK
  <2>2. state_ = "kConnecting"
    BY <1>0, <2>1, TailKeepsFirst DEF Queue, Phases
  <2>3. UNCHANGED Stream!vars
    BY <2>1, <2>2 DEF Stream!vars
  <2> QED
    BY <2>3
\* handleWrite.
<1>11. CASE HandleWrite
  <2>1. /\ (Up /\ ~writeShut) \/ UNCHANGED <<sent, writeShut>>
        /\ writeShut' => writeShut \/ outputBuffer_' = <<>>
    BY <1>11, HandleWriteKeeps
  <2>2. UNCHANGED <<accepted, state_>>
    BY <1>11 DEF HandleWrite
  <2>3. CASE UNCHANGED <<sent, writeShut>>
    BY <1>s, <2>2, <2>3
  <2>4. CASE Up /\ ~writeShut
    <3>1. Stream!Advance
      <4>1. CASE sent' = sent
        <5>1. <<>> \in Seq(Messages)
          OBVIOUS
        <5> QED
          BY <1>0, <2>2, <4>1, <5>1, BytesAdvance
      <4>2. ASSUME NEW n \in 1 .. Len(outputBuffer_), WriteBuffered(n)
            PROVE  Stream!Advance
        <5>1. n \in 0 .. Len(outputBuffer_)
          BY <1>0, LenProperties
        <5>2. SubSeq(outputBuffer_, 1, n) \in Seq(Messages)
          BY <1>0, <5>1, CutAndJoin
        <5>3. sent' = sent \o SubSeq(outputBuffer_, 1, n)
          BY <4>2 DEF WriteBuffered
        <5> QED
          BY <1>0, <2>2, <5>2, <5>3, BytesAdvance
      <4> QED
        BY <1>11, <4>1, <4>2 DEF HandleWrite
    <3>2. CASE ~writeShut'
      <4>1. Stream!Transfer
        BY <2>2, <2>4, <3>1, <3>2 DEF Stream!Transfer, Up
      <4> QED
        BY <4>1 DEF Stream!Next
    <3>3. CASE writeShut'
      <4>1. sent' = accepted'
        <5>1. /\ sent' \in Seq(Messages) /\ outputBuffer_' = <<>>
              /\ sent' \o outputBuffer_' = accepted'
          BY <1>0, <2>1, <2>4, <3>3 DEF BytesOK, NoByteLost
        <5> QED
          BY <5>1, ConcatEmptySeq
      <4>2. Stream!Finish
        BY <2>2, <2>4, <3>1, <3>3, <4>1 DEF Stream!Finish, Up
      <4> QED
        BY <4>2 DEF Stream!Next
    <3> QED
      BY <3>2, <3>3
  <2> QED
    BY <2>1, <2>3, <2>4
\* Everything else touches neither the bytes nor the phase.
<1>12. ASSUME NEW w \in Workers,
              \/ \E len \in Lengths : SendElsewhere(w, len)
              \/ ShutdownTests(w) \/ WorkerStep(w)
       PROVE  [Stream!Next]_(Stream!vars)
  <2>1. calling[w] = "no"
    BY <1>0 DEF Machine
  <2> QED
    BY <1>s, <1>12, <2>1 DEF SendElsewhere, ShutdownTests, WorkerStep, ShutdownStores,
       ShutdownQueues, socketVars
<1>13. CASE \/ PollSome \/ CloseCallback \/ HandleError \/ ReadData \/ ReadError
            \/ ReturnFromCallback \/ TakeFunctors \/ EndOfFunctors \/ RunNotification
            \/ RemoveConnectionInLoop \/ DestroyServer
            \/ PeerSends \/ PeerCloses \/ PeerResetsUs \/ UNCHANGED vars
  BY <1>s, <1>13 DEF PollSome, Poll, CloseCallback, HandleError, ReadData, ReadError,
     ReturnFromCallback, TakeFunctors, EndOfFunctors, RunNotification,
     RemoveConnectionInLoop, DestroyServer, PeerSends, PeerCloses, PeerResetsUs, vars,
     connVars, socketVars
<1>14. CASE ChannelClose \/ ReadEnd
  BY <1>8, <1>14 DEF ChannelClose, ReadEnd, IsNext
<1> QED
  BY <1>2, <1>3, <1>5, <1>6, <1>9, <1>10, <1>11, <1>12, <1>13, <1>14
  DEF Next, IoStep, HandleEvent, RunFunctor

-----------------------------------------------------------------------------
(* The theorems.                                                           *)

\* A new connection satisfies it: connectEstablished is queued, nothing else.
LEMMA InitLife == Init => LInv
<1> SUFFICES ASSUME Init PROVE LInv
  OBVIOUS
<1>1. Machine
  BY DEF Init, Machine, NotUpYet, Phases, Watched, ShutOrWaits, EventsOnce, Up
<1>2. EstablishedFirst(functors, ups)
  <2>1. functors = <<F("established")>> /\ ups = 0
    BY DEF Init
  <2>2. \A i \in DOMAIN functors : i = 1 /\ functors[i].op = "established"
    BY <2>1 DEF F
  <2> QED
    BY <2>1, <2>2 DEF EstablishedFirst
<1> QED
  BY <1>1, <1>2 DEF Init, LInv, Queue

\* It holds in every reachable state.
LEMMA Life ==
  ASSUME ~WorkersShutDown
  PROVE  SafeSpec => [](IInv /\ LInv)
<1>1. IInv /\ LInv /\ [Next]_vars => (IInv /\ LInv)'
  BY StepKeepsLife, StepKeepsInvariant
<1>2. SafeSpec => []IInv
  BY Invariant
<1> QED
  BY <1>1, <1>2, InitLife, PTL DEF SafeSpec

\* The connection callback runs once up and at most once down, however the
\* peer, an error, the server's destructor and the late functors interleave,
\* as long as only the loop's thread calls shutdown().
THEOREM UpAndDownOnce ==
  ASSUME ~WorkersShutDown
  PROVE  SafeSpec => []OneUpOneDown
<1>1. LInv => OneUpOneDown
  BY DEF LInv, Machine, Phases, OneUpOneDown
<1> QED
  BY <1>1, Life, PTL

\* Output that waits is watched for, on the same condition.
THEOREM OutputIsWatched ==
  ASSUME ~WorkersShutDown
  PROVE  SafeSpec => []WaitingOutputIsWatched
<1>1. LInv => WaitingOutputIsWatched
  BY DEF LInv, Machine, Watched, Up, WaitingOutputIsWatched
<1> QED
  BY <1>1, Life, PTL

\* Somebody will take a registered channel out of the poller, on the same
\* condition.
THEOREM RegisteredHasOwner ==
  ASSUME ~WorkersShutDown
  PROVE  SafeSpec => []RegisteredIsOwned
<1>1. LInv => RegisteredIsOwned
  BY DEF LInv, Queue, HasDestroyed, RegisteredIsOwned
<1> QED
  BY <1>1, Life, PTL

\* A TcpConnection implements the stream its users think of, on the same
\* condition: every step of the connection, its loop, its server or the peer
\* is a step of ByteStream or none.
THEOREM ConnectionIsAStream ==
  ASSUME ~WorkersShutDown
  PROVE  SafeSpec => ImplementsByteStream
<1>1. Init => Stream!Init
  BY DEF Init, Stream!Init
<1>2. (IInv /\ LInv) /\ (IInv /\ LInv)' /\ [Next]_vars => [Stream!Next]_(Stream!vars)
  BY StepIsStreamStep
<1> QED
  BY <1>1, <1>2, Life, PTL DEF SafeSpec, ImplementsByteStream, Stream!Spec
=============================================================================

--------------------------- MODULE TcpServerProofs ---------------------------
(***************************************************************************)
(* Theorems about TcpServer, for any number of pool threads, clients and   *)
(* descriptors.                                                            *)
(*                                                                         *)
(* A poller that exists never points to a connection that is gone, and     *)
(* without a pool every connection's end is reported.  A registered        *)
(* connection is alive because it is in connections_ or its                *)
(* connectDestroyed is still to run on its loop (Owned).  This holds only  *)
(* together with the order of a loop's functors: a connection is never     *)
(* established after it was destroyed (Ordered).                           *)
(*                                                                         *)
(* The callback hears of a connection up and then down because each is     *)
(* established once (Reported); a destroyed loop holds no functor (Ended); *)
(* the descriptors fit into their table (Table); and the pool's loops are  *)
(* served in turn (InTurn).                                                *)
(***************************************************************************)
EXTENDS TcpServer, SequenceTheorems, FiniteSetTheorems, TLAPS

-----------------------------------------------------------------------------
(* The invariants.                                                         *)

\* The functor f still has to run: in the batch b, of which r have run, or in
\* the queue q.
Waits(b, r, q, f) ==
  \/ \E i \in DOMAIN b : i > r /\ b[i] = f
  \/ \E i \in DOMAIN q : q[i] = f

\* connectEstablished never comes behind connectDestroyed.
Ordered(b, r, q) ==
  \A c \in Conns :
    /\ \A i, j \in DOMAIN b :
         r < i /\ i < j /\ b[j] = F("established", c) => b[i] # F("destroyed", c)
    /\ \A i \in DOMAIN b, j \in DOMAIN q :
         r < i /\ q[j] = F("established", c) => b[i] # F("destroyed", c)
    /\ \A i, j \in DOMAIN q :
         i < j /\ q[j] = F("established", c) => q[i] # F("destroyed", c)

Pending(l, op, c) == Waits(batch[l], ran[l], queue[l], F(op, c))

Types ==
  /\ numThreads_ \in 0 .. MaxThreads
  /\ next_ \in Nat /\ (numThreads_ > 0 => next_ < numThreads_)
  /\ told_to_quit \in 0 .. MaxThreads
  /\ nextConnId_ \in Nat \ {0}
  /\ connections_ \subseteq Conns
  /\ loopOf \in [Conns -> Loops]
  /\ state_ \in [Conns -> ConnStates]
  /\ index_ \in [Conns -> {"kNew", "kAdded", "kDeleted"}]
  /\ told \in [Conns -> Seq({"up", "down"})]
  /\ pc \in [Loops -> Pcs]
  /\ active \in [Loops -> SUBSET (Conns \union {Listener})]
  /\ queue \in [Loops -> Seq(Functors)]
  /\ batch \in [Loops -> Seq(Functors)]
  /\ ran \in [Loops -> Nat]

\* Where the base loop is during the life of the server.
Stages ==
  /\ serverPc = "built" => \A l \in Loops : pc[l] = "out"
  /\ serverPc = "started" => pc[Base] = "out"
  /\ serverPc \in {"destroying", "joining", "gone"} => pc[Base] \in {"out", "gone"}
  /\ serverPc \in {"joining", "gone"} => connections_ = {}

\* There is a client for every connection, and for the acceptor's handler.
Clients ==
  /\ backlog \in Nat /\ arrived \in Nat
  /\ nextConnId_ - 1 + backlog <= arrived
  /\ arrived <= MaxClients
  /\ acceptPc \in AcceptPcs
  /\ acceptPc # "idle" => Listener \in active[Base]
  /\ Listener \in active[Base] /\ acceptPc # "reopen" => backlog > 0

\* An active connection is registered with the loop that walks it.
Walked ==
  \A l \in Loops :
    /\ active[l] # {} => pc[l] = "events"
    /\ \A c \in active[l] \ {Listener} :
         c \in Accepted /\ loopOf[c] = l /\ index_[c] = "kAdded"

Machine == Types /\ Stages /\ Clients /\ Walked

\* Functors are on the loop they are for.
Queues ==
  \A l \in Loops :
    /\ ran[l] <= Len(batch[l])
    /\ pc[l] # "functors" => batch[l] = <<>> /\ ran[l] = 0
    /\ Ordered(batch[l], ran[l], queue[l])
    /\ \A c \in Conns :
         /\ Pending(l, "established", c) => c \in Accepted /\ loopOf[c] = l /\ l # Base
         /\ Pending(l, "destroyed", c) => c \in Accepted /\ loopOf[c] = l
         /\ Pending(l, "remove", c) => c \in Accepted /\ loopOf[c] # Base

\* Somebody will destroy a connection that is registered, or will be.
Owned ==
  /\ connections_ \subseteq Accepted
  /\ \A c \in Accepted :
       \/ pc[loopOf[c]] = "gone"
       \/ index_[c] = "kNew" /\ ~Pending(loopOf[c], "established", c)
       \/ c \in connections_
       \/ Pending(loopOf[c], "destroyed", c)

\* The states of a connection that is up for its user.
UpStates == {"kConnected", "kDisconnecting"}

\* What the callback has been told of a connection on the base loop.
Told ==
  /\ \A c \in Conns \ Accepted : told[c] = <<>>
  /\ \A c \in Accepted : loopOf[c] = Base =>
       /\ state_[c] = "kConnected" => told[c] = <<"up">> /\ c \in connections_
       /\ state_[c] = "kDisconnecting" => told[c] = <<"up">>
       /\ state_[c] \notin UpStates => told[c] = <<"up", "down">>
       /\ index_[c] = "kAdded" => state_[c] \in UpStates

IInv == Machine /\ Queues /\ Owned /\ Told

-----------------------------------------------------------------------------
(* Functors in a queue.                                                    *)

\* A functor is told by its operation and its connection.
LEMMA FunctorsDiffer ==
  ASSUME NEW c \in Conns, NEW d \in Conns, NEW o \in Ops, NEW p \in Ops
  PROVE  /\ F(o, c) \in Functors
         /\ F(o, c).op = o /\ F(o, c).conn = c
         /\ F(o, c) = F(p, d) => o = p /\ c = d
<1>1. F(o, c).op = o /\ F(o, c).conn = c /\ F(p, d).op = p /\ F(p, d).conn = d
  BY DEF F
<1>2. F(o, c) \in Functors
  BY DEF Functors
<1> QED
  BY <1>1, <1>2

\* Every functor has that form.
LEMMA FunctorForm ==
  ASSUME NEW f \in Functors
  PROVE  f.op \in Ops /\ f.conn \in Conns /\ f = F(f.op, f.conn)
BY DEF Functors, F

\* Queueing g.
LEMMA AppendWaits ==
  ASSUME NEW b, NEW r, NEW q \in Seq(Functors), NEW f, NEW g \in Functors
  PROVE  Waits(b, r, Append(q, g), f) <=> Waits(b, r, q, f) \/ f = g
<1>1. /\ DOMAIN Append(q, g) = 1 .. Len(q) + 1 /\ DOMAIN q = 1 .. Len(q)
      /\ Len(q) \in Nat
      /\ Append(q, g)[Len(q) + 1] = g
      /\ \A i \in DOMAIN q : Append(q, g)[i] = q[i]
  OBVIOUS
<1>2. (\E i \in DOMAIN Append(q, g) : Append(q, g)[i] = f)
      <=> (\E i \in DOMAIN q : q[i] = f) \/ f = g
  <2>1. ASSUME NEW i \in DOMAIN Append(q, g), Append(q, g)[i] = f, f # g
        PROVE  i \in DOMAIN q /\ q[i] = f
    <3>1. i \in DOMAIN q \/ i = Len(q) + 1
      BY <1>1
    <3> QED
      BY <1>1, <2>1, <3>1
  <2>2. ASSUME NEW i \in DOMAIN q, q[i] = f
        PROVE  i \in DOMAIN Append(q, g) /\ Append(q, g)[i] = f
    BY <1>1, <2>2
  <2>3. Len(q) + 1 \in DOMAIN Append(q, g)
    BY <1>1
  <2> QED
    BY <1>1, <2>1, <2>2, <2>3
<1> QED
  BY <1>2 DEF Waits

\* A functor queued last comes after connectEstablished, unless it is that.
LEMMA AppendOrdered ==
  ASSUME NEW b, NEW r, NEW q \in Seq(Functors), NEW g \in Functors,
         Ordered(b, r, q),
         \A c \in Conns : g = F("established", c) =>
                            ~Waits(b, r, q, F("destroyed", c))
  PROVE  Ordered(b, r, Append(q, g))
<1>1. /\ DOMAIN Append(q, g) = 1 .. Len(q) + 1 /\ DOMAIN q = 1 .. Len(q)
      /\ Len(q) \in Nat
      /\ Append(q, g)[Len(q) + 1] = g
      /\ \A i \in DOMAIN q : Append(q, g)[i] = q[i]
  OBVIOUS
<1> SUFFICES ASSUME NEW c \in Conns
             PROVE  /\ \A i \in DOMAIN b, j \in DOMAIN Append(q, g) :
                         r < i /\ Append(q, g)[j] = F("established", c)
                           => b[i] # F("destroyed", c)
                    /\ \A i, j \in DOMAIN Append(q, g) :
                         i < j /\ Append(q, g)[j] = F("established", c)
                           => Append(q, g)[i] # F("destroyed", c)
  BY DEF Ordered
<1>2. ASSUME NEW i \in DOMAIN b, NEW j \in DOMAIN Append(q, g),
             r < i, Append(q, g)[j] = F("established", c)
      PROVE  b[i] # F("destroyed", c)
  <2>1. CASE j \in DOMAIN q
    <3>1. q[j] = F("established", c)
      BY <1>1, <1>2, <2>1
    <3> QED
      BY <1>2, <2>1, <3>1 DEF Ordered
  <2>2. CASE j = Len(q) + 1
    <3>1. ~Waits(b, r, q, F("destroyed", c))
      BY <1>1, <1>2, <2>2
    <3> QED
      BY <1>2, <3>1 DEF Waits
  <2> QED
    BY <1>1, <2>1, <2>2
<1>3. ASSUME NEW i \in DOMAIN Append(q, g), NEW j \in DOMAIN Append(q, g),
             i < j, Append(q, g)[j] = F("established", c)
      PROVE  Append(q, g)[i] # F("destroyed", c)
  <2>1. i \in DOMAIN q /\ Append(q, g)[i] = q[i]
    BY <1>1, <1>3
  <2>2. CASE j \in DOMAIN q
    <3>1. q[j] = F("established", c)
      BY <1>1, <1>3, <2>2
    <3> QED
      BY <1>3, <2>1, <2>2, <3>1 DEF Ordered
  <2>3. CASE j = Len(q) + 1
    <3>1. ~Waits(b, r, q, F("destroyed", c))
      BY <1>1, <1>3, <2>3
    <3> QED
      BY <2>1, <3>1 DEF Waits
  <2> QED
    BY <1>1, <2>2, <2>3
<1> QED
  BY <1>2, <1>3

\* Running the next functor of the batch.
LEMMA RunWaits ==
  ASSUME NEW b \in Seq(Functors), NEW r \in Nat, NEW q, NEW f, r < Len(b)
  PROVE  /\ Waits(b, r + 1, q, f) => Waits(b, r, q, f)
         /\ Waits(b, r, q, f) => Waits(b, r + 1, q, f) \/ f = b[r + 1]
         /\ Waits(b, r, q, b[r + 1])
<1>1. DOMAIN b = 1 .. Len(b) /\ Len(b) \in Nat
  OBVIOUS
<1> QED
  BY <1>1 DEF Waits

\* Running the next functor of the batch keeps the rest in order.
LEMMA RunOrdered ==
  ASSUME NEW b \in Seq(Functors), NEW r \in Nat, NEW q, r < Len(b),
         Ordered(b, r, q)
  PROVE  /\ Ordered(b, r + 1, q)
         /\ \A c \in Conns : b[r + 1] = F("destroyed", c) =>
                               ~Waits(b, r + 1, q, F("established", c))
<1>1. DOMAIN b = 1 .. Len(b) /\ Len(b) \in Nat
  OBVIOUS
<1>2. Ordered(b, r + 1, q)
  BY <1>1 DEF Ordered
<1>3. ASSUME NEW c \in Conns, b[r + 1] = F("destroyed", c)
      PROVE  ~Waits(b, r + 1, q, F("established", c))
  <2>1. r + 1 \in DOMAIN b /\ r < r + 1
    BY <1>1
  <2>2. ASSUME NEW i \in DOMAIN b, i > r + 1, b[i] = F("established", c)
        PROVE  FALSE
    BY <1>1, <1>3, <2>1, <2>2 DEF Ordered
  <2>3. ASSUME NEW i \in DOMAIN q, q[i] = F("established", c)
        PROVE  FALSE
    BY <1>3, <2>1, <2>3 DEF Ordered
  <2> QED
    BY <2>2, <2>3 DEF Waits
<1> QED
  BY <1>2, <1>3

\* The swap of doPendingFunctors, and the end of the batch.
LEMMA SwapWaits ==
  ASSUME NEW q \in Seq(Functors), NEW f
  PROVE  /\ Waits(q, 0, <<>>, f) <=> Waits(<<>>, 0, q, f)
         /\ Ordered(<<>>, 0, q) => Ordered(q, 0, <<>>)
<1>1. /\ DOMAIN q = 1 .. Len(q) /\ Len(q) \in Nat
      /\ \A e : e \in DOMAIN <<>> <=> FALSE
  OBVIOUS
<1> QED
  BY <1>1 DEF Waits, Ordered

\* A batch that has run leaves only the queue.
LEMMA EndWaits ==
  ASSUME NEW b \in Seq(Functors), NEW q, NEW f
  PROVE  /\ Waits(b, Len(b), q, f) <=> Waits(<<>>, 0, q, f)
         /\ Ordered(b, Len(b), q) => Ordered(<<>>, 0, q)
         /\ ~Waits(<<>>, 0, <<>>, f)
         /\ Ordered(<<>>, 0, <<>>)
<1>1. /\ DOMAIN b = 1 .. Len(b) /\ Len(b) \in Nat
      /\ \A e : e \in DOMAIN <<>> <=> FALSE
  OBVIOUS
<1> QED
  BY <1>1 DEF Waits, Ordered

-----------------------------------------------------------------------------
(* The machine.                                                            *)

USE DEF Base, Listener, Loops, Conns, Pcs, UpStates, AcceptPcs

\* The base loop is a loop, and the listening channel is no connection.
LEMMA Numbers ==
  /\ MaxThreads \in Nat /\ MaxClients \in Nat
  /\ Base \in Loops /\ Listener \notin Conns
BY ThreadsAssumption, ClientsAssumption

\* An accepted connection has a number among the clients'.
LEMMA AcceptedInConns ==
  ASSUME Machine
  PROVE  Accepted \subseteq Conns
BY Numbers DEF Machine, Types, Clients, Accepted

\* The functor at the head of the queue.
LEMMA HeadOfQueue ==
  ASSUME Types, NEW l \in Loops, ran[l] < Len(batch[l])
  PROVE  /\ batch[l][ran[l] + 1] \in Functors
         /\ batch[l][ran[l] + 1].conn \in Conns
         /\ Pending(l, batch[l][ran[l] + 1].op, batch[l][ran[l] + 1].conn)
<1>1. batch[l] \in Seq(Functors) /\ ran[l] \in Nat
  BY DEF Types
<1>2. batch[l][ran[l] + 1] \in Functors
  BY <1>1
<1>3. Waits(batch[l], ran[l], queue[l], batch[l][ran[l] + 1])
  BY <1>1, RunWaits
<1> QED
  BY <1>2, <1>3, FunctorForm DEF Pending

\* Queueing a functor keeps the queues' type.
LEMMA QueuedType ==
  ASSUME Types, NEW l \in Loops, NEW op \in Ops, NEW c \in Conns
  PROVE  Queued(l, op, c) \in [Loops -> Seq(Functors)]
<1>1. F(op, c) \in Functors
  BY DEF Functors
<1> QED
  BY <1>1 DEF Types, Queued

\* connectEstablished keeps the types.
LEMMA EstablishedType ==
  ASSUME Types, NEW c \in Conns, ConnectEstablished(c)
  PROVE  /\ state_' \in [Conns -> ConnStates]
         /\ index_' \in [Conns -> {"kNew", "kAdded", "kDeleted"}]
         /\ told' \in [Conns -> Seq({"up", "down"})]
<1>1. told' \in [Conns -> Seq({"up", "down"})]
  <2>1. Append(told[c], "up") \in Seq({"up", "down"})
    BY DEF Types
  <2> QED
    BY <2>1 DEF Types, ConnectEstablished
<1> QED
  BY <1>1 DEF Types, ConnectEstablished, ConnStates

\* So does connectDestroyed.
LEMMA DestroyedType ==
  ASSUME Types, NEW c \in Conns, ConnectDestroyed(c)
  PROVE  /\ state_' \in [Conns -> ConnStates]
         /\ index_' \in [Conns -> {"kNew", "kAdded", "kDeleted"}]
         /\ told' \in [Conns -> Seq({"up", "down"})]
<1>1. told' \in [Conns -> Seq({"up", "down"})]
  <2>1. Append(told[c], "down") \in Seq({"up", "down"})
    BY DEF Types
  <2> QED
    BY <2>1 DEF Types, ConnectDestroyed
<1> QED
  BY <1>1 DEF Types, ConnectDestroyed, IndexAfterDestroyed, TellsDown, ConnStates

\* Nothing is accepted that no client asked for.
LEMMA NewConnectionMachine ==
  ASSUME Machine, NewConnection
  PROVE  Machine'
<1> DEFINE c == nextConnId_
<1> USE Numbers
<1>1. /\ pc[Base] = "events" /\ Listener \in active[Base] /\ acceptPc = "idle"
      /\ backlog > 0
  BY DEF NewConnection, AtListener, Accept, Machine, Clients
<1>2. c \in Conns /\ c \notin Accepted
  BY <1>1 DEF Machine, Types, Clients, Accepted
<1>3. NextLoop \in Loops
  BY DEF Machine, Types, NextLoop
<1>4. /\ next_' \in Nat /\ (numThreads_ > 0 => next_' < numThreads_)
      /\ nextConnId_' \in Nat \ {0}
      /\ connections_' \subseteq Conns
      /\ loopOf' \in [Conns -> Loops]
  <2>1. /\ next_' = NextAfter /\ nextConnId_' = c + 1
        /\ loopOf' = [loopOf EXCEPT ![c] = NextLoop]
        /\ connections_' = connections_ \union {c}
    BY DEF NewConnection
  <2>2. NextAfter \in Nat /\ (numThreads_ > 0 => NextAfter < numThreads_)
    BY DEF Machine, Types, NextAfter
  <2>3. /\ numThreads_' = numThreads_ /\ nextConnId_ \in Nat \ {0}
        /\ connections_ \subseteq Conns /\ loopOf \in [Conns -> Loops]
    BY DEF Machine, Types, NewConnection
  <2> QED
    BY <2>1, <2>2, <2>3, <1>2, <1>3
<1>5. /\ pc' = pc /\ batch' = batch /\ ran' = ran /\ numThreads_' = numThreads_
      /\ told_to_quit' = told_to_quit
      /\ active' = [active EXCEPT ![Base] = @ \ {Listener}]
      /\ serverPc' = serverPc
  BY DEF NewConnection, DoneWithListener
<1>6. /\ state_' \in [Conns -> ConnStates]
      /\ index_' \in [Conns -> {"kNew", "kAdded", "kDeleted"}]
      /\ told' \in [Conns -> Seq({"up", "down"})]
      /\ queue' \in [Loops -> Seq(Functors)]
  <2>1. CASE NextLoop = Base
    <3>1. ConnectEstablished(c) /\ queue' = queue
      BY <2>1 DEF NewConnection
    <3> QED
      BY <3>1, <1>2, EstablishedType DEF Machine, Types
  <2>2. CASE NextLoop # Base
    <3>1. queue' = Queued(NextLoop, "established", c) /\ UNCHANGED connVars
      BY <2>2 DEF NewConnection
    <3>2. queue' \in [Loops -> Seq(Functors)]
      BY <3>1, <1>2, <1>3, QueuedType DEF Machine, Ops
    <3> QED
      BY <3>1, <3>2 DEF Machine, Types, connVars
  <2> QED
    BY <2>1, <2>2
<1>7. Types'
  BY <1>4, <1>5, <1>6 DEF Machine, Types
<1>8. Stages'
  BY <1>1, <1>5 DEF Machine, Stages
<1>9. Clients'
  BY <1>1, <1>5 DEF Machine, Types, Clients, NewConnection, Accept
<1>10. Walked'
  <2>1. \A l \in Loops : active'[l] \subseteq active[l]
    BY <1>5 DEF Machine, Types
  <2>2. Accepted \subseteq Accepted'
    BY <1>1 DEF Machine, Types, Accepted, NewConnection
  <2>3. \A d \in Accepted : loopOf'[d] = loopOf[d] /\ index_'[d] = index_[d]
    <3>1. loopOf' = [loopOf EXCEPT ![c] = NextLoop]
      BY DEF NewConnection
    <3>2. index_' = index_ \/ index_' = [index_ EXCEPT ![c] = "kAdded"]
      BY DEF NewConnection, ConnectEstablished, connVars
    <3> QED
      BY <1>2, <3>1, <3>2, AcceptedInConns DEF Machine, Types
  <2> QED
    BY <2>1, <2>2, <2>3, <1>5 DEF Machine, Walked
<1> QED
  BY <1>7, <1>8, <1>9, <1>10 DEF Machine

\* handleClose, on the loop of the connection.
LEMMA HandleCloseMachine ==
  ASSUME Machine, NEW l \in Loops, NEW c \in Conns, HandleClose(l, c)
  PROVE  Machine'
<1> USE Numbers
<1>1. c \in Accepted /\ loopOf[c] = l /\ pc[l] = "events" /\ index_[c] = "kAdded"
  BY DEF HandleClose, At, Machine, Walked
<1>2. queue' \in [Loops -> Seq(Functors)]
  <2>1. \/ queue' = Queued(loopOf[c], "destroyed", c)
        \/ queue' = Queued(Base, "remove", c)
    BY DEF HandleClose
  <2>2. Types /\ loopOf[c] \in Loops /\ "destroyed" \in Ops /\ "remove" \in Ops
    BY <1>1 DEF Machine, Ops
  <2>3. /\ Queued(loopOf[c], "destroyed", c) \in [Loops -> Seq(Functors)]
        /\ Queued(Base, "remove", c) \in [Loops -> Seq(Functors)]
    BY <2>2, QueuedType
  <2> QED
    BY <2>1, <2>3
<1>3. connections_' \subseteq connections_
  BY DEF HandleClose, Removed
<1>4. Types'
  <2>1. /\ active' \in [Loops -> SUBSET (Conns \union {Listener})]
        /\ state_' \in [Conns -> ConnStates]
        /\ index_' \in [Conns -> {"kNew", "kAdded", "kDeleted"}]
    BY DEF Machine, Types, HandleClose, ConnStates
  <2>2. told' \in [Conns -> Seq({"up", "down"})]
    <3>1. Append(told[c], "down") \in Seq({"up", "down"})
      BY DEF Machine, Types
    <3> QED
      BY <3>1 DEF Machine, Types, HandleClose
  <2> QED
    BY <2>1, <2>2, <1>2, <1>3 DEF Machine, Types, HandleClose, poolVars
<1>5. Stages'
  BY <1>3 DEF Machine, Stages, HandleClose
<1>6. Clients'
  BY <1>1 DEF Machine, Types, Clients, HandleClose, acceptorVars, At
<1>7. Walked'
  <2>1. Accepted' = Accepted /\ loopOf' = loopOf /\ pc' = pc
    BY DEF HandleClose, Accepted
  <2>2. \A k \in Loops : active'[k] \subseteq active[k] /\ (k = l => c \notin active'[k])
    BY DEF HandleClose, Machine, Types
  <2>3. \A d \in Conns : d # c => index_'[d] = index_[d]
    BY DEF HandleClose, Machine, Types
  <2> SUFFICES ASSUME NEW k \in Loops
               PROVE  /\ active'[k] # {} => pc'[k] = "events"
                      /\ \A d \in active'[k] \ {Listener} :
                           d \in Accepted' /\ loopOf'[d] = k /\ index_'[d] = "kAdded"
    BY DEF Walked
  <2>4. active'[k] # {} => pc'[k] = "events"
    BY <2>1, <2>2 DEF Machine, Walked
  <2>5. ASSUME NEW d \in active'[k] \ {Listener}
        PROVE  d \in Accepted' /\ loopOf'[d] = k /\ index_'[d] = "kAdded"
    <3>1. d \in Accepted /\ loopOf[d] = k /\ index_[d] = "kAdded"
      BY <2>2, <2>5 DEF Machine, Walked
    <3>2. d # c
      BY <1>1, <2>2, <2>5, <3>1
    <3> QED
      BY <2>1, <2>3, <3>1, <3>2, AcceptedInConns
  <2> QED
    BY <2>4, <2>5
<1> QED
  BY <1>4, <1>5, <1>6, <1>7 DEF Machine

\* A loop runs the next functor of its batch.
LEMMA RunFunctorMachine ==
  ASSUME Machine, Queues, NEW l \in Loops, RunFunctor(l)
  PROVE  Machine'
<1> DEFINE f == batch[l][ran[l] + 1]
           c == f.conn
<1> USE Numbers
<1>1. pc[l] = "functors" /\ ran[l] < Len(batch[l])
  BY DEF RunFunctor, At
<1>2. f \in Functors /\ c \in Conns /\ Pending(l, f.op, c)
  BY <1>1, HeadOfQueue DEF Machine
<1>3. /\ UNCHANGED <<acceptorVars, serverPc, poolVars, nextConnId_, loopOf, pc,
                     quit_, active, batch, peerClosed>>
      /\ ran' = [ran EXCEPT ![l] = @ + 1]
  BY DEF RunFunctor
<1>4. connections_' \subseteq connections_
  BY DEF RunFunctor, RemoveConnectionInLoop, Removed
<1>5. /\ state_' \in [Conns -> ConnStates]
      /\ index_' \in [Conns -> {"kNew", "kAdded", "kDeleted"}]
      /\ told' \in [Conns -> Seq({"up", "down"})]
      /\ queue' \in [Loops -> Seq(Functors)]
  <2>1. CASE f.op = "established" /\ ConnectEstablished(c) /\ queue' = queue
    BY <2>1, <1>2, EstablishedType DEF Machine, Types
  <2>2. CASE f.op = "destroyed" /\ ConnectDestroyed(c) /\ queue' = queue
    BY <2>2, <1>2, DestroyedType DEF Machine, Types
  <2>3. CASE f.op = "remove" /\ RemoveConnectionInLoop(c)
    <3>1. loopOf[c] \in Loops
      BY <1>2 DEF Machine, Types
    <3>2. queue' = Queued(loopOf[c], "destroyed", c) /\ UNCHANGED connVars
      BY <2>3 DEF RemoveConnectionInLoop
    <3>3. queue' \in [Loops -> Seq(Functors)]
      BY <1>2, <3>1, <3>2, QueuedType DEF Machine, Ops
    <3> QED
      BY <3>2, <3>3 DEF Machine, Types, connVars
  <2> QED
    BY <2>1, <2>2, <2>3 DEF RunFunctor
<1>6. Types'
  <2>1. ran' \in [Loops -> Nat]
    <3>1. ran \in [Loops -> Nat]
      BY DEF Machine, Types
    <3>2. PICK r \in [Loops -> Nat] : r = ran
      BY <3>1
    <3>3. ran' = [r EXCEPT ![l] = r[l] + 1] /\ r[l] + 1 \in Nat
      BY <1>3, <3>2
    <3> QED
      BY <3>3
  <2> QED
    BY <2>1, <1>3, <1>4, <1>5 DEF Machine, Types, poolVars
<1>7. Stages'
  BY <1>3, <1>4 DEF Machine, Stages
<1>8. Clients'
  BY <1>3 DEF Machine, Clients, acceptorVars
<1>9. Walked'
  <2> SUFFICES ASSUME NEW k \in Loops, NEW d \in active[k] \ {Listener}
               PROVE  index_'[d] = "kAdded"
    BY <1>3 DEF Machine, Walked, Accepted
  <2>1. pc[k] = "events" /\ d \in Accepted /\ loopOf[d] = k /\ index_[d] = "kAdded"
        /\ d \in Conns
    BY AcceptedInConns DEF Machine, Walked
  <2>2. d = c => f.op = "remove"
    <3>1. k # l
      BY <1>1, <2>1
    <3>2. f.op \in {"established", "destroyed"} => loopOf[c] = l
      BY <1>2 DEF Queues
    <3>3. f.op \in Ops
      BY <1>2, FunctorForm
    <3> QED
      BY <2>1, <3>1, <3>2, <3>3 DEF Ops
  <2>3. f.op = "remove" => index_' = index_
    BY DEF RunFunctor, RemoveConnectionInLoop, connVars
  <2>4. \/ index_' = index_
        \/ \E v \in {"kAdded", "kNew"} : index_' = [index_ EXCEPT ![c] = v]
    BY DEF RunFunctor, RemoveConnectionInLoop, connVars, ConnectEstablished,
           ConnectDestroyed, IndexAfterDestroyed
  <2> QED
    BY <2>1, <2>2, <2>3, <2>4 DEF Machine, Types
<1> QED
  BY <1>6, <1>7, <1>8, <1>9 DEF Machine

\* ~TcpServer ends one connection.
LEMMA DestroyConnectionMachine ==
  ASSUME Machine, NEW c \in Conns, DestroyConnection(c)
  PROVE  Machine'
<1> USE Numbers
<1>1. serverPc = "destroying" /\ pc[Base] \in {"out", "gone"}
  BY DEF DestroyConnection, Machine, Stages
<1>2. /\ UNCHANGED <<acceptorVars, serverPc, poolVars, nextConnId_, loopOf,
                     loopVars, peerClosed>>
      /\ connections_' \subseteq connections_
  BY DEF DestroyConnection
<1>3. /\ state_' \in [Conns -> ConnStates]
      /\ index_' \in [Conns -> {"kNew", "kAdded", "kDeleted"}]
      /\ told' \in [Conns -> Seq({"up", "down"})]
      /\ queue' \in [Loops -> Seq(Functors)]
  <2>1. CASE RunsHere(c)
    <3>1. ConnectDestroyed(c) /\ queue' = queue
      BY <2>1 DEF DestroyConnection
    <3> QED
      BY <3>1, DestroyedType DEF Machine, Types
  <2>2. CASE ~RunsHere(c)
    <3>1. queue' = Queued(loopOf[c], "destroyed", c) /\ UNCHANGED connVars
      BY <2>2 DEF DestroyConnection
    <3>2. queue' \in [Loops -> Seq(Functors)]
      BY <3>1, QueuedType DEF Machine, Types, Ops
    <3> QED
      BY <3>1, <3>2 DEF Machine, Types, connVars
  <2> QED
    BY <2>1, <2>2
<1>4. Types'
  BY <1>2, <1>3 DEF Machine, Types, poolVars, loopVars
<1>5. Stages'
  BY <1>1, <1>2 DEF Machine, Stages, loopVars
<1>6. Clients'
  BY <1>2 DEF Machine, Clients, acceptorVars, loopVars
<1>7. Walked'
  <2> SUFFICES ASSUME NEW k \in Loops, NEW d \in active[k] \ {Listener}
               PROVE  index_'[d] = "kAdded"
    BY <1>2 DEF Machine, Walked, Accepted, loopVars
  <2>1. pc[k] = "events" /\ d \in Accepted /\ loopOf[d] = k /\ index_[d] = "kAdded"
        /\ d \in Conns
    BY AcceptedInConns DEF Machine, Walked
  <2>2. loopOf[d] # Base
    BY <1>1, <2>1
  <2>3. \/ index_' = index_
        \/ loopOf[c] = Base /\ index_' = [index_ EXCEPT ![c] = "kNew"]
    BY DEF DestroyConnection, RunsHere, ConnectDestroyed, IndexAfterDestroyed, connVars
  <2> QED
    BY <2>1, <2>2, <2>3 DEF Machine, Types
<1> QED
  BY <1>4, <1>5, <1>6, <1>7 DEF Machine

\* The parts of the machine that a step leaves alone.
LEMMA TypesFrame ==
  ASSUME Types, UNCHANGED <<poolVars, connVars, serverVars>>,
         pc' \in [Loops -> Pcs],
         active' \in [Loops -> SUBSET (Conns \union {Listener})],
         queue' \in [Loops -> Seq(Functors)],
         batch' \in [Loops -> Seq(Functors)],
         ran' \in [Loops -> Nat]
  PROVE  Types'
BY DEF Types, poolVars, connVars, serverVars

\* The channels a loop walks over are still registered while no
\* connection changes.
LEMMA WalkedFrame ==
  ASSUME Walked, UNCHANGED <<connVars, serverVars>>,
         \A l \in Loops : \/ active'[l] = {}
                          \/ active'[l] \subseteq active[l] /\ pc'[l] = pc[l]
  PROVE  Walked'
<1>1. Accepted' = Accepted /\ loopOf' = loopOf /\ index_' = index_
  BY DEF Accepted, connVars, serverVars
<1> QED
  BY <1>1 DEF Walked

\* The steps of a loop.
LEMMA LoopMachine ==
  ASSUME Machine, Queues, NEW l \in Loops, LoopStep(l)
  PROVE  Machine'
<1> USE Numbers
<1>1. CASE Poll(l)
  <2>1. Ready(l) \subseteq Conns \union {Listener}
        /\ (Listener \in Ready(l) => l = Base /\ backlog > 0)
        /\ \A c \in Ready(l) \ {Listener} :
             c \in Accepted /\ loopOf[c] = l /\ index_[c] = "kAdded"
    BY AcceptedInConns DEF Ready, HasClient, Accepted
  <2>2. /\ pc' = [pc EXCEPT ![l] = "events"]
        /\ active' = [active EXCEPT ![l] = Ready(l)]
        /\ pc[l] = "poll" /\ (l = Base => acceptPc = "idle")
        /\ UNCHANGED <<acceptorVars, serverPc, poolVars, connVars, serverVars,
                       batch, ran, queue>>
    BY <1>1 DEF Poll, At
  <2>3. Types'
    BY <2>1, <2>2, TypesFrame DEF Machine, Types
  <2>4. Stages'
    BY <2>2 DEF Machine, Types, Stages, serverVars
  <2>5. Clients'
    BY <2>1, <2>2 DEF Machine, Types, Clients, acceptorVars, serverVars
  <2>6. Walked'
    <3>1. Accepted' = Accepted /\ loopOf' = loopOf /\ index_' = index_
      BY <2>2 DEF Accepted, connVars, serverVars
    <3>2. \A k \in Loops :
            /\ active'[k] = IF k = l THEN Ready(l) ELSE active[k]
            /\ pc'[k] = IF k = l THEN "events" ELSE pc[k]
      BY <2>2 DEF Machine, Types
    <3> QED
      BY <2>1, <3>1, <3>2 DEF Machine, Walked
  <2> QED
    BY <2>3, <2>4, <2>5, <2>6 DEF Machine
<1>2. ASSUME NEW c \in Conns, HandleClose(l, c)
      PROVE  Machine'
  BY <1>2, HandleCloseMachine
<1>3. CASE TakeFunctors(l)
  <2>1. /\ pc' = [pc EXCEPT ![l] = "functors"]
        /\ pc[l] = "events" /\ active[l] = {}
        /\ batch' = [batch EXCEPT ![l] = queue[l]]
        /\ ran' = [ran EXCEPT ![l] = 0]
        /\ queue' = [queue EXCEPT ![l] = <<>>]
        /\ UNCHANGED <<acceptorVars, serverPc, poolVars, connVars, serverVars,
                       active>>
    BY <1>3 DEF TakeFunctors, At
  <2>2. Types'
    <3>1. /\ pc' \in [Loops -> Pcs] /\ active' = active
          /\ queue' \in [Loops -> Seq(Functors)]
          /\ batch' \in [Loops -> Seq(Functors)]
          /\ ran' \in [Loops -> Nat]
      BY <2>1 DEF Machine, Types
    <3> QED
      BY <2>1, <3>1, TypesFrame DEF Machine, Types
  <2>3. Stages'
    BY <2>1 DEF Machine, Types, Stages, serverVars
  <2>4. Clients'
    BY <2>1 DEF Machine, Clients, acceptorVars, serverVars
  <2>5. Walked'
    <3>1. \A k \in Loops : active'[k] = {} \/ (active'[k] = active[k] /\ pc'[k] = pc[k])
      BY <2>1 DEF Machine, Types
    <3> QED
      BY <2>1, <3>1, WalkedFrame DEF Machine
  <2> QED
    BY <2>2, <2>3, <2>4, <2>5 DEF Machine
<1>4. CASE RunFunctor(l)
  BY <1>4, RunFunctorMachine
<1>0. CASE EnterLoop(l)
  <2>1. /\ pc' = [pc EXCEPT ![l] = "poll"] /\ pc[l] = "starting"
        /\ UNCHANGED <<acceptorVars, serverPc, poolVars, connVars, serverVars,
                       active, batch, ran, queue>>
    BY <1>0 DEF EnterLoop
  <2>2. Types'
    BY <2>1, TypesFrame DEF Machine, Types
  <2>3. Stages' /\ Clients'
    BY <2>1 DEF Machine, Types, Stages, Clients, acceptorVars, serverVars
  <2>4. Walked'
    <3>1. active[l] = {}
      BY <2>1 DEF Machine, Walked
    <3>2. \A k \in Loops : active'[k] = {} \/ (active'[k] = active[k] /\ pc'[k] = pc[k])
      BY <2>1, <3>1 DEF Machine, Types
    <3> QED
      BY <2>1, <3>2, WalkedFrame DEF Machine
  <2> QED
    BY <2>2, <2>3, <2>4 DEF Machine
<1>5. CASE EndOfFunctors(l)
  <2>1. /\ \E p \in {"poll", "out", "gone"} :
             pc' = [pc EXCEPT ![l] = p] /\ (p = "out" => l = Base)
        /\ pc[l] = "functors"
        /\ batch' = [batch EXCEPT ![l] = <<>>]
        /\ ran' = [ran EXCEPT ![l] = 0]
        /\ queue' = [queue EXCEPT ![l] = <<>>] \/ queue' = queue
        /\ UNCHANGED <<acceptorVars, serverPc, poolVars, connVars, serverVars,
                       active>>
    BY <1>5 DEF EndOfFunctors, At
  <2>2. Types'
    <3>1. pc' \in [Loops -> Pcs] /\ active' = active
      <4>1. PICK p \in {"poll", "out", "gone"} : pc' = [pc EXCEPT ![l] = p]
        BY <2>1
      <4> QED
        BY <2>1, <4>1 DEF Machine, Types
    <3>2. /\ batch' \in [Loops -> Seq(Functors)]
          /\ ran' \in [Loops -> Nat]
      BY <2>1 DEF Machine, Types
    <3>3. queue' \in [Loops -> Seq(Functors)]
      <4>1. CASE queue' = queue
        BY <4>1 DEF Machine, Types
      <4>2. CASE queue' = [queue EXCEPT ![l] = <<>>]
        BY <4>2 DEF Machine, Types
      <4> QED
        BY <2>1, <4>1, <4>2
    <3> QED
      BY <2>1, <3>1, <3>2, <3>3, TypesFrame DEF Machine, Types
  <2>3. Stages'
    BY <2>1 DEF Machine, Types, Stages, serverVars
  <2>4. Clients'
    BY <2>1 DEF Machine, Clients, acceptorVars, serverVars
  <2>5. Walked'
    <3>1. active[l] = {}
      BY <2>1 DEF Machine, Walked
    <3>2. \A k \in Loops : active'[k] = {} \/ (active'[k] = active[k] /\ pc'[k] = pc[k])
      BY <2>1, <3>1 DEF Machine, Types
    <3> QED
      BY <2>1, <3>2, WalkedFrame DEF Machine
  <2> QED
    BY <2>2, <2>3, <2>4, <2>5 DEF Machine
<1> QED
  BY <1>0, <1>1, <1>2, <1>3, <1>4, <1>5 DEF LoopStep

\* The steps of the acceptor.
LEMMA AcceptorMachine ==
  ASSUME Machine, AcceptorStep
  PROVE  Machine'
<1> USE Numbers
<1>1. CASE NewConnection
  BY <1>1, NewConnectionMachine
<1>2. CASE ListenerFull
  <2>1. /\ acceptPc = "idle" /\ acceptPc' = "refuse" /\ Listener \in active[Base]
        /\ UNCHANGED <<backlog, arrived, serverPc, poolVars, connVars,
                       serverVars, loopVars, queue>>
    BY <1>2 DEF ListenerFull, AtListener, TableFull
  <2> QED
    BY <2>1 DEF Machine, Types, Stages, Clients, Walked, poolVars, connVars,
                serverVars, loopVars, Accepted
<1>3. CASE RefuseClient
  <2>1. /\ acceptPc = "refuse" /\ acceptPc' = "reopen"
        /\ backlog' = backlog - 1 \/ backlog' = backlog
        /\ UNCHANGED <<arrived, serverPc, poolVars, connVars,
                       serverVars, loopVars, queue>>
    BY <1>3 DEF RefuseClient, Refuse
  <2>2. Types' /\ Stages' /\ Walked'
    BY <2>1, TypesFrame, WalkedFrame DEF Machine, Types, Stages, loopVars, serverVars
  <2>3. Clients'
    <3>1. backlog' \in Nat /\ backlog' <= backlog
      BY <2>1 DEF Machine, Clients
    <3>2. /\ UNCHANGED <<nextConnId_, active, arrived>>
          /\ nextConnId_ \in Nat \ {0}
      BY <2>1 DEF Machine, Types, serverVars, loopVars
    <3> QED
      BY <2>1, <3>1, <3>2 DEF Machine, Clients
  <2> QED
    BY <2>2, <2>3 DEF Machine
<1>4. CASE ReopenIdle
  <2>1. /\ acceptPc = "reopen" /\ acceptPc' = "idle"
        /\ active' = [active EXCEPT ![Base] = @ \ {Listener}]
        /\ UNCHANGED <<backlog, arrived, serverPc, poolVars, connVars,
                       serverVars, pc, batch, ran, queue>>
    BY <1>4 DEF ReopenIdle, Reopen, DoneWithListener
  <2>2. Types'
    BY <2>1 DEF Machine, Types, poolVars, connVars, serverVars
  <2>3. Stages' /\ Clients'
    BY <2>1 DEF Machine, Types, Stages, Clients, serverVars
  <2>4. Walked'
    <3>1. \A l \in Loops : active'[l] \subseteq active[l]
      BY <2>1 DEF Machine, Types
    <3> QED
      BY <2>1, <3>1 DEF Machine, Walked, serverVars, connVars, Accepted
  <2> QED
    BY <2>2, <2>3, <2>4 DEF Machine
<1> QED
  BY <1>1, <1>2, <1>3, <1>4 DEF AcceptorStep

\* The steps of the thread that owns the server.
LEMMA OwnerMachine ==
  ASSUME Machine, Start \/ RunBaseLoop \/ QuitBaseLoop \/ OwnerStep
  PROVE  Machine'
<1> USE Numbers
<1>1. CASE Start
  <2>1. /\ serverPc = "built" /\ serverPc' = "started"
        /\ pc' = [l \in Loops |-> IF l \in Pool THEN "starting" ELSE "out"]
        /\ UNCHANGED <<acceptPc, backlog, arrived, poolVars, connVars,
                       serverVars, active, batch, ran, queue>>
    BY <1>1 DEF Start, Listen
  <2>2. Types'
    BY <2>1 DEF Machine, Types, poolVars, connVars, serverVars
  <2>3. Stages'
    BY <2>1 DEF Machine, Types, Stages, Pool, serverVars
  <2>4. Clients'
    BY <2>1 DEF Machine, Clients, serverVars
  <2>5. Walked'
    <3>1. \A l \in Loops : active[l] = {}
      BY <2>1 DEF Machine, Stages, Walked
    <3> QED
      BY <2>1, <3>1 DEF Walked
  <2> QED
    BY <2>2, <2>3, <2>4, <2>5 DEF Machine
<1>2. CASE RunBaseLoop
  <2>1. /\ serverPc = "started" /\ serverPc' = "serving"
        /\ pc' = [pc EXCEPT ![Base] = "poll"]
        /\ UNCHANGED <<acceptorVars, poolVars, connVars, serverVars, active,
                       batch, ran, queue>>
    BY <1>2 DEF RunBaseLoop
  <2>2. active[Base] = {}
    BY <2>1 DEF Machine, Stages, Walked
  <2>3. Types'
    BY <2>1 DEF Machine, Types, poolVars, connVars, serverVars
  <2>4. Stages' /\ Clients'
    BY <2>1 DEF Machine, Stages, Clients, acceptorVars, serverVars
  <2>5. Walked'
    BY <2>1, <2>2 DEF Machine, Types, Walked, serverVars, connVars, Accepted
  <2> QED
    BY <2>3, <2>4, <2>5 DEF Machine
<1>3. CASE QuitBaseLoop
  <2>1. UNCHANGED <<acceptorVars, serverPc, poolVars, connVars, serverVars, pc,
                    active, batch, ran, queue>>
    BY <1>3 DEF QuitBaseLoop
  <2>2. Types' /\ Walked'
    BY <2>1, TypesFrame, WalkedFrame DEF Machine, Types
  <2>3. Stages' /\ Clients'
    BY <2>1 DEF Machine, Stages, Clients, acceptorVars, serverVars
  <2> QED
    BY <2>2, <2>3 DEF Machine
<1>4. CASE DestroyServer
  <2>1. UNCHANGED <<acceptorVars, poolVars, connVars, serverVars, loopVars, queue>>
    BY <1>4 DEF DestroyServer
  <2>2. Types' /\ Walked'
    BY <2>1, TypesFrame, WalkedFrame DEF Machine, Types, loopVars
  <2>3. Stages' /\ Clients'
    BY <1>4, <2>1 DEF DestroyServer, Machine, Stages, Clients, acceptorVars, serverVars, loopVars
  <2> QED
    BY <2>2, <2>3 DEF Machine
<1>5. ASSUME NEW c \in Conns, DestroyConnection(c)
      PROVE  Machine'
  BY <1>5, DestroyConnectionMachine
<1>6. CASE DestroyPool
  <2>1. UNCHANGED <<acceptorVars, poolVars, connVars, serverVars, loopVars, queue>>
    BY <1>6 DEF DestroyPool
  <2>2. Types' /\ Walked'
    BY <2>1, TypesFrame, WalkedFrame DEF Machine, Types, loopVars
  <2>3. Stages' /\ Clients'
    BY <1>6, <2>1 DEF DestroyPool, Machine, Stages, Clients, acceptorVars, serverVars, loopVars
  <2> QED
    BY <2>2, <2>3 DEF Machine
<1>7. ASSUME NEW l \in Loops, QuitPoolLoop(l)
      PROVE  Machine'
  <2>1. /\ UNCHANGED <<acceptorVars, serverPc, numThreads_, next_, connVars,
                       serverVars, pc, active, batch, ran, queue>>
        /\ told_to_quit' = l
    BY <1>7 DEF QuitPoolLoop
  <2>2. Types'
    BY <2>1 DEF Machine, Types, connVars, serverVars
  <2>4. Walked'
    BY <2>1, WalkedFrame DEF Machine
  <2>3. Stages' /\ Clients'
    BY <2>1 DEF Machine, Stages, Clients, acceptorVars, serverVars
  <2> QED
    BY <2>2, <2>3, <2>4 DEF Machine
<1>8. CASE DestroyAcceptor
  <2>1. /\ serverPc = "joining" /\ serverPc' = "gone"
        /\ backlog' = 0
        /\ UNCHANGED <<acceptPc, arrived, poolVars, connVars, serverVars,
                       loopVars, queue>>
    BY <1>8 DEF DestroyAcceptor, CloseAcceptor
  <2>2. active[Base] = {}
    BY <2>1 DEF Machine, Stages, Walked
  <2>3. Types' /\ Walked'
    BY <2>1, TypesFrame, WalkedFrame DEF Machine, Types, loopVars
  <2>4. Stages'
    BY <2>1 DEF Machine, Stages, serverVars, loopVars
  <2>5. Clients'
    <3>1. /\ backlog' \in Nat /\ backlog' <= backlog /\ Listener \notin active[Base]
          /\ UNCHANGED <<nextConnId_, active, arrived, acceptPc>>
          /\ nextConnId_ \in Nat \ {0}
      BY <2>1, <2>2 DEF Machine, Types, Clients, serverVars, loopVars
    <3> QED
      BY <2>1, <3>1 DEF Machine, Clients
  <2> QED
    BY <2>3, <2>4, <2>5 DEF Machine
<1>9. CASE DestroyBaseLoop
  <2>1. /\ serverPc = "gone" /\ serverPc' = "gone" /\ pc[Base] = "out"
        /\ pc' = [pc EXCEPT ![Base] = "gone"]
        /\ queue' = [queue EXCEPT ![Base] = <<>>]
        /\ UNCHANGED <<acceptorVars, poolVars, connVars, serverVars, active,
                       batch, ran>>
    BY <1>9 DEF DestroyBaseLoop
  <2>2. active[Base] = {}
    BY <2>1 DEF Machine, Walked
  <2>3. Types'
    <3>1. pc' \in [Loops -> Pcs] /\ queue' \in [Loops -> Seq(Functors)]
      BY <2>1 DEF Machine, Types
    <3> QED
      BY <2>1, <3>1, TypesFrame DEF Machine, Types
  <2>4. Stages' /\ Clients'
    BY <2>1 DEF Machine, Types, Stages, Clients, acceptorVars, serverVars
  <2>5. Walked'
    <3>1. \A k \in Loops : active'[k] = {} \/ (active'[k] = active[k] /\ pc'[k] = pc[k])
      BY <2>1, <2>2 DEF Machine, Types
    <3> QED
      BY <2>1, <3>1, WalkedFrame DEF Machine
  <2> QED
    BY <2>3, <2>4, <2>5 DEF Machine
<1> QED
  BY <1>1, <1>2, <1>3, <1>4, <1>5, <1>6, <1>7, <1>8, <1>9 DEF OwnerStep

\* What the environment does changes nothing but the clients that wait.
LEMMA EnvironmentFrame ==
  ASSUME Machine, Environment \/ UNCHANGED vars
  PROVE  /\ Machine'
         /\ UNCHANGED <<serverPc, connVars, serverVars, pc, queue, batch, ran>>
<1>1. CASE Environment
  <2>1. /\ \/ UNCHANGED <<arrived, backlog>>
           \/ /\ arrived < MaxClients
              /\ arrived' = arrived + 1 /\ backlog' = backlog + 1
        /\ UNCHANGED <<acceptPc, serverPc, poolVars, connVars, serverVars,
                       loopVars, queue>>
    BY <1>1 DEF Environment, ClientArrives, OtherOpens, OtherCloses, PeerCloses,
                acceptorVars
  <2>2. Types' /\ Stages'
    BY <2>1 DEF Machine, Types, Stages, poolVars, connVars, serverVars, loopVars
  <2>3. Clients'
    <3>1. /\ UNCHANGED <<nextConnId_, acceptPc, active>>
          /\ nextConnId_ \in Nat \ {0}
      BY <2>1 DEF Machine, Types, serverVars, loopVars
    <3>2. CASE UNCHANGED <<arrived, backlog>>
      BY <3>1, <3>2 DEF Machine, Clients
    <3>3. CASE arrived < MaxClients /\ arrived' = arrived + 1 /\ backlog' = backlog + 1
      BY <3>1, <3>3, Numbers DEF Machine, Clients
    <3> QED
      BY <2>1, <3>2, <3>3
  <2>4. Walked'
    BY <2>1 DEF Machine, Walked, Accepted, connVars, serverVars, loopVars
  <2> QED
    BY <2>1, <2>2, <2>3, <2>4 DEF Machine, loopVars
<1>2. CASE UNCHANGED vars
  BY <1>2 DEF Machine, Types, Stages, Clients, Walked, Accepted, vars,
              acceptorVars, poolVars, connVars, serverVars, loopVars
<1> QED
  BY <1>1, <1>2

\* shutdown() changes the state of a connection that is up, and nothing else.
LEMMA ShutdownFrame ==
  ASSUME Types, NEW c \in Conns, Shutdown(c)
  PROVE  /\ state_[c] = "kConnected"
         /\ state_' = [state_ EXCEPT ![c] = "kDisconnecting"]
         /\ state_' \in [Conns -> ConnStates]
         /\ UNCHANGED <<acceptorVars, serverPc, poolVars, index_, told, serverVars,
                        loopVars, queue>>
BY DEF Types, Shutdown, ConnStates

\* So the machine does not notice it.
LEMMA ShutdownMachine ==
  ASSUME Machine, NEW c \in Conns, Shutdown(c)
  PROVE  Machine'
<1>1. /\ state_' \in [Conns -> ConnStates]
      /\ UNCHANGED <<acceptorVars, serverPc, poolVars, index_, told, serverVars,
                     loopVars, queue>>
  BY ShutdownFrame DEF Machine
<1>2. Types'
  BY <1>1 DEF Machine, Types, poolVars, serverVars, loopVars
<1>3. Stages' /\ Clients'
  BY <1>1 DEF Machine, Stages, Clients, acceptorVars, serverVars, loopVars
<1>4. Walked'
  BY <1>1 DEF Machine, Walked, Accepted, serverVars, loopVars
<1> QED
  BY <1>2, <1>3, <1>4 DEF Machine

\* Every step keeps the machine's part of the invariant.
LEMMA MachineStep ==
  ASSUME Machine, Queues, [Next]_vars
  PROVE  Machine'
BY LoopMachine, AcceptorMachine, OwnerMachine, ShutdownMachine, EnvironmentFrame
   DEF Next

-----------------------------------------------------------------------------
(* What the steps do to the functors.                                      *)

\* Queueing adds one functor to those that wait, and only on its loop.
LEMMA QueuedPending ==
  ASSUME Types, NEW l \in Loops, NEW op \in Ops, NEW c \in Conns,
         queue' = Queued(l, op, c), UNCHANGED <<batch, ran>>
  PROVE  /\ \A k \in Loops, p \in Ops, d \in Conns :
              Pending(k, p, d)' <=> Pending(k, p, d) \/ (k = l /\ p = op /\ d = c)
         /\ \A k \in Loops :
              /\ Ordered(batch[k], ran[k], queue[k])
              /\ op = "established" => ~Pending(l, "destroyed", c)
              => Ordered(batch[k], ran[k], queue[k])'
<1>1. F(op, c) \in Functors
  BY FunctorsDiffer
<1>2. \A k \in Loops : queue[k] \in Seq(Functors)
                       /\ queue'[k] = IF k = l THEN Append(queue[k], F(op, c)) ELSE queue[k]
  BY DEF Types, Queued
<1>3. ASSUME NEW k \in Loops, NEW p \in Ops, NEW d \in Conns
      PROVE  Pending(k, p, d)' <=> Pending(k, p, d) \/ (k = l /\ p = op /\ d = c)
  <2>1. CASE k = l
    <3>1. queue'[k] = Append(queue[k], F(op, c))
      BY <1>2, <2>1
    <3>2. Waits(batch[k], ran[k], queue'[k], F(p, d))
            <=> Waits(batch[k], ran[k], queue[k], F(p, d)) \/ F(p, d) = F(op, c)
      BY <1>1, <1>2, <3>1, AppendWaits
    <3> QED
      BY <2>1, <3>2, FunctorsDiffer DEF Pending
  <2>2. CASE k # l
    BY <1>2, <2>2 DEF Pending
  <2> QED
    BY <2>1, <2>2
<1>4. ASSUME NEW k \in Loops, Ordered(batch[k], ran[k], queue[k]),
             op = "established" => ~Pending(l, "destroyed", c)
      PROVE  Ordered(batch[k], ran[k], queue[k])'
  <2>1. CASE k = l
    <3>1. ASSUME NEW d \in Conns, F(op, c) = F("established", d)
          PROVE  ~Waits(batch[k], ran[k], queue[k], F("destroyed", d))
      BY <1>4, <2>1, <3>1, FunctorsDiffer DEF Pending, Ops
    <3>2. Ordered(batch[k], ran[k], Append(queue[k], F(op, c)))
      BY <1>1, <1>2, <1>4, <3>1, AppendOrdered
    <3> QED
      BY <1>2, <2>1, <3>2
  <2>2. CASE k # l
    BY <1>2, <1>4, <2>2
  <2> QED
    BY <2>1, <2>2
<1> QED
  BY <1>3, <1>4

\* The next functor of loop l, and what waits and has an order without it.
LEMMA RunPending ==
  ASSUME Types, NEW l \in Loops, ran[l] < Len(batch[l]),
         ran' = [ran EXCEPT ![l] = @ + 1], UNCHANGED <<batch, queue>>
  PROVE  /\ \A k \in Loops, p \in Ops, d \in Conns :
              /\ Pending(k, p, d)' => Pending(k, p, d)
              /\ Pending(k, p, d) =>
                   Pending(k, p, d)' \/ (k = l /\ F(p, d) = batch[l][ran[l] + 1])
         /\ \A k \in Loops : Ordered(batch[k], ran[k], queue[k])
                               => Ordered(batch[k], ran[k], queue[k])'
         /\ \A d \in Conns :
              /\ Ordered(batch[l], ran[l], queue[l])
              /\ batch[l][ran[l] + 1] = F("destroyed", d)
              => ~Pending(l, "established", d)'
<1>1. /\ \A k \in Loops : ran'[k] = IF k = l THEN ran[k] + 1 ELSE ran[k]
      /\ batch[l] \in Seq(Functors) /\ ran[l] \in Nat
  BY DEF Types
<1>2. \A f : /\ Waits(batch[l], ran[l] + 1, queue[l], f)
                  => Waits(batch[l], ran[l], queue[l], f)
             /\ Waits(batch[l], ran[l], queue[l], f)
                  => Waits(batch[l], ran[l] + 1, queue[l], f) \/ f = batch[l][ran[l] + 1]
  BY <1>1, RunWaits
<1>3. Ordered(batch[l], ran[l], queue[l]) =>
        /\ Ordered(batch[l], ran[l] + 1, queue[l])
        /\ \A d \in Conns : batch[l][ran[l] + 1] = F("destroyed", d) =>
             ~Waits(batch[l], ran[l] + 1, queue[l], F("established", d))
  BY <1>1, RunOrdered
<1> QED
  BY <1>1, <1>2, <1>3 DEF Pending

\* Running removeConnectionInLoop takes one functor and queues another.
LEMMA RunQueuedPending ==
  ASSUME Types, NEW l \in Loops, ran[l] < Len(batch[l]),
         NEW m \in Loops, NEW c \in Conns,
         ran' = [ran EXCEPT ![l] = @ + 1], batch' = batch,
         queue' = Queued(m, "destroyed", c)
  PROVE  /\ \A k \in Loops, p \in Ops, d \in Conns :
              /\ Pending(k, p, d)' =>
                   Pending(k, p, d) \/ (k = m /\ p = "destroyed" /\ d = c)
              /\ Pending(k, p, d) =>
                   Pending(k, p, d)' \/ (k = l /\ F(p, d) = batch[l][ran[l] + 1])
         /\ Pending(m, "destroyed", c)'
         /\ \A k \in Loops : Ordered(batch[k], ran[k], queue[k])
                               => Ordered(batch[k], ran[k], queue[k])'
<1> DEFINE g == F("destroyed", c)
<1>1. g \in Functors
  BY FunctorsDiffer DEF Ops
<1>2. \A k \in Loops :
        /\ queue[k] \in Seq(Functors) /\ batch[k] \in Seq(Functors) /\ ran[k] \in Nat
        /\ ran'[k] = IF k = l THEN ran[k] + 1 ELSE ran[k]
        /\ queue'[k] = IF k = m THEN Append(queue[k], g) ELSE queue[k]
  BY DEF Types, Queued
<1>3. \A k \in Loops : \A r, f :
        Waits(batch[k], r, queue'[k], f)
          <=> Waits(batch[k], r, queue[k], f) \/ (k = m /\ f = g)
  BY <1>1, <1>2, AppendWaits
<1>4. \A k \in Loops : \A f :
        /\ Waits(batch[k], ran'[k], queue[k], f) => Waits(batch[k], ran[k], queue[k], f)
        /\ Waits(batch[k], ran[k], queue[k], f) =>
             Waits(batch[k], ran'[k], queue[k], f) \/ (k = l /\ f = batch[l][ran[l] + 1])
  BY <1>2, RunWaits
<1>5. ASSUME NEW k \in Loops, Ordered(batch[k], ran[k], queue[k])
      PROVE  Ordered(batch[k], ran'[k], queue'[k])
  <2>1. Ordered(batch[k], ran'[k], queue[k])
    BY <1>2, <1>5, RunOrdered
  <2>2. \A d \in Conns : g # F("established", d)
    BY FunctorsDiffer DEF Ops
  <2> QED
    BY <1>1, <1>2, <2>1, <2>2, AppendOrdered
<1>6. ASSUME NEW k \in Loops, NEW p \in Ops, NEW d \in Conns
      PROVE  F(p, d) = g => p = "destroyed" /\ d = c
  BY FunctorsDiffer DEF Ops
<1>7. \A k \in Loops, p \in Ops, d \in Conns :
        /\ Pending(k, p, d)' <=> Waits(batch[k], ran'[k], queue'[k], F(p, d))
        /\ Pending(k, p, d) <=> Waits(batch[k], ran[k], queue[k], F(p, d))
  BY DEF Pending
<1>8. Pending(m, "destroyed", c)'
  BY <1>3 DEF Pending
<1> QED
  BY <1>3, <1>4, <1>5, <1>6, <1>7, <1>8

\* The swap, and the end of a batch that has run.
LEMMA SwapPending ==
  ASSUME Types, NEW l \in Loops, batch[l] = <<>>, ran[l] = 0,
         batch' = [batch EXCEPT ![l] = queue[l]], ran' = [ran EXCEPT ![l] = 0],
         queue' = [queue EXCEPT ![l] = <<>>]
  PROVE  \A k \in Loops :
           /\ \A p \in Ops, d \in Conns : Pending(k, p, d)' <=> Pending(k, p, d)
           /\ Ordered(batch[k], ran[k], queue[k])
                => Ordered(batch[k], ran[k], queue[k])'
<1>1. \A k \in Loops :
        IF k = l THEN batch'[k] = queue[k] /\ ran'[k] = 0 /\ queue'[k] = <<>>
                 ELSE batch'[k] = batch[k] /\ ran'[k] = ran[k] /\ queue'[k] = queue[k]
  BY DEF Types
<1>2. queue[l] \in Seq(Functors)
  BY DEF Types
<1> QED
  BY <1>1, <1>2, SwapWaits DEF Pending

\* The end of a batch, whatever becomes of the queue, adds no functor.
LEMMA EndPending ==
  ASSUME Types, NEW l \in Loops, ran[l] = Len(batch[l]),
         batch' = [batch EXCEPT ![l] = <<>>], ran' = [ran EXCEPT ![l] = 0],
         queue' = [queue EXCEPT ![l] = <<>>] \/ queue' = queue
  PROVE  \A k \in Loops :
           /\ \A p \in Ops, d \in Conns :
                /\ Pending(k, p, d)' => Pending(k, p, d)
                /\ Pending(k, p, d) /\ (k # l \/ queue' = queue) => Pending(k, p, d)'
           /\ Ordered(batch[k], ran[k], queue[k])
                => Ordered(batch[k], ran[k], queue[k])'
<1>1. \A k \in Loops :
        IF k = l THEN batch'[k] = <<>> /\ ran'[k] = 0 /\ queue'[k] \in {<<>>, queue[k]}
                 ELSE batch'[k] = batch[k] /\ ran'[k] = ran[k] /\ queue'[k] = queue[k]
  BY DEF Types
<1>2. batch[l] \in Seq(Functors)
  BY DEF Types
<1>3. \A f : /\ Waits(<<>>, 0, queue[l], f) <=> Waits(batch[l], ran[l], queue[l], f)
             /\ ~Waits(<<>>, 0, <<>>, f)
  BY <1>2, EndWaits
<1>4. Ordered(batch[l], ran[l], queue[l]) => Ordered(<<>>, 0, queue[l])
  BY <1>2, EndWaits
<1>5. Ordered(<<>>, 0, <<>>)
  BY <1>2, EndWaits
<1> SUFFICES ASSUME NEW k \in Loops
             PROVE  /\ \A p \in Ops, d \in Conns :
                         /\ Pending(k, p, d)' => Pending(k, p, d)
                         /\ Pending(k, p, d) /\ (k # l \/ queue' = queue)
                              => Pending(k, p, d)'
                    /\ Ordered(batch[k], ran[k], queue[k])
                         => Ordered(batch[k], ran[k], queue[k])'
  OBVIOUS
<1>6. CASE k # l
  BY <1>1, <1>6 DEF Pending
<1>7. CASE k = l /\ queue'[l] = queue[l]
  BY <1>1, <1>3, <1>4, <1>7 DEF Pending
<1>8. CASE k = l /\ queue'[l] = <<>> /\ queue' # queue
  BY <1>1, <1>3, <1>5, <1>8 DEF Pending
<1> QED
  BY <1>1, <1>6, <1>7, <1>8

-----------------------------------------------------------------------------
(* The owners and the user.                                                *)

Rest == Queues /\ Owned /\ Told

\* The two callbacks of a connection, in their order.
LEMMA UpAndDown ==
  /\ Append(<<>>, "up") = <<"up">>
  /\ Append(<<"up">>, "down") = <<"up", "down">>
<1> DEFINE S == {"up", "down"}
<1>1. Append(<<>>, "up") = <<"up">>
  <2>1. Append(<<>>, "up") \in Seq(S) /\ <<"up">> \in Seq(S)
    OBVIOUS
  <2>2. Len(Append(<<>>, "up")) = 1 /\ Len(<<"up">>) = 1
    OBVIOUS
  <2>3. \A i \in 1 .. 1 : Append(<<>>, "up")[i] = <<"up">>[i]
    OBVIOUS
  <2> HIDE DEF S
  <2> QED
    BY <2>1, <2>2, <2>3, SeqEqual
<1>2. Append(<<"up">>, "down") = <<"up", "down">>
  <2>1. Append(<<"up">>, "down") \in Seq(S) /\ <<"up", "down">> \in Seq(S)
    OBVIOUS
  <2>2. Len(Append(<<"up">>, "down")) = 2 /\ Len(<<"up", "down">>) = 2
    OBVIOUS
  <2>3. \A i \in 1 .. 2 : Append(<<"up">>, "down")[i] = <<"up", "down">>[i]
    OBVIOUS
  <2> HIDE DEF S
  <2> QED
    BY <2>1, <2>2, <2>3, SeqEqual
<1> QED
  BY <1>1, <1>2

\* A loop that does not begin or end to run functors, and does not come back.
LEMMA RestFrame ==
  ASSUME Machine, Rest, UNCHANGED <<connVars, serverVars, queue, batch, ran>>,
         \A l \in Loops : /\ pc'[l] = "functors" <=> pc[l] = "functors"
                          /\ pc[l] = "gone" => pc'[l] = "gone"
  PROVE  Rest'
<1>1. /\ Accepted' = Accepted /\ loopOf' = loopOf /\ index_' = index_
      /\ state_' = state_ /\ told' = told /\ connections_' = connections_
  BY DEF Accepted, connVars, serverVars
<1>2. \A k, p, d : Pending(k, p, d)' <=> Pending(k, p, d)
  BY DEF Pending
<1>3. Queues'
  BY <1>1, <1>2 DEF Rest, Queues
<1>4. \A c \in Accepted : loopOf[c] \in Loops
  BY AcceptedInConns DEF Machine, Types
<1>5. Owned'
  BY <1>1, <1>2, <1>4 DEF Rest, Owned
<1>6. Told'
  BY <1>1 DEF Rest, Told
<1> QED
  BY <1>3, <1>5, <1>6 DEF Rest

\* newConnection.
LEMMA NewConnectionRest ==
  ASSUME Machine, Rest, NewConnection
  PROVE  Rest'
<1> DEFINE c == nextConnId_
           l == NextLoop
<1> USE Numbers
<1>1. /\ backlog > 0 /\ pc[Base] = "events"
      /\ UNCHANGED <<pc, batch, ran>>
      /\ loopOf' = [loopOf EXCEPT ![c] = l]
      /\ connections_' = connections_ \union {c}
      /\ nextConnId_' = c + 1
  BY DEF NewConnection, AtListener, Accept, DoneWithListener, Machine, Clients
<1>2. /\ c \in Conns /\ c \notin Accepted /\ l \in Loops
      /\ Accepted' = Accepted \union {c}
  <2>1. c \in Nat \ {0} /\ c <= MaxClients
    BY <1>1 DEF Machine, Types, Clients
  <2>2. Accepted = 1 .. c - 1 /\ Accepted' = 1 .. c
    BY <1>1, <2>1 DEF Accepted
  <2>3. l \in Loops
    BY DEF Machine, Types, NextLoop
  <2> QED
    BY <2>1, <2>2, <2>3
<1>3. \A d \in Accepted : /\ d # c /\ d \in Conns
                          /\ loopOf'[d] = loopOf[d] /\ loopOf[d] \in Loops
  BY <1>1, <1>2, AcceptedInConns DEF Machine, Types
<1>4. loopOf'[c] = l
  BY <1>1, <1>2 DEF Machine, Types
<1>5. \A k \in Loops, p \in Ops : ~Pending(k, p, c)
  BY <1>2 DEF Rest, Queues, Ops
<1>6. CASE l = Base
  <2>1. /\ queue' = queue /\ ConnectEstablished(c)
    BY <1>6 DEF NewConnection
  <2>2. \A k, p, d : Pending(k, p, d)' <=> Pending(k, p, d)
    BY <1>1, <2>1 DEF Pending
  <2>3. Queues'
    <3>1. \A k \in Loops : Ordered(batch[k], ran[k], queue[k])'
      BY <1>1, <2>1 DEF Rest, Queues
    <3>2. \A k \in Loops : ran'[k] <= Len(batch'[k])
                           /\ (pc'[k] # "functors" => batch'[k] = <<>> /\ ran'[k] = 0)
      BY <1>1 DEF Rest, Queues
    <3> QED
      BY <1>2, <1>3, <2>2, <3>1, <3>2 DEF Rest, Queues
  <2>4. Owned'
    BY <1>1, <1>2, <1>3, <2>1, <2>2 DEF Rest, Owned, ConnectEstablished, Machine, Types
  <2>5. Told'
    <3>1. state_'[c] = "kConnected" /\ told'[c] = Append(told[c], "up")
      BY <1>2, <2>1 DEF ConnectEstablished, Machine, Types
    <3>2. \A d \in Conns : d # c => /\ state_'[d] = state_[d] /\ told'[d] = told[d]
                                    /\ index_'[d] = index_[d]
      BY <1>2, <2>1 DEF ConnectEstablished, Machine, Types
    <3>3. told'[c] = <<"up">>
      BY <1>2, <3>1, UpAndDown DEF Rest, Told
    <3> QED
      BY <1>1, <1>2, <1>3, <3>1, <3>2, <3>3 DEF Rest, Told
  <2> QED
    BY <2>3, <2>4, <2>5 DEF Rest
<1>7. CASE l # Base
  <2>1. /\ queue' = Queued(l, "established", c)
        /\ index_' = index_ /\ state_' = state_ /\ told' = told
    BY <1>7 DEF NewConnection, connVars
  <2>2. /\ \A k \in Loops, p \in Ops, d \in Conns :
             Pending(k, p, d)' <=> Pending(k, p, d) \/ (k = l /\ p = "established" /\ d = c)
        /\ \A k \in Loops :
             Ordered(batch[k], ran[k], queue[k]) => Ordered(batch[k], ran[k], queue[k])'
    <3>1. "established" \in Ops /\ "destroyed" \in Ops
      BY DEF Ops
    <3> QED
      BY <1>1, <1>2, <1>5, <2>1, <3>1, QueuedPending DEF Machine
  <2>3. Queues'
    <3>1. \A k \in Loops : Ordered(batch[k], ran[k], queue[k])'
      BY <2>2 DEF Rest, Queues
    <3>2. \A k \in Loops : ran'[k] <= Len(batch'[k])
                           /\ (pc'[k] # "functors" => batch'[k] = <<>> /\ ran'[k] = 0)
      BY <1>1 DEF Rest, Queues
    <3> QED
      BY <1>2, <1>3, <1>4, <1>7, <2>2, <3>1, <3>2 DEF Rest, Queues, Ops
  <2>4. Owned'
    BY <1>1, <1>2, <1>3, <2>1, <2>2 DEF Rest, Owned, Ops
  <2>5. Told'
    BY <1>1, <1>2, <1>3, <1>4, <1>7, <2>1 DEF Rest, Told
  <2> QED
    BY <2>3, <2>4, <2>5 DEF Rest
<1> QED
  BY <1>6, <1>7

\* handleClose, on the loop of the connection.
LEMMA HandleCloseRest ==
  ASSUME Machine, Rest, NEW l \in Loops, NEW c \in Conns, HandleClose(l, c)
  PROVE  Rest'
<1> USE Numbers
<1>1. /\ c \in Accepted /\ loopOf[c] = l /\ pc[l] = "events" /\ index_[c] = "kAdded"
      /\ UNCHANGED <<pc, batch, ran, loopOf>> /\ Accepted' = Accepted
  BY DEF HandleClose, At, Machine, Walked, Accepted
<1>2. /\ state_' = [state_ EXCEPT ![c] = "kDisconnected"]
      /\ index_' = [index_ EXCEPT ![c] = "kDeleted"]
      /\ told' = [told EXCEPT ![c] = Append(@, "down")]
  BY DEF HandleClose
<1>3. \A d \in Accepted : d \in Conns /\ loopOf[d] \in Loops
  BY AcceptedInConns DEF Machine, Types
<1>4. \A d \in Conns : d # c => /\ state_'[d] = state_[d] /\ told'[d] = told[d]
                                /\ index_'[d] = index_[d]
  BY <1>2 DEF Machine, Types
<1>5. /\ state_'[c] = "kDisconnected" /\ index_'[c] = "kDeleted"
      /\ told'[c] = Append(told[c], "down")
  BY <1>2 DEF Machine, Types
<1>6. loopOf[c] = Base => told'[c] = <<"up", "down">>
  <2>1. loopOf[c] = Base => told[c] = <<"up">>
    BY <1>1 DEF Rest, Told
  <2>2. Append(<<"up">>, "down") = <<"up", "down">>
    BY UpAndDown
  <2> QED
    BY <1>5, <2>1, <2>2
<1>7. Ops = {"established", "remove", "destroyed"}
  BY DEF Ops
<1>8. CASE l = Base
  <2>1. connections_' = connections_ \ {c} /\ queue' = Queued(l, "destroyed", c)
    BY <1>1, <1>8 DEF HandleClose, Removed
  <2>2. /\ \A k \in Loops, p \in Ops, d \in Conns :
             Pending(k, p, d)' <=> Pending(k, p, d) \/ (k = l /\ p = "destroyed" /\ d = c)
        /\ \A k \in Loops :
             Ordered(batch[k], ran[k], queue[k]) => Ordered(batch[k], ran[k], queue[k])'
    <3>1. Types /\ "destroyed" \in Ops /\ "destroyed" # "established"
      BY <1>7 DEF Machine
    <3>2. queue' = Queued(l, "destroyed", c) /\ UNCHANGED <<batch, ran>>
      BY <1>1, <2>1
    <3> QED
      BY <3>1, <3>2, QueuedPending
  <2>3. Queues'
    <3>1. \A k \in Loops : Ordered(batch[k], ran[k], queue[k])'
      BY <2>2 DEF Rest, Queues
    <3>2. \A k \in Loops : ran'[k] <= Len(batch'[k])
                           /\ (pc'[k] # "functors" => batch'[k] = <<>> /\ ran'[k] = 0)
      BY <1>1 DEF Rest, Queues
    <3> QED
      BY <1>1, <1>7, <2>2, <3>1, <3>2 DEF Rest, Queues
  <2>4. Owned'
    BY <1>1, <1>3, <1>4, <1>7, <2>1, <2>2 DEF Rest, Owned
  <2>5. Told'
    BY <1>1, <1>3, <1>4, <1>5, <1>6, <2>1 DEF Rest, Told
  <2> QED
    BY <2>3, <2>4, <2>5 DEF Rest
<1>9. CASE l # Base
  <2>1. connections_' = connections_ /\ queue' = Queued(Base, "remove", c)
    BY <1>9 DEF HandleClose
  <2>2. /\ \A k \in Loops, p \in Ops, d \in Conns :
             Pending(k, p, d)' <=> Pending(k, p, d) \/ (k = Base /\ p = "remove" /\ d = c)
        /\ \A k \in Loops :
             Ordered(batch[k], ran[k], queue[k]) => Ordered(batch[k], ran[k], queue[k])'
    <3>1. Types /\ Base \in Loops /\ "remove" \in Ops /\ "remove" # "established"
      BY <1>7 DEF Machine
    <3> QED
      BY <1>1, <2>1, <3>1, QueuedPending
  <2>3. Queues'
    <3>1. \A k \in Loops : Ordered(batch[k], ran[k], queue[k])'
      BY <2>2 DEF Rest, Queues
    <3>2. \A k \in Loops : ran'[k] <= Len(batch'[k])
                           /\ (pc'[k] # "functors" => batch'[k] = <<>> /\ ran'[k] = 0)
      BY <1>1 DEF Rest, Queues
    <3> QED
      BY <1>1, <1>7, <1>9, <2>2, <3>1, <3>2 DEF Rest, Queues
  <2>4. Owned'
    BY <1>1, <1>3, <1>4, <1>7, <2>1, <2>2 DEF Rest, Owned
  <2>5. Told'
    BY <1>1, <1>3, <1>4, <1>5, <1>6, <1>9, <2>1 DEF Rest, Told
  <2> QED
    BY <2>3, <2>4, <2>5 DEF Rest
<1> QED
  BY <1>8, <1>9

\* A loop runs the next functor of its batch.
LEMMA RunFunctorRest ==
  ASSUME Machine, Rest, NEW l \in Loops, RunFunctor(l)
  PROVE  Rest'
<1> USE Numbers
<1>a. PICK f, c : f = batch[l][ran[l] + 1] /\ c = f.conn
  OBVIOUS
<1>1. /\ pc[l] = "functors" /\ ran[l] < Len(batch[l])
      /\ ran' = [ran EXCEPT ![l] = @ + 1]
      /\ UNCHANGED <<nextConnId_, loopOf, pc, batch>>
  BY DEF RunFunctor, At
<1>2. f \in Functors /\ c \in Conns /\ Pending(l, f.op, c) /\ f = F(f.op, c)
      /\ f.op \in Ops
  BY <1>1, <1>a, HeadOfQueue, FunctorForm DEF Machine
<1>3. c \in Accepted /\ Accepted' = Accepted
  BY <1>1, <1>2 DEF Rest, Queues, Accepted, Ops
<1>4. \A d \in Accepted : d \in Conns /\ loopOf[d] \in Loops
  BY AcceptedInConns DEF Machine, Types
<1>5. Ops = {"established", "remove", "destroyed"}
  BY DEF Ops
<1>6. \A p \in Ops, d \in Conns : F(p, d) = f => p = f.op /\ d = c
  BY <1>2, FunctorsDiffer
<1>7. \A k \in Loops : ran'[k] <= Len(batch'[k])
                       /\ (pc'[k] # "functors" => batch'[k] = <<>> /\ ran'[k] = 0)
  <2>1. \A k \in Loops : /\ ran'[k] = IF k = l THEN ran[k] + 1 ELSE ran[k]
                         /\ ran[k] \in Nat /\ Len(batch[k]) \in Nat
    BY <1>1 DEF Machine, Types
  <2> QED
    BY <1>1, <2>1 DEF Rest, Queues
<1>8. CASE f.op = "remove"
  <2>1. /\ queue' = Queued(loopOf[c], "destroyed", c)
        /\ connections_' = connections_ \ {c}
        /\ state_' = state_ /\ index_' = index_ /\ told' = told
    BY <1>a, <1>8 DEF RunFunctor, RemoveConnectionInLoop, Removed, connVars
  <2>2. /\ \A k \in Loops, p \in Ops, d \in Conns :
             /\ Pending(k, p, d)' =>
                  Pending(k, p, d) \/ (k = loopOf[c] /\ p = "destroyed" /\ d = c)
             /\ Pending(k, p, d) => Pending(k, p, d)' \/ (k = l /\ F(p, d) = f)
        /\ Pending(loopOf[c], "destroyed", c)'
        /\ \A k \in Loops : Ordered(batch[k], ran[k], queue[k])
                              => Ordered(batch[k], ran[k], queue[k])'
    <3>1. loopOf[c] \in Loops /\ loopOf' = loopOf /\ Types
      BY <1>1, <1>3, <1>4 DEF Machine
    <3>2. PICK m \in Loops : m = loopOf[c]
      BY <3>1
    <3>a. queue' = Queued(m, "destroyed", c) /\ batch' = batch /\ c \in Conns
          /\ ran' = [ran EXCEPT ![l] = @ + 1] /\ ran[l] < Len(batch[l])
      BY <1>1, <1>2, <2>1, <3>2 DEF Queued
    <3>3. /\ \A k \in Loops, p \in Ops, d \in Conns :
               /\ Pending(k, p, d)' =>
                    Pending(k, p, d) \/ (k = m /\ p = "destroyed" /\ d = c)
               /\ Pending(k, p, d) =>
                    Pending(k, p, d)' \/ (k = l /\ F(p, d) = batch[l][ran[l] + 1])
          /\ Pending(m, "destroyed", c)'
          /\ \A k \in Loops : Ordered(batch[k], ran[k], queue[k])
                                => Ordered(batch[k], ran[k], queue[k])'
      BY <3>a, <3>1, RunQueuedPending
    <3> QED
      BY <1>a, <3>1, <3>2, <3>3
  <2>3. Queues'
    <3>1. \A k \in Loops : Ordered(batch[k], ran[k], queue[k])'
      BY <2>2 DEF Rest, Queues
    <3> QED
      BY <1>1, <1>3, <1>5, <1>7, <2>2, <3>1 DEF Rest, Queues
  <2>4. Owned'
    <3>1. \A d \in Accepted :
            Pending(loopOf[d], "destroyed", d) => Pending(loopOf[d], "destroyed", d)'
      BY <1>1, <1>4, <1>5, <1>6, <1>8, <2>2
    <3>2. \A d \in Accepted :
            Pending(loopOf[d], "established", d)' => Pending(loopOf[d], "established", d)
      BY <1>1, <1>4, <1>5, <2>2
    <3> QED
      BY <1>1, <1>3, <2>1, <2>2, <3>1, <3>2 DEF Rest, Owned
  <2>5. Told'
    <3>1. loopOf[c] # Base
      <4>1. c \in Conns /\ Pending(l, "remove", c)
        BY <1>2, <1>8
      <4>2. \A d \in Conns : Pending(l, "remove", d) => loopOf[d] # Base
        BY DEF Rest, Queues
      <4> QED
        BY <4>1, <4>2
    <3> QED
      BY <1>1, <1>3, <2>1, <3>1 DEF Rest, Told
  <2> QED
    BY <2>3, <2>4, <2>5 DEF Rest
<1>9. CASE f.op # "remove"
  <2>1. /\ queue' = queue /\ connections_' = connections_
        /\ \/ f.op = "established" /\ ConnectEstablished(c)
           \/ f.op = "destroyed" /\ ConnectDestroyed(c)
        /\ loopOf[c] = l
        /\ f.op = "established" => l # Base
    BY <1>2, <1>a, <1>9 DEF RunFunctor, Rest, Queues
  <2>2. /\ \A k \in Loops, p \in Ops, d \in Conns :
             /\ Pending(k, p, d)' => Pending(k, p, d)
             /\ Pending(k, p, d) => Pending(k, p, d)' \/ (k = l /\ F(p, d) = f)
        /\ \A k \in Loops : Ordered(batch[k], ran[k], queue[k])
                              => Ordered(batch[k], ran[k], queue[k])'
        /\ f = F("destroyed", c) => ~Pending(l, "established", c)'
    <3>1. Ordered(batch[l], ran[l], queue[l]) /\ Types
      BY DEF Rest, Queues, Machine
    <3>2. /\ \A k \in Loops, p \in Ops, d \in Conns :
               /\ Pending(k, p, d)' => Pending(k, p, d)
               /\ Pending(k, p, d) =>
                    Pending(k, p, d)' \/ (k = l /\ F(p, d) = batch[l][ran[l] + 1])
          /\ \A k \in Loops : Ordered(batch[k], ran[k], queue[k])
                                => Ordered(batch[k], ran[k], queue[k])'
          /\ \A d \in Conns :
               /\ Ordered(batch[l], ran[l], queue[l])
               /\ batch[l][ran[l] + 1] = F("destroyed", d)
               => ~Pending(l, "established", d)'
      BY <1>1, <2>1, <3>1, RunPending
    <3> QED
      BY <1>2, <1>a, <3>1, <3>2
  <2>3. Queues'
    <3>1. \A k \in Loops : Ordered(batch[k], ran[k], queue[k])'
      BY <2>2 DEF Rest, Queues
    <3> QED
      BY <1>1, <1>3, <1>5, <1>7, <2>2, <3>1 DEF Rest, Queues
  <2>4. \A d \in Conns : d # c => /\ state_'[d] = state_[d] /\ told'[d] = told[d]
                                  /\ index_'[d] = index_[d]
    BY <1>2, <2>1 DEF ConnectEstablished, ConnectDestroyed, Machine, Types
  <2>5. Owned'
    <3> SUFFICES ASSUME NEW d \in Accepted
                 PROVE  \/ pc[loopOf[d]] = "gone"
                        \/ index_'[d] = "kNew" /\ ~Pending(loopOf[d], "established", d)'
                        \/ d \in connections_
                        \/ Pending(loopOf[d], "destroyed", d)'
      BY <1>1, <1>3, <2>1 DEF Rest, Owned
    <3>1. CASE d # c
      <4>1. /\ Pending(loopOf[d], "destroyed", d) => Pending(loopOf[d], "destroyed", d)'
            /\ Pending(loopOf[d], "established", d)' => Pending(loopOf[d], "established", d)
        BY <1>1, <1>4, <1>5, <1>6, <2>2, <3>1
      <4> QED
        BY <1>4, <2>4, <3>1, <4>1 DEF Rest, Owned
    <3>2. CASE d = c /\ f.op = "established"
      <4>1. Pending(l, "destroyed", c) => Pending(l, "destroyed", c)'
        BY <1>2, <1>5, <1>6, <2>2, <3>2
      <4>2. \/ pc[l] = "gone" \/ c \in connections_ \/ Pending(l, "destroyed", c)
        BY <1>2, <1>3, <2>1, <3>2 DEF Rest, Owned
      <4> QED
        BY <1>1, <2>1, <3>2, <4>1, <4>2
    <3>3. CASE d = c /\ f.op = "destroyed"
      <4>1. index_'[c] = "kNew"
        BY <1>2, <2>1, <3>3 DEF ConnectDestroyed, IndexAfterDestroyed, Machine, Types
      <4> QED
        BY <1>1, <1>2, <2>1, <2>2, <3>3, <4>1
    <3> QED
      BY <2>1, <3>1, <3>2, <3>3
  <2>6. Told'
    <3>1. CASE f.op = "established"
      BY <1>1, <1>3, <1>4, <2>1, <2>4, <3>1 DEF Rest, Told
    <3>2. CASE f.op = "destroyed"
      <4>1. /\ index_'[c] = "kNew"
            /\ state_'[c] = IF state_[c] = "kConnected" THEN "kDisconnected" ELSE state_[c]
            /\ told'[c] = IF state_[c] = "kConnected" THEN Append(told[c], "down")
                          ELSE told[c]
        BY <1>2, <2>1, <3>2
           DEF ConnectDestroyed, IndexAfterDestroyed, TellsDown, Machine, Types
      <4>2. loopOf[c] = Base =>
              /\ state_'[c] # "kConnected"
              /\ state_'[c] = "kDisconnecting" => told'[c] = <<"up">>
              /\ state_'[c] # "kDisconnecting" => told'[c] = <<"up", "down">>
        BY <1>3, <4>1, UpAndDown DEF Rest, Told
      <4> QED
        BY <1>1, <1>3, <1>4, <2>1, <2>4, <4>1, <4>2 DEF Rest, Told
    <3> QED
      BY <2>1, <3>1, <3>2
  <2> QED
    BY <2>3, <2>5, <2>6 DEF Rest
<1> QED
  BY <1>8, <1>9

\* doPendingFunctors swaps the queue for an empty one.
LEMMA TakeFunctorsRest ==
  ASSUME Machine, Rest, NEW l \in Loops, TakeFunctors(l)
  PROVE  Rest'
<1>1. /\ pc[l] = "events" /\ pc' = [pc EXCEPT ![l] = "functors"]
      /\ batch' = [batch EXCEPT ![l] = queue[l]]
      /\ ran' = [ran EXCEPT ![l] = 0]
      /\ queue' = [queue EXCEPT ![l] = <<>>]
      /\ UNCHANGED <<connVars, serverVars>>
  BY DEF TakeFunctors, At
<1>2. /\ Accepted' = Accepted /\ loopOf' = loopOf /\ index_' = index_
      /\ state_' = state_ /\ told' = told /\ connections_' = connections_
  BY <1>1 DEF Accepted, connVars, serverVars
<1>3. \A k \in Loops :
        /\ \A p \in Ops, d \in Conns : Pending(k, p, d)' <=> Pending(k, p, d)
        /\ Ordered(batch[k], ran[k], queue[k]) => Ordered(batch[k], ran[k], queue[k])'
  <2>1. batch[l] = <<>> /\ ran[l] = 0
    BY <1>1 DEF Rest, Queues
  <2> QED
    BY <1>1, <2>1, SwapPending DEF Machine
<1>4. \A k \in Loops : ran'[k] <= Len(batch'[k])
                       /\ (pc'[k] # "functors" => batch'[k] = <<>> /\ ran'[k] = 0)
  <2>1. \A k \in Loops :
          IF k = l THEN pc'[k] = "functors" /\ ran'[k] = 0 /\ batch'[k] = queue[k]
          ELSE pc'[k] = pc[k] /\ ran'[k] = ran[k] /\ batch'[k] = batch[k]
    BY <1>1 DEF Machine, Types
  <2>2. Len(queue[l]) \in Nat
    BY DEF Machine, Types
  <2> QED
    BY <2>1, <2>2 DEF Rest, Queues
<1>5. Queues'
  <2>1. \A k \in Loops : Ordered(batch[k], ran[k], queue[k])'
    BY <1>3 DEF Rest, Queues
  <2> QED
    BY <1>2, <1>3, <1>4, <2>1 DEF Rest, Queues, Ops
<1>6. Owned'
  <2>1. \A d \in Accepted : d \in Conns /\ loopOf[d] \in Loops
    BY AcceptedInConns DEF Machine, Types
  <2>2. \A k \in Loops : pc[k] = "gone" => pc'[k] = "gone"
    BY <1>1 DEF Machine, Types
  <2> QED
    BY <1>2, <1>3, <2>1, <2>2 DEF Rest, Owned, Ops
<1>7. Told'
  BY <1>2 DEF Rest, Told
<1> QED
  BY <1>5, <1>6, <1>7 DEF Rest

\* doPendingFunctors is done with its batch.
LEMMA EndOfFunctorsRest ==
  ASSUME Machine, Rest, NEW l \in Loops, EndOfFunctors(l)
  PROVE  Rest'
<1>1. /\ pc[l] = "functors" /\ ran[l] = Len(batch[l])
      /\ batch' = [batch EXCEPT ![l] = <<>>]
      /\ ran' = [ran EXCEPT ![l] = 0]
      /\ UNCHANGED <<connVars, serverVars>>
      /\ queue' = [queue EXCEPT ![l] = <<>>] \/ queue' = queue
  BY DEF EndOfFunctors, At
<1>2. /\ Accepted' = Accepted /\ loopOf' = loopOf /\ index_' = index_
      /\ state_' = state_ /\ told' = told /\ connections_' = connections_
  BY <1>1 DEF Accepted, connVars, serverVars
<1>3. \A k \in Loops :
        /\ \A p \in Ops, d \in Conns :
             /\ Pending(k, p, d)' => Pending(k, p, d)
             /\ Pending(k, p, d) /\ (k # l \/ queue' = queue) => Pending(k, p, d)'
        /\ Ordered(batch[k], ran[k], queue[k]) => Ordered(batch[k], ran[k], queue[k])'
  BY <1>1, EndPending DEF Machine
<1>4. \A k \in Loops :
        IF k = l THEN pc'[k] \in {"poll", "out", "gone"} /\ ran'[k] = 0 /\ batch'[k] = <<>>
        ELSE pc'[k] = pc[k] /\ ran'[k] = ran[k] /\ batch'[k] = batch[k]
  BY <1>1 DEF EndOfFunctors, Machine, Types
<1>5. pc'[l] # "gone" => queue' = queue
  BY DEF EndOfFunctors, Machine, Types
<1>6. Queues'
  <2>1. \A k \in Loops : Ordered(batch[k], ran[k], queue[k])'
    BY <1>3 DEF Rest, Queues
  <2>2. \A k \in Loops : ran'[k] <= Len(batch'[k])
                         /\ (pc'[k] # "functors" => batch'[k] = <<>> /\ ran'[k] = 0)
    BY <1>4 DEF Rest, Queues
  <2> QED
    BY <1>2, <1>3, <2>1, <2>2 DEF Rest, Queues, Ops
<1>7. Owned'
  <2>1. \A d \in Accepted : d \in Conns /\ loopOf[d] \in Loops
    BY AcceptedInConns DEF Machine, Types
  <2> QED
    BY <1>1, <1>2, <1>3, <1>4, <1>5, <2>1 DEF Rest, Owned, Ops
<1>8. Told'
  BY <1>2 DEF Rest, Told
<1> QED
  BY <1>6, <1>7, <1>8 DEF Rest

\* ~TcpServer ends one connection.
LEMMA DestroyConnectionRest ==
  ASSUME Machine, Rest, NEW c \in Conns, DestroyConnection(c)
  PROVE  Rest'
<1> USE Numbers
<1>1. /\ UNCHANGED <<nextConnId_, loopOf, pc, batch, ran>>
      /\ Accepted' = Accepted
      /\ connections_' = connections_ \ {c}
      /\ loopOf[c] \in Loops
  BY DEF DestroyConnection, loopVars, Accepted, Machine, Types
<1>2. \A d \in Accepted : d \in Conns /\ loopOf[d] \in Loops
  BY AcceptedInConns DEF Machine, Types
<1>3. Ops = {"established", "remove", "destroyed"}
  BY DEF Ops
<1>4. \A k \in Loops : ran'[k] <= Len(batch'[k])
                       /\ (pc'[k] # "functors" => batch'[k] = <<>> /\ ran'[k] = 0)
  BY <1>1 DEF Rest, Queues
<1>5. CASE loopOf[c] = Base
  <2>1. ConnectDestroyed(c) /\ queue' = queue
    BY <1>5 DEF DestroyConnection, RunsHere
  <2>2. \A k, p, d : Pending(k, p, d)' <=> Pending(k, p, d)
    BY <1>1, <2>1 DEF Pending
  <2>3. /\ index_'[c] = "kNew"
        /\ state_'[c] = IF state_[c] = "kConnected" THEN "kDisconnected" ELSE state_[c]
        /\ told'[c] = IF state_[c] = "kConnected" THEN Append(told[c], "down")
                      ELSE told[c]
        /\ \A d \in Conns : d # c => /\ state_'[d] = state_[d] /\ told'[d] = told[d]
                                     /\ index_'[d] = index_[d]
    BY <2>1 DEF ConnectDestroyed, IndexAfterDestroyed, TellsDown, Machine, Types
  <2>4. Queues'
    BY <1>1, <1>4, <2>1, <2>2 DEF Rest, Queues
  <2>5. Owned'
    <3>1. ~Pending(Base, "established", c)
      BY DEF Rest, Queues
    <3> QED
      BY <1>1, <1>2, <1>5, <2>2, <2>3, <3>1 DEF Rest, Owned
  <2>6. Told'
    <3>1. c \in Accepted
      BY DEF DestroyConnection, Rest, Owned
    <3>2. /\ state_'[c] # "kConnected"
          /\ state_'[c] = "kDisconnecting" => told'[c] = <<"up">>
          /\ state_'[c] # "kDisconnecting" => told'[c] = <<"up", "down">>
      BY <1>5, <2>3, <3>1, UpAndDown DEF Rest, Told
    <3> QED
      BY <1>1, <1>2, <1>5, <2>3, <3>1, <3>2 DEF Rest, Told
  <2> QED
    BY <2>4, <2>5, <2>6 DEF Rest
<1>6. CASE loopOf[c] # Base
  <2>1. /\ queue' = Queued(loopOf[c], "destroyed", c)
        /\ state_' = state_ /\ index_' = index_ /\ told' = told
    BY <1>6 DEF DestroyConnection, RunsHere, connVars
  <2>2. /\ \A k \in Loops, p \in Ops, d \in Conns :
             Pending(k, p, d)' <=>
               Pending(k, p, d) \/ (k = loopOf[c] /\ p = "destroyed" /\ d = c)
        /\ \A k \in Loops :
             Ordered(batch[k], ran[k], queue[k]) => Ordered(batch[k], ran[k], queue[k])'
    <3>1. Types /\ "destroyed" \in Ops /\ "destroyed" # "established"
      BY <1>3 DEF Machine
    <3> QED
      BY <1>1, <2>1, <3>1, QueuedPending
  <2>3. Queues'
    <3>1. \A k \in Loops : Ordered(batch[k], ran[k], queue[k])'
      BY <2>2 DEF Rest, Queues
    <3>2. c \in Accepted
      BY DEF DestroyConnection, Rest, Owned
    <3> QED
      BY <1>1, <1>3, <1>4, <2>2, <3>1, <3>2 DEF Rest, Queues
  <2>4. Owned'
    BY <1>1, <1>2, <1>3, <2>1, <2>2 DEF Rest, Owned
  <2>5. Told'
    BY <1>1, <1>6, <2>1 DEF Rest, Told
  <2> QED
    BY <2>3, <2>4, <2>5 DEF Rest
<1> QED
  BY <1>5, <1>6

\* The base loop is destroyed with what is still queued on it.
LEMMA DestroyBaseLoopRest ==
  ASSUME Machine, Rest, DestroyBaseLoop
  PROVE  Rest'
<1> USE Numbers
<1>1. /\ pc[Base] = "out" /\ pc' = [pc EXCEPT ![Base] = "gone"]
      /\ queue' = [queue EXCEPT ![Base] = <<>>]
      /\ UNCHANGED <<connVars, serverVars, batch, ran>>
  BY DEF DestroyBaseLoop
<1>2. /\ Accepted' = Accepted /\ loopOf' = loopOf /\ index_' = index_
      /\ state_' = state_ /\ told' = told /\ connections_' = connections_
  BY <1>1 DEF Accepted, connVars, serverVars
<1>3. batch[Base] = <<>> /\ ran[Base] = 0
  BY <1>1 DEF Rest, Queues
<1>4. \A k \in Loops :
        IF k = Base THEN pc'[k] = "gone" /\ queue'[k] = <<>>
        ELSE pc'[k] = pc[k] /\ queue'[k] = queue[k]
  BY <1>1 DEF Machine, Types
<1>5. Ordered(<<>>, 0, <<>>) /\ \A f : ~Waits(<<>>, 0, <<>>, f)
  <2>1. <<>> \in Seq(Functors) /\ Len(<<>>) = 0
    OBVIOUS
  <2> QED
    BY <2>1, EndWaits
<1>6. \A k \in Loops :
        /\ \A p \in Ops, d \in Conns :
             IF k = Base THEN ~Pending(k, p, d)'
             ELSE Pending(k, p, d)' <=> Pending(k, p, d)
        /\ Ordered(batch[k], ran[k], queue[k]) => Ordered(batch[k], ran[k], queue[k])'
  BY <1>1, <1>3, <1>4, <1>5 DEF Pending
<1>7. Queues'
  <2>1. \A k \in Loops : Ordered(batch[k], ran[k], queue[k])'
    BY <1>6 DEF Rest, Queues
  <2>2. \A k \in Loops : ran'[k] <= Len(batch'[k])
                         /\ (pc'[k] # "functors" => batch'[k] = <<>> /\ ran'[k] = 0)
    BY <1>1, <1>3, <1>4 DEF Rest, Queues
  <2> QED
    BY <1>2, <1>6, <2>1, <2>2 DEF Rest, Queues, Ops
<1>8. Owned'
  <2>1. \A d \in Accepted : d \in Conns /\ loopOf[d] \in Loops
    BY AcceptedInConns DEF Machine, Types
  <2> QED
    BY <1>2, <1>4, <1>6, <2>1 DEF Rest, Owned, Ops
<1>9. Told'
  BY <1>2 DEF Rest, Told
<1> QED
  BY <1>7, <1>8, <1>9 DEF Rest

\* shutdown(): the user has been told up, and is not told more.
LEMMA ShutdownRest ==
  ASSUME Machine, Rest, NEW c \in Conns, Shutdown(c)
  PROVE  Rest'
<1>1. /\ state_[c] = "kConnected"
      /\ state_' = [state_ EXCEPT ![c] = "kDisconnecting"]
      /\ UNCHANGED <<index_, told, connections_, loopOf, pc, queue, batch, ran>>
      /\ Accepted' = Accepted
  BY ShutdownFrame DEF Machine, serverVars, loopVars, Accepted
<1>2. \A k, p, d : Pending(k, p, d)' <=> Pending(k, p, d)
  BY <1>1 DEF Pending
<1>3. Queues'
  BY <1>1, <1>2 DEF Rest, Queues
<1>4. Owned'
  BY <1>1, <1>2 DEF Rest, Owned
<1>5. Told'
  <2>1. state_'[c] = "kDisconnecting" /\ \A d \in Conns : d # c => state_'[d] = state_[d]
    BY <1>1 DEF Machine, Types
  <2>2. Accepted \subseteq Conns
    BY AcceptedInConns
  <2> QED
    BY <1>1, <2>1, <2>2 DEF Rest, Told
<1> QED
  BY <1>3, <1>4, <1>5 DEF Rest

\* Every step keeps what is said of functors, owners and callbacks.
LEMMA RestStep ==
  ASSUME Machine, Rest, [Next]_vars
  PROVE  Rest'
<1> USE Numbers
<1>1. CASE AcceptorStep
  <2>1. CASE NewConnection
    BY <2>1, NewConnectionRest
  <2>2. CASE ListenerFull \/ RefuseClient \/ ReopenIdle
    <3>1. UNCHANGED <<connVars, serverVars, queue, batch, ran, pc>>
      BY <2>2 DEF ListenerFull, RefuseClient, ReopenIdle, DoneWithListener, loopVars
    <3> QED
      BY <3>1, RestFrame
  <2> QED
    BY <1>1, <2>1, <2>2 DEF AcceptorStep
<1>2. ASSUME NEW l \in Loops, LoopStep(l)
      PROVE  Rest'
  <2>1. CASE Poll(l)
    <3>1. UNCHANGED <<connVars, serverVars, queue, batch, ran>>
      BY <2>1 DEF Poll
    <3>2. pc[l] = "poll" /\ pc' = [pc EXCEPT ![l] = "events"]
      BY <2>1 DEF Poll, At
    <3>3. \A k \in Loops : /\ pc'[k] = "functors" <=> pc[k] = "functors"
                           /\ pc[k] = "gone" => pc'[k] = "gone"
      BY <3>2 DEF Machine, Types
    <3> QED
      BY <3>1, <3>3, RestFrame
  <2>2. CASE EnterLoop(l)
    <3>1. UNCHANGED <<connVars, serverVars, queue, batch, ran>>
      BY <2>2 DEF EnterLoop
    <3>2. pc[l] = "starting" /\ pc' = [pc EXCEPT ![l] = "poll"]
      BY <2>2 DEF EnterLoop
    <3>3. \A k \in Loops : /\ pc'[k] = "functors" <=> pc[k] = "functors"
                           /\ pc[k] = "gone" => pc'[k] = "gone"
      BY <3>2 DEF Machine, Types
    <3> QED
      BY <3>1, <3>3, RestFrame
  <2> QED
    BY <1>2, <2>1, <2>2, HandleCloseRest, TakeFunctorsRest, RunFunctorRest,
       EndOfFunctorsRest DEF LoopStep
<1>3. CASE Start \/ RunBaseLoop
  <2>1. UNCHANGED <<connVars, serverVars, queue, batch, ran>>
    BY <1>3 DEF Start, RunBaseLoop
  <2>2. \A k \in Loops : /\ pc'[k] = "functors" <=> pc[k] = "functors"
                         /\ pc[k] = "gone" => pc'[k] = "gone"
    BY <1>3 DEF Start, RunBaseLoop, Machine, Types, Stages
  <2> QED
    BY <2>1, <2>2, RestFrame
<1>4. CASE OwnerStep
  <2>1. CASE DestroyServer \/ DestroyPool \/ DestroyAcceptor
             \/ \E l \in Loops : QuitPoolLoop(l)
    <3>1. UNCHANGED <<connVars, serverVars, queue, batch, ran, pc>>
      BY <2>1 DEF DestroyServer, DestroyPool, DestroyAcceptor, QuitPoolLoop, loopVars
    <3> QED
      BY <3>1, RestFrame
  <2> QED
    BY <1>4, <2>1, DestroyConnectionRest, DestroyBaseLoopRest DEF OwnerStep
<1>5. CASE QuitBaseLoop
  <2>1. UNCHANGED <<connVars, serverVars, queue, batch, ran, pc>>
    BY <1>5 DEF QuitBaseLoop
  <2> QED
    BY <2>1, RestFrame
<1>6. CASE Environment \/ UNCHANGED vars
  BY <1>6, EnvironmentFrame, RestFrame
<1>7. ASSUME NEW c \in Conns, Shutdown(c)
      PROVE  Rest'
  BY <1>7, ShutdownRest
<1> QED
  BY <1>1, <1>2, <1>3, <1>4, <1>5, <1>6, <1>7 DEF Next

-----------------------------------------------------------------------------
(* The theorems.                                                           *)

\* A server that has accepted nothing satisfies the invariant.
LEMMA InitIInv ==
  ASSUME Init
  PROVE  IInv
<1> USE Numbers
<1>1. Accepted = {}
  BY DEF Init, Accepted
<1>2. Machine
  BY <1>1, ThreadsAssumption
     DEF Init, AcceptorInit, Machine, Types, Stages, Clients, Walked, ConnStates
<1>3. Ordered(<<>>, 0, <<>>) /\ \A f : ~Waits(<<>>, 0, <<>>, f)
  <2>1. <<>> \in Seq(Functors) /\ Len(<<>>) = 0
    OBVIOUS
  <2> QED
    BY <2>1, EndWaits
<1>4. Queues
  BY <1>3 DEF Init, Queues, Pending
<1>5. Owned /\ Told
  BY <1>1 DEF Init, Owned, Told
<1> QED
  BY <1>2, <1>4, <1>5 DEF IInv

\* The invariant holds in every reachable state of the server, whatever its
\* threads and its clients do.
THEOREM Invariance == SafeSpec => []IInv
<1>1. IInv /\ [Next]_vars => IInv'
  BY MachineStep, RestStep DEF IInv, Rest
<1> QED
  BY InitIInv, <1>1, PTL DEF SafeSpec

\* A functor that waits keeps its connection alive.
LEMMA PendingAlive ==
  ASSUME NEW l \in Loops, NEW op, NEW c, Pending(l, op, c)
  PROVE  Alive(c)
<1>1. \E f \in Held(l) : f.conn = c
  BY DEF Pending, Waits, Held, Range, F
<1> QED
  BY <1>1 DEF Alive

\* A poller never points to a connection that is gone: whoever the pool's
\* threads, the clients and the peers are, a channel that is registered or
\* active belongs to a connection in connections_ or in a functor
\* (removeConnectionInLoop, connectDestroyed, ~TcpServer).
THEOREM RegisteredStaysAlive == SafeSpec => []RegisteredIsAlive
<1>1. IInv => RegisteredIsAlive
  <2> SUFFICES ASSUME IInv, NEW c \in Accepted,
                      index_[c] # "kNew" \/ c \in active[loopOf[c]],
                      pc[loopOf[c]] # "gone"
               PROVE  Alive(c)
    BY DEF RegisteredIsAlive
  <2>1. c \in Conns /\ loopOf[c] \in Loops
    BY AcceptedInConns DEF IInv, Machine, Types
  <2>2. index_[c] # "kNew"
    BY <2>1, Numbers DEF IInv, Machine, Walked
  <2>3. c \in connections_ \/ Pending(loopOf[c], "destroyed", c)
    BY <2>2 DEF IInv, Owned
  <2> QED
    BY <2>1, <2>3, PendingAlive DEF Alive
<1> QED
  BY <1>1, Invariance, PTL

\* Without a pool, whoever was told that a connection is up has been told that
\* it is down when ~TcpServer returns; only a connection that was still in
\* shutdown() ends without that.
THEOREM EndsAreReported == SafeSpec => []EndIsReported
<1>1. IInv => EndIsReported
  BY DEF IInv, Machine, Stages, Told, EndIsReported
<1> QED
  BY <1>1, Invariance, PTL
-----------------------------------------------------------------------------
(* Every connection is established once, and reported as its state says.   *)

\* The functor f waits at most once.
Once(b, r, q, f) ==
  /\ \A i, j \in DOMAIN b : r < i /\ r < j /\ b[i] = f /\ b[j] = f => i = j
  /\ \A i \in DOMAIN b, j \in DOMAIN q : r < i /\ b[i] = f => q[j] # f
  /\ \A i, j \in DOMAIN q : q[i] = f /\ q[j] = f => i = j

EstablishedOnce(l, c) == Once(batch[l], ran[l], queue[l], F("established", c))

\* What the callback has been told of a connection on any loop, and that
\* removeConnectionInLoop runs on the base loop only.
Reported ==
  \A c \in Conns :
    /\ state_[c] = "kConnecting" => told[c] = <<>>
    /\ state_[c] \in UpStates => told[c] = <<"up">>
    /\ state_[c] = "kDisconnected" => told[c] = <<"up", "down">>
    /\ index_[c] = "kAdded" => state_[c] \in UpStates
    /\ c \notin Accepted => state_[c] = "kConnecting"
    /\ \A l \in Loops :
         /\ EstablishedOnce(l, c)
         /\ Pending(l, "established", c) => state_[c] = "kConnecting"
         /\ Pending(l, "remove", c) => l = Base

\* Queueing g keeps f waiting once, unless g is an f too many.
LEMMA AppendOnce ==
  ASSUME NEW b, NEW r, NEW q \in Seq(Functors), NEW f, NEW g \in Functors,
         Once(b, r, q, f), g = f => ~Waits(b, r, q, f)
  PROVE  Once(b, r, Append(q, g), f)
<1>1. /\ DOMAIN Append(q, g) = 1 .. Len(q) + 1 /\ DOMAIN q = 1 .. Len(q)
      /\ Len(q) \in Nat
      /\ Append(q, g)[Len(q) + 1] = g
      /\ \A i \in DOMAIN q : Append(q, g)[i] = q[i]
  OBVIOUS
<1>2. \A j \in DOMAIN Append(q, g) : Append(q, g)[j] = f =>
        \/ j \in DOMAIN q /\ q[j] = f
        \/ j = Len(q) + 1 /\ g = f
  BY <1>1
<1>3. \A i \in DOMAIN b, j \in DOMAIN Append(q, g) :
        r < i /\ b[i] = f => Append(q, g)[j] # f
  BY <1>2 DEF Once, Waits
<1>4. \A i, j \in DOMAIN Append(q, g) :
        Append(q, g)[i] = f /\ Append(q, g)[j] = f => i = j
  BY <1>2 DEF Once, Waits
<1> QED
  BY <1>3, <1>4 DEF Once

\* Once run, it waits no more.
LEMMA RunOnce ==
  ASSUME NEW b \in Seq(Functors), NEW r \in Nat, NEW q, NEW f, r < Len(b),
         Once(b, r, q, f)
  PROVE  /\ Once(b, r + 1, q, f)
         /\ b[r + 1] = f => ~Waits(b, r + 1, q, f)
<1>1. DOMAIN b = 1 .. Len(b) /\ Len(b) \in Nat /\ r + 1 \in DOMAIN b /\ r < r + 1
  OBVIOUS
<1>2. Once(b, r + 1, q, f)
  BY <1>1 DEF Once
<1>3. ASSUME b[r + 1] = f PROVE ~Waits(b, r + 1, q, f)
  <2>1. \A i \in DOMAIN b : i > r + 1 => b[i] # f
    BY <1>1, <1>3 DEF Once
  <2>2. \A j \in DOMAIN q : q[j] # f
    BY <1>1, <1>3 DEF Once
  <2> QED
    BY <2>1, <2>2 DEF Waits
<1> QED
  BY <1>2, <1>3

\* The swap of doPendingFunctors, and the end of the batch.
LEMMA SwapOnce ==
  ASSUME NEW q \in Seq(Functors), NEW b \in Seq(Functors), NEW f
  PROVE  /\ Once(<<>>, 0, q, f) => Once(q, 0, <<>>, f)
         /\ Once(b, Len(b), q, f) => Once(<<>>, 0, q, f)
         /\ Once(<<>>, 0, <<>>, f)
<1>1. /\ DOMAIN q = 1 .. Len(q) /\ Len(q) \in Nat
      /\ \A e : e \in DOMAIN <<>> <=> FALSE
  OBVIOUS
<1> QED
  BY <1>1 DEF Once

\* Nothing more waits to be established or removed, and nothing waits twice.
NoFresh ==
  \A l \in Loops, c \in Conns :
    /\ Pending(l, "established", c)' => Pending(l, "established", c)
    /\ Pending(l, "remove", c)' => Pending(l, "remove", c)
    /\ EstablishedOnce(l, c) => EstablishedOnce(l, c)'

\* Queueing keeps a connectEstablished waiting once, unless it is queued again.
LEMMA QueuedOnce ==
  ASSUME Types, NEW l \in Loops, NEW op \in Ops, NEW c \in Conns,
         queue' = Queued(l, op, c), UNCHANGED <<batch, ran>>,
         op = "established" => ~Pending(l, "established", c)
  PROVE  \A k \in Loops, d \in Conns :
           EstablishedOnce(k, d) => EstablishedOnce(k, d)'
<1>1. F(op, c) \in Functors
  BY FunctorsDiffer
<1>2. \A k \in Loops : queue[k] \in Seq(Functors)
                       /\ queue'[k] = IF k = l THEN Append(queue[k], F(op, c)) ELSE queue[k]
  BY DEF Types, Queued
<1> SUFFICES ASSUME NEW k \in Loops, NEW d \in Conns, EstablishedOnce(k, d)
             PROVE  EstablishedOnce(k, d)'
  OBVIOUS
<1>3. CASE k = l
  <2>1. F(op, c) = F("established", d) =>
          ~Waits(batch[k], ran[k], queue[k], F("established", d))
    BY <1>3, FunctorsDiffer DEF Pending, Ops
  <2>2. Once(batch[k], ran[k], Append(queue[k], F(op, c)), F("established", d))
    BY <1>1, <1>2, <2>1, AppendOnce DEF EstablishedOnce
  <2> QED
    BY <1>2, <1>3, <2>2 DEF EstablishedOnce
<1>4. CASE k # l
  BY <1>2, <1>4 DEF EstablishedOnce
<1> QED
  BY <1>3, <1>4

\* Running a functor that queues nothing but connectDestroyed.
LEMMA RanOnce ==
  ASSUME Types, NEW l \in Loops, ran[l] < Len(batch[l]),
         ran' = [ran EXCEPT ![l] = @ + 1], batch' = batch,
         \/ queue' = queue
         \/ \E m \in Loops, c \in Conns : queue' = Queued(m, "destroyed", c)
  PROVE  /\ NoFresh
         /\ \A d \in Conns :
              /\ EstablishedOnce(l, d)
              /\ batch[l][ran[l] + 1] = F("established", d)
              => ~Pending(l, "established", d)'
<1>1. \A k \in Loops : /\ ran'[k] = IF k = l THEN ran[k] + 1 ELSE ran[k]
                       /\ queue[k] \in Seq(Functors) /\ batch[k] \in Seq(Functors)
                       /\ ran[k] \in Nat
  BY DEF Types
<1>2. \A k \in Loops, p \in {"established", "remove"}, d \in Conns :
        Waits(batch[k], ran'[k], queue'[k], F(p, d))
          => Waits(batch[k], ran'[k], queue[k], F(p, d))
  <2>1. CASE queue' = queue
    BY <2>1
  <2>2. ASSUME NEW m \in Loops, NEW c \in Conns, queue' = Queued(m, "destroyed", c)
        PROVE  \A k \in Loops, p \in {"established", "remove"}, d \in Conns :
                 Waits(batch[k], ran'[k], queue'[k], F(p, d))
                   => Waits(batch[k], ran'[k], queue[k], F(p, d))
    <3>1. \A k \in Loops :
            queue'[k] = IF k = m THEN Append(queue[k], F("destroyed", c)) ELSE queue[k]
      BY <2>2 DEF Types, Queued
    <3>2. F("destroyed", c) \in Functors /\ \A p \in {"established", "remove"}, d \in Conns :
            F(p, d) # F("destroyed", c)
      BY FunctorsDiffer DEF Ops
    <3> QED
      BY <1>1, <3>1, <3>2, AppendWaits
  <2> QED
    BY <2>1, <2>2
<1>3. \A k \in Loops, d \in Conns :
        Once(batch[k], ran'[k], queue[k], F("established", d))
          => Once(batch[k], ran'[k], queue'[k], F("established", d))
  <2>1. CASE queue' = queue
    BY <2>1
  <2>2. ASSUME NEW m \in Loops, NEW c \in Conns, queue' = Queued(m, "destroyed", c)
        PROVE  \A k \in Loops, d \in Conns :
                 Once(batch[k], ran'[k], queue[k], F("established", d))
                   => Once(batch[k], ran'[k], queue'[k], F("established", d))
    <3>1. \A k \in Loops :
            queue'[k] = IF k = m THEN Append(queue[k], F("destroyed", c)) ELSE queue[k]
      BY <2>2 DEF Types, Queued
    <3>2. F("destroyed", c) \in Functors /\ \A d \in Conns :
            F("established", d) # F("destroyed", c)
      BY FunctorsDiffer DEF Ops
    <3> QED
      BY <1>1, <3>1, <3>2, AppendOnce
  <2> QED
    BY <2>1, <2>2
<1>4. \A k \in Loops : \A f :
        /\ Waits(batch[k], ran'[k], queue[k], f) => Waits(batch[k], ran[k], queue[k], f)
        /\ Once(batch[k], ran[k], queue[k], f) => Once(batch[k], ran'[k], queue[k], f)
  BY <1>1, RunWaits, RunOnce
<1>5. \A f : Once(batch[l], ran[l], queue[l], f) /\ batch[l][ran[l] + 1] = f
               => ~Waits(batch[l], ran'[l], queue[l], f)
  BY <1>1, RunOnce
<1>6. \A k \in Loops, p \in {"established", "remove"}, d \in Conns :
        Pending(k, p, d)' => Pending(k, p, d)
  BY <1>2, <1>4 DEF Pending
<1>7. \A k \in Loops, d \in Conns : EstablishedOnce(k, d) => EstablishedOnce(k, d)'
  BY <1>3, <1>4 DEF EstablishedOnce
<1>8. \A d \in Conns :
        /\ EstablishedOnce(l, d)
        /\ batch[l][ran[l] + 1] = F("established", d)
        => ~Pending(l, "established", d)'
  BY <1>2, <1>5 DEF EstablishedOnce, Pending
<1> QED
  BY <1>6, <1>7, <1>8 DEF NoFresh

\* A step that changes no state_ and queues no connectEstablished.
LEMMA ReportedFrame ==
  ASSUME Reported, NoFresh, Accepted \subseteq Accepted', UNCHANGED connVars
  PROVE  Reported'
<1>1. state_' = state_ /\ index_' = index_ /\ told' = told
  BY DEF connVars
<1> QED
  BY <1>1 DEF Reported, NoFresh

\* So does one that leaves the functors alone.
LEMMA SameFunctorsReported ==
  ASSUME UNCHANGED <<queue, batch, ran>>
  PROVE  NoFresh
BY DEF NoFresh, Pending, EstablishedOnce

\* A new state_ and what goes with it.
LEMMA ReportedNew ==
  ASSUME Reported, NoFresh, NEW c \in Conns, Accepted \subseteq Accepted',
         c \in Accepted', Types,
         \A d \in Conns : d # c => /\ state_'[d] = state_[d] /\ told'[d] = told[d]
                                   /\ index_'[d] = index_[d],
         \/ /\ state_'[c] = "kConnected" /\ told'[c] = Append(told[c], "up")
            /\ state_[c] = "kConnecting"
         \/ /\ state_'[c] = "kDisconnected" /\ told'[c] = Append(told[c], "down")
            /\ state_[c] = "kConnected"
         \/ state_'[c] = state_[c] /\ told'[c] = told[c],
         index_'[c] # "kAdded" \/ state_'[c] = "kConnected",
         state_'[c] # "kConnecting" =>
           \A l \in Loops : ~Pending(l, "established", c)'
  PROVE  Reported'
<1> SUFFICES ASSUME NEW d \in Conns
             PROVE  /\ state_'[d] = "kConnecting" => told'[d] = <<>>
                    /\ state_'[d] \in UpStates => told'[d] = <<"up">>
                    /\ state_'[d] = "kDisconnected" => told'[d] = <<"up", "down">>
                    /\ index_'[d] = "kAdded" => state_'[d] \in UpStates
                    /\ d \notin Accepted' => state_'[d] = "kConnecting"
                    /\ \A l \in Loops :
                         /\ EstablishedOnce(l, d)'
                         /\ Pending(l, "established", d)' => state_'[d] = "kConnecting"
                         /\ Pending(l, "remove", d)' => l = Base
  BY DEF Reported
<1>1. \A l \in Loops : EstablishedOnce(l, d)' /\ (Pending(l, "remove", d)' => l = Base)
  BY DEF Reported, NoFresh
<1>2. CASE d # c
  BY <1>1, <1>2 DEF Reported, NoFresh
<1>3. CASE d = c
  BY <1>1, <1>3, UpAndDown DEF Reported
<1> QED
  BY <1>2, <1>3

\* What connectDestroyed does to the state.
LEMMA DestroyedStates ==
  ASSUME Types, NEW c \in Conns, ConnectDestroyed(c)
  PROVE  /\ \A d \in Conns : d # c => /\ state_'[d] = state_[d] /\ told'[d] = told[d]
                                      /\ index_'[d] = index_[d]
         /\ index_'[c] = "kNew"
         /\ \/ /\ state_'[c] = "kDisconnected" /\ told'[c] = Append(told[c], "down")
               /\ state_[c] = "kConnected"
            \/ state_'[c] = state_[c] /\ told'[c] = told[c] /\ state_[c] # "kConnected"
BY DEF Types, ConnectDestroyed, IndexAfterDestroyed, TellsDown

\* newConnection.
LEMMA NewConnectionReported ==
  ASSUME Machine, Queues, Reported, NewConnection
  PROVE  Reported'
<1> USE Numbers
<1>a. PICK c, l : c = nextConnId_ /\ l = NextLoop
  OBVIOUS
<1>1. /\ backlog > 0 /\ UNCHANGED <<batch, ran>>
      /\ nextConnId_' = c + 1
      /\ l = Base => ConnectEstablished(c) /\ queue' = queue
      /\ l # Base => queue' = Queued(l, "established", c) /\ UNCHANGED connVars
  BY <1>a DEF NewConnection, AtListener, DoneWithListener, Accept, Machine, Clients
<1>2. c \in Conns /\ c \notin Accepted
  BY <1>1, <1>a DEF Machine, Types, Clients, Accepted
<1>3. Accepted' = Accepted \union {c}
  BY <1>1, <1>a DEF Machine, Types, Accepted
<1>4. l \in Loops
  BY <1>a DEF NextLoop, Machine, Types
<1>5. state_[c] = "kConnecting" /\ \A k \in Loops : ~Pending(k, "established", c)
  BY <1>2 DEF Reported, Queues
<1>6. CASE l = Base
  <2>1. NoFresh
    BY <1>1, <1>6, SameFunctorsReported
  <2>2. /\ \A d \in Conns : d # c => /\ state_'[d] = state_[d] /\ told'[d] = told[d]
                                     /\ index_'[d] = index_[d]
        /\ state_'[c] = "kConnected" /\ told'[c] = Append(told[c], "up")
    BY <1>1, <1>2, <1>6 DEF ConnectEstablished, Machine, Types
  <2>3. \A k \in Loops : ~Pending(k, "established", c)'
    BY <1>2, <1>5, <2>1 DEF NoFresh
  <2>4. Accepted \subseteq Accepted' /\ c \in Accepted' /\ Types
    BY <1>3 DEF Machine
  <2> QED
    BY <1>2, <1>5, <2>1, <2>2, <2>3, <2>4, ReportedNew
<1>7. CASE l # Base
  <2>1. \A k \in Loops, p \in Ops, d \in Conns :
          Pending(k, p, d)' <=> Pending(k, p, d) \/ (k = l /\ p = "established" /\ d = c)
    BY <1>1, <1>2, <1>4, <1>7, QueuedPending DEF Machine, Ops
  <2>2. \A k \in Loops, d \in Conns : EstablishedOnce(k, d) => EstablishedOnce(k, d)'
    BY <1>1, <1>2, <1>4, <1>5, <1>7, QueuedOnce DEF Machine, Ops
  <2>3. state_' = state_ /\ index_' = index_ /\ told' = told
    BY <1>1, <1>7 DEF connVars
  <2> QED
    BY <1>2, <1>3, <1>5, <2>1, <2>2, <2>3 DEF Reported, Ops
<1> QED
  BY <1>6, <1>7

\* handleClose, on the loop of the connection.
LEMMA HandleCloseReported ==
  ASSUME Machine, Queues, Reported, NEW l \in Loops, NEW c \in Conns, HandleClose(l, c)
  PROVE  Reported'
<1> USE Numbers
<1>1. /\ c \in Accepted /\ loopOf[c] = l /\ index_[c] = "kAdded"
      /\ UNCHANGED <<batch, ran>> /\ Accepted' = Accepted
  BY DEF HandleClose, At, Machine, Walked, Accepted
<1>2. /\ \A d \in Conns : d # c => /\ state_'[d] = state_[d] /\ told'[d] = told[d]
                                   /\ index_'[d] = index_[d]
      /\ state_'[c] = "kDisconnected" /\ told'[c] = Append(told[c], "down")
      /\ index_'[c] = "kDeleted"
  BY DEF HandleClose, Machine, Types
<1>3. PICK op \in {"destroyed", "remove"} : queue' = Queued(Base, op, c)
  BY <1>1 DEF HandleClose
<1>4. \A k \in Loops, p \in Ops, d \in Conns :
        Pending(k, p, d)' <=> Pending(k, p, d) \/ (k = Base /\ p = op /\ d = c)
  <2>1. op \in Ops /\ Types /\ Base \in Loops
    BY DEF Machine, Ops
  <2>2. queue' = Queued(Base, op, c) /\ UNCHANGED <<batch, ran>>
    BY <1>1, <1>3
  <2> QED
    BY <2>1, <2>2, QueuedPending
<1>5. \A k \in Loops, d \in Conns : EstablishedOnce(k, d) => EstablishedOnce(k, d)'
  BY <1>1, <1>3, QueuedOnce DEF Machine, Ops
<1>6. state_[c] \in UpStates /\ \A k \in Loops : ~Pending(k, "established", c)
  BY <1>1 DEF Reported
<1> SUFFICES ASSUME NEW d \in Conns
             PROVE  /\ state_'[d] = "kConnecting" => told'[d] = <<>>
                    /\ state_'[d] \in UpStates => told'[d] = <<"up">>
                    /\ state_'[d] = "kDisconnected" => told'[d] = <<"up", "down">>
                    /\ index_'[d] = "kAdded" => state_'[d] \in UpStates
                    /\ d \notin Accepted' => state_'[d] = "kConnecting"
                    /\ \A k \in Loops :
                         /\ EstablishedOnce(k, d)'
                         /\ Pending(k, "established", d)' => state_'[d] = "kConnecting"
                         /\ Pending(k, "remove", d)' => k = Base
  BY DEF Reported
<1>7. \A k \in Loops :
        /\ EstablishedOnce(k, d)'
        /\ Pending(k, "established", d)' => Pending(k, "established", d)
        /\ Pending(k, "remove", d)' => k = Base
  BY <1>4, <1>5 DEF Reported, Ops
<1>8. CASE d # c
  BY <1>1, <1>2, <1>7, <1>8 DEF Reported
<1>9. CASE d = c
  BY <1>1, <1>2, <1>6, <1>7, <1>9, UpAndDown DEF Reported
<1> QED
  BY <1>8, <1>9

\* A loop runs the next functor of its batch.
LEMMA RunFunctorReported ==
  ASSUME Machine, Queues, Reported, NEW l \in Loops, RunFunctor(l)
  PROVE  Reported'
<1> USE Numbers
<1>a. PICK f, c : f = batch[l][ran[l] + 1] /\ c = f.conn
  OBVIOUS
<1>1. /\ ran[l] < Len(batch[l]) /\ Types
      /\ ran' = [ran EXCEPT ![l] = @ + 1] /\ batch' = batch
      /\ UNCHANGED nextConnId_
  BY DEF RunFunctor, Machine
<1>2. f \in Functors /\ c \in Conns /\ Pending(l, f.op, c) /\ f = F(f.op, c)
      /\ f.op \in Ops
  BY <1>1, <1>a, HeadOfQueue, FunctorForm
<1>3. c \in Accepted /\ Accepted' = Accepted /\ loopOf[c] \in Loops
  <2>1. c \in Accepted
    BY <1>2 DEF Queues, Ops
  <2> QED
    BY <1>1, <1>2, <2>1 DEF Accepted, Types
<1>4. \/ queue' = queue
      \/ \E m \in Loops, d \in Conns : queue' = Queued(m, "destroyed", d)
  BY <1>2, <1>3, <1>a DEF RunFunctor, RemoveConnectionInLoop
<1>5. /\ NoFresh
      /\ \A d \in Conns :
           /\ EstablishedOnce(l, d)
           /\ batch[l][ran[l] + 1] = F("established", d)
           => ~Pending(l, "established", d)'
  BY <1>1, <1>4, RanOnce
<1>6. CASE f.op = "established"
  <2>1. state_[c] = "kConnecting" /\ ConnectEstablished(c)
    BY <1>2, <1>6, <1>a DEF RunFunctor, Reported
  <2>2. /\ \A d \in Conns : d # c => /\ state_'[d] = state_[d] /\ told'[d] = told[d]
                                     /\ index_'[d] = index_[d]
        /\ state_'[c] = "kConnected" /\ told'[c] = Append(told[c], "up")
    BY <1>1, <1>2, <2>1 DEF ConnectEstablished, Types
  <2>3. ~Pending(l, "established", c)'
    BY <1>2, <1>5, <1>6, <1>a DEF Reported
  <2>4. \A k \in Loops : ~Pending(k, "established", c)'
    BY <1>2, <1>5, <1>6, <2>3 DEF NoFresh, Queues
  <2> QED
    BY <1>1, <1>2, <1>3, <1>5, <2>1, <2>2, <2>4, ReportedNew
<1>7. CASE f.op = "destroyed"
  <2>1. ConnectDestroyed(c)
    BY <1>7, <1>a DEF RunFunctor
  <2>2. state_[c] # "kConnecting" => \A k \in Loops : ~Pending(k, "established", c)'
    BY <1>2, <1>5 DEF Reported, NoFresh
  <2>3. state_'[c] # "kConnecting" => state_[c] # "kConnecting"
    BY <1>1, <1>2, <2>1, DestroyedStates
  <2> QED
    BY <1>1, <1>2, <1>3, <1>5, <2>1, <2>2, <2>3, DestroyedStates, ReportedNew
<1>8. CASE f.op = "remove"
  BY <1>3, <1>5, <1>8, <1>a, ReportedFrame DEF RunFunctor, RemoveConnectionInLoop
<1> QED
  BY <1>2, <1>6, <1>7, <1>8 DEF Ops

\* ~TcpServer ends one connection.
LEMMA DestroyConnectionReported ==
  ASSUME Machine, Queues, Owned, Reported, NEW c \in Conns, DestroyConnection(c)
  PROVE  Reported'
<1> USE Numbers
<1>1. /\ UNCHANGED <<nextConnId_, batch, ran>> /\ Accepted' = Accepted
      /\ c \in Accepted /\ loopOf[c] \in Loops /\ Types
  BY DEF DestroyConnection, loopVars, Accepted, Machine, Types, Owned
<1>2. CASE RunsHere(c)
  <2>1. ConnectDestroyed(c) /\ NoFresh
    BY <1>1, <1>2, SameFunctorsReported DEF DestroyConnection
  <2>2. state_[c] # "kConnecting" => \A k \in Loops : ~Pending(k, "established", c)'
    BY <2>1 DEF Reported, NoFresh
  <2>3. state_'[c] # "kConnecting" => state_[c] # "kConnecting"
    BY <1>1, <2>1, DestroyedStates
  <2> QED
    BY <1>1, <2>1, <2>2, <2>3, DestroyedStates, ReportedNew
<1>3. CASE ~RunsHere(c)
  <2>1. queue' = Queued(loopOf[c], "destroyed", c) /\ UNCHANGED connVars
    BY <1>3 DEF DestroyConnection
  <2>2. \A k \in Loops, p \in Ops, d \in Conns :
          Pending(k, p, d)' <=>
            Pending(k, p, d) \/ (k = loopOf[c] /\ p = "destroyed" /\ d = c)
    BY <1>1, <2>1, QueuedPending DEF Ops
  <2>3. \A k \in Loops, d \in Conns : EstablishedOnce(k, d) => EstablishedOnce(k, d)'
    BY <1>1, <2>1, QueuedOnce DEF Ops
  <2>4. NoFresh
    BY <2>2, <2>3 DEF NoFresh, Ops
  <2> QED
    BY <1>1, <2>1, <2>4, ReportedFrame
<1> QED
  BY <1>2, <1>3

\* A loop takes its functors, or is done with them, or is destroyed.
LEMMA BatchReported ==
  ASSUME Machine, Queues, Reported, NEW l \in Loops,
         TakeFunctors(l) \/ EndOfFunctors(l) \/ DestroyBaseLoop
  PROVE  Reported'
<1> USE Numbers
<1>1. Accepted' = Accepted /\ UNCHANGED connVars /\ Types
  BY DEF TakeFunctors, EndOfFunctors, DestroyBaseLoop, serverVars, Accepted, Machine
<1>2. CASE TakeFunctors(l)
  <2>1. /\ batch[l] = <<>> /\ ran[l] = 0
        /\ batch' = [batch EXCEPT ![l] = queue[l]] /\ ran' = [ran EXCEPT ![l] = 0]
        /\ queue' = [queue EXCEPT ![l] = <<>>]
    BY <1>2 DEF TakeFunctors, At, Queues
  <2>2. \A k \in Loops : \A p \in Ops, d \in Conns : Pending(k, p, d)' <=> Pending(k, p, d)
    BY <1>1, <2>1, SwapPending
  <2>3. queue[l] \in Seq(Functors) /\ \A k \in Loops :
          IF k = l THEN batch'[k] = queue[k] /\ ran'[k] = 0 /\ queue'[k] = <<>>
                   ELSE batch'[k] = batch[k] /\ ran'[k] = ran[k] /\ queue'[k] = queue[k]
    BY <1>1, <2>1 DEF Types
  <2>4. \A k \in Loops, d \in Conns : EstablishedOnce(k, d) => EstablishedOnce(k, d)'
    BY <2>1, <2>3, SwapOnce DEF EstablishedOnce
  <2> QED
    BY <1>1, <2>2, <2>4, ReportedFrame DEF NoFresh, Ops
<1>3. CASE EndOfFunctors(l)
  <2>1. /\ ran[l] = Len(batch[l])
        /\ batch' = [batch EXCEPT ![l] = <<>>] /\ ran' = [ran EXCEPT ![l] = 0]
        /\ queue' = [queue EXCEPT ![l] = <<>>] \/ queue' = queue
    BY <1>3 DEF EndOfFunctors
  <2>2. \A k \in Loops : \A p \in Ops, d \in Conns : Pending(k, p, d)' => Pending(k, p, d)
    BY <1>1, <2>1, EndPending
  <2>3. queue[l] \in Seq(Functors) /\ batch[l] \in Seq(Functors) /\ \A k \in Loops :
          IF k = l THEN batch'[k] = <<>> /\ ran'[k] = 0 /\ queue'[k] \in {<<>>, queue[k]}
                   ELSE batch'[k] = batch[k] /\ ran'[k] = ran[k] /\ queue'[k] = queue[k]
    BY <1>1, <2>1 DEF Types
  <2>4. \A k \in Loops, d \in Conns : EstablishedOnce(k, d) => EstablishedOnce(k, d)'
    BY <2>1, <2>3, SwapOnce DEF EstablishedOnce
  <2> QED
    BY <1>1, <2>2, <2>4, ReportedFrame DEF NoFresh, Ops
<1>4. CASE DestroyBaseLoop
  <2>1. /\ batch[Base] = <<>> /\ ran[Base] = 0 /\ UNCHANGED <<batch, ran>>
        /\ \A k \in Loops : queue'[k] = IF k = Base THEN <<>> ELSE queue[k]
    BY <1>1, <1>4 DEF DestroyBaseLoop, Queues, Types
  <2>2. \A f : Once(<<>>, 0, <<>>, f) /\ ~Waits(<<>>, 0, <<>>, f)
    <3>1. <<>> \in Seq(Functors) /\ Len(<<>>) = 0
      OBVIOUS
    <3> QED
      BY <3>1, EndWaits, SwapOnce
  <2>3. NoFresh
    BY <2>1, <2>2 DEF NoFresh, Pending, EstablishedOnce
  <2> QED
    BY <1>1, <2>3, ReportedFrame
<1> QED
  BY <1>2, <1>3, <1>4

\* shutdown(): up is what the user was told last.
LEMMA ShutdownReported ==
  ASSUME Machine, Reported, NEW c \in Conns, Shutdown(c)
  PROVE  Reported'
<1>1. /\ state_[c] = "kConnected"
      /\ UNCHANGED <<index_, told, queue, batch, ran>> /\ Accepted' = Accepted
      /\ state_'[c] = "kDisconnecting" /\ \A d \in Conns : d # c => state_'[d] = state_[d]
  <2>1. state_ \in [Conns -> ConnStates] /\ Types
    BY DEF Machine, Types
  <2>2. /\ state_[c] = "kConnected" /\ state_' = [state_ EXCEPT ![c] = "kDisconnecting"]
        /\ UNCHANGED <<index_, told, queue, batch, ran, nextConnId_>>
    BY <2>1, ShutdownFrame DEF serverVars, loopVars
  <2> QED
    BY <2>1, <2>2 DEF Accepted
<1>2. NoFresh
  BY <1>1, SameFunctorsReported
<1> QED
  BY <1>1, <1>2 DEF Reported, NoFresh

\* Every step keeps it.
LEMMA ReportedStep ==
  ASSUME IInv, Reported, [Next]_vars
  PROVE  Reported'
<1>0. Machine /\ Queues /\ Owned
  BY DEF IInv
<1>1. ASSUME UNCHANGED <<queue, batch, ran, connVars, nextConnId_>>
      PROVE  Reported'
  BY <1>1, SameFunctorsReported, ReportedFrame DEF Accepted
<1>2. CASE AcceptorStep
  <2>1. CASE NewConnection
    BY <1>0, <2>1, NewConnectionReported
  <2>2. CASE ListenerFull \/ RefuseClient \/ ReopenIdle
    BY <1>1, <2>2 DEF ListenerFull, RefuseClient, ReopenIdle, DoneWithListener,
                      loopVars, serverVars
  <2> QED
    BY <1>2, <2>1, <2>2 DEF AcceptorStep
<1>3. ASSUME NEW l \in Loops, LoopStep(l)
      PROVE  Reported'
  <2>1. CASE Poll(l) \/ EnterLoop(l)
    BY <1>1, <2>1 DEF Poll, EnterLoop, serverVars
  <2> QED
    BY <1>0, <1>3, <2>1, HandleCloseReported, RunFunctorReported, BatchReported
       DEF LoopStep
<1>4. CASE Start \/ RunBaseLoop \/ QuitBaseLoop
  BY <1>1, <1>4 DEF Start, RunBaseLoop, QuitBaseLoop, serverVars
<1>5. CASE OwnerStep
  <2>1. CASE DestroyServer \/ DestroyPool \/ DestroyAcceptor
             \/ \E l \in Loops : QuitPoolLoop(l)
    BY <1>1, <2>1 DEF DestroyServer, DestroyPool, DestroyAcceptor, QuitPoolLoop,
                      loopVars, serverVars
  <2> QED
    BY <1>0, <1>5, <2>1, Numbers, DestroyConnectionReported, BatchReported DEF OwnerStep
<1>6. CASE Environment \/ UNCHANGED vars
  BY <1>1, <1>6 DEF Environment, PeerCloses, loopVars, serverVars, vars
<1>7. ASSUME NEW c \in Conns, Shutdown(c)
      PROVE  Reported'
  BY <1>0, <1>7, ShutdownReported
<1> QED
  BY <1>2, <1>3, <1>4, <1>5, <1>6, <1>7 DEF Next
-----------------------------------------------------------------------------
(* The end of the loops.                                                   *)

\* A loop that is destroyed was told to quit and is given no more functors.
Ended ==
  /\ quit_ \in [Loops -> BOOLEAN]
  /\ pc[Base] = "gone" => serverPc = "gone" /\ queue[Base] = <<>>
  /\ \A l \in Loops \ {Base} :
       /\ pc[l] # "out" => l \in Pool
       /\ quit_[l] => serverPc \in {"joining", "gone"}
       /\ pc[l] = "gone" => quit_[l] /\ queue[l] = <<>>
       /\ serverPc = "gone" => pc[l] \in {"out", "gone"}

\* Queueing on a loop that is there.
LEMMA QueuedEnded ==
  ASSUME Types, Ended, NEW m \in Loops, NEW op, NEW c, pc[m] # "gone",
         queue' = Queued(m, op, c),
         UNCHANGED <<pc, quit_, serverPc, numThreads_>>
  PROVE  Ended'
<1>1. \A k \in Loops : k # m => queue'[k] = queue[k]
  BY DEF Queued, Types
<1>2. \A k \in Loops : pc[k] = "gone" => queue'[k] = queue[k]
  BY <1>1
<1> QED
  BY <1>2, Numbers DEF Ended, Pool

\* While the base loop is inside loop(), no loop is gone.
LEMMA BaseRuns ==
  ASSUME Machine, Ended, pc[Base] \notin {"out", "gone"}
  PROVE  \A l \in Loops : pc[l] # "gone"
BY DEF Machine, Stages, Ended

\* The steps of a loop.
LEMMA LoopEnded ==
  ASSUME Machine, Queues, Reported, Ended, NEW l \in Loops, LoopStep(l)
  PROVE  Ended'
<1> USE Numbers
<1>1. pc \in [Loops -> Pcs] /\ queue \in [Loops -> Seq(Functors)] /\ Types
  BY DEF Machine, Types
<1>2. ASSUME pc[l] \notin {"out", "gone"}, UNCHANGED <<serverPc, quit_, numThreads_, queue>>,
             NEW w \in {"events", "functors", "poll"}, pc' = [pc EXCEPT ![l] = w]
      PROVE  Ended'
  BY <1>1, <1>2 DEF Ended, Pool
<1>3. CASE Poll(l)
  BY <1>2, <1>3 DEF Poll, At, poolVars
<1>8. CASE EnterLoop(l)
  <2>1. /\ pc[l] = "starting" /\ pc' = [pc EXCEPT ![l] = "poll"]
        /\ quit_' = [quit_ EXCEPT ![l] = FALSE]
        /\ UNCHANGED <<serverPc, numThreads_, queue>>
    BY <1>8 DEF EnterLoop, poolVars
  <2> QED
    BY <1>1, <2>1 DEF Ended, Pool
<1>4. ASSUME NEW c \in Conns, HandleClose(l, c)
      PROVE  Ended'
  <2>1. /\ c \in Accepted /\ loopOf[c] = l /\ pc[l] = "events"
        /\ UNCHANGED <<pc, quit_, serverPc, numThreads_>>
    BY <1>4 DEF HandleClose, At, Machine, Walked, poolVars
  <2>2. PICK op \in Ops : queue' = Queued(Base, op, c)
    BY <1>4, <2>1 DEF HandleClose, Ops
  <2>3. pc[Base] # "gone"
    BY <2>1 DEF Ended
  <2> QED
    BY <1>1, <2>1, <2>2, <2>3, QueuedEnded
<1>5. CASE TakeFunctors(l)
  <2>1. /\ pc[l] = "events" /\ pc' = [pc EXCEPT ![l] = "functors"]
        /\ queue' = [queue EXCEPT ![l] = <<>>]
        /\ UNCHANGED <<serverPc, quit_, numThreads_>>
    BY <1>5 DEF TakeFunctors, At, poolVars
  <2> QED
    BY <1>1, <2>1 DEF Ended, Pool
<1>6. CASE RunFunctor(l)
  <2>1. /\ pc[l] = "functors" /\ ran[l] < Len(batch[l])
        /\ UNCHANGED <<pc, quit_, serverPc, numThreads_>>
    BY <1>6 DEF RunFunctor, At, poolVars
  <2>2. PICK f : f = batch[l][ran[l] + 1]
    OBVIOUS
  <2>3. f \in Functors /\ f.conn \in Conns /\ Pending(l, f.op, f.conn)
    BY <1>1, <2>1, <2>2, HeadOfQueue
  <2>4. CASE queue' = queue
    BY <2>1, <2>4 DEF Ended, Pool
  <2>5. CASE f.op = "remove" /\ queue' = Queued(loopOf[f.conn], "destroyed", f.conn)
    <3>1. l = Base /\ loopOf[f.conn] \in Loops
      BY <1>1, <2>3, <2>5 DEF Reported, Types
    <3>2. pc[loopOf[f.conn]] # "gone"
      BY <2>1, <3>1, BaseRuns
    <3> QED
      BY <1>1, <2>1, <2>5, <3>1, <3>2, QueuedEnded
  <2> QED
    BY <1>6, <2>2, <2>4, <2>5 DEF RunFunctor, RemoveConnectionInLoop
<1>7. CASE EndOfFunctors(l)
  <2>1. /\ pc[l] = "functors" /\ UNCHANGED <<serverPc, quit_, numThreads_>>
        /\ pc' = [pc EXCEPT ![l] = IF ~quit_[l] THEN "poll"
                                   ELSE IF l = Base THEN "out" ELSE "gone"]
        /\ queue' = IF quit_[l] /\ l # Base THEN [queue EXCEPT ![l] = <<>>] ELSE queue
    BY <1>7 DEF EndOfFunctors, At, poolVars
  <2>2. CASE quit_[l] /\ l # Base
    BY <1>1, <2>1, <2>2 DEF Ended, Pool
  <2>3. CASE ~(quit_[l] /\ l # Base)
    BY <1>1, <2>1, <2>3 DEF Ended, Pool
  <2> QED
    BY <2>2, <2>3
<1> QED
  BY <1>3, <1>4, <1>5, <1>6, <1>7, <1>8 DEF LoopStep

\* The steps of the owner.
LEMMA OwnerEnded ==
  ASSUME Machine, Queues, Ended, Start \/ RunBaseLoop \/ QuitBaseLoop \/ OwnerStep
  PROVE  Ended'
<1> USE Numbers
<1>1. pc \in [Loops -> Pcs] /\ queue \in [Loops -> Seq(Functors)] /\ Types
  BY DEF Machine, Types
<1>2. CASE Start
  <2>1. /\ serverPc = "built" /\ serverPc' = "started"
        /\ pc' = [l \in Loops |-> IF l \in Pool THEN "starting" ELSE "out"]
        /\ UNCHANGED <<numThreads_, quit_, queue>>
    BY <1>2 DEF Start, poolVars
  <2> QED
    BY <1>1, <2>1 DEF Ended, Pool
<1>3. CASE RunBaseLoop
  BY <1>1, <1>3 DEF RunBaseLoop, Ended, Pool, poolVars
<1>4. CASE QuitBaseLoop
  BY <1>1, <1>4 DEF QuitBaseLoop, Ended, Pool, poolVars
<1>5. CASE DestroyServer \/ DestroyPool
  BY <1>5 DEF DestroyServer, DestroyPool, Ended, Pool, poolVars, loopVars
<1>6. ASSUME NEW c \in Conns, DestroyConnection(c)
      PROVE  Ended'
  <2>1. /\ serverPc = "destroying" /\ loopOf[c] \in Loops
        /\ UNCHANGED <<pc, quit_, serverPc, numThreads_>>
        /\ \/ queue' = queue
           \/ queue' = Queued(loopOf[c], "destroyed", c)
    BY <1>1, <1>6 DEF DestroyConnection, loopVars, poolVars, Types
  <2>2. pc[loopOf[c]] # "gone"
    BY <2>1 DEF Ended
  <2>3. CASE queue' = queue
    BY <2>1, <2>3 DEF Ended, Pool
  <2> QED
    BY <1>1, <2>1, <2>2, <2>3, QueuedEnded
<1>7. ASSUME NEW l \in Loops, QuitPoolLoop(l)
      PROVE  Ended'
  BY <1>1, <1>7 DEF QuitPoolLoop, Ended, Pool, poolVars
<1>8. CASE DestroyAcceptor
  <2>1. /\ serverPc = "joining" /\ serverPc' = "gone" /\ \A l \in Pool : pc[l] = "gone"
        /\ UNCHANGED <<pc, quit_, numThreads_, queue>>
    BY <1>8 DEF DestroyAcceptor, Joined, poolVars, loopVars
  <2> QED
    BY <2>1 DEF Ended, Pool
<1>9. CASE DestroyBaseLoop
  <2>1. /\ serverPc = "gone" /\ pc' = [pc EXCEPT ![Base] = "gone"]
        /\ queue' = [queue EXCEPT ![Base] = <<>>]
        /\ UNCHANGED <<serverPc, quit_, numThreads_>>
    BY <1>9 DEF DestroyBaseLoop, poolVars
  <2> QED
    BY <1>1, <2>1 DEF Ended, Pool
<1> QED
  BY <1>2, <1>3, <1>4, <1>5, <1>6, <1>7, <1>8, <1>9 DEF OwnerStep

\* Every step keeps it.
LEMMA EndedStep ==
  ASSUME IInv, Reported, Ended, [Next]_vars
  PROVE  Ended'
<1>0. Machine /\ Queues
  BY DEF IInv
<1>1. ASSUME UNCHANGED <<queue, pc, quit_, serverPc, numThreads_>>
      PROVE  Ended'
  BY <1>1 DEF Ended, Pool
<1>2. CASE AcceptorStep
  <2>1. CASE NewConnection
    <3>1. /\ pc[Base] = "events" /\ NextLoop \in Loops
          /\ UNCHANGED <<pc, quit_, serverPc, numThreads_>>
          /\ \/ queue' = queue
             \/ queue' = Queued(NextLoop, "established", nextConnId_)
      BY <1>0, <2>1, Numbers
         DEF NewConnection, AtListener, DoneWithListener, NextLoop, Machine, Types
    <3>2. CASE queue' = queue
      BY <1>1, <3>1, <3>2
    <3>3. CASE queue' = Queued(NextLoop, "established", nextConnId_)
      BY <1>0, <3>1, <3>3, BaseRuns, QueuedEnded DEF Machine
    <3> QED
      BY <3>1, <3>2, <3>3
  <2>2. CASE ListenerFull \/ RefuseClient \/ ReopenIdle
    BY <1>1, <2>2 DEF ListenerFull, RefuseClient, ReopenIdle, DoneWithListener,
                      loopVars, poolVars
  <2> QED
    BY <1>2, <2>1, <2>2 DEF AcceptorStep
<1>3. ASSUME NEW l \in Loops, LoopStep(l)
      PROVE  Ended'
  BY <1>0, <1>3, LoopEnded
<1>4. CASE Start \/ RunBaseLoop \/ QuitBaseLoop \/ OwnerStep
  BY <1>0, <1>4, OwnerEnded
<1>5. CASE Environment \/ UNCHANGED vars
  BY <1>1, <1>5 DEF Environment, PeerCloses, loopVars, poolVars, vars
<1>6. ASSUME NEW c \in Conns, Shutdown(c)
      PROVE  Ended'
  BY <1>1, <1>6 DEF Shutdown, loopVars, poolVars
<1> QED
  BY <1>2, <1>3, <1>4, <1>5, <1>6 DEF Next
-----------------------------------------------------------------------------
(* The table of descriptors.                                               *)

\* The connections whose descriptors are open.
Living == {c \in Accepted : Alive(c)}

\* The descriptor of idleFd_.
Reserve == IF idleFd_ THEN 1 ELSE 0

\* There is room for what is open.
Table ==
  /\ listening_ \in BOOLEAN /\ idleFd_ \in BOOLEAN
  /\ arrived \in 0 .. MaxClients /\ others \in 0 .. MaxOthers
  /\ IsFiniteSet(Living)
  /\ Open + others + Reserve <= MaxFds
  /\ peerClosed \subseteq Accepted
  /\ numThreads_ \in ThreadNums /\ serverPc \in ServerPcs

\* A step leaves no connection alive that was not, but those in X.
LEMMA AliveFrame ==
  ASSUME NEW X, connections_' \subseteq connections_ \union X,
         \A l \in Loops : \A f \in Held(l)' : f \in Held(l) \/ f.conn \in X
  PROVE  \A c : Alive(c)' => Alive(c) \/ c \in X
BY DEF Alive

\* Queueing a functor of c keeps nobody alive but c.
LEMMA QueuedHeld ==
  ASSUME Types, NEW m \in Loops, NEW op \in Ops, NEW c \in Conns,
         queue' = Queued(m, op, c), batch' = batch
  PROVE  \A l \in Loops : \A f \in Held(l)' : f \in Held(l) \/ f.conn = c
<1>1. \A l \in Loops : /\ queue[l] \in Seq(Functors)
                       /\ queue'[l] = IF l = m THEN Append(queue[l], F(op, c)) ELSE queue[l]
  BY DEF Types, Queued
<1>2. F(op, c) \in Functors /\ F(op, c).conn = c
  BY FunctorsDiffer
<1>3. ASSUME NEW q \in Seq(Functors), NEW f \in Range(Append(q, F(op, c)))
      PROVE  f \in Range(q) \/ f = F(op, c)
  BY <1>2 DEF Range
<1> QED
  BY <1>1, <1>2, <1>3 DEF Held

\* A step that hands functors on, or drops them.
LEMMA HeldShrinks ==
  ASSUME \A l \in Loops :
           /\ queue'[l] \in {queue[l], <<>>}
           /\ batch'[l] \in {batch[l], queue[l], <<>>}
  PROVE  \A l \in Loops : \A f \in Held(l)' : f \in Held(l)
<1>1. Range(<<>>) = {}
  BY DEF Range
<1> QED
  BY <1>1 DEF Held

\* No step but newConnection opens a connection.
LEMMA NobodyRises ==
  ASSUME IInv, [Next]_vars, ~NewConnection
  PROVE  /\ Accepted' = Accepted
         /\ \A c : Alive(c)' => Alive(c)
<1> USE Numbers
<1>0. Machine /\ Queues /\ Owned /\ Types
  BY DEF IInv, Machine
<1>1. ASSUME UNCHANGED <<connections_, queue, batch, nextConnId_>>
      PROVE  Accepted' = Accepted /\ \A c : Alive(c)' => Alive(c)
  BY <1>1 DEF Accepted, Alive, Held
<1>2. ASSUME NEW c \in Conns, Alive(c), connections_' \subseteq connections_,
             NEW m \in Loops, NEW op \in Ops, queue' = Queued(m, op, c),
             UNCHANGED <<batch, nextConnId_>>
      PROVE  Accepted' = Accepted /\ \A d : Alive(d)' => Alive(d)
  <2>1. \A l \in Loops : \A f \in Held(l)' : f \in Held(l) \/ f.conn \in {c}
    BY <1>0, <1>2, QueuedHeld
  <2>2. \A d : Alive(d)' => Alive(d) \/ d \in {c}
    BY <1>2, <2>1, AliveFrame
  <2> QED
    BY <1>2, <2>2 DEF Accepted
<1>3. ASSUME connections_' \subseteq connections_, nextConnId_' = nextConnId_,
             \A l \in Loops : /\ queue'[l] \in {queue[l], <<>>}
                              /\ batch'[l] \in {batch[l], queue[l], <<>>}
      PROVE  Accepted' = Accepted /\ \A d : Alive(d)' => Alive(d)
  <2>1. \A d : Alive(d)' => Alive(d) \/ d \in {}
    BY <1>3, HeldShrinks, AliveFrame
  <2> QED
    BY <1>3, <2>1 DEF Accepted
<1>4. CASE AcceptorStep
  BY <1>1, <1>4 DEF AcceptorStep, ListenerFull, RefuseClient, ReopenIdle,
                    DoneWithListener, loopVars, serverVars
<1>5. ASSUME NEW l \in Loops, LoopStep(l)
      PROVE  Accepted' = Accepted /\ \A c : Alive(c)' => Alive(c)
  <2>1. CASE Poll(l) \/ EnterLoop(l)
    BY <1>1, <2>1 DEF Poll, EnterLoop, serverVars
  <2>2. ASSUME NEW c \in Conns, HandleClose(l, c)
        PROVE  Accepted' = Accepted /\ \A d : Alive(d)' => Alive(d)
    <3>1. /\ c \in Accepted /\ loopOf[c] = l /\ index_[c] = "kAdded" /\ pc[l] = "events"
          /\ UNCHANGED <<batch, nextConnId_>> /\ connections_' \subseteq connections_
      BY <1>0, <2>2 DEF HandleClose, At, Machine, Walked, Removed
    <3>2. Alive(c)
      BY <1>0, <3>1, PendingAlive DEF Owned, Alive
    <3>3. \E op \in Ops : queue' = Queued(Base, op, c)
      BY <2>2, <3>1 DEF HandleClose, Ops
    <3> QED
      BY <1>2, <3>1, <3>2, <3>3
  <2>3. CASE TakeFunctors(l)
    BY <1>0, <1>3, <2>3 DEF TakeFunctors, serverVars, Types
  <2>4. CASE RunFunctor(l)
    <3>1. ran[l] < Len(batch[l]) /\ UNCHANGED <<batch, nextConnId_>>
      BY <2>4 DEF RunFunctor
    <3>2. PICK f, c : f = batch[l][ran[l] + 1] /\ c = f.conn
      OBVIOUS
    <3>3. c \in Conns /\ Pending(l, f.op, c) /\ loopOf[c] \in Loops
      BY <1>0, <3>1, <3>2, HeadOfQueue DEF Types
    <3>4. Alive(c)
      BY <3>3, PendingAlive
    <3>5. CASE UNCHANGED <<connections_, queue>>
      BY <1>1, <3>1, <3>5
    <3>6. CASE RemoveConnectionInLoop(c)
      BY <1>2, <3>1, <3>3, <3>4, <3>6 DEF RemoveConnectionInLoop, Removed, Ops
    <3> QED
      BY <2>4, <3>2, <3>5, <3>6 DEF RunFunctor
  <2>5. CASE EndOfFunctors(l)
    BY <1>0, <1>3, <2>5 DEF EndOfFunctors, serverVars, Types
  <2> QED
    BY <1>5, <2>1, <2>2, <2>3, <2>4, <2>5 DEF LoopStep
<1>6. CASE Start \/ RunBaseLoop \/ QuitBaseLoop
  BY <1>1, <1>6 DEF Start, RunBaseLoop, QuitBaseLoop, serverVars
<1>7. CASE OwnerStep
  <2>1. CASE DestroyServer \/ DestroyPool \/ DestroyAcceptor
             \/ \E l \in Loops : QuitPoolLoop(l)
    BY <1>1, <2>1 DEF DestroyServer, DestroyPool, DestroyAcceptor, QuitPoolLoop,
                      loopVars, serverVars
  <2>2. ASSUME NEW c \in Conns, DestroyConnection(c)
        PROVE  Accepted' = Accepted /\ \A d : Alive(d)' => Alive(d)
    <3>1. /\ c \in connections_ /\ connections_' \subseteq connections_
          /\ UNCHANGED <<batch, nextConnId_>> /\ loopOf[c] \in Loops
          /\ queue' = queue \/ queue' = Queued(loopOf[c], "destroyed", c)
      BY <1>0, <2>2 DEF DestroyConnection, loopVars, Types
    <3>2. CASE queue' = queue
      BY <1>3, <3>1, <3>2
    <3>3. CASE queue' = Queued(loopOf[c], "destroyed", c)
      BY <1>2, <3>1, <3>3 DEF Alive, Ops
    <3> QED
      BY <3>1, <3>2, <3>3
  <2>3. CASE DestroyBaseLoop
    BY <1>0, <1>3, <2>3 DEF DestroyBaseLoop, serverVars, Types
  <2> QED
    BY <1>7, <2>1, <2>2, <2>3 DEF OwnerStep
<1>8. CASE Environment \/ UNCHANGED vars
  BY <1>1, <1>8 DEF Environment, PeerCloses, loopVars, serverVars, vars
<1>9. ASSUME NEW c \in Conns, Shutdown(c)
      PROVE  Accepted' = Accepted /\ \A d : Alive(d)' => Alive(d)
  BY <1>1, <1>9 DEF Shutdown, loopVars, serverVars
<1> QED
  BY <1>4, <1>5, <1>6, <1>7, <1>8, <1>9 DEF Next

\* newConnection opens one.
LEMMA OneRises ==
  ASSUME IInv, NewConnection
  PROVE  /\ Accepted' = Accepted \union {nextConnId_} /\ nextConnId_ \notin Accepted
         /\ nextConnId_ \in Conns
         /\ \A c : Alive(c)' => Alive(c) \/ c \in {nextConnId_}
<1> USE Numbers
<1>0. Machine /\ Types
  BY DEF IInv, Machine
<1>1. /\ backlog > 0 /\ batch' = batch /\ nextConnId_' = nextConnId_ + 1
      /\ connections_' = connections_ \union {nextConnId_}
      /\ NextLoop \in Loops
      /\ \/ queue' = queue
         \/ queue' = Queued(NextLoop, "established", nextConnId_)
  <2>1. backlog > 0
    BY <1>0 DEF NewConnection, AtListener, Accept, Machine, Clients
  <2>2. NextLoop \in Loops
    BY <1>0 DEF NextLoop, Types
  <2>3. /\ batch' = batch /\ nextConnId_' = nextConnId_ + 1
        /\ connections_' = connections_ \union {nextConnId_}
        /\ \/ queue' = queue
           \/ queue' = Queued(NextLoop, "established", nextConnId_)
    BY DEF NewConnection, DoneWithListener
  <2> QED
    BY <2>1, <2>2, <2>3
<1>2. nextConnId_ \in Conns /\ nextConnId_ \notin Accepted
  BY <1>0, <1>1 DEF Types, Machine, Clients, Accepted
<1>3. Accepted' = Accepted \union {nextConnId_}
  BY <1>0, <1>1 DEF Types, Accepted
<1>4. \A l \in Loops : \A f \in Held(l)' : f \in Held(l) \/ f.conn \in {nextConnId_}
  <2>1. CASE queue' = queue
    BY <1>1, <2>1 DEF Held
  <2>2. CASE queue' = Queued(NextLoop, "established", nextConnId_)
    BY <1>0, <1>1, <1>2, <2>2, QueuedHeld DEF Ops
  <2> QED
    BY <1>1, <2>1, <2>2
<1>5. PICK X : X = {nextConnId_}
  OBVIOUS
<1>6. \A c : Alive(c)' => Alive(c) \/ c \in X
  BY <1>1, <1>4, <1>5, AliveFrame
<1> QED
  BY <1>2, <1>3, <1>5, <1>6

\* The table has room after a step if no more was opened than was free.
LEMMA RoomLeft ==
  ASSUME NEW m \in Nat, NEW x \in Nat, NEW y \in Nat, NEW o \in Nat,
         NEW p \in Nat, NEW r \in {0, 1}, NEW s \in {0, 1},
         x + o + r <= m,
         \/ y <= x /\ p <= o /\ s <= r
         \/ m - (x + o + r) > 0 /\ y <= x /\ p = o
         \/ m - (x + o + r) > 0 /\ y <= x /\ p = o + 1 /\ s = r
         \/ m - (x + o + r) > 0 /\ y <= x + 1 /\ p = o /\ s = r
  PROVE  y + p + s <= m
OBVIOUS

\* The same of the acceptor's table.
LEMMA RoomKept ==
  ASSUME Open \in Nat, Open' \in Nat, others \in Nat, others' \in Nat, MaxFds \in Nat,
         Reserve \in {0, 1}, Reserve' \in {0, 1}, Open + others + Reserve <= MaxFds,
         \/ Open' <= Open /\ others' <= others /\ Reserve' <= Reserve
         \/ FreeFds(Open) > 0 /\ Open' <= Open /\ others' = others
         \/ FreeFds(Open) > 0 /\ Open' <= Open /\ others' = others + 1 /\ Reserve' = Reserve
         \/ FreeFds(Open) > 0 /\ Open' <= Open + 1 /\ others' = others /\ Reserve' = Reserve
  PROVE  Open' + others' + Reserve' <= MaxFds
<1>1. PICK x \in Nat, y \in Nat, o \in Nat, p \in Nat, r \in {0, 1}, s \in {0, 1}, m \in Nat :
        /\ x = Open /\ y = Open' /\ o = others /\ p = others' /\ r = Reserve /\ s = Reserve'
        /\ m = MaxFds
  OBVIOUS
<1>2. x + o + r <= m
  BY <1>1
<1>3. FreeFds(Open) = m - (x + o + r)
  BY <1>1 DEF FreeFds, Reserve
<1>4. \/ y <= x /\ p <= o /\ s <= r
      \/ m - (x + o + r) > 0 /\ y <= x /\ p = o
      \/ m - (x + o + r) > 0 /\ y <= x /\ p = o + 1 /\ s = r
      \/ m - (x + o + r) > 0 /\ y <= x + 1 /\ p = o /\ s = r
  BY <1>1, <1>3
<1>5. y + p + s <= m
  BY <1>2, <1>4, RoomLeft
<1> QED
  BY <1>1, <1>5

\* Any other step opens none.
LEMMA OpenFalls ==
  ASSUME IsFiniteSet(Living), Accepted' = Accepted, \A c : Alive(c)' => Alive(c)
  PROVE  IsFiniteSet(Living') /\ Open \in Nat /\ Open' \in Nat /\ Open' <= Open
<1>1. Open = Cardinality(Living) /\ Open' = Cardinality(Living')
  BY DEF Open, Living
<1>2. Living' \subseteq Living
  BY DEF Living
<1>3. PICK S, T : S = Living /\ T = Living'
  OBVIOUS
<1>4. IsFiniteSet(T) /\ Cardinality(T) <= Cardinality(S)
  BY <1>2, <1>3, FS_Subset
<1> QED
  BY <1>1, <1>3, <1>4, FS_CardinalityType

\* newConnection opens at most one descriptor.
LEMMA OpenRises ==
  ASSUME IInv, NewConnection, IsFiniteSet(Living)
  PROVE  IsFiniteSet(Living') /\ Open \in Nat /\ Open' \in Nat /\ Open' <= Open + 1
<1>1. Open = Cardinality(Living) /\ Open' = Cardinality(Living')
  BY DEF Open, Living
<1>2. PICK n : n = nextConnId_
  OBVIOUS
<1>3. Living' \subseteq Living \union {n}
  <2>1. /\ Accepted' = Accepted \union {n}
        /\ \A c : Alive(c)' => Alive(c) \/ c \in {n}
    BY <1>2, OneRises
  <2> QED
    BY <2>1 DEF Living
<1>4. PICK S, T, U : S = Living /\ T = Living' /\ U = S \union {n}
  OBVIOUS
<1>5. /\ IsFiniteSet(U) /\ Cardinality(S) \in Nat
      /\ Cardinality(U) = IF n \in S THEN Cardinality(S) ELSE Cardinality(S) + 1
  BY <1>4, FS_AddElement, FS_CardinalityType
<1>6. IsFiniteSet(T) /\ Cardinality(T) <= Cardinality(U)
  BY <1>3, <1>4, <1>5, FS_Subset
<1> QED
  BY <1>1, <1>4, <1>5, <1>6, FS_CardinalityType

\* Every step keeps the table.
LEMMA TableStep ==
  ASSUME IInv, Table, [Next]_vars
  PROVE  Table'
<1> USE Numbers, MaxFdsAssumption, ClientsAssumption
<1>0. IsFiniteSet(Living) /\ Types /\ Clients /\ nextConnId_ \in Nat
  BY DEF Table, IInv, Machine, Types
<1>9. /\ others \in Nat /\ MaxFds \in Nat /\ arrived \in Nat /\ idleFd_ \in BOOLEAN
      /\ Open + others + Reserve <= MaxFds /\ Reserve \in {0, 1} /\ Reserve' \in {0, 1}
      /\ FreeFds(Open) = MaxFds - (Open + others + Reserve)
  BY DEF Table, Reserve, FreeFds
<1>1. CASE NewConnection
  <2>1. /\ Accepted' = Accepted \union {nextConnId_} /\ IsFiniteSet(Living')
        /\ Open \in Nat /\ Open' \in Nat /\ Open' <= Open + 1
    BY <1>0, <1>1, OneRises, OpenRises
  <2>2. FreeFds(Open) > 0 /\ UNCHANGED <<listening_, idleFd_, arrived, others, serverPc, numThreads_, peerClosed>>
    BY <1>1 DEF NewConnection, Accept
  <2>3. Open' + others' + Reserve' <= MaxFds
    <3>1. Reserve' = Reserve /\ others' = others
      BY <2>2 DEF Reserve
    <3> QED
      BY <1>9, <2>1, <2>2, <3>1, RoomKept
  <2> QED
    BY <2>1, <2>2, <2>3 DEF Table
<1>2. CASE ~NewConnection
  <2>0. Accepted' = Accepted /\ \A c : Alive(c)' => Alive(c)
    BY <1>2, NobodyRises
  <2>1. IsFiniteSet(Living') /\ Open \in Nat /\ Open' \in Nat /\ Open' <= Open
    BY <1>0, <2>0, OpenFalls
  <2>2. ASSUME UNCHANGED <<listening_, idleFd_, arrived, others, numThreads_>>,
               serverPc' \in ServerPcs,
               peerClosed' \subseteq Accepted
        PROVE  Table'
    <3>1. Open' + others' + Reserve' <= MaxFds
      <4>1. Reserve' <= Reserve /\ others' <= others /\ others' = others
        BY <1>9, <2>2 DEF Reserve
      <4> QED
        BY <1>9, <2>1, <4>1, RoomKept
    <3> QED
      BY <2>0, <2>1, <2>2, <3>1 DEF Table
  <2>3. ASSUME UNCHANGED <<numThreads_, peerClosed>>, serverPc' \in ServerPcs,
               listening_' \in BOOLEAN, idleFd_' \in BOOLEAN,
               arrived' \in 0 .. MaxClients, others' \in 0 .. MaxOthers,
               \/ others' <= others /\ Reserve' <= Reserve
               \/ FreeFds(Open) > 0 /\ others' = others
               \/ FreeFds(Open) > 0 /\ others' = others + 1 /\ Reserve' = Reserve
        PROVE  Table'
    <3>1. Open' + others' + Reserve' <= MaxFds
      <4>1. others' \in Nat
        BY <2>3
      <4> QED
        BY <1>9, <2>1, <2>3, <4>1, RoomKept
    <3> QED
      BY <2>0, <2>1, <2>3, <3>1 DEF Table
  <2>4. CASE AcceptorStep
    <3>1. UNCHANGED <<numThreads_, peerClosed, serverPc, listening_, arrived, others>>
      BY <1>2, <2>4 DEF AcceptorStep, ListenerFull, RefuseClient, ReopenIdle,
                        TableFull, Refuse, Reopen, poolVars
    <3>2. \/ idleFd_' = FALSE
          \/ idleFd_' = idleFd_
          \/ idleFd_' = (idleFd_ \/ FreeFds(Open) > 0)
      BY <1>2, <2>4 DEF AcceptorStep, ListenerFull, RefuseClient, ReopenIdle,
                        TableFull, Refuse, Reopen, IdleAfterClose
    <3>3. CASE idleFd_' = FALSE \/ idleFd_' = idleFd_
      <4>1. idleFd_' \in BOOLEAN /\ others' = others
        BY <1>9, <3>1, <3>3
      <4>2. Reserve' <= Reserve
        BY <3>3 DEF Reserve
      <4> QED
        BY <1>9, <2>3, <3>1, <4>1, <4>2 DEF Table
    <3>4. CASE idleFd_' = (idleFd_ \/ FreeFds(Open) > 0)
      <4>1. idleFd_' \in BOOLEAN /\ others' = others
        BY <1>9, <3>1, <3>4
      <4>2. Reserve' <= Reserve \/ FreeFds(Open) > 0
        <5>1. CASE FreeFds(Open) > 0
          BY <5>1
        <5>2. CASE ~(FreeFds(Open) > 0)
          <6>1. idleFd_' = idleFd_
            BY <1>9, <3>4, <5>2
          <6> QED
            BY <6>1 DEF Reserve
        <5> QED
          BY <5>1, <5>2
      <4> QED
        BY <1>9, <2>3, <3>1, <4>1, <4>2 DEF Table
    <3> QED
      BY <3>2, <3>3, <3>4
  <2>5. ASSUME NEW l \in Loops, LoopStep(l)
        PROVE  Table'
    <3>1. UNCHANGED <<acceptorVars, serverPc, poolVars, peerClosed>>
      BY <2>5 DEF LoopStep, EnterLoop, Poll, HandleClose, TakeFunctors, RunFunctor,
                  EndOfFunctors
    <3> QED
      BY <2>2, <3>1 DEF Table, acceptorVars, poolVars
  <2>6. CASE Start
    <3>1. UNCHANGED <<numThreads_, peerClosed, idleFd_, arrived, others>> /\ listening_' = TRUE
          /\ serverPc' = "started"
      BY <2>6 DEF Start, Listen, poolVars
    <3>2. others' <= others /\ Reserve' <= Reserve
      BY <1>9, <3>1 DEF Reserve
    <3> QED
      BY <1>9, <2>3, <3>1, <3>2 DEF Table, ServerPcs
  <2>7. CASE OwnerStep \/ RunBaseLoop \/ QuitBaseLoop
    <3>1. CASE DestroyAcceptor
      <4>1. UNCHANGED <<numThreads_, peerClosed, arrived, others>> /\ listening_' = FALSE
            /\ idleFd_' = FALSE /\ serverPc' = "gone"
        BY <3>1 DEF DestroyAcceptor, CloseAcceptor, poolVars
      <4>2. Reserve' <= Reserve /\ others' <= others
        BY <1>9, <4>1 DEF Reserve
      <4> QED
        BY <1>9, <2>3, <4>1, <4>2 DEF Table, ServerPcs
    <3>2. CASE ~DestroyAcceptor
      <4>1. UNCHANGED <<acceptorVars, numThreads_, peerClosed>>
        BY <2>7, <3>2 DEF OwnerStep, DestroyServer, DestroyConnection, DestroyPool, QuitPoolLoop,
                   DestroyBaseLoop, RunBaseLoop, QuitBaseLoop, poolVars
      <4>2. serverPc' \in {serverPc, "serving", "destroying", "joining"}
        BY <2>7, <3>2 DEF OwnerStep, DestroyServer, DestroyConnection, DestroyPool, QuitPoolLoop,
                   DestroyBaseLoop, RunBaseLoop, QuitBaseLoop
      <4> QED
        BY <2>2, <4>1, <4>2 DEF Table, acceptorVars, ServerPcs
    <3> QED
      BY <3>1, <3>2
  <2>8. CASE Environment
    <3>1. ASSUME NEW c \in Conns, PeerCloses(c)
          PROVE  Table'
      <4>1. UNCHANGED <<acceptorVars, serverPc, poolVars>> /\ peerClosed' \subseteq Accepted
        BY <3>1 DEF PeerCloses, Table
      <4> QED
        BY <2>2, <4>1 DEF Table, acceptorVars, poolVars
    <3>2. ASSUME ClientArrives \/ OtherOpens(Open) \/ OtherCloses,
                 UNCHANGED <<serverPc, poolVars, peerClosed>>
          PROVE  Table'
      <4>1. UNCHANGED <<serverPc, numThreads_, peerClosed>>
        BY <3>2 DEF poolVars
      <4>3. listening_' = listening_ /\ idleFd_' = idleFd_
        BY <3>2 DEF ClientArrives, OtherOpens, OtherCloses
      <4>4. /\ arrived' \in 0 .. MaxClients /\ others' \in 0 .. MaxOthers
            /\ \/ others' <= others
               \/ FreeFds(Open) > 0 /\ others' = others + 1
        BY <1>9, <3>2 DEF ClientArrives, OtherOpens, OtherCloses, Table
      <4>5. Reserve' = Reserve
        BY <4>3 DEF Reserve
      <4>6. Reserve' <= Reserve
        BY <1>9, <4>5
      <4> QED
        BY <1>9, <2>3, <4>1, <4>3, <4>4, <4>5, <4>6 DEF Table
    <3> QED
      BY <2>8, <3>1, <3>2 DEF Environment
  <2>9. CASE UNCHANGED vars
    BY <2>2, <2>9 DEF Table, vars, acceptorVars, poolVars
  <2>10. ASSUME NEW c \in Conns, Shutdown(c)
         PROVE  Table'
    <3>1. UNCHANGED <<acceptorVars, serverPc, poolVars, peerClosed>>
      BY <2>10 DEF Shutdown
    <3> QED
      BY <2>2, <3>1 DEF Table, acceptorVars, poolVars
  <2> QED
    BY <2>4, <2>5, <2>6, <2>7, <2>8, <2>9, <2>10 DEF Next
<1> QED
  BY <1>1, <1>2
-----------------------------------------------------------------------------
(* The turn of the loops.                                                  *)

\* The connections given to a loop.
Given(l) == {c \in Accepted : loopOf[c] = l}

\* The loops up to next_ have been served once more than the others.
InTurn ==
  /\ numThreads_ = 0 => next_ = 0
  /\ numThreads_ > 0 =>
       /\ Given(Base) = {}
       /\ \A l \in Pool : IsFiniteSet(Given(l))
       /\ \E q \in Nat : \A l \in Pool :
            Cardinality(Given(l)) = IF l <= next_ THEN q + 1 ELSE q

\* Only newConnection gives.
LEMMA TurnFrame ==
  ASSUME InTurn, UNCHANGED <<numThreads_, next_, nextConnId_, loopOf>>
  PROVE  InTurn'
BY DEF InTurn, Given, Pool, Accepted

\* newConnection gives to the loop whose turn it is.
LEMMA NewConnectionTurn ==
  ASSUME IInv, InTurn, NewConnection
  PROVE  InTurn'
<1> USE Numbers
<1>0. Types
  BY DEF IInv, Machine
<1>12. numThreads_' = numThreads_ /\ numThreads_ \in Nat
  BY <1>0 DEF NewConnection, Types
<1>11. CASE ~(numThreads_ > 0)
  <2>1. numThreads_ = 0 /\ next_ = 0 /\ next_' = 0
    BY <1>0, <1>11 DEF NewConnection, NextAfter, Types, InTurn
  <2> QED
    BY <1>11, <1>12, <2>1 DEF InTurn
<1> SUFFICES ASSUME numThreads_ > 0
             PROVE  InTurn'
  BY <1>11
<1>1. PICK c, n, t : c = nextConnId_ /\ n = numThreads_ /\ t = next_
  OBVIOUS
<1>2. /\ n \in Nat /\ n > 0 /\ t \in Nat /\ t < n /\ n <= MaxThreads
      /\ numThreads_' = n
  BY <1>0, <1>1 DEF NewConnection, Types
<1>3. Accepted' = Accepted \union {c} /\ c \notin Accepted /\ c \in Conns
  BY <1>1, OneRises
<1>13. Accepted \subseteq Conns
  BY AcceptedInConns DEF IInv
<1>4. /\ loopOf' = [loopOf EXCEPT ![c] = t + 1]
      /\ next_' = IF t + 1 >= n THEN 0 ELSE t + 1
  <2>1. n # 0 /\ NextLoop = t + 1 /\ NextAfter = IF t + 1 >= n THEN 0 ELSE t + 1
    BY <1>1, <1>2 DEF NextLoop, NextAfter
  <2> QED
    BY <1>1, <2>1 DEF NewConnection
<1>5. \A l : Given(l)' = IF l = t + 1 THEN Given(l) \union {c} ELSE Given(l)
  BY <1>0, <1>3, <1>4, <1>13 DEF Given, Types
<1>6. /\ Given(Base) = {} /\ \A l \in Pool : IsFiniteSet(Given(l))
      /\ Pool = 1 .. n /\ Pool' = 1 .. n
  BY <1>1, <1>2 DEF InTurn, Pool
<1>7. PICK q \in Nat : \A l \in Pool :
        Cardinality(Given(l)) = IF l <= t THEN q + 1 ELSE q
  BY <1>1, <1>2 DEF InTurn
<1>8. \A l \in Pool : /\ IsFiniteSet(Given(l)')
                      /\ Cardinality(Given(l)') = IF l <= t + 1 THEN q + 1 ELSE q
  <2> SUFFICES ASSUME NEW l \in Pool
               PROVE  /\ IsFiniteSet(Given(l)')
                      /\ Cardinality(Given(l)') = IF l <= t + 1 THEN q + 1 ELSE q
    OBVIOUS
  <2>1. PICK S : S = Given(l)
    OBVIOUS
  <2>2. IsFiniteSet(S) /\ c \notin S /\ Cardinality(S) = IF l <= t THEN q + 1 ELSE q
    BY <1>3, <1>6, <1>7, <2>1 DEF Given
  <2>3. IsFiniteSet(S \union {c}) /\ Cardinality(S \union {c}) = Cardinality(S) + 1
    BY <2>2, FS_AddElement
  <2>4. CASE l = t + 1
    <3>1. Given(l)' = S \union {c} /\ Cardinality(S) = q
      BY <1>2, <1>5, <2>1, <2>2, <2>4
    <3>2. l <= t + 1
      BY <1>2, <2>4
    <3> QED
      BY <2>3, <3>1, <3>2
  <2>5. CASE l # t + 1
    <3>1. Given(l)' = S
      BY <1>5, <2>1, <2>5
    <3>2. l <= t <=> l <= t + 1
      BY <1>2, <1>6, <2>5
    <3> QED
      BY <2>2, <3>1, <3>2
  <2> QED
    BY <2>4, <2>5
<1>9. Given(Base)' = {}
  BY <1>2, <1>5, <1>6
<1>10. \E p \in Nat : \A l \in Pool' :
         Cardinality(Given(l)') = IF l <= next_' THEN p + 1 ELSE p
  <2>1. CASE t + 1 >= n
    <3>1. \A l \in Pool' : l <= t + 1 /\ ~(l <= next_')
      BY <1>2, <1>4, <1>6, <2>1
    <3>2. \A l \in Pool' : Cardinality(Given(l)') = IF l <= next_' THEN q + 1 + 1 ELSE q + 1
      BY <1>6, <1>8, <3>1
    <3> QED
      BY <3>2
  <2>2. CASE ~(t + 1 >= n)
    <3>1. next_' = t + 1
      BY <1>4, <2>2
    <3> QED
      BY <1>6, <1>8, <3>1
  <2> QED
    BY <2>1, <2>2
<1>14. numThreads_' # 0 /\ \A l \in Pool' : IsFiniteSet(Given(l)')
  BY <1>2, <1>6, <1>8
<1> QED
  BY <1>9, <1>10, <1>14 DEF InTurn

\* Every step keeps the turn.
LEMMA TurnStep ==
  ASSUME IInv, InTurn, [Next]_vars
  PROVE  InTurn'
<1>1. CASE NewConnection
  BY <1>1, NewConnectionTurn
<1>2. CASE ~NewConnection
  <2>1. UNCHANGED <<numThreads_, next_, nextConnId_, loopOf>>
    <3>1. CASE AcceptorStep \/ Start \/ RunBaseLoop \/ QuitBaseLoop \/ UNCHANGED vars
      BY <1>2, <3>1 DEF AcceptorStep, ListenerFull, RefuseClient, ReopenIdle, Start,
                        RunBaseLoop, QuitBaseLoop, poolVars, serverVars, vars
    <3>2. CASE OwnerStep
      BY <3>2 DEF OwnerStep, DestroyServer, DestroyConnection, DestroyPool, QuitPoolLoop,
                  DestroyAcceptor, DestroyBaseLoop, poolVars, serverVars
    <3>3. ASSUME NEW l \in Loops, LoopStep(l)
          PROVE  UNCHANGED <<numThreads_, next_, nextConnId_, loopOf>>
      BY <3>3 DEF LoopStep, EnterLoop, Poll, HandleClose, TakeFunctors, RunFunctor,
                  EndOfFunctors, poolVars, serverVars
    <3>4. CASE Environment
      BY <3>4 DEF Environment, PeerCloses, poolVars, serverVars
    <3>5. ASSUME NEW c \in Conns, Shutdown(c)
          PROVE  UNCHANGED <<numThreads_, next_, nextConnId_, loopOf>>
      BY <3>5 DEF Shutdown, poolVars, serverVars
    <3> QED
      BY <3>1, <3>2, <3>3, <3>4, <3>5 DEF Next
  <2> QED
    BY <2>1, TurnFrame
<1> QED
  BY <1>1, <1>2

-----------------------------------------------------------------------------
(* The whole invariant.                                                    *)

\* Everything that is known of a server.
Whole == IInv /\ Reported /\ Ended /\ Table /\ InTurn

\* A server before start() has reported, opened and given nothing.
LEMMA InitWhole ==
  ASSUME Init
  PROVE  Whole
<1> USE Numbers
<1>1. IInv
  BY InitIInv
<1>2. Accepted = {}
  BY DEF Init, Accepted
<1>3. Ended
  BY DEF Init, Ended
<1>4. Reported
  <2>1. \A f : ~Waits(<<>>, 0, <<>>, f) /\ Once(<<>>, 0, <<>>, f)
    BY DEF Waits, Once
  <2> QED
    BY <2>1 DEF Init, Reported, EstablishedOnce, Pending
<1>5. Table
  <2>1. Living = {} /\ Open = 0 /\ IsFiniteSet(Living)
    BY <1>2, FS_EmptySet DEF Living, Open
  <2>2. Open + others + Reserve <= MaxFds
    <3>1. others = 0 /\ Reserve = 1
      BY DEF Init, AcceptorInit, Reserve
    <3> QED
      BY <2>1, <3>1, MaxFdsAssumption
  <2>3. /\ listening_ = FALSE /\ idleFd_ = TRUE /\ arrived = 0 /\ others = 0
        /\ peerClosed = {} /\ numThreads_ \in ThreadNums /\ serverPc = "built"
    BY DEF Init, AcceptorInit
  <2>4. 0 \in 0 .. MaxClients /\ 0 \in 0 .. MaxOthers
    BY ClientsAssumption
  <2> QED
    BY <2>1, <2>2, <2>3, <2>4 DEF Table, ServerPcs
<1>6. InTurn
  <2>1. \A l : Given(l) = {} /\ Cardinality(Given(l)) = 0 /\ IsFiniteSet(Given(l))
    BY <1>2, FS_EmptySet DEF Given
  <2>2. \A l \in Pool : Cardinality(Given(l)) = IF l <= next_ THEN 0 + 1 ELSE 0
    <3>1. next_ = 0
      BY DEF Init
    <3> QED
      BY <2>1, <3>1 DEF Pool
  <2>3. 0 \in Nat /\ next_ = 0
    BY DEF Init
  <2>4. \E q \in Nat : \A l \in Pool :
          Cardinality(Given(l)) = IF l <= next_ THEN q + 1 ELSE q
    BY <2>2, <2>3
  <2> QED
    BY <2>1, <2>3, <2>4 DEF InTurn
<1> QED
  BY <1>1, <1>3, <1>4, <1>5, <1>6 DEF Whole

\* All of it holds in every reachable state of the server.
THEOREM WholeInvariance == SafeSpec => []Whole
<1>1. Whole /\ [Next]_vars => Whole'
  <2> SUFFICES ASSUME Whole, [Next]_vars
               PROVE  Whole'
    OBVIOUS
  <2>1. IInv'
    BY MachineStep, RestStep DEF Whole, IInv, Rest
  <2> QED
    BY <2>1, ReportedStep, EndedStep, TableStep, TurnStep DEF Whole
<1> QED
  BY InitWhole, <1>1, PTL DEF SafeSpec

\* The types of the server's state, with what they say of the code: the
\* connection callback hears of a connection once that it is up and then once
\* that it is down, from handleClose or from connectDestroyed but never from
\* both; the acceptor never opens a descriptor that the table has no room for;
\* and an EventLoop that is destroyed leaves no functor behind, because
\* nothing is queued on it any more.
THEOREM TypeCorrect == SafeSpec => []TypeOK
<1>1. Whole => TypeOK
  <2> SUFFICES ASSUME Whole
               PROVE  TypeOK
    OBVIOUS
  <2> USE Numbers
  <2>0. Types /\ Clients /\ Queues /\ Owned /\ Table /\ Reported /\ Ended
    BY DEF Whole, IInv, Machine
  <2>1. AcceptorTypeOK(Open)
    <3>1. /\ listening_ \in BOOLEAN /\ idleFd_ \in BOOLEAN /\ acceptPc \in AcceptPcs
          /\ arrived \in 0 .. MaxClients /\ others \in 0 .. MaxOthers
      BY <2>0 DEF Table, Clients
    <3>2. backlog \in 0 .. arrived
      BY <2>0 DEF Types, Clients
    <3>3. Open \in Nat
      BY <2>0, FS_CardinalityType DEF Table, Open, Living
    <3>4. PICK x \in Nat, o \in Nat, r \in {0, 1}, m \in Nat :
            x = Open /\ o = others /\ r = Reserve /\ m = MaxFds
      BY <3>1, <3>3, MaxFdsAssumption, ClientsAssumption DEF Reserve
    <3>5. x + o + r <= m
      BY <2>0, <3>4 DEF Table
    <3>6. FreeFds(Open) = m - (x + o + r)
      BY <3>4 DEF FreeFds, Reserve
    <3>7. m - (x + o + r) \in 0 .. m
      BY <3>5
    <3> QED
      BY <3>1, <3>2, <3>4, <3>6, <3>7 DEF AcceptorTypeOK
  <2>2. next_ \in 0 .. MaxThreads
    BY <2>0, ThreadsAssumption DEF Types, Whole, InTurn
  <2>3. told \in [Conns -> {<<>>, <<"up">>, <<"up", "down">>}]
    <3>1. \A c \in Conns : told[c] \in {<<>>, <<"up">>, <<"up", "down">>}
      BY <2>0 DEF Types, Reported, ConnStates
    <3> QED
      BY <2>0, <3>1 DEF Types
  <2>4. nextConnId_ \in 1 .. MaxClients + 1
    BY <2>0 DEF Types, Clients
  <2>5. ASSUME NEW l \in Loops
        PROVE  /\ Held(l) \subseteq Functors
               /\ pc[l] = "gone" => Held(l) = {}
               /\ ran[l] \in 0 .. Len(batch[l])
    <3>1. /\ queue[l] \in Seq(Functors) /\ batch[l] \in Seq(Functors)
          /\ ran[l] \in Nat /\ ran[l] <= Len(batch[l]) /\ Len(batch[l]) \in Nat
      BY <2>0 DEF Types, Queues
    <3>2. Held(l) \subseteq Functors
      BY <3>1 DEF Held, Range
    <3>3. ASSUME pc[l] = "gone"
          PROVE  Held(l) = {}
      <4>1. queue[l] = <<>> /\ batch[l] = <<>>
        BY <2>0, <3>3 DEF Ended, Queues
      <4> QED
        BY <4>1 DEF Held, Range
    <3> QED
      BY <3>1, <3>2, <3>3
  <2> QED
    BY <2>0, <2>1, <2>2, <2>3, <2>4, <2>5 DEF TypeOK, Types, Table, Owned, Ended
<1> QED
  BY <1>1, WholeInvariance, PTL

\* getNextLoop deals the connections out in turn, for every size of the pool
\* and every number of connections: no loop of the pool ever has been given
\* two more than another, and the base loop none.
THEOREM LoopsTakeTurns == SafeSpec => []SpreadEvenly
<1>1. Whole => SpreadEvenly
  <2> SUFFICES ASSUME Whole, NEW k \in Pool, NEW l \in Pool
               PROVE  /\ Cardinality(Given(k)) <= Cardinality(Given(l)) + 1
                      /\ Cardinality(Given(Base)) = 0
    BY DEF SpreadEvenly, Given
  <2>1. numThreads_ > 0
    BY DEF Pool, Whole, IInv, Machine, Types
  <2>2. Given(Base) = {}
    BY <2>1 DEF Whole, InTurn
  <2>3. PICK q \in Nat : \A m \in Pool :
          Cardinality(Given(m)) = IF m <= next_ THEN q + 1 ELSE q
    BY <2>1 DEF Whole, InTurn
  <2>4. Cardinality(Given(k)) \in {q, q + 1} /\ Cardinality(Given(l)) \in {q, q + 1}
    BY <2>3
  <2> QED
    BY <2>2, <2>4, FS_EmptySet
<1> QED
  BY <1>1, WholeInvariance, PTL
=============================================================================

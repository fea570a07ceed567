---------------------------- MODULE TimerProofs ----------------------------
(***************************************************************************)
(* Theorems about Timer, for any number of timers, any delays, intervals   *)
(* and clock.                                                              *)
(*                                                                         *)
(* That a node has one place is inductive together with the functors of    *)
(* other threads, from which nodes still come (Places).  That no timer is  *)
(* missed needs nothing but that the queue has an earliest node, which     *)
(* holds because identities are distinct.  That the first cancel holds     *)
(* needs to know that the identities in the hands of clients are exact     *)
(* until the timer is restarted (Exact), and what cancelingTimers_ is for  *)
(* (Remembered).  That the queue implements TimerService needs the         *)
(* converse, too: what reset leaves out was cancelled (Accounted).         *)
(***************************************************************************)
EXTENDS Timer, FiniteSetTheorems, WellFoundedInduction, SequenceTheorems, TLAPS

Tasks == [op : {"add"}, node : Nodes] \union [op : {"cancel"}, node : NodeIds]

IsAdd(i) == pending[i].op = "add"

\* Every identity in use was given out by genId_.
GivenOut ==
  /\ \A n \in timeQueue_ : n.id < nextId
  /\ \A i \in DOMAIN expired : expired[i].id < nextId
  /\ \A i \in DOMAIN pending : pending[i].node.id < nextId
  /\ \A h \in handles : h.id < nextId
  /\ \A id \in returning : id < nextId
  /\ \A c \in cancels : c[1] < nextId

\* A node that another thread has queued is nowhere else.
QueuedOnce ==
  /\ \A i, j \in DOMAIN pending :
       IsAdd(i) /\ IsAdd(j) /\ pending[i].node.id = pending[j].node.id => i = j
  /\ \A i \in DOMAIN pending, n \in timeQueue_ :
       IsAdd(i) => pending[i].node.id # n.id
  /\ \A i \in DOMAIN pending, j \in DOMAIN expired :
       IsAdd(i) => pending[i].node.id # expired[j].id

\* There is a batch only while handleRead runs it.
BatchInHandleRead == pc = "idle" => expired = <<>>

Places == GivenOut /\ OnePlacePerNode /\ QueuedOnce /\ BatchInHandleRead

\* Identity h is that of node n, unless n was restarted.
Matches(h, n) == n.id = h.id /\ n.id \notin restarted => n.expire = h.expire

MatchesAll(h) ==
  /\ \A n \in timeQueue_ : Matches(h, n)
  /\ \A i \in DOMAIN expired : Matches(h, expired[i])
  /\ \A i \in DOMAIN pending : IsAdd(i) => Matches(h, pending[i].node)

\* The identities that clients hold, or have handed in, are exact.
Exact ==
  /\ \A h \in handles : MatchesAll(h)
  /\ \A i \in DOMAIN pending : ~IsAdd(i) => MatchesAll(pending[i].node)

\* A timer of the batch that was cancelled is remembered until reset.
Remembered ==
  \A i \in DOMAIN expired :
    <<expired[i].id, FALSE>> \in cancels => NodeId(expired[i]) \in cancelingTimers_

\* No timer counts as cancelled before it was added.
AddedFirst ==
  \A i \in DOMAIN pending : IsAdd(i) => <<pending[i].node.id, FALSE>> \notin cancels

Cancelled == FirstCancelHolds /\ Exact /\ Remembered /\ AddedFirst

IInv == TypeOK /\ Places /\ NoMissedTimer /\ Cancelled

-----------------------------------------------------------------------------
(* Numbers, nodes and queues.                                              *)

\* A set of natural numbers that is not empty has a least one.
LEMMA NatMin ==
  ASSUME NEW T \in SUBSET Nat, T # {}
  PROVE  \E x \in T : \A y \in T : x <= y
<1>1. PICK x \in T : \A y \in T : ~(<<y, x>> \in OpToRel(<, Nat))
  BY NatLessThanWellFounded, WFMin
<1>2. \A y \in T : ~(y < x)
  BY <1>1 DEF OpToRel
<1> QED
  BY <1>2

\* Nodes with distinct identities have an earliest one.
LEMMA EarliestIsLeast ==
  ASSUME NEW Q \in SUBSET Nodes, Q # {},
         \A n, m \in Q : n.id = m.id => n = m
  PROVE  /\ Earliest(Q) \in Q
         /\ \A m \in Q : Earliest(Q).expire <= m.expire
<1> DEFINE E == {n.expire : n \in Q}
<1>1. PICK e \in E : \A y \in E : e <= y
  <2>1. E \in SUBSET Nat /\ E # {}
    BY DEF Nodes
  <2> HIDE DEF E
  <2> QED
    BY <2>1, NatMin
<1> DEFINE I == {n.id : n \in {m \in Q : m.expire = e}}
<1>2. PICK i \in I : \A y \in I : i <= y
  <2>1. I \in SUBSET Nat /\ I # {}
    BY <1>1 DEF Nodes, Ids
  <2> HIDE DEF I
  <2> QED
    BY <2>1, NatMin
<1>3. PICK n \in Q : n.id = i /\ n.expire = e
  BY <1>2
<1>4. \A m \in Q : m = n \/ Before(n, m)
  <2> SUFFICES ASSUME NEW m \in Q, m # n PROVE Before(n, m)
    OBVIOUS
  <2>1. n.expire \in Nat /\ m.expire \in Nat /\ n.id \in Nat /\ m.id \in Nat
    BY DEF Nodes, Ids
  <2>2. n.expire <= m.expire
    BY <1>1, <1>3
  <2>3. CASE n.expire = m.expire
    <3>1. n.id <= m.id
      BY <1>2, <1>3, <2>3
    <3>2. n.id # m.id
      OBVIOUS
    <3> QED
      BY <2>1, <2>3, <3>1, <3>2 DEF Before
  <2> QED
    BY <2>1, <2>2, <2>3 DEF Before
<1>5. Earliest(Q) \in Q /\ \A m \in Q : m = Earliest(Q) \/ Before(Earliest(Q), m)
  BY <1>4 DEF Earliest
<1>6. \A m \in Q : m.expire \in Nat
  BY DEF Nodes
<1> QED
  BY <1>5, <1>6 DEF Before

\* resetTimerfd arms for the expiration or later, never later for an earlier one.
LEMMA ArmTimeGrows ==
  ASSUME NEW a \in Nat, NEW b \in Nat, a <= b, clock \in Nat
  PROVE  ArmTime(a) \in Nat /\ ArmTime(a) <= ArmTime(b)
BY DEF ArmTime

\* queueInLoop adds one functor at the end.
LEMMA AppendTask ==
  ASSUME pending \in Seq(Tasks), NEW t \in Tasks, pending' = Append(pending, t)
  PROVE  /\ pending' \in Seq(Tasks)
         /\ DOMAIN pending' = 1 .. Len(pending) + 1
         /\ DOMAIN pending = 1 .. Len(pending)
         /\ \A i \in DOMAIN pending : i \in DOMAIN pending' /\ pending'[i] = pending[i]
         /\ pending'[Len(pending) + 1] = t
<1> HIDE DEF Tasks
<1>1. Len(pending) \in Nat
  OBVIOUS
<1> QED
  BY <1>1

\* Running the first functor moves every other up by one.
LEMMA TailTask ==
  ASSUME pending \in Seq(Tasks), pending # <<>>, pending' = Tail(pending)
  PROVE  /\ pending' \in Seq(Tasks)
         /\ Head(pending) = pending[1] /\ Head(pending) \in Tasks
         /\ 1 \in DOMAIN pending
         /\ \A i \in DOMAIN pending' : /\ i + 1 \in DOMAIN pending
                                       /\ i + 1 # 1
                                       /\ pending'[i] = pending[i + 1]
         /\ \A i, j \in DOMAIN pending' : i + 1 = j + 1 => i = j
<1> HIDE DEF Tasks
<1>1. Len(pending) \in Nat /\ Len(pending) > 0
  OBVIOUS
<1> QED
  BY <1>1

\* A functor is an addition with a node or a cancellation with an identity.
LEMMA TaskKinds ==
  ASSUME NEW t \in Tasks
  PROVE  /\ t.op = "add" => t.node \in Nodes
         /\ t.op # "add" => t.node \in NodeIds
         /\ t.node.id \in Ids
BY DEF Tasks, Nodes, NodeIds

-----------------------------------------------------------------------------
(* The alarm.                                                              *)

\* The queue has an earliest node, and a new one keeps identities distinct.
LEMMA QueueHasEarliest ==
  ASSUME TypeOK, OnePlacePerNode, timeQueue_ # {}
  PROVE  /\ Earliest(timeQueue_) \in timeQueue_
         /\ Earliest(timeQueue_).expire \in Nat
         /\ \A m \in timeQueue_ : Earliest(timeQueue_).expire <= m.expire
<1>1. timeQueue_ \in SUBSET Nodes /\ \A n, m \in timeQueue_ : n.id = m.id => n = m
  BY DEF TypeOK, OnePlacePerNode
<1>2. \A n \in Nodes : n.expire \in Nat
  BY DEF Nodes
<1> QED
  BY <1>1, <1>2, EarliestIsLeast

\* Nothing is missed while time passes and nodes leave the queue.
LEMMA AlarmStays ==
  ASSUME TypeOK, OnePlacePerNode, NoMissedTimer,
         timeQueue_' \subseteq timeQueue_,
         NEW later \in Nat, clock <= later, clock' = later,
         UNCHANGED <<armed, readable, active, pc>>
  PROVE  NoMissedTimer'
<1> SUFFICES ASSUME timeQueue_' # {}, pc = "idle", ~active, ~readable
             PROVE  armed # Never /\ armed <= ArmTime(Earliest(timeQueue_).expire)'
  BY DEF NoMissedTimer
<1>1. timeQueue_ # {}
  OBVIOUS
<1> DEFINE e == Earliest(timeQueue_)
           f == Earliest(timeQueue_')
<1>2. armed # Never /\ armed <= ArmTime(e.expire)
  BY <1>1 DEF NoMissedTimer
<1>3. e.expire \in Nat /\ \A m \in timeQueue_ : e.expire <= m.expire
  BY <1>1, QueueHasEarliest
<1>4. f \in timeQueue_' /\ f.expire \in Nat
  <2>1. timeQueue_' \in SUBSET Nodes /\ \A n, m \in timeQueue_' : n.id = m.id => n = m
    BY DEF TypeOK, OnePlacePerNode
  <2>2. \A n \in Nodes : n.expire \in Nat
    BY DEF Nodes
  <2> QED
    BY <2>1, <2>2, EarliestIsLeast
<1>5. e.expire <= f.expire
  BY <1>3, <1>4
<1>6. clock \in Nat /\ armed \in Int
  BY DEF TypeOK, Never
<1> HIDE DEF e, f
<1> DEFINE Then(b) == IF b > later THEN b ELSE later + 1
<1>7. ASSUME NEW a \in Nat, NEW b \in Nat, a <= b, armed <= ArmTime(a)
      PROVE  armed <= Then(b)
  <2>1. ArmTime(a) \in Nat /\ Then(b) \in Nat /\ ArmTime(a) <= Then(b)
    BY <1>6, <1>7 DEF ArmTime
  <2> HIDE DEF Then
  <2> QED
    BY <1>6, <1>7, <2>1
<1> HIDE DEF Then
<1>8. armed <= Then(f.expire)
  BY <1>2, <1>3, <1>4, <1>5, <1>7
<1> QED
  BY <1>2, <1>8 DEF f, ArmTime, Then

\* Arming for the earliest node misses nothing.
LEMMA ArmedForEarliest ==
  ASSUME clock \in Nat, clock' = clock, ResetTimerfd(Earliest(timeQueue_').expire),
         Earliest(timeQueue_').expire \in Nat
  PROVE  NoMissedTimer' /\ armed' \in Nat /\ readable' \in BOOLEAN
<1>1. armed' = ArmTime(Earliest(timeQueue_').expire) /\ readable' = FALSE
  BY DEF ResetTimerfd
<1>2. ArmTime(Earliest(timeQueue_').expire) \in Nat
  BY DEF ArmTime
<1>3. armed' \in Nat /\ armed' # Never /\ armed' <= armed'
  BY <1>1, <1>2 DEF Never
<1>4. armed' = ArmTime(Earliest(timeQueue_).expire)'
  BY <1>1 DEF ArmTime
<1> QED
  BY <1>1, <1>3, <1>4 DEF NoMissedTimer

\* addTimerInLoop arms when it must.
LEMMA AddKeepsAlarm ==
  ASSUME TypeOK, OnePlacePerNode, NoMissedTimer, NEW n \in Nodes,
         \A m \in timeQueue_ : m.id # n.id,
         AddTimerInLoop(n), UNCHANGED <<clock, active, pc>>
  PROVE  /\ NoMissedTimer'
         /\ timeQueue_' = timeQueue_ \union {n}
         /\ timeQueue_' \subseteq Nodes
         /\ armed' \in {Never} \union Nat
         /\ readable' \in BOOLEAN
<1> DEFINE e == Earliest(timeQueue_)
           f == Earliest(timeQueue_')
<1>1. timeQueue_' = timeQueue_ \union {n} /\ timeQueue_' \subseteq Nodes
  BY DEF AddTimerInLoop, TypeOK
<1>2. f \in timeQueue_' /\ f.expire \in Nat /\ \A m \in timeQueue_' : f.expire <= m.expire
  <2>1. timeQueue_' \in SUBSET Nodes /\ timeQueue_' # {}
    BY <1>1
  <2>2. \A k, m \in timeQueue_' : k.id = m.id => k = m
    BY <1>1 DEF OnePlacePerNode
  <2>3. \A m \in Nodes : m.expire \in Nat
    BY DEF Nodes
  <2> QED
    BY <2>1, <2>2, <2>3, EarliestIsLeast
<1>3. n.expire \in Nat /\ clock \in Nat /\ armed \in Int
  BY DEF Nodes, TypeOK, Never
<1>4. timeQueue_ # {} =>
        e.expire \in Nat /\ \A m \in timeQueue_ : e.expire <= m.expire
  BY QueueHasEarliest
<1> HIDE DEF e, f
<1>5. CASE IsEarliest(n)
  <2>1. ResetTimerfd(n.expire)
    BY <1>5 DEF AddTimerInLoop
  <2>2. f.expire = n.expire
    <3>1. f.expire <= n.expire
      BY <1>1, <1>2
    <3>2. CASE f = n
      BY <3>2
    <3>3. CASE f # n
      <4>1. f \in timeQueue_ /\ timeQueue_ # {}
        BY <1>1, <1>2, <3>3
      <4>2. n.expire < e.expire
        BY <1>5, <4>1 DEF IsEarliest, e
      <4>3. e.expire <= f.expire
        BY <1>4, <4>1
      <4> QED
        BY <1>2, <1>3, <1>4, <3>1, <4>1, <4>2, <4>3
    <3> QED
      BY <3>2, <3>3
  <2>3. NoMissedTimer' /\ armed' \in Nat /\ readable' \in BOOLEAN
    BY <1>2, <1>3, <2>1, <2>2, ArmedForEarliest DEF f
  <2> QED
    BY <1>1, <2>3
<1>6. CASE ~IsEarliest(n)
  <2>1. armed' = armed /\ readable' = readable
    BY <1>6 DEF AddTimerInLoop
  <2>2. timeQueue_ # {} /\ ~(n.expire < e.expire)
    BY <1>6 DEF IsEarliest, e
  <2>3. e.expire <= f.expire
    <3>1. CASE f = n
      BY <1>3, <1>4, <2>2, <3>1
    <3>2. CASE f # n
      BY <1>1, <1>2, <1>4, <2>2, <3>2
    <3> QED
      BY <3>1, <3>2
  <2>4. ArmTime(e.expire) <= ArmTime(f.expire) /\ ArmTime(e.expire) \in Nat
        /\ ArmTime(f.expire) \in Nat
    BY <1>2, <1>3, <1>4, <2>2, <2>3, ArmTimeGrows
  <2>5. ASSUME pc = "idle", ~active, ~readable
        PROVE  armed # Never /\ armed <= ArmTime(f.expire)
    <3>1. armed # Never /\ armed <= ArmTime(e.expire)
      BY <2>2, <2>5 DEF NoMissedTimer, e
    <3> QED
      BY <1>3, <2>4, <3>1
  <2>6. ArmTime(f.expire) = ArmTime(Earliest(timeQueue_).expire)'
    BY DEF ArmTime, f
  <2>7. NoMissedTimer'
    BY <2>1, <2>5, <2>6 DEF NoMissedTimer
  <2>8. armed' \in {Never} \union Nat /\ readable' \in BOOLEAN
    BY <2>1 DEF TypeOK
  <2> QED
    BY <1>1, <2>7, <2>8
<1> QED
  BY <1>5, <1>6

-----------------------------------------------------------------------------
(* Adding and cancelling, whoever asks for it.                             *)

\* The functors still queued are among those that were.
StillQueued(k) ==
  /\ pending' \in Seq(Tasks)
  /\ \A i \in DOMAIN pending' : i + k \in DOMAIN pending /\ pending'[i] = pending[i + k]

\* An add that is still queued is queued once, and is nowhere else.
LEMMA StillQueuedOnce ==
  ASSUME QueuedOnce, NEW k \in {0, 1}, StillQueued(k)
  PROVE  /\ \A i, j \in DOMAIN pending' :
              IsAdd(i)' /\ IsAdd(j)' /\ pending'[i].node.id = pending'[j].node.id
                => i = j
         /\ \A i \in DOMAIN pending', n \in timeQueue_ :
              IsAdd(i)' => pending'[i].node.id # n.id
         /\ \A i \in DOMAIN pending', j \in DOMAIN expired :
              IsAdd(i)' => pending'[i].node.id # expired[j].id
<1>1. DOMAIN pending' \subseteq Nat
  BY LenProperties DEF StillQueued
<1>2. \A i \in DOMAIN pending' : /\ i + k \in DOMAIN pending
                                 /\ pending'[i] = pending[i + k]
                                 /\ IsAdd(i)' <=> IsAdd(i + k)
  BY DEF StillQueued, IsAdd
<1>3. ASSUME NEW i \in DOMAIN pending', NEW j \in DOMAIN pending', i + k = j + k
      PROVE  i = j
  BY <1>1, <1>3
<1> QED
  BY <1>2, <1>3 DEF QueuedOnce

\* delTimerInLoop takes the node out, or has it remembered if it is in the
\* batch; what counts as cancelled is then nowhere to be queued from.
LEMMA DelKeeps ==
  ASSUME TypeOK, Places, Cancelled, NEW h \in NodeIds, MatchesAll(h),
         h.id < nextId, DelTimerInLoop(h),
         UNCHANGED <<nextId, expired, pc, restarted, returning>>,
         handles' \subseteq handles,
         NEW k \in {0, 1}, StillQueued(k)
  PROVE  /\ Places' /\ Cancelled'
         /\ timeQueue_' \subseteq timeQueue_
         /\ cancelingTimers_' \subseteq NodeIds
         /\ cancels' \subseteq Ids \X BOOLEAN
<1>1. /\ timeQueue_' = timeQueue_ \ Found(h)
      /\ cancelingTimers_ \subseteq cancelingTimers_'
      /\ Found(h) = {} /\ pc # "idle" => h \in cancelingTimers_'
      /\ cancelingTimers_' \subseteq cancelingTimers_ \union {h}
      /\ cancels' \subseteq cancels \union {<<h.id, h.id \in restarted>>}
      /\ ~Added(h.id) => cancels' = cancels
  BY DEF DelTimerInLoop
<1>2. h.id \in Ids /\ (h.id \in restarted) \in BOOLEAN
  BY DEF NodeIds
<1>3. \A i \in DOMAIN pending' : /\ i + k \in DOMAIN pending
                                 /\ pending'[i] = pending[i + k]
                                 /\ IsAdd(i)' <=> IsAdd(i + k)
  BY DEF StillQueued, IsAdd
<1>4. Places'
  <2>1. GivenOut'
    <3>1. \A c \in cancels' : c[1] < nextId
      BY <1>1 DEF Places, GivenOut
    <3> QED
      BY <1>1, <1>3, <3>1 DEF Places, GivenOut
  <2>2. OnePlacePerNode' /\ BatchInHandleRead'
    BY <1>1 DEF Places, OnePlacePerNode, BatchInHandleRead
  <2>3. QueuedOnce'
    BY <1>1, StillQueuedOnce DEF Places, QueuedOnce
  <2> QED
    BY <2>1, <2>2, <2>3 DEF Places
<1>5. ASSUME NEW id, <<id, FALSE>> \in cancels', <<id, FALSE>> \notin cancels
      PROVE  id = h.id /\ h.id \notin restarted /\ Added(h.id)
  BY <1>1, <1>5
<1>6. FirstCancelHolds'
  <2> SUFFICES ASSUME NEW n \in timeQueue_', <<n.id, FALSE>> \in cancels'
               PROVE  FALSE
    BY DEF FirstCancelHolds
  <2>1. n \in timeQueue_ /\ n \notin Found(h) /\ <<n.id, FALSE>> \notin cancels
    BY <1>1 DEF Cancelled, FirstCancelHolds
  <2>2. n.id = h.id /\ n.expire = h.expire
    BY <2>1, <1>5 DEF MatchesAll, Matches
  <2>3. NodeId(n) = h
    BY <2>2 DEF NodeId, NodeIds
  <2> QED
    BY <2>1, <2>3 DEF Found
<1>7. Remembered'
  <2> SUFFICES ASSUME NEW i \in DOMAIN expired, <<expired[i].id, FALSE>> \in cancels'
               PROVE  NodeId(expired[i]) \in cancelingTimers_'
    BY DEF Remembered
  <2>1. CASE <<expired[i].id, FALSE>> \in cancels
    BY <2>1, <1>1 DEF Cancelled, Remembered
  <2>2. CASE <<expired[i].id, FALSE>> \notin cancels
    <3>1. expired[i].id = h.id /\ expired[i].expire = h.expire
      BY <2>2, <1>5 DEF MatchesAll, Matches
    <3>2. NodeId(expired[i]) = h
      BY <3>1 DEF NodeId, NodeIds
    <3>3. Found(h) = {}
      BY <3>1 DEF Found, NodeId, Places, OnePlacePerNode
    <3>4. pc # "idle"
      BY DEF Places, BatchInHandleRead
    <3> QED
      BY <1>1, <3>2, <3>3, <3>4
  <2> QED
    BY <2>1, <2>2
<1>8. AddedFirst'
  <2> SUFFICES ASSUME NEW i \in DOMAIN pending', IsAdd(i)',
                      <<pending'[i].node.id, FALSE>> \in cancels'
               PROVE  FALSE
    BY DEF AddedFirst
  <2>1. /\ i + k \in DOMAIN pending /\ IsAdd(i + k)
        /\ pending'[i].node.id = pending[i + k].node.id
    BY <1>3
  <2>2. <<pending[i + k].node.id, FALSE>> \notin cancels
    BY <2>1 DEF Cancelled, AddedFirst
  <2>3. pending[i + k].node.id = h.id /\ Added(h.id)
    BY <2>1, <2>2, <1>5
  <2> QED
    BY <2>1, <2>3 DEF Added, IsAdd
<1>9. Exact'
  <2>1. ASSUME NEW g, MatchesAll(g) PROVE MatchesAll(g)'
    BY <2>1, <1>1, <1>3 DEF MatchesAll, Matches
  <2> QED
    BY <2>1, <1>1, <1>3 DEF Cancelled, Exact
<1>10. timeQueue_' \subseteq timeQueue_
  BY <1>1
<1>11. cancelingTimers_' \subseteq NodeIds
  BY <1>1 DEF TypeOK
<1>12. cancels' \subseteq Ids \X BOOLEAN
  <2>1. <<h.id, h.id \in restarted>> \in Ids \X BOOLEAN
    BY <1>2, Zenon
  <2>2. cancels \subseteq Ids \X BOOLEAN
    BY DEF TypeOK
  <2> HIDE DEF Ids
  <2> QED
    BY <1>1, <2>1, <2>2
<1> QED
  BY <1>4, <1>6, <1>7, <1>8, <1>9, <1>10, <1>11, <1>12 DEF Cancelled

\* addTimerInLoop puts a node where no other with its identity is.
LEMMA AddKeeps ==
  ASSUME TypeOK, Places, NoMissedTimer, Cancelled, NEW n \in Nodes,
         AddTimerInLoop(n),
         UNCHANGED <<clock, active, expired, pc, restarted, cancels,
                     cancelingTimers_, returning>>,
         NEW next \in Nat, nextId' = next, nextId <= next, n.id < next,
         \A m \in timeQueue_ : m.id # n.id,
         \A i \in DOMAIN expired : expired[i].id # n.id,
         \A i \in DOMAIN pending' : IsAdd(i)' => pending'[i].node.id # n.id,
         \A i \in DOMAIN pending' : ~IsAdd(i)' => Matches(pending'[i].node, n),
         \A h \in handles' : MatchesAll(h) /\ Matches(h, n) /\ h.id < next,
         <<n.id, FALSE>> \notin cancels,
         NEW k \in {0, 1}, StillQueued(k)
  PROVE  Places' /\ Cancelled' /\ NoMissedTimer'
<1>1. NoMissedTimer' /\ timeQueue_' = timeQueue_ \union {n} /\ timeQueue_' \subseteq Nodes
  BY AddKeepsAlarm DEF Places
<1>2. \A i \in DOMAIN pending' : /\ i + k \in DOMAIN pending
                                 /\ pending'[i] = pending[i + k]
                                 /\ IsAdd(i)' <=> IsAdd(i + k)
  BY DEF StillQueued, IsAdd
<1>3. ASSUME NEW i \in Int, i < nextId PROVE i < next
  BY <1>3 DEF TypeOK
<1>4. GivenOut'
  <2>1. \A m \in timeQueue_' : m.id < next
    BY <1>1, <1>3 DEF Places, GivenOut, TypeOK, Nodes, Ids
  <2>2. \A i \in DOMAIN expired : expired[i].id < next
    <3> SUFFICES ASSUME NEW i \in DOMAIN expired PROVE expired[i].id < next
      OBVIOUS
    <3>1. expired[i] \in Nodes /\ expired[i].id < nextId
      BY DEF Places, GivenOut, TypeOK
    <3>2. expired[i].id \in Int
      BY <3>1 DEF Nodes, Ids
    <3> QED
      BY <1>3, <3>1, <3>2
  <2>3. \A i \in DOMAIN pending' : pending'[i].node.id < next
    <3> SUFFICES ASSUME NEW i \in DOMAIN pending' PROVE pending'[i].node.id < next
      OBVIOUS
    <3>1. pending[i + k] \in Tasks /\ pending[i + k].node.id < nextId
      BY <1>2 DEF Places, GivenOut, TypeOK, Tasks
    <3>2. pending[i + k].node.id \in Int
      BY <3>1, TaskKinds DEF Ids
    <3> QED
      BY <1>2, <1>3, <3>1, <3>2
  <2>4. \A id \in returning : id < next
    BY <1>3 DEF Places, GivenOut, TypeOK, Ids
  <2>5. \A c \in cancels : c[1] < next
    BY <1>3 DEF Places, GivenOut, TypeOK, Ids
  <2> QED
    BY <2>1, <2>2, <2>3, <2>4, <2>5 DEF GivenOut
<1>5. OnePlacePerNode'
  BY <1>1 DEF Places, OnePlacePerNode
<1>6. QueuedOnce'
  BY <1>1, StillQueuedOnce DEF Places, QueuedOnce
<1>7. BatchInHandleRead'
  BY DEF Places, BatchInHandleRead
<1>8. FirstCancelHolds' /\ Remembered'
  BY <1>1 DEF Cancelled, FirstCancelHolds, Remembered
<1>9. AddedFirst'
  BY <1>2 DEF Cancelled, AddedFirst
<1>10. Exact'
  <2>1. ASSUME NEW g, MatchesAll(g), Matches(g, n) PROVE MatchesAll(g)'
    BY <2>1, <1>1, <1>2 DEF MatchesAll, Matches
  <2> QED
    BY <2>1, <1>2 DEF Cancelled, Exact
<1> QED
  BY <1>1, <1>4, <1>5, <1>6, <1>7, <1>8, <1>9, <1>10 DEF Places, Cancelled

\* An untouched queue holds what it held.
LEMMA SameQueue ==
  ASSUME pending \in Seq(Tasks), pending' = pending
  PROVE  StillQueued(0)
<1> HIDE DEF Tasks
<1>1. Len(pending) \in Nat /\ DOMAIN pending = 1 .. Len(pending)
  OBVIOUS
<1> QED
  BY <1>1 DEF StillQueued

\* So does the rest of the queue once its first functor has run.
LEMMA ShorterQueue ==
  ASSUME pending \in Seq(Tasks), pending # <<>>, pending' = Tail(pending)
  PROVE  StillQueued(1)
BY TailTask DEF StillQueued

-----------------------------------------------------------------------------
(* The steps.                                                              *)

\* The timer starts with nothing armed, nothing queued, nothing known.
LEMMA InitInv == Init => IInv
<1> SUFFICES ASSUME Init PROVE IInv
  OBVIOUS
<1> USE DEF Init
<1>1. TypeOK
  <2>1. clock \in 0 .. MaxTime /\ now \in 0 .. MaxTime
    BY MaxTimeAssumption
  <2>2. nextId \in 1 .. MaxTimers + 1
    BY MaxTimersAssumption
  <2>3. expired \in Seq(Nodes) /\ index \in 0 .. Len(expired)
    OBVIOUS
  <2>4. pending \in Seq(Tasks)
    OBVIOUS
  <2>5. /\ timeQueue_ \subseteq Nodes /\ cancelingTimers_ \subseteq NodeIds
        /\ returning \subseteq Ids /\ handles \subseteq NodeIds
        /\ restarted \subseteq Ids /\ cancels \subseteq Ids \X BOOLEAN
    OBVIOUS
  <2>6. armed \in {Never} \union Nat /\ pc \in Pcs
    BY DEF Never, Pcs
  <2>7. readable \in BOOLEAN /\ active \in BOOLEAN
    OBVIOUS
  <2> QED
    BY <2>1, <2>2, <2>3, <2>4, <2>5, <2>6, <2>7, Zenon DEF TypeOK, Tasks
<1>2. Places
  BY DEF Places, GivenOut, OnePlacePerNode, QueuedOnce, BatchInHandleRead
<1>3. NoMissedTimer
  BY DEF NoMissedTimer
<1>4. Cancelled
  BY DEF Cancelled, FirstCancelHolds, Exact, Remembered, AddedFirst
<1> QED
  BY <1>1, <1>2, <1>3, <1>4 DEF IInv

\* What the steps that move no node and no identity keep.
LEMMA Unmoved ==
  ASSUME Places, Cancelled, pc' = "idle" => pc = "idle",
         UNCHANGED <<nextId, timeQueue_, expired, pending, handles, returning,
                     historyVars, cancelingTimers_>>
  PROVE  Places' /\ Cancelled'
<1> USE DEF historyVars
<1>1. GivenOut' /\ OnePlacePerNode' /\ BatchInHandleRead'
  BY DEF Places, GivenOut, OnePlacePerNode, BatchInHandleRead
<1>2. QueuedOnce'
  BY DEF Places, QueuedOnce, IsAdd
<1>3. FirstCancelHolds' /\ Remembered' /\ AddedFirst'
  BY DEF Cancelled, FirstCancelHolds, Remembered, AddedFirst, IsAdd
<1>4. Exact'
  BY DEF Cancelled, Exact, MatchesAll, Matches, IsAdd
<1> QED
  BY <1>1, <1>2, <1>3, <1>4 DEF Places, Cancelled

\* Time passes.
LEMMA TickInv == IInv /\ Tick => IInv'
<1> SUFFICES ASSUME IInv, Tick PROVE IInv'
  OBVIOUS
<1> USE DEF IInv, batchVars, clientVars
<1>1. TypeOK'
  <2>1. clock' \in 0 .. MaxTime
    BY MaxTimeAssumption DEF Tick, TypeOK
  <2> QED
    BY <2>1 DEF Tick, TypeOK, historyVars
<1>2. NoMissedTimer'
  <2>1. clock \in Nat /\ clock + 1 \in Nat /\ clock <= clock + 1
    BY DEF TypeOK
  <2> QED
    BY <2>1, AlarmStays DEF Tick, Places
<1>3. Places' /\ Cancelled'
  BY Unmoved DEF Tick
<1> QED
  BY <1>1, <1>2, <1>3

\* The timerfd becomes readable.
LEMMA TimerfdExpiresInv == IInv /\ TimerfdExpires => IInv'
<1> SUFFICES ASSUME IInv, TimerfdExpires PROVE IInv'
  OBVIOUS
<1> USE DEF IInv, batchVars, clientVars, TimerfdExpires
<1>1. TypeOK'
  BY DEF TypeOK, historyVars
<1>2. NoMissedTimer'
  BY DEF NoMissedTimer
<1>3. Places' /\ Cancelled'
  BY Unmoved
<1> QED
  BY <1>1, <1>2, <1>3

\* handleRead takes the expired nodes out of the set.
LEMMA PollInv == IInv /\ Poll => IInv'
<1> SUFFICES ASSUME IInv, Poll PROVE IInv'
  OBVIOUS
<1> USE DEF IInv, clockVars, batchVars, clientVars, Poll
<1>1. TypeOK'
  BY DEF TypeOK, historyVars
<1>2. NoMissedTimer'
  BY DEF NoMissedTimer
<1>3. Places' /\ Cancelled'
  BY Unmoved
<1> QED
  BY <1>1, <1>2, <1>3

\* A callback of the batch starts.
LEMMA RunTimerInv == IInv /\ RunTimer => IInv'
<1> SUFFICES ASSUME IInv, RunTimer PROVE IInv'
  OBVIOUS
<1> USE DEF IInv, clockVars, clientVars, RunTimer
<1>1. TypeOK'
  <2>1. index' \in 0 .. Len(expired)
    BY DEF TypeOK
  <2> QED
    BY <2>1 DEF TypeOK, historyVars, Pcs
<1>2. NoMissedTimer'
  BY DEF NoMissedTimer
<1>3. Places' /\ Cancelled'
  BY Unmoved
<1> QED
  BY <1>1, <1>2, <1>3

\* It returns.
LEMMA ReturnFromTimerInv == IInv /\ ReturnFromTimer => IInv'
<1> SUFFICES ASSUME IInv, ReturnFromTimer PROVE IInv'
  OBVIOUS
<1> USE DEF IInv, clockVars, clientVars, ReturnFromTimer
<1>1. TypeOK'
  BY DEF TypeOK, historyVars, Pcs
<1>2. NoMissedTimer'
  BY DEF NoMissedTimer
<1>3. Places' /\ Cancelled'
  BY Unmoved
<1> QED
  BY <1>1, <1>2, <1>3

-----------------------------------------------------------------------------
(* The steps of the clients.                                               *)

\* A created node has a fresh identity.
LEMMA NewNodeIsFresh ==
  ASSUME TypeOK, Places, nextId <= MaxTimers, NEW d \in Delays, NEW i \in Intervals
  PROVE  /\ NewNode(d, i) \in Nodes
         /\ NewNode(d, i).id = nextId
         /\ NodeId(NewNode(d, i)) \in NodeIds
         /\ nextId + 1 \in 1 .. MaxTimers + 1
         /\ \A n \in timeQueue_ : n.id # nextId
         /\ \A j \in DOMAIN expired : expired[j].id # nextId
         /\ \A j \in DOMAIN pending : pending[j].node.id # nextId
         /\ \A h \in handles : h.id # nextId
         /\ \A c \in cancels : c[1] # nextId
<1>1. nextId \in Ids /\ clock + d \in Nat /\ nextId + 1 \in 1 .. MaxTimers + 1
  BY MaxTimersAssumption, MaxTimeAssumption, DelaysAssumption DEF TypeOK, Ids
<1>2. NewNode(d, i) \in Nodes /\ NewNode(d, i).id = nextId
  BY <1>1 DEF NewNode, Nodes
<1>3. NodeId(NewNode(d, i)) \in NodeIds
  BY <1>2 DEF NodeId, NodeIds, Nodes
<1>4. ASSUME NEW x, x < nextId PROVE x # nextId
  BY <1>1, <1>4 DEF Ids
<1> QED
  BY <1>1, <1>2, <1>3, <1>4 DEF Places, GivenOut

\* addTimer on the loop's thread: the node goes straight into the set.
LEMMA AddTimerInv ==
  ASSUME IInv, NEW d \in Delays, NEW i \in Intervals, AddTimer(d, i)
  PROVE  IInv'
<1> DEFINE n == NewNode(d, i)
<1> USE DEF IInv, batchVars, historyVars
<1>1. /\ nextId <= MaxTimers /\ nextId' = nextId + 1
      /\ AddTimerInLoop(n)
      /\ handles' = handles \union {NodeId(n)}
      /\ UNCHANGED <<clock, pc, now, expired, index, pending, returning,
                     restarted, cancels, active, cancelingTimers_>>
  BY DEF AddTimer
<1>2. /\ n \in Nodes /\ n.id = nextId /\ NodeId(n) \in NodeIds
      /\ nextId + 1 \in 1 .. MaxTimers + 1
      /\ \A m \in timeQueue_ : m.id # n.id
      /\ \A j \in DOMAIN expired : expired[j].id # n.id
      /\ \A j \in DOMAIN pending : pending[j].node.id # n.id
      /\ \A h \in handles : h.id # n.id
      /\ \A c \in cancels : c[1] # n.id
  BY <1>1, NewNodeIsFresh
<1>3. NodeId(n).id = n.id
  BY DEF NodeId
<1> HIDE DEF n
<1>4. StillQueued(0) /\ DOMAIN pending' = DOMAIN pending
  BY <1>1, SameQueue DEF TypeOK, Tasks
<1>5. nextId + 1 \in Nat /\ nextId <= nextId + 1 /\ n.id < nextId + 1
  BY <1>2 DEF TypeOK
<1>6. MatchesAll(NodeId(n)) /\ Matches(NodeId(n), n)
  <2>1. Matches(NodeId(n), n)
    BY DEF Matches, NodeId
  <2> QED
    BY <1>2, <1>3, <2>1 DEF MatchesAll, Matches
<1>7. \A h \in handles' : MatchesAll(h) /\ Matches(h, n) /\ h.id < nextId + 1
  <2> SUFFICES ASSUME NEW h \in handles, TRUE
               PROVE  MatchesAll(h) /\ Matches(h, n) /\ h.id < nextId + 1
    BY <1>1, <1>3, <1>5, <1>6
  <2>1. MatchesAll(h)
    BY DEF Cancelled, Exact
  <2>2. Matches(h, n)
    BY <1>2 DEF Matches
  <2>3. h.id \in Int /\ h.id < nextId /\ nextId \in Int
    BY DEF TypeOK, NodeIds, Ids, Places, GivenOut
  <2> QED
    BY <2>1, <2>2, <2>3
<1>8. \A j \in DOMAIN pending' : pending'[j].node.id # n.id
  BY <1>1, <1>2
<1>9. \A j \in DOMAIN pending' : Matches(pending'[j].node, n)
  BY <1>8 DEF Matches
<1>10. <<n.id, FALSE>> \notin cancels
  BY <1>2
<1>11. Places' /\ Cancelled' /\ NoMissedTimer'
  BY <1>1, <1>2, <1>4, <1>5, <1>7, <1>8, <1>9, <1>10, AddKeeps
<1>12. TypeOK'
  <2>1. /\ timeQueue_' \subseteq Nodes
        /\ armed' \in {Never} \union Nat /\ readable' \in BOOLEAN
    BY <1>1, <1>2, AddKeepsAlarm DEF Places
  <2>2. nextId' \in 1 .. MaxTimers + 1 /\ handles' \subseteq NodeIds
    BY <1>1, <1>2 DEF TypeOK
  <2> QED
    BY <1>1, <2>1, <2>2 DEF TypeOK
<1> QED
  BY <1>11, <1>12

\* addTimer on another thread: the node travels in a functor.
LEMMA AddTimerElsewhereInv ==
  ASSUME IInv, NEW d \in Delays, NEW i \in Intervals, AddTimerElsewhere(d, i)
  PROVE  IInv'
<1> DEFINE n == NewNode(d, i)
           t == [op |-> "add", node |-> n]
<1> USE DEF IInv, clockVars, batchVars, historyVars
<1>1. /\ nextId <= MaxTimers /\ nextId' = nextId + 1
      /\ pending' = Append(pending, t)
      /\ returning' = returning \union {nextId}
      /\ UNCHANGED <<clock, armed, readable, pc, now, expired, index, handles,
                     restarted, cancels, active, timeQueue_, cancelingTimers_>>
  BY DEF AddTimerElsewhere
<1>2. /\ n \in Nodes /\ n.id = nextId
      /\ nextId + 1 \in 1 .. MaxTimers + 1
      /\ \A m \in timeQueue_ : m.id # n.id
      /\ \A j \in DOMAIN expired : expired[j].id # n.id
      /\ \A j \in DOMAIN pending : pending[j].node.id # n.id
      /\ \A h \in handles : h.id # n.id
      /\ \A c \in cancels : c[1] # n.id
  BY <1>1, NewNodeIsFresh
<1> HIDE DEF n
<1>3. t \in Tasks /\ t.op = "add" /\ t.node = n
  BY <1>2 DEF Tasks
<1> HIDE DEF t
<1>4. /\ pending' \in Seq(Tasks)
      /\ DOMAIN pending' = 1 .. Len(pending) + 1
      /\ DOMAIN pending = 1 .. Len(pending)
      /\ \A j \in DOMAIN pending : j \in DOMAIN pending' /\ pending'[j] = pending[j]
      /\ pending'[Len(pending) + 1] = t
  BY <1>1, <1>3, AppendTask DEF TypeOK, Tasks
<1>5. \A j \in DOMAIN pending' :
        \/ j \in DOMAIN pending /\ pending'[j] = pending[j]
        \/ j = Len(pending) + 1 /\ pending'[j] = t
  <2>1. Len(pending) \in Nat
    BY LenProperties DEF TypeOK
  <2> QED
    BY <1>4, <2>1
<1>6. TypeOK'
  <2>1. nextId \in Ids
    BY <1>1, MaxTimersAssumption DEF TypeOK, Ids
  <2>2. returning' \subseteq Ids /\ nextId' \in 1 .. MaxTimers + 1
    BY <1>1, <1>2, <2>1 DEF TypeOK
  <2>3. pending' \in Seq([op : {"add"}, node : Nodes]
                         \union [op : {"cancel"}, node : NodeIds])
    BY <1>4 DEF Tasks
  <2> QED
    BY <1>1, <2>2, <2>3 DEF TypeOK
<1>7. NoMissedTimer'
  BY <1>1 DEF NoMissedTimer, ArmTime
<1>8. GivenOut'
  <2>1. ASSUME NEW x \in Int, x < nextId PROVE x < nextId'
    <3>1. nextId \in Int
      BY DEF TypeOK
    <3>2. x < nextId + 1
      BY <2>1, <3>1
    <3> QED
      BY <1>1, <3>2
  <2>2. n.id \in Int /\ n.id < nextId'
    <3>1. nextId \in Int /\ nextId < nextId + 1
      BY DEF TypeOK
    <3> QED
      BY <1>1, <1>2, <3>1
  <2>3. \A m \in timeQueue_ : m.id < nextId'
    BY <2>1 DEF Places, GivenOut, TypeOK, Nodes, Ids
  <2>4. \A j \in DOMAIN expired : expired[j].id < nextId'
    <3> SUFFICES ASSUME NEW j \in DOMAIN expired PROVE expired[j].id < nextId'
      OBVIOUS
    <3>1. expired[j] \in Nodes /\ expired[j].id < nextId
      BY DEF Places, GivenOut, TypeOK
    <3>2. expired[j].id \in Int
      BY <3>1 DEF Nodes, Ids
    <3> QED
      BY <2>1, <3>1, <3>2
  <2>5. \A j \in DOMAIN pending' : pending'[j].node.id < nextId'
    <3> SUFFICES ASSUME NEW j \in DOMAIN pending' PROVE pending'[j].node.id < nextId'
      OBVIOUS
    <3>1. CASE j = Len(pending) + 1 /\ pending'[j] = t
      BY <1>3, <2>2, <3>1
    <3>2. CASE j \in DOMAIN pending /\ pending'[j] = pending[j]
      <4>1. pending[j] \in Tasks /\ pending[j].node.id < nextId
        BY <3>2 DEF Places, GivenOut, TypeOK, Tasks
      <4>2. pending[j].node.id \in Int
        BY <4>1, TaskKinds DEF Ids
      <4> QED
        BY <2>1, <3>2, <4>1, <4>2
    <3> QED
      BY <1>5, <3>1, <3>2
  <2>6. \A h \in handles : h.id < nextId'
    BY <2>1 DEF Places, GivenOut, TypeOK, NodeIds, Ids
  <2>7. \A id \in returning' : id < nextId'
    BY <1>1, <1>2, <2>1, <2>2 DEF Places, GivenOut, TypeOK, Ids
  <2>8. \A c \in cancels : c[1] < nextId'
    BY <2>1 DEF Places, GivenOut, TypeOK, Ids
  <2> QED
    BY <1>1, <2>3, <2>4, <2>5, <2>6, <2>7, <2>8 DEF GivenOut
<1>9. OnePlacePerNode' /\ BatchInHandleRead'
  BY <1>1 DEF Places, OnePlacePerNode, BatchInHandleRead
<1>10. QueuedOnce'
  BY <1>1, <1>2, <1>3, <1>5 DEF Places, QueuedOnce, IsAdd
<1>11. FirstCancelHolds' /\ Remembered'
  BY <1>1 DEF Cancelled, FirstCancelHolds, Remembered
<1>12. AddedFirst'
  BY <1>1, <1>2, <1>3, <1>5 DEF Cancelled, AddedFirst, IsAdd
<1>13. Exact'
  <2>1. ASSUME NEW g, MatchesAll(g), g.id # n.id PROVE MatchesAll(g)'
    BY <2>1, <1>1, <1>3, <1>5 DEF MatchesAll, Matches, IsAdd
  <2> QED
    BY <2>1, <1>1, <1>2, <1>3, <1>5 DEF Cancelled, Exact, IsAdd
<1> QED
  BY <1>6, <1>7, <1>8, <1>9, <1>10, <1>11, <1>12, <1>13 DEF Places, Cancelled

\* The nodes alive are nodes, one for each identity.
LEMMA AliveOnce ==
  ASSUME TypeOK, Places
  PROVE  /\ NodesAlive \subseteq Nodes
         /\ \A n, m \in NodesAlive : n.id = m.id => n = m
         /\ timeQueue_ \subseteq NodesAlive
         /\ \A i \in DOMAIN expired : expired[i] \in NodesAlive
         /\ \A i \in DOMAIN pending : IsAdd(i) => pending[i].node \in NodesAlive
<1>1. \A i \in DOMAIN expired : expired[i] \in Nodes
  BY DEF TypeOK
<1>2. \A i \in DOMAIN pending : IsAdd(i) => pending[i].node \in Nodes
  <2>1. \A i \in DOMAIN pending : pending[i] \in Tasks
    BY DEF TypeOK, Tasks
  <2> QED
    BY <2>1, TaskKinds DEF IsAdd
<1>3. \A n : n \in NodesAlive <=>
               \/ n \in timeQueue_
               \/ \E i \in DOMAIN expired : n = expired[i]
               \/ \E i \in DOMAIN pending : IsAdd(i) /\ n = pending[i].node
  BY DEF NodesAlive, Queued, ToSet, IsAdd
<1>4. timeQueue_ \subseteq Nodes
  BY DEF TypeOK
<1>5. NodesAlive \subseteq Nodes
  BY <1>1, <1>2, <1>3, <1>4
<1>6. ASSUME NEW n \in NodesAlive, NEW m \in NodesAlive, n.id = m.id PROVE n = m
  BY <1>3, <1>6 DEF Places, OnePlacePerNode, QueuedOnce
<1> QED
  BY <1>3, <1>5, <1>6

\* That thread gets its handle.
LEMMA ReturnFromAddTimerInv ==
  ASSUME IInv, NEW id \in returning, ReturnFromAddTimer(id)
  PROVE  IInv'
<1> USE DEF IInv, clockVars, batchVars, historyVars
<1>1. /\ returning' = returning \ {id}
      /\ UNCHANGED <<clock, armed, readable, pc, now, expired, index, nextId,
                     pending, restarted, cancels, active, timeQueue_,
                     cancelingTimers_>>
  BY DEF ReturnFromAddTimer
<1>2. PICK h \in IF \E n \in NodesAlive : n.id = id
                   THEN {NodeId(n) : n \in {m \in NodesAlive : m.id = id}}
                   ELSE Leftovers :
        handles' = handles \union {h}
  BY DEF ReturnFromAddTimer
<1>3. /\ h \in NodeIds /\ h.id < nextId
      /\ \A n \in NodesAlive : n.id = h.id => n.expire = h.expire
  <2>1. CASE \E n \in NodesAlive : n.id = id
    <3>1. PICK m \in NodesAlive : m.id = id /\ h = NodeId(m)
      BY <1>2, <2>1
    <3>2. m \in Nodes /\ id < nextId
      BY AliveOnce DEF Places, GivenOut
    <3>3. h.id = m.id /\ h.expire = m.expire /\ h \in NodeIds
      BY <3>1, <3>2 DEF NodeId, Nodes, NodeIds
    <3> QED
      BY <3>1, <3>2, <3>3, AliveOnce
  <2>2. CASE ~(\E n \in NodesAlive : n.id = id)
    <3>1. h \in Leftovers
      BY <1>2, <2>2
    <3>2. /\ h.id \in 1 .. nextId - 1 /\ h.expire \in Times
          /\ h = [id |-> h.id, expire |-> h.expire]
      BY <3>1 DEF Leftovers
    <3>3. nextId \in 1 .. MaxTimers + 1
      BY DEF TypeOK
    <3>4. h.id \in Ids /\ h.id < nextId
      BY <3>2, <3>3, MaxTimersAssumption DEF Ids
    <3>5. h.expire \in Nat
      BY <3>2, MaxTimeAssumption DEF Times
    <3>6. h \in NodeIds
      BY <3>2, <3>4, <3>5 DEF NodeIds
    <3> QED
      BY <3>1, <3>4, <3>6 DEF Leftovers
  <2> QED
    BY <2>1, <2>2
<1>4. h \in NodeIds
  BY <1>3
<1>5. MatchesAll(h) /\ h.id < nextId
  BY <1>3, AliveOnce DEF MatchesAll, Matches
<1>6. handles' = handles \union {h}
  BY <1>2
<1>7. TypeOK'
  <2>1. handles' \subseteq NodeIds /\ returning' \subseteq Ids
    BY <1>1, <1>4, <1>6 DEF TypeOK
  <2> QED
    BY <1>1, <2>1 DEF TypeOK
<1>8. NoMissedTimer'
  BY <1>1 DEF NoMissedTimer, ArmTime
<1>9. GivenOut' /\ OnePlacePerNode' /\ BatchInHandleRead'
  BY <1>1, <1>5, <1>6 DEF Places, GivenOut, OnePlacePerNode, BatchInHandleRead
<1>10. QueuedOnce'
  BY <1>1 DEF Places, QueuedOnce, IsAdd
<1>11. FirstCancelHolds' /\ Remembered' /\ AddedFirst'
  BY <1>1 DEF Cancelled, FirstCancelHolds, Remembered, AddedFirst, IsAdd
<1>12. Exact'
  BY <1>1, <1>5, <1>6 DEF Cancelled, Exact, MatchesAll, Matches, IsAdd
<1> QED
  BY <1>7, <1>8, <1>9, <1>10, <1>11, <1>12 DEF Places, Cancelled

\* cancelTimer on the loop's thread.
LEMMA CancelTimerInv ==
  ASSUME IInv, NEW h \in handles, CancelTimer(h)
  PROVE  IInv'
<1> USE DEF IInv, clockVars, batchVars
<1>1. /\ handles' = handles \ {h}
      /\ DelTimerInLoop(h)
      /\ UNCHANGED <<clock, armed, readable, pc, now, expired, index, nextId,
                     pending, returning, restarted, active>>
  BY DEF CancelTimer
<1>2. h \in NodeIds /\ MatchesAll(h) /\ h.id < nextId
  BY DEF TypeOK, Cancelled, Exact, Places, GivenOut
<1>3. StillQueued(0)
  BY <1>1, SameQueue DEF TypeOK, Tasks
<1>4. /\ Places' /\ Cancelled'
      /\ timeQueue_' \subseteq timeQueue_
      /\ cancelingTimers_' \subseteq NodeIds
      /\ cancels' \subseteq Ids \X BOOLEAN
  BY <1>1, <1>2, <1>3, DelKeeps
<1>5. TypeOK'
  BY <1>1, <1>4 DEF TypeOK
<1>6. NoMissedTimer'
  <2>1. clock \in Nat /\ clock <= clock
    BY DEF TypeOK
  <2> QED
    BY <1>1, <1>4, <2>1, AlarmStays DEF Places
<1> QED
  BY <1>4, <1>5, <1>6

\* cancelTimer on another thread: the cancel travels in a functor.
LEMMA CancelTimerElsewhereInv ==
  ASSUME IInv, NEW h \in handles, CancelTimerElsewhere(h)
  PROVE  IInv'
<1> DEFINE t == [op |-> "cancel", node |-> h]
<1> USE DEF IInv, clockVars, batchVars, historyVars
<1>1. /\ handles' = handles \ {h}
      /\ pending' = Append(pending, t)
      /\ UNCHANGED <<clock, armed, readable, pc, now, expired, index, nextId,
                     returning, restarted, cancels, active, timeQueue_,
                     cancelingTimers_>>
  BY DEF CancelTimerElsewhere
<1>2. h \in NodeIds /\ MatchesAll(h) /\ h.id < nextId
  BY DEF TypeOK, Cancelled, Exact, Places, GivenOut
<1>3. t \in Tasks /\ t.op # "add" /\ t.node = h
  BY <1>2 DEF Tasks
<1> HIDE DEF t
<1>4. /\ pending' \in Seq(Tasks)
      /\ DOMAIN pending' = 1 .. Len(pending) + 1
      /\ DOMAIN pending = 1 .. Len(pending)
      /\ \A j \in DOMAIN pending : j \in DOMAIN pending' /\ pending'[j] = pending[j]
      /\ pending'[Len(pending) + 1] = t
  BY <1>1, <1>3, AppendTask DEF TypeOK, Tasks
<1>5. \A j \in DOMAIN pending' :
        \/ j \in DOMAIN pending /\ pending'[j] = pending[j]
        \/ j = Len(pending) + 1 /\ pending'[j] = t
  <2>1. Len(pending) \in Nat
    BY LenProperties DEF TypeOK
  <2> QED
    BY <1>4, <2>1
<1>6. TypeOK'
  <2>1. handles' \subseteq NodeIds
    BY <1>1 DEF TypeOK
  <2>2. pending' \in Seq([op : {"add"}, node : Nodes]
                         \union [op : {"cancel"}, node : NodeIds])
    BY <1>4 DEF Tasks
  <2> QED
    BY <1>1, <2>1, <2>2 DEF TypeOK
<1>7. NoMissedTimer'
  BY <1>1 DEF NoMissedTimer, ArmTime
<1>8. GivenOut' /\ OnePlacePerNode' /\ BatchInHandleRead'
  BY <1>1, <1>2, <1>3, <1>5
  DEF Places, GivenOut, OnePlacePerNode, BatchInHandleRead
<1>9. QueuedOnce'
  BY <1>1, <1>3, <1>5 DEF Places, QueuedOnce, IsAdd
<1>10. FirstCancelHolds' /\ Remembered' /\ AddedFirst'
  BY <1>1, <1>3, <1>5 DEF Cancelled, FirstCancelHolds, Remembered, AddedFirst, IsAdd
<1>11. Exact'
  <2>1. ASSUME NEW g, MatchesAll(g) PROVE MatchesAll(g)'
    BY <2>1, <1>1, <1>3, <1>5 DEF MatchesAll, Matches, IsAdd
  <2> QED
    BY <2>1, <1>1, <1>2, <1>3, <1>5 DEF Cancelled, Exact, IsAdd
<1> QED
  BY <1>6, <1>7, <1>8, <1>9, <1>10, <1>11 DEF Places, Cancelled

-----------------------------------------------------------------------------
(* The steps of the loop.                                                  *)

\* The loop runs a queued addTimerInLoop or delTimerInLoop.
LEMMA RunPendingInv == IInv /\ RunPending => IInv'
<1> SUFFICES ASSUME IInv, RunPending PROVE IInv'
  OBVIOUS
<1> USE DEF IInv, batchVars
<1> DEFINE f == Head(pending)
<1>1. /\ pending # <<>> /\ pending' = Tail(pending)
      /\ UNCHANGED <<clock, pc, now, expired, index, nextId, returning, handles,
                     restarted, active>>
  BY DEF RunPending
<1>2. /\ pending' \in Seq(Tasks)
      /\ f = pending[1] /\ f \in Tasks /\ 1 \in DOMAIN pending
      /\ \A j \in DOMAIN pending' : /\ j + 1 \in DOMAIN pending
                                    /\ j + 1 # 1
                                    /\ pending'[j] = pending[j + 1]
      /\ StillQueued(1)
  BY <1>1, TailTask, ShorterQueue DEF TypeOK, Tasks
<1>3. f.node.id \in Ids /\ f.node.id < nextId
  BY <1>2, TaskKinds DEF Places, GivenOut
<1>4. pending' \in Seq([op : {"add"}, node : Nodes]
                       \union [op : {"cancel"}, node : NodeIds])
  BY <1>2 DEF Tasks
<1>5. CASE f.op = "add"
  <2> DEFINE n == f.node
  <2>1. AddTimerInLoop(n) /\ UNCHANGED <<cancelingTimers_, cancels>>
    BY <1>5 DEF RunPending
  <2>2. n \in Nodes /\ IsAdd(1)
    BY <1>2, <1>5, TaskKinds DEF IsAdd
  <2>3. /\ \A m \in timeQueue_ : m.id # n.id
        /\ \A j \in DOMAIN expired : expired[j].id # n.id
        /\ \A j \in DOMAIN pending' : IsAdd(j)' => pending'[j].node.id # n.id
    BY <1>2, <2>2 DEF Places, QueuedOnce, IsAdd
  <2>4. \A h \in handles' : MatchesAll(h) /\ Matches(h, n) /\ h.id < nextId
    BY <1>1, <1>2, <2>2 DEF Places, GivenOut, Cancelled, Exact, MatchesAll
  <2>5. \A j \in DOMAIN pending' : ~IsAdd(j)' => Matches(pending'[j].node, n)
    BY <1>2, <2>2 DEF Cancelled, Exact, MatchesAll, IsAdd
  <2>6. <<n.id, FALSE>> \notin cancels
    BY <1>2, <2>2 DEF Cancelled, AddedFirst
  <2> HIDE DEF n
  <2>7. nextId \in Nat /\ nextId' = nextId /\ nextId <= nextId /\ n.id < nextId
    BY <1>1, <1>3 DEF n, TypeOK
  <2>8. Places' /\ Cancelled' /\ NoMissedTimer'
    BY <1>1, <1>2, <2>1, <2>2, <2>3, <2>4, <2>5, <2>6, <2>7, AddKeeps
  <2>9. TypeOK'
    <3>1. /\ timeQueue_' \subseteq Nodes
          /\ armed' \in {Never} \union Nat /\ readable' \in BOOLEAN
      BY <1>1, <2>1, <2>2, <2>3, AddKeepsAlarm DEF Places
    <3> QED
      BY <1>1, <1>4, <2>1, <3>1 DEF TypeOK
  <2> QED
    BY <2>8, <2>9
<1>6. CASE f.op # "add"
  <2> DEFINE h == f.node
  <2>1. DelTimerInLoop(h) /\ UNCHANGED <<armed, readable>>
    BY <1>6 DEF RunPending
  <2>2. h \in NodeIds /\ ~IsAdd(1)
    BY <1>2, <1>6, TaskKinds DEF IsAdd
  <2>3. MatchesAll(h) /\ h.id < nextId
    BY <1>2, <1>3, <2>2 DEF Cancelled, Exact
  <2> HIDE DEF h
  <2>4. /\ Places' /\ Cancelled'
        /\ timeQueue_' \subseteq timeQueue_
        /\ cancelingTimers_' \subseteq NodeIds
        /\ cancels' \subseteq Ids \X BOOLEAN
    BY <1>1, <1>2, <2>1, <2>2, <2>3, DelKeeps
  <2>5. TypeOK'
    BY <1>1, <1>4, <2>1, <2>4 DEF TypeOK
  <2>6. NoMissedTimer'
    <3>1. clock \in Nat /\ clock <= clock
      BY DEF TypeOK
    <3> QED
      BY <1>1, <2>1, <2>4, <3>1, AlarmStays DEF Places
  <2> QED
    BY <2>4, <2>5, <2>6
<1> QED
  BY <1>5, <1>6

\* The queue is finite, as it has no more nodes than there are identities.
LEMMA QueueIsFinite ==
  ASSUME TypeOK, OnePlacePerNode
  PROVE  IsFiniteSet(GetExpired)
<1> DEFINE f == [n \in GetExpired |-> n.id]
<1>1. f \in Injection(GetExpired, Ids)
  <2>1. f \in [GetExpired -> Ids]
    BY DEF GetExpired, TypeOK, Nodes
  <2>2. \A n, m \in GetExpired : n.id = m.id => n = m
    BY DEF GetExpired, OnePlacePerNode
  <2> QED
    BY <2>1, <2>2 DEF Injection, IsInjective
<1>2. IsFiniteSet(Ids)
  BY MaxTimersAssumption, FS_Interval DEF Ids
<1> HIDE DEF f
<1> QED
  BY <1>1, <1>2, FS_Injection

\* SetToSeqs(S) has the sequences that hold each element of a finite S once.
LEMMA HandleReadInv == IInv /\ HandleRead => IInv'
<1> SUFFICES ASSUME IInv, HandleRead PROVE IInv'
  OBVIOUS
<1> USE DEF IInv, clientVars, historyVars
<1>1. /\ readable' = FALSE /\ active' = FALSE /\ pc' = "batch" /\ index' = 0
      /\ now' = clock
      /\ timeQueue_' = timeQueue_ \ GetExpired
      /\ cancelingTimers_' = {}
      /\ UNCHANGED <<clock, armed, nextId, pending, returning, handles,
                     restarted, cancels>>
      /\ pc = "idle"
  BY DEF HandleRead, LeftWaiting
<1>2. /\ expired' \in Seq(GetExpired)
      /\ \A i, j \in DOMAIN expired' : expired'[i] = expired'[j] => i = j
  <2>1. expired' \in SetToSeqs(GetExpired)
    BY DEF HandleRead
  <2>2. Cardinality(GetExpired) \in Nat
    BY QueueIsFinite, FS_CardinalityType DEF Places
  <2> DEFINE D == 1 .. Cardinality(GetExpired)
  <2>3. /\ expired' \in [D -> GetExpired]
        /\ \A i, j \in D : i # j => expired'[i] # expired'[j]
    BY <2>1 DEF SetToSeqs
  <2> QED
    BY <2>2, <2>3
<1>3. GetExpired \subseteq timeQueue_ /\ timeQueue_ \subseteq Nodes
  BY DEF GetExpired, TypeOK
<1>4. \A i \in DOMAIN expired' : expired'[i] \in timeQueue_ /\ expired'[i] \notin timeQueue_'
  BY <1>1, <1>2, <1>3
<1>5. TypeOK'
  <2>1. expired' \in Seq(Nodes) /\ index' \in 0 .. Len(expired')
    BY <1>1, <1>2, <1>3
  <2> QED
    BY <1>1, <2>1 DEF TypeOK, Pcs
<1>6. NoMissedTimer'
  BY <1>1 DEF NoMissedTimer
<1>7. GivenOut' /\ BatchInHandleRead'
  BY <1>1, <1>4 DEF Places, GivenOut, BatchInHandleRead
<1>8. OnePlacePerNode'
  BY <1>1, <1>2, <1>4 DEF Places, OnePlacePerNode
<1>9. QueuedOnce'
  BY <1>1, <1>4 DEF Places, QueuedOnce, IsAdd
<1>10. FirstCancelHolds' /\ Remembered' /\ AddedFirst'
  BY <1>1, <1>4 DEF Cancelled, FirstCancelHolds, Remembered, AddedFirst, IsAdd
<1>11. Exact'
  BY <1>1, <1>4 DEF Cancelled, Exact, MatchesAll, Matches, IsAdd
<1> QED
  BY <1>5, <1>6, <1>7, <1>8, <1>9, <1>10, <1>11 DEF Places, Cancelled

\* reset() puts the repeated nodes that are not cancelled back and rearms.
LEMMA ResetInv == IInv /\ Reset => IInv'
<1> SUFFICES ASSUME IInv, Reset PROVE IInv'
  OBVIOUS
<1> USE DEF IInv, clientVars
<1> DEFINE Kept == {m \in ToSet(expired) : Requeued(m)}
<1>1. /\ pc = "batch" /\ pc' = "idle" /\ expired' = <<>> /\ index' = 0 /\ now' = 0
      /\ timeQueue_' = AfterReset
      /\ restarted' = restarted \union {n.id : n \in Kept}
      /\ UNCHANGED <<clock, nextId, pending, returning, handles, active,
                     cancelingTimers_, cancels>>
  BY DEF Reset
<1>2. \A n \in Kept : \E i \in DOMAIN expired : n = expired[i]
  BY DEF ToSet
<1>3. \A n \in Kept : n \in Nodes /\ Restart(n) \in Nodes /\ Restart(n).id = n.id
  <2> SUFFICES ASSUME NEW n \in Kept
               PROVE  n \in Nodes /\ Restart(n) \in Nodes /\ Restart(n).id = n.id
    OBVIOUS
  <2>1. n \in Nodes
    BY <1>2 DEF TypeOK
  <2>2. now + n.interval \in Nat
    <3>1. n.interval \in Nat
      BY <2>1, IntervalsAssumption DEF Nodes
    <3>2. now \in Nat
      BY MaxTimeAssumption DEF TypeOK
    <3> QED
      BY <3>1, <3>2
  <2> QED
    BY <2>1, <2>2 DEF Restart, Nodes
<1>4. \A k \in AfterReset : k \in timeQueue_ \/ \E n \in Kept : k = Restart(n)
  BY DEF AfterReset
<1> HIDE DEF Kept
<1>5. AfterReset \in SUBSET Nodes
  BY <1>3, <1>4 DEF TypeOK
<1>6. \A k \in AfterReset :
        k \in timeQueue_ \/ \E i \in DOMAIN expired : k.id = expired[i].id
  BY <1>2, <1>3, <1>4
<1>7. \A k, m \in AfterReset : k.id = m.id => k = m
  <2> SUFFICES ASSUME NEW k \in AfterReset, NEW m \in AfterReset, k.id = m.id
               PROVE  k = m
    OBVIOUS
  <2>1. CASE k \in timeQueue_ /\ m \in timeQueue_
    BY <2>1 DEF Places, OnePlacePerNode
  <2>2. ASSUME NEW a \in timeQueue_, NEW n \in Kept, a.id = Restart(n).id PROVE FALSE
    BY <2>2, <1>2, <1>3 DEF Places, OnePlacePerNode
  <2>3. ASSUME NEW a \in Kept, NEW b \in Kept, Restart(a).id = Restart(b).id PROVE a = b
    BY <2>3, <1>2, <1>3 DEF Places, OnePlacePerNode
  <2> QED
    BY <1>4, <2>1, <2>2, <2>3
<1>8. /\ NoMissedTimer'
      /\ armed' \in {Never} \union Nat /\ readable' \in BOOLEAN
  <2>1. CASE AfterReset # {}
    <3>1. ResetTimerfd(Earliest(AfterReset).expire)
      BY <2>1 DEF Reset, MustRearm
    <3>2. Earliest(AfterReset) \in AfterReset
      BY <1>5, <1>7, <2>1, EarliestIsLeast
    <3>3. Earliest(AfterReset).expire \in Nat
      BY <1>5, <3>2 DEF Nodes
    <3>4. clock \in Nat
      BY DEF TypeOK
    <3> QED
      BY <1>1, <3>1, <3>3, <3>4, ArmedForEarliest
  <2>2. CASE AfterReset = {}
    <3>1. NoMissedTimer'
      BY <1>1, <2>2 DEF NoMissedTimer
    <3>2. armed' = armed /\ readable' = readable
      BY <2>2 DEF Reset, MustRearm
    <3> QED
      BY <3>1, <3>2 DEF TypeOK
  <2> QED
    BY <2>1, <2>2
<1>9. TypeOK'
  <2>1. expired' \in Seq(Nodes) /\ index' \in 0 .. Len(expired')
    BY <1>1
  <2>2. restarted' \subseteq Ids
    BY <1>1, <1>3 DEF TypeOK, Nodes
  <2>3. now' \in 0 .. MaxTime /\ pc' \in Pcs
    BY <1>1, MaxTimeAssumption DEF Pcs
  <2> QED
    BY <1>1, <1>5, <1>8, <2>1, <2>2, <2>3 DEF TypeOK
<1>10. GivenOut'
  BY <1>1, <1>6 DEF Places, GivenOut
<1>11. OnePlacePerNode' /\ BatchInHandleRead'
  BY <1>1, <1>7 DEF OnePlacePerNode, BatchInHandleRead
<1>12. QueuedOnce'
  BY <1>1, <1>6 DEF Places, QueuedOnce, IsAdd
<1>13. FirstCancelHolds'
  <2> SUFFICES ASSUME NEW k \in AfterReset, <<k.id, FALSE>> \in cancels
               PROVE  FALSE
    BY <1>1 DEF FirstCancelHolds
  <2>1. CASE k \in timeQueue_
    BY <2>1 DEF Cancelled, FirstCancelHolds
  <2>2. ASSUME NEW n \in Kept, k = Restart(n) PROVE FALSE
    <3>1. NodeId(n) \notin cancelingTimers_
      BY <2>2 DEF Kept, Requeued
    <3>2. <<n.id, FALSE>> \in cancels
      BY <1>3, <2>2
    <3> QED
      BY <1>2, <3>1, <3>2 DEF Cancelled, Remembered
  <2> QED
    BY <1>4, <2>1, <2>2
<1>14. Remembered' /\ AddedFirst'
  <2>1. Remembered'
    BY <1>1 DEF Remembered
  <2>2. AddedFirst'
    BY <1>1 DEF Cancelled, AddedFirst, IsAdd
  <2> QED
    BY <2>1, <2>2
<1>15. Exact'
  <2>1. ASSUME NEW g, MatchesAll(g) PROVE MatchesAll(g)'
    <3>1. \A k \in timeQueue_' : Matches(g, k)'
      <4> SUFFICES ASSUME NEW k \in AfterReset, k.id = g.id, k.id \notin restarted'
                   PROVE  k.expire = g.expire
        BY <1>1 DEF Matches
      <4>1. k \in timeQueue_
        BY <1>1, <1>3, <1>4
      <4> QED
        BY <1>1, <2>1, <4>1 DEF MatchesAll, Matches
    <3> QED
      BY <1>1, <2>1, <3>1 DEF MatchesAll, Matches, IsAdd
  <2> QED
    BY <1>1, <2>1 DEF Cancelled, Exact, IsAdd
<1> QED
  BY <1>8, <1>9, <1>10, <1>11, <1>12, <1>13, <1>14, <1>15 DEF Places, Cancelled

-----------------------------------------------------------------------------
(* The theorems.                                                           *)

\* Every step keeps the invariant.
LEMMA StepInv == IInv /\ [Next]_vars => IInv'
<1> SUFFICES ASSUME IInv, [Next]_vars PROVE IInv'
  OBVIOUS
<1>1. CASE Tick
  BY <1>1, TickInv
<1>2. CASE TimerfdExpires
  BY <1>2, TimerfdExpiresInv
<1>3. CASE \E d \in Delays, i \in Intervals : AddTimer(d, i) \/ AddTimerElsewhere(d, i)
  BY <1>3, AddTimerInv, AddTimerElsewhereInv
<1>4. CASE \E id \in returning : ReturnFromAddTimer(id)
  BY <1>4, ReturnFromAddTimerInv
<1>5. CASE \E h \in handles : CancelTimer(h) \/ CancelTimerElsewhere(h)
  BY <1>5, CancelTimerInv, CancelTimerElsewhereInv
<1>6. CASE LoopStep
  BY <1>6, RunPendingInv, PollInv, HandleReadInv, RunTimerInv, ReturnFromTimerInv,
     ResetInv DEF LoopStep
<1>7. CASE UNCHANGED vars
  <2> USE <1>7 DEF IInv, vars, clockVars, batchVars, clientVars
  <2>1. TypeOK'
    BY DEF TypeOK, historyVars
  <2>2. NoMissedTimer'
    BY DEF NoMissedTimer, ArmTime
  <2>3. Places' /\ Cancelled'
    BY Unmoved
  <2> QED
    BY <2>1, <2>2, <2>3
<1> QED
  BY <1>1, <1>2, <1>3, <1>4, <1>5, <1>6, <1>7 DEF Next

\* The invariant holds in every reachable state of the timer, whatever the
\* times, the callers and the order of their adds and cancels.
THEOREM Invariance == SafeSpec => []IInv
BY InitInv, StepInv, PTL DEF SafeSpec

\* The variables of Timer keep their types: the batch index stays within the
\* batch, and identities are those that genId_ has given out.
THEOREM TypeCorrect == SafeSpec => []TypeOK
<1>1. IInv => TypeOK
  BY DEF IInv
<1> QED
  BY <1>1, Invariance, PTL

\* However addTimer, cancelTimer and handleRead interleave, a timer that waits
\* has the timerfd armed for it in time, or its expiry on the way to the loop.
THEOREM NothingMissed == SafeSpec => []NoMissedTimer
<1>1. IInv => NoMissedTimer
  BY DEF IInv
<1> QED
  BY <1>1, Invariance, PTL

\* No node is in timeQueue_ and in the batch, or twice in either: getExpired,
\* reset and the functors of other threads hand every node over once.
THEOREM OnePlace == SafeSpec => []OnePlacePerNode
<1>1. IInv => OnePlacePerNode
  BY DEF IInv, Places
<1> QED
  BY <1>1, Invariance, PTL

\* A timer cancelled before its first restart never waits again, whichever
\* thread cancels it and whether it waits or is in the batch.
THEOREM FirstCancel == SafeSpec => []FirstCancelHolds
<1>1. IInv => FirstCancelHolds
  BY DEF IInv, Cancelled
<1> QED
  BY <1>1, Invariance, PTL
-----------------------------------------------------------------------------
(* The service that the queue and its timerfd implement.                   *)

\* Whatever reset is told to leave out of the queue was cancelled.
Accounted ==
  \A i \in DOMAIN expired :
    NodeId(expired[i]) \in cancelingTimers_ =>
      <<expired[i].id, FALSE>> \in cancels \/ <<expired[i].id, TRUE>> \in cancels

\* delTimerInLoop counts as a cancel of every node of the batch that it has
\* remembered: that node was added, as it is in the batch.
LEMMA DelAccounts ==
  ASSUME TypeOK, Places, Accounted, NEW h \in NodeIds, h.id < nextId,
         DelTimerInLoop(h), expired' = expired
  PROVE  Accounted'
<1> SUFFICES ASSUME NEW i \in DOMAIN expired, NodeId(expired[i]) \in cancelingTimers_'
             PROVE  \/ <<expired[i].id, FALSE>> \in cancels'
                    \/ <<expired[i].id, TRUE>> \in cancels'
  BY DEF Accounted
<1>1. /\ cancels \subseteq cancels'
      /\ cancelingTimers_' \subseteq cancelingTimers_ \union {h}
      /\ Added(h.id) => <<h.id, h.id \in restarted>> \in cancels'
  BY DEF DelTimerInLoop
<1>2. CASE NodeId(expired[i]) \in cancelingTimers_
  BY <1>1, <1>2 DEF Accounted
<1>3. CASE NodeId(expired[i]) = h
  <2>1. expired[i].id = h.id
    BY <1>3 DEF NodeId
  <2>2. Added(h.id)
    BY <2>1 DEF Added, Places, QueuedOnce, IsAdd
  <2>3. (h.id \in restarted) \in BOOLEAN /\ <<h.id, h.id \in restarted>> \in cancels'
    BY <1>1, <2>2
  <2>4. PICK b \in BOOLEAN : <<h.id, b>> \in cancels'
    BY <2>3, Zenon
  <2>5. CASE b = TRUE
    BY <2>1, <2>4, <2>5
  <2>6. CASE b = FALSE
    BY <2>1, <2>4, <2>6
  <2> QED
    BY <2>5, <2>6
<1> QED
  BY <1>1, <1>2, <1>3

\* Every step keeps it.
LEMMA AccountedStep == IInv /\ Accounted /\ [Next]_vars => Accounted'
<1> SUFFICES ASSUME IInv, Accounted, [Next]_vars PROVE Accounted'
  OBVIOUS
<1> USE DEF clockVars, batchVars, clientVars, historyVars
<1>1. ASSUME UNCHANGED <<expired, cancelingTimers_, cancels>> PROVE Accounted'
  BY <1>1 DEF Accounted
<1>2. CASE Tick \/ TimerfdExpires \/ Poll \/ RunTimer \/ ReturnFromTimer
  BY <1>1, <1>2 DEF Tick, TimerfdExpires, Poll, RunTimer, ReturnFromTimer
<1>3. CASE \E d \in Delays, i \in Intervals : AddTimer(d, i) \/ AddTimerElsewhere(d, i)
  BY <1>1, <1>3 DEF AddTimer, AddTimerElsewhere
<1>4. CASE \E id \in returning : ReturnFromAddTimer(id)
  BY <1>1, <1>4 DEF ReturnFromAddTimer
<1>5. ASSUME NEW h \in handles, CancelTimer(h) PROVE Accounted'
  <2>1. h \in NodeIds /\ h.id < nextId
    BY DEF IInv, TypeOK, Places, GivenOut
  <2>2. DelTimerInLoop(h) /\ expired' = expired
    BY <1>5 DEF CancelTimer
  <2> QED
    BY <2>1, <2>2, DelAccounts DEF IInv
<1>6. CASE \E h \in handles : CancelTimerElsewhere(h)
  BY <1>1, <1>6 DEF CancelTimerElsewhere
<1>7. CASE RunPending
  <2> DEFINE f == Head(pending)
  <2>1. /\ pending # <<>> /\ pending' = Tail(pending)
        /\ UNCHANGED <<expired, nextId>>
    BY <1>7 DEF RunPending
  <2>2. f = pending[1] /\ f \in Tasks /\ 1 \in DOMAIN pending
    BY <2>1, TailTask DEF IInv, TypeOK, Tasks
  <2>3. CASE f.op = "add"
    BY <1>1, <1>7, <2>3 DEF RunPending
  <2>4. CASE f.op # "add"
    <3>1. f.node \in NodeIds /\ f.node.id < nextId
      BY <2>2, <2>4, TaskKinds DEF IInv, Places, GivenOut
    <3>2. DelTimerInLoop(f.node)
      BY <1>7, <2>4 DEF RunPending
    <3> HIDE DEF f
    <3> QED
      BY <2>1, <3>1, <3>2, DelAccounts DEF IInv
  <2> QED
    BY <2>3, <2>4
<1>8. CASE HandleRead
  BY <1>8 DEF HandleRead, Accounted
<1>9. CASE Reset
  BY <1>9 DEF Reset, Accounted
<1>10. CASE UNCHANGED vars
  BY <1>1, <1>10 DEF vars
<1> QED
  BY <1>2, <1>3, <1>4, <1>5, <1>6, <1>7, <1>8, <1>9, <1>10 DEF Next, LoopStep
-----------------------------------------------------------------------------
(* Each step is a step of the service, or none.                            *)

\* What was queued is a node, and waits nowhere else.
LEMMA QueuedAre ==
  ASSUME TypeOK
  PROVE  \A n : n \in Queued <=> \E i \in DOMAIN pending : IsAdd(i) /\ pending[i].node = n
BY DEF Queued, ToSet, IsAdd

\* Running the first functor takes its node out of the queue of functors.
LEMMA QueuedTail ==
  ASSUME TypeOK, pending # <<>>, pending' = Tail(pending)
  PROVE  /\ Head(pending).op = "add" => Queued = Queued' \union {Head(pending).node}
         /\ Head(pending).op # "add" => Queued = Queued'
<1>1. /\ Head(pending) = pending[1] /\ 1 \in DOMAIN pending
      /\ \A i \in DOMAIN pending' : i + 1 \in DOMAIN pending /\ pending'[i] = pending[i + 1]
  BY TailTask DEF TypeOK, Tasks
<1>2. \A i \in DOMAIN pending : i = 1 \/ \E j \in DOMAIN pending' : i = j + 1
  <2>1. /\ Len(pending) \in Nat /\ DOMAIN pending = 1 .. Len(pending)
        /\ DOMAIN pending' = 1 .. Len(pending) - 1
    <3>1. /\ Tail(pending) \in Seq(Tasks) /\ Len(Tail(pending)) = Len(pending) - 1
          /\ pending \in Seq(Tasks)
      BY HeadTailProperties DEF TypeOK, Tasks
    <3> HIDE DEF Tasks
    <3> QED
      BY <3>1, LenProperties
  <2> SUFFICES ASSUME NEW i \in DOMAIN pending, i # 1
               PROVE  \E j \in DOMAIN pending' : i = j + 1
    OBVIOUS
  <2>2. i - 1 \in DOMAIN pending' /\ i = (i - 1) + 1
    BY <2>1
  <2> QED
    BY <2>2
<1>3. \A n : n \in Queued <=> \/ n \in Queued'
                              \/ pending[1].op = "add" /\ n = pending[1].node
  BY <1>1, <1>2 DEF Queued, ToSet
<1> QED
  BY <1>1, <1>3

\* queueInLoop adds the node of its functor, if it has one.
LEMMA QueuedAppend ==
  ASSUME TypeOK, NEW t \in Tasks, pending' = Append(pending, t)
  PROVE  /\ t.op = "add" => Queued' = Queued \union {t.node}
         /\ t.op # "add" => Queued' = Queued
<1>1. /\ DOMAIN pending' = 1 .. Len(pending) + 1
      /\ DOMAIN pending = 1 .. Len(pending)
      /\ \A j \in DOMAIN pending : j \in DOMAIN pending' /\ pending'[j] = pending[j]
      /\ pending'[Len(pending) + 1] = t
      /\ Len(pending) \in Nat
  BY AppendTask, LenProperties DEF TypeOK, Tasks
<1>2. \A j \in DOMAIN pending' : \/ j \in DOMAIN pending /\ pending'[j] = pending[j]
                                 \/ pending'[j] = t
  BY <1>1
<1>3. \E j \in DOMAIN pending' : pending'[j] = t
  BY <1>1
<1>4. /\ \A n : n \in Queued <=> \E j \in DOMAIN pending : pending[j].op = "add" /\ pending[j].node = n
      /\ \A n : n \in Queued' <=> \E j \in DOMAIN pending' : pending'[j].op = "add" /\ pending'[j].node = n
  BY DEF Queued, ToSet
<1>5. Queued \subseteq Queued'
  BY <1>1, <1>4
<1>6. CASE t.op = "add"
  BY <1>2, <1>3, <1>4, <1>5, <1>6
<1>7. CASE t.op # "add"
  <2> SUFFICES ASSUME NEW n \in Queued' PROVE n \in Queued
    BY <1>5, <1>7
  <2>1. PICK j \in DOMAIN pending' : pending'[j].op = "add" /\ pending'[j].node = n
    BY <1>4
  <2>2. j \in DOMAIN pending /\ pending'[j] = pending[j]
    BY <1>2, <1>7, <2>1
  <2> QED
    BY <1>4, <2>1, <2>2
<1> QED
  BY <1>6, <1>7

\* The variables the service sees.
Seen == <<clock, nextId, timeQueue_, Queued, expired, index, now, restarted, cancels>>

\* A step that leaves them alone is none of the service's.
LEMMA Unseen == UNCHANGED Seen => UNCHANGED TS!vars
BY DEF Seen, TS!vars, TS!batch

\* A new timer, directly in the queue or on its way there.
LEMMA SetTimerServed ==
  ASSUME IInv, NEW n, n.id = nextId, n.expire \in Nat, clock <= n.expire, nextId' = nextId + 1,
         timeQueue_' \union Queued' = (timeQueue_ \union Queued) \union {n},
         UNCHANGED <<clock, expired, index, now, restarted, cancels>>
  PROVE  TS!Next
<1>1. nextId \in Int /\ nextId >= 1
  BY DEF IInv, TypeOK
<1>2. 1 .. nextId' - 1 = (1 .. nextId - 1) \union {n.id} /\ n.id \notin 1 .. nextId - 1
  BY <1>1
<1>3. n \in timeQueue_' \union Queued'
  OBVIOUS
<1>4. TS!SetTimer(n)
  BY <1>2 DEF TS!SetTimer, TS!batch, IInv, TypeOK
<1> QED
  BY <1>3, <1>4 DEF TS!Next

\* delTimerInLoop takes the timer out, unless it was restarted: then only if
\* the identity it is given is still the one of its node.
LEMMA CancelServed ==
  ASSUME IInv, NEW h \in NodeIds, h.id < nextId, MatchesAll(h), DelTimerInLoop(h),
         Queued' = Queued,
         UNCHANGED <<clock, nextId, expired, index, now, restarted>>
  PROVE  TS!Next \/ UNCHANGED TS!vars
<1>1. /\ timeQueue_' = timeQueue_ \ Found(h)
      /\ Added(h.id) => cancels' = cancels \union {<<h.id, h.id \in restarted>>}
      /\ ~Added(h.id) => cancels' = cancels
  BY DEF DelTimerInLoop
<1>2. h.id \in Ids /\ h.id \in 1 .. nextId - 1
  BY DEF NodeIds, Ids, IInv, TypeOK
<1>3. \A n \in Found(h) : n \in timeQueue_ /\ n.id = h.id
  BY DEF Found, NodeId
<1>4. CASE ~Added(h.id)
  <2>1. Found(h) = {}
    BY <1>3, <1>4 DEF Added, IInv, Places, QueuedOnce, IsAdd
  <2> QED
    BY <1>1, <1>4, <2>1, Unseen DEF Seen
<1>5. CASE Added(h.id)
  <2> DEFINE waiting == timeQueue_ \union Queued
             others == {t \in waiting : t.id # h.id}
  <2>1. \A n \in Queued : n.id # h.id
    BY <1>5, QueuedAre DEF Added, IsAdd, IInv
  <2>2. timeQueue_' \union Queued' = waiting \ Found(h)
    BY <1>1, <1>3, <2>1
  <2>3. CASE h.id \in restarted
    <3>1. cancels' = cancels \union {<<h.id, TRUE>>}
      BY <1>1, <1>5, <2>3
    <3>2. timeQueue_' \union Queued' \in {waiting, others}
      <4>1. \A n \in timeQueue_, m \in Found(h) : n.id = h.id => n = m
        BY <1>3 DEF IInv, Places, OnePlacePerNode
      <4> QED
        BY <1>3, <2>1, <2>2, <4>1
    <3>3. {id \in Ids : <<id, TRUE>> \in cancels'}
            = {id \in Ids : <<id, TRUE>> \in cancels} \union {h.id}
      BY <1>2, <3>1
    <3>4. {id \in Ids : <<id, FALSE>> \in cancels'} = {id \in Ids : <<id, FALSE>> \in cancels}
      BY <3>1
    <3>5. TS!Cancel(h.id)
      BY <2>3, <3>2, <3>3, <3>4 DEF TS!Cancel, TS!Others, TS!batch
    <3> QED
      BY <1>2, <3>5 DEF TS!Next
  <2>4. CASE h.id \notin restarted
    <3>1. cancels' = cancels \union {<<h.id, FALSE>>}
      <4>1. /\ (h.id \in restarted) \in BOOLEAN
            /\ cancels' = cancels \union {<<h.id, h.id \in restarted>>}
            /\ (h.id \in restarted) <=> h.id \in restarted
        BY <1>1, <1>5
      <4>2. PICK b \in BOOLEAN : /\ cancels' = cancels \union {<<h.id, b>>}
                                 /\ b <=> h.id \in restarted
        BY <4>1, Zenon
      <4>3. b = FALSE
        BY <2>4, <4>2
      <4> QED
        BY <4>2, <4>3
    <3>2. timeQueue_' \union Queued' = others
      <4>1. ASSUME NEW n \in timeQueue_, n.id = h.id PROVE n \in Found(h)
        <5>1. n.expire = h.expire
          BY <2>4, <4>1 DEF MatchesAll, Matches
        <5>2. NodeId(n) = h
          BY <4>1, <5>1 DEF NodeId, NodeIds
        <5> QED
          BY <5>2 DEF Found
      <4> QED
        BY <1>3, <2>1, <2>2, <4>1
    <3>3. {id \in Ids : <<id, FALSE>> \in cancels'}
            = {id \in Ids : <<id, FALSE>> \in cancels} \union {h.id}
      BY <1>2, <3>1
    <3>4. {id \in Ids : <<id, TRUE>> \in cancels'} = {id \in Ids : <<id, TRUE>> \in cancels}
      BY <3>1
    <3>5. TS!Cancel(h.id)
      BY <2>4, <3>2, <3>3, <3>4 DEF TS!Cancel, TS!Others, TS!batch
    <3> QED
      BY <1>2, <3>5 DEF TS!Next
  <2> QED
    BY <2>3, <2>4
<1> QED
  BY <1>4, <1>5
\* What is left of the batch, and what of it was run.
Firing == SubSeq(expired, index + 1, Len(expired))
Ran == {expired[i] : i \in 1 .. index}

\* There is neither before handleRead; a new batch is yet to be run.
LEMMA NoBatch == ASSUME expired = <<>>, index = 0 PROVE Firing = <<>> /\ Ran = {}
<1>1. Len(expired) = 0 /\ 0 < 1 /\ 0 + 1 = 1
  OBVIOUS
<1>2. SubSeq(expired, 1, 0) = <<>>
  BY SubSeqEmpty
<1> QED
  BY <1>1, <1>2 DEF Firing, Ran

\* getExpired hands over the nodes that are due, each once, in their order.
LEMMA TakeServed ==
  ASSUME IInv, HandleRead, IInv'
  PROVE  TS!Next
<1>1. /\ pc = "idle" /\ now' = clock /\ index' = 0
      /\ expired' \in SetToSeqs(GetExpired) /\ InOrder(expired')
      /\ timeQueue_' = timeQueue_ \ GetExpired
      /\ UNCHANGED <<clock, nextId, pending, restarted, cancels>>
  BY DEF HandleRead, LeftWaiting, clientVars, historyVars
<1>2. Firing = <<>> /\ Ran = {}
  <2>1. expired = <<>>
    BY <1>1 DEF IInv, Places, BatchInHandleRead
  <2>2. index = 0
    BY <2>1 DEF IInv, TypeOK
  <2> QED
    BY <2>1, <2>2, NoBatch
<1>3. expired' \in Seq(Nodes) /\ DOMAIN expired' = 1 .. Len(expired')
  BY DEF IInv, TypeOK
<1>4. Firing' = expired' /\ Ran' = {}
  <2>1. SubSeq(expired', 1, Len(expired')) = expired'
    BY <1>3, SubSeqFull
  <2> QED
    BY <1>1, <2>1 DEF Firing, Ran
<1>5. /\ ToSet(expired') = GetExpired
      /\ \A i, j \in DOMAIN expired' : i # j => expired'[i] # expired'[j]
  <2>1. IsFiniteSet(GetExpired) /\ Cardinality(GetExpired) \in Nat
    BY QueueIsFinite, FS_CardinalityType DEF IInv, Places
  <2> DEFINE D == 1 .. Cardinality(GetExpired)
  <2>2. /\ expired' \in [D -> GetExpired]
        /\ \A i, j \in D : i # j => expired'[i] # expired'[j]
    BY <1>1 DEF SetToSeqs
  <2>3. IsFiniteSet(D) /\ Cardinality(D) = Cardinality(GetExpired)
    <3>1. Cardinality(GetExpired) \in Int
      BY <2>1
    <3>2. IsFiniteSet(D) /\ Cardinality(D) = IF 1 > Cardinality(GetExpired) THEN 0
                                             ELSE Cardinality(GetExpired) - 1 + 1
      BY <3>1, FS_Interval
    <3> QED
      BY <2>1, <3>2
  <2> HIDE DEF D
  <2>4. expired' \in Injection(D, GetExpired)
    BY <2>2 DEF Injection, IsInjective
  <2>5. expired' \in Surjection(D, GetExpired)
    BY <2>1, <2>3, <2>4, FS_Injection
  <2>6. \A n \in GetExpired : \E i \in D : expired'[i] = n
    BY <2>5 DEF Surjection
  <2>7. DOMAIN expired' = D
    BY <2>2
  <2> QED
    BY <2>2, <2>6, <2>7 DEF ToSet
<1>6. \A t \in ToSet(expired') : t \in timeQueue_ \union Queued /\ t.expire <= clock
  BY <1>5 DEF GetExpired, IsExpired
<1>7. \A i, j \in DOMAIN expired' : i < j =>
        expired'[i].expire <= expired'[j].expire /\ expired'[i] # expired'[j]
  <2> SUFFICES ASSUME NEW i \in DOMAIN expired', NEW j \in DOMAIN expired', i < j
               PROVE  expired'[i].expire <= expired'[j].expire /\ expired'[i] # expired'[j]
    OBVIOUS
  <2>1. i # j
    BY <1>3
  <2>2. Before(expired'[i], expired'[j])
    BY <1>1 DEF InOrder
  <2>3. expired'[i].expire \in Nat /\ expired'[j].expire \in Nat
    <3>1. expired'[i] \in Nodes /\ expired'[j] \in Nodes
      BY <1>3
    <3> QED
      BY <3>1 DEF Nodes
  <2> QED
    BY <1>5, <2>1, <2>2, <2>3 DEF Before
<1>8. Queued' = Queued
  BY <1>1 DEF Queued
<1>9. timeQueue_' \union Queued' = (timeQueue_ \union Queued) \ ToSet(expired')
  <2>1. \A n \in Queued : n \notin timeQueue_
    BY QueuedAre DEF IInv, Places, QueuedOnce
  <2> QED
    BY <1>1, <1>5, <1>8, <2>1 DEF GetExpired
<1>10. /\ \A t \in TS!ToSet(Firing') : t \in timeQueue_ \union Queued /\ t.expire <= clock
       /\ \A i, j \in DOMAIN Firing' : i < j =>
            Firing'[i].expire <= Firing'[j].expire /\ Firing'[i] # Firing'[j]
       /\ timeQueue_' \union Queued' = (timeQueue_ \union Queued) \ TS!ToSet(Firing')
  <2>1. TS!ToSet(Firing') = ToSet(expired')
    BY <1>4 DEF ToSet, TS!ToSet
  <2> QED
    BY <1>4, <1>6, <1>7, <1>9, <2>1
<1>11. TS!Take
  BY <1>1, <1>2, <1>4, <1>10 DEF TS!Take, Firing, Ran
<1> QED
  BY <1>11 DEF TS!Next

\* The callback that begins is that of the first node left in the batch.
LEMMA FireServed ==
  ASSUME IInv, RunTimer
  PROVE  TS!Next
<1>1. /\ index < Len(expired) /\ index' = index + 1 /\ expired' = expired
      /\ UNCHANGED <<clock, now, nextId, pending, restarted, cancels, timeQueue_>>
  BY DEF RunTimer, clockVars, clientVars, historyVars
<1>2. /\ expired \in Seq(Nodes) /\ Len(expired) \in Nat /\ index \in Nat
      /\ index + 1 \in 1 .. Len(expired) /\ Len(expired) \in index + 1 .. Len(expired)
  <2>1. expired \in Seq(Nodes) /\ index \in 0 .. Len(expired)
    BY DEF IInv, TypeOK
  <2>2. Len(expired) \in Nat
    BY <2>1, LenProperties
  <2> QED
    BY <1>1, <2>1, <2>2
<1>3. /\ Head(Firing) = expired[index + 1]
      /\ Tail(Firing) = SubSeq(expired, index + 1 + 1, Len(expired))
  BY <1>2, HeadTailOfSubSeq DEF Firing
<1>4. Tail(Firing) = Firing'
  BY <1>1, <1>3 DEF Firing
<1>5. Firing # <<>>
  <2>1. \A i \in index + 1 .. Len(expired) : expired[i] \in Nodes
    BY <1>2
  <2>2. Len(Firing) = IF index + 1 <= Len(expired) THEN Len(expired) - (index + 1) + 1 ELSE 0
    <3>1. index + 1 \in Int /\ Len(expired) \in Int
      BY <1>2
    <3> QED
      BY <2>1, <3>1, SubSeqProperties DEF Firing
  <2>3. Len(Firing) # 0
    BY <1>2, <2>2
  <2> QED
    BY <2>3
<1>6. Ran' = Ran \union {Head(Firing)}
  <2>1. 1 .. index + 1 = (1 .. index) \union {index + 1}
    BY <1>2
  <2> QED
    BY <1>1, <1>3, <2>1 DEF Ran
<1>7. Queued' = Queued
  BY <1>1 DEF Queued
<1>8. TS!Fire
  BY <1>1, <1>4, <1>5, <1>6, <1>7 DEF TS!Fire, Firing, Ran
<1> QED
  BY <1>8 DEF TS!Next

\* reset puts back the timers that repeat and were not cancelled.
LEMMA FinishServed ==
  ASSUME IInv, Accounted, Reset
  PROVE  TS!Next
<1>0. PICK Kept : Kept = {m \in ToSet(expired) : Requeued(m)}
  OBVIOUS
<1>1. /\ index = Len(expired)
      /\ timeQueue_' = timeQueue_ \union {Restart(n) : n \in Kept}
      /\ restarted' = restarted \union {n.id : n \in Kept}
      /\ expired' = <<>> /\ index' = 0 /\ now' = 0
      /\ UNCHANGED <<clock, nextId, pending, cancels>>
  BY <1>0 DEF Reset, AfterReset, clientVars
<1>2. Firing = <<>> /\ Ran = ToSet(expired)
  <2>1. /\ Len(expired) \in Int /\ Len(expired) + 1 \in Int
        /\ Len(expired) < Len(expired) + 1
        /\ DOMAIN expired = 1 .. Len(expired)
    BY LenProperties DEF IInv, TypeOK
  <2>2. SubSeq(expired, Len(expired) + 1, Len(expired)) = <<>>
    BY <2>1, SubSeqEmpty
  <2> QED
    BY <1>1, <2>1, <2>2 DEF Firing, Ran, ToSet
<1>3. Firing' = <<>> /\ Ran' = {}
  <2>1. 0 < 1 /\ 0 + 1 = 1 /\ Len(<<>>) = 0
    OBVIOUS
  <2>2. SubSeq(<<>>, 1, 0) = <<>>
    BY SubSeqEmpty
  <2> QED
    BY <1>1, <2>1, <2>2 DEF Firing, Ran
<1>4. ASSUME NEW n \in ToSet(expired)
      PROVE  /\ n.id \in Ids /\ n.interval \in Nat
             /\ <<n.id, FALSE>> \in cancels => NodeId(n) \in cancelingTimers_
             /\ NodeId(n) \in cancelingTimers_ =>
                  <<n.id, FALSE>> \in cancels \/ <<n.id, TRUE>> \in cancels
  <2>1. PICK i \in DOMAIN expired : n = expired[i]
    BY DEF ToSet
  <2>2. n \in Nodes
    BY <2>1 DEF IInv, TypeOK
  <2> QED
    BY <2>1, <2>2, IntervalsAssumption
    DEF Nodes, Accounted, IInv, Cancelled, Remembered
<1>5. \A t \in Kept : t.interval > 0 /\ t.id \notin {id \in Ids : <<id, FALSE>> \in cancels}
  BY <1>0, <1>4 DEF Requeued
<1>6. \A t \in ToSet(expired) \ Kept :
        \/ t.interval = 0
        \/ t.id \in {id \in Ids : <<id, FALSE>> \in cancels}
                    \union {id \in Ids : <<id, TRUE>> \in cancels}
  <2> SUFFICES ASSUME NEW t \in ToSet(expired), ~Requeued(t), t.interval # 0
               PROVE  <<t.id, FALSE>> \in cancels \/ <<t.id, TRUE>> \in cancels
    BY <1>0, <1>4
  <2>1. t.interval > 0
    <3>1. PICK k \in Nat : k = t.interval
      BY <1>4
    <3>2. k > 0
      BY <3>1
    <3> QED
      BY <3>1, <3>2
  <2> QED
    BY <1>4, <2>1 DEF Requeued
<1>7. timeQueue_' \union Queued'
        = (timeQueue_ \union Queued) \union {TS!Repeated(t) : t \in Kept}
  <2>1. \A t \in Kept : TS!Repeated(t) = Restart(t)
    BY DEF TS!Repeated, Restart
  <2>2. Queued' = Queued
    BY <1>1 DEF Queued
  <2> QED
    BY <1>1, <2>1, <2>2
<1>8. Kept \in SUBSET Ran
  BY <1>0, <1>2
<1>9. TS!Finish(Kept)
  BY <1>1, <1>2, <1>3, <1>5, <1>6, <1>7 DEF TS!Finish, Firing, Ran
<1>10. \E back \in SUBSET Ran : TS!Finish(back)
  BY <1>8, <1>9
<1> QED
  BY <1>10 DEF TS!Next, Ran

\* Every step of the timer is one of the service, or none.
LEMMA StepServed == IInv /\ Accounted /\ [Next]_vars /\ IInv' => [TS!Next]_(TS!vars)
<1> SUFFICES ASSUME IInv, Accounted, [Next]_vars, IInv'
             PROVE  TS!Next \/ UNCHANGED TS!vars
  OBVIOUS
<1> USE DEF clockVars, batchVars, clientVars, historyVars
<1>1. CASE Tick
  <2>1. clock \in Int /\ clock' = clock + 1
    BY <1>1 DEF Tick, IInv, TypeOK
  <2>2. clock' > clock
    BY <2>1
  <2>3. TS!Pass
    BY <1>1, <2>2 DEF Tick, TS!Pass, TS!batch, Queued
  <2> QED
    BY <2>3 DEF TS!Next
<1>2. CASE TimerfdExpires \/ Poll \/ ReturnFromTimer \/ UNCHANGED vars
  BY <1>2, Unseen DEF Seen, Queued, TimerfdExpires, Poll, ReturnFromTimer, vars
<1>3. CASE \E id \in returning : ReturnFromAddTimer(id)
  BY <1>3, Unseen DEF Seen, Queued, ReturnFromAddTimer
<1>4. ASSUME NEW d \in Delays, NEW i \in Intervals, AddTimer(d, i) \/ AddTimerElsewhere(d, i)
      PROVE  TS!Next
  <2> DEFINE n == NewNode(d, i)
             t == [op |-> "add", node |-> n]
  <2>1. /\ nextId <= MaxTimers /\ nextId' = nextId + 1
        /\ UNCHANGED <<clock, expired, index, now, restarted, cancels>>
    BY <1>4 DEF AddTimer, AddTimerElsewhere
  <2>2. n \in Nodes /\ n.id = nextId
    BY <2>1, NewNodeIsFresh DEF IInv
  <2>3. n.expire \in Nat /\ clock <= n.expire
    <3>1. d \in Nat /\ clock \in Nat /\ n.expire = clock + d
      BY DelaysAssumption DEF IInv, TypeOK, NewNode
    <3> HIDE DEF n
    <3> QED
      BY <3>1
  <2>4. timeQueue_' \union Queued' = (timeQueue_ \union Queued) \union {n}
    <3>1. CASE AddTimer(d, i)
      BY <3>1 DEF AddTimer, AddTimerInLoop, Queued
    <3>2. CASE AddTimerElsewhere(d, i)
      <4>1. t \in Tasks /\ t.op = "add" /\ t.node = n
        BY <2>2 DEF Tasks
      <4>2. pending' = Append(pending, t) /\ timeQueue_' = timeQueue_
        BY <3>2 DEF AddTimerElsewhere
      <4> HIDE DEF t, n
      <4>3. Queued' = Queued \union {n}
        BY <4>1, <4>2, QueuedAppend DEF IInv
      <4> QED
        BY <4>2, <4>3
    <3> QED
      BY <1>4, <3>1, <3>2
  <2> HIDE DEF n
  <2> QED
    BY <2>1, <2>2, <2>3, <2>4, SetTimerServed
<1>5. ASSUME NEW h \in handles, CancelTimer(h)
      PROVE  TS!Next \/ UNCHANGED TS!vars
  <2>1. h \in NodeIds /\ MatchesAll(h) /\ h.id < nextId
    BY DEF IInv, TypeOK, Cancelled, Exact, Places, GivenOut
  <2>2. DelTimerInLoop(h) /\ UNCHANGED <<clock, nextId, expired, index, now, restarted, pending>>
    BY <1>5 DEF CancelTimer
  <2>3. Queued' = Queued
    BY <2>2 DEF Queued
  <2> QED
    BY <2>1, <2>2, <2>3, CancelServed
<1>6. ASSUME NEW h \in handles, CancelTimerElsewhere(h)
      PROVE  UNCHANGED TS!vars
  <2> DEFINE t == [op |-> "cancel", node |-> h]
  <2>1. t \in Tasks /\ t.op # "add"
    BY DEF Tasks, IInv, TypeOK
  <2>2. pending' = Append(pending, t)
    BY <1>6 DEF CancelTimerElsewhere
  <2> HIDE DEF t
  <2>3. Queued' = Queued
    BY <2>1, <2>2, QueuedAppend DEF IInv
  <2> QED
    BY <1>6, <2>3, Unseen DEF CancelTimerElsewhere, Seen
<1>7. CASE RunPending
  <2> DEFINE f == Head(pending)
  <2>1. /\ pending # <<>> /\ pending' = Tail(pending)
        /\ UNCHANGED <<clock, nextId, expired, index, now, restarted>>
    BY <1>7 DEF RunPending
  <2>2. f = pending[1] /\ f \in Tasks /\ 1 \in DOMAIN pending
    BY <2>1, TailTask DEF IInv, TypeOK, Tasks
  <2>3. CASE f.op = "add"
    <3>1. timeQueue_' = timeQueue_ \union {f.node} /\ cancels' = cancels
      BY <1>7, <2>3 DEF RunPending, AddTimerInLoop
    <3>2. Queued = Queued' \union {f.node}
      BY <2>1, <2>3, QueuedTail DEF IInv
    <3>3. timeQueue_' \union Queued' = timeQueue_ \union Queued
      BY <3>1, <3>2
    <3> QED
      BY <2>1, <3>1, <3>3 DEF TS!vars, TS!batch
  <2>4. CASE f.op # "add"
    <3>1. f.node \in NodeIds /\ f.node.id < nextId /\ MatchesAll(f.node)
      BY <2>2, <2>4, TaskKinds DEF IInv, Places, GivenOut, Cancelled, Exact, IsAdd
    <3>2. DelTimerInLoop(f.node)
      BY <1>7, <2>4 DEF RunPending
    <3>3. Queued' = Queued
      BY <2>1, <2>4, QueuedTail DEF IInv
    <3> HIDE DEF f
    <3> QED
      BY <2>1, <3>1, <3>2, <3>3, CancelServed
  <2> QED
    BY <2>3, <2>4
<1>8. CASE HandleRead \/ RunTimer \/ Reset
  BY <1>8, TakeServed, FireServed, FinishServed
<1> QED
  BY <1>1, <1>2, <1>3, <1>4, <1>5, <1>6, <1>7, <1>8 DEF Next, LoopStep

\* Whatever other threads add and cancel meanwhile, the queue, its functors
\* and the batch of handleRead do what a timer service does: a callback runs
\* when it is due and not before, once for every time, in order; the repeating
\* timers that were not cancelled come back, and no others.
THEOREM TimersAreServed == SafeSpec => ImplementsTimerService
<1>1. Init => TS!Init
  <2> SUFFICES ASSUME Init PROVE TS!Init
    OBVIOUS
  <2>1. Firing = <<>> /\ Ran = {}
    BY NoBatch DEF Init
  <2>2. timeQueue_ \union Queued = {} /\ 1 .. nextId - 1 = {}
    BY DEF Init, Queued, ToSet
  <2>3. /\ {id \in Ids : <<id, FALSE>> \in cancels} = {}
        /\ {id \in Ids : <<id, TRUE>> \in cancels} = {}
    BY DEF Init
  <2> QED
    BY <2>1, <2>2, <2>3 DEF Init, TS!Init, Firing, Ran
<1>2. Init => Accounted
  BY DEF Init, Accounted
<1>3. SafeSpec => TS!Spec
  BY <1>1, <1>2, InitInv, StepInv, AccountedStep, StepServed, PTL DEF SafeSpec, TS!Spec
<1> QED
  BY <1>3 DEF ImplementsTimerService
=============================================================================

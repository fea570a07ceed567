------------------------------- MODULE Timer -------------------------------
(***************************************************************************)
(* The timer queue of one EventLoop (base/Timer.cpp, base/TimerNode.cpp):  *)
(* the ordered set timeQueue_, the timerfd that is armed for its earliest  *)
(* node, and the batch of expired nodes that Timer::handleRead runs.       *)
(*                                                                         *)
(* addTimer and cancelTimer act at once on the loop's thread and through   *)
(* the loop's functor queue from any other; that queue is kept here as a   *)
(* sequence, which is what EventLoop implements.  A tick of the clock is   *)
(* 100 microseconds, the least delay a timerfd is armed with.  The clock   *)
(* stops at MaxTime, which stands for "MaxTime or later": a timerfd armed  *)
(* one tick ahead still expires there.                                     *)
(***************************************************************************)
EXTENDS Integers, FiniteSets, SequencesExt

CONSTANTS
  MaxTimers,     \* bound: the timers created during a behaviour
  MaxTime,       \* bound: the last value of the clock
  Delays,        \* the delays addTimer is called with, in ticks
  Intervals      \* the intervals; 0 is a timer that does not repeat

ASSUME MaxTimersAssumption == MaxTimers \in Nat
ASSUME MaxTimeAssumption == MaxTime \in Nat
ASSUME DelaysAssumption == Delays \subseteq Nat
ASSUME IntervalsAssumption == Intervals \subseteq Nat

VARIABLES
  clock,                   \* Timestamp::systemRunTime
  nextId,                  \* Timer::genId_
  timeQueue_,              \* the waiting nodes
  armed,                   \* when the timerfd expires, or Never
  readable,                \* the timerfd has expired and was not read
  active,                  \* poll has reported the timerfd
  pc,                      \* the loop thread: see Pcs
  now,                     \* the local of handleRead
  expired,                 \* the local of handleRead: the batch, in order
  index,                   \* how many of the batch were run
  cancelingTimers_,        \* identities cancelled during the batch
  pending,                 \* functors queued by other threads
  returning,               \* a node whose identity addTimer has yet to read
  handles,                 \* identities returned and not yet cancelled
  restarted,               \* history: timers restarted at least once
  cancels                  \* history: effective calls of delTimerInLoop

clockVars == <<clock, armed, readable>>
batchVars == <<pc, now, expired, index>>
clientVars == <<nextId, pending, returning, handles>>
historyVars == <<restarted, cancels>>
vars == <<clockVars, batchVars, clientVars, historyVars, active, timeQueue_,
          cancelingTimers_>>

Ids == 1 .. MaxTimers
Never == -1
Times == 0 .. MaxTime + 1

\* Outside Timer::handleRead; between two callbacks of the batch; inside one.
Pcs == {"idle", "batch", "callback"}

\* A TimerNode, and the TimerNodeId that identifies it.
Nodes == [id : Ids, expire : Nat, interval : Intervals]
NodeId(n) == [id |-> n.id, expire |-> n.expire]
NodeIds == [id : Ids, expire : Nat]

\* TimerNodeComparator.
Before(a, b) == \/ a.expire < b.expire
                \/ a.expire = b.expire /\ a.id < b.id

Earliest(Q) == CHOOSE n \in Q : \A m \in Q : m = n \/ Before(n, m)

Init ==
  /\ clock = 0
  /\ nextId = 1
  /\ timeQueue_ = {}
  /\ armed = Never
  /\ readable = FALSE
  /\ active = FALSE
  /\ pc = "idle"
  /\ now = 0
  /\ expired = <<>>
  /\ index = 0
  /\ cancelingTimers_ = {}
  /\ pending = <<>>
  /\ returning = {}
  /\ handles = {}
  /\ restarted = {}
  /\ cancels = {}

-----------------------------------------------------------------------------
(* Time and the timerfd.                                                   *)

Tick ==
  /\ clock < MaxTime
  /\ clock' = clock + 1
  /\ UNCHANGED <<armed, readable, batchVars, clientVars, historyVars, active,
                 timeQueue_, cancelingTimers_>>

TimerfdExpires ==
  /\ armed # Never
  /\ \/ armed <= clock
     \/ clock = MaxTime /\ armed = MaxTime + 1
  /\ armed' = Never
  /\ readable' = TRUE
  /\ UNCHANGED <<clock, batchVars, clientVars, historyVars, active, timeQueue_,
                 cancelingTimers_>>

\* Mutant of ArmTime: the difference itself, however small.
Unclamped(expire) == expire - clock

\* howMuchTimeFromNow: at least 100 microseconds.
ArmTime(expire) == IF expire > clock THEN expire ELSE clock + 1

\* resetTimerfd; timerfd_settime also forgets an expiry nobody has read.
ResetTimerfd(expire) ==
  /\ armed' = ArmTime(expire)
  /\ readable' = FALSE

-----------------------------------------------------------------------------
(* Adding a timer.                                                         *)

\* Mutant of IsEarliest: only the first timer of an empty queue arms the timerfd.
IsFirst(n) == timeQueue_ = {}

\* insert's verdict: does the new node become the earliest?
IsEarliest(n) == timeQueue_ = {} \/ n.expire < Earliest(timeQueue_).expire

AddTimerInLoop(n) ==
  /\ timeQueue_' = timeQueue_ \union {n}
  /\ IF IsEarliest(n) THEN ResetTimerfd(n.expire)
                      ELSE UNCHANGED <<armed, readable>>

\* The nodes other threads have handed over and the loop has not inserted.
Queued == {p.node : p \in {q \in ToSet(pending) : q.op = "add"}}

\* A node is somewhere between its creation and its deletion.
NodesAlive == timeQueue_ \union ToSet(expired) \union Queued

NewNode(delay, interval) ==
  [id |-> nextId, expire |-> clock + delay, interval |-> interval]

\* The loop's thread runs user code inside a timer callback, and inside the
\* other channels' callbacks and functors (pc = "idle").
InUserCode == pc \in {"idle", "callback"}

\* addTimer on the loop's thread.
AddTimer(delay, interval) ==
  /\ InUserCode
  /\ nextId <= MaxTimers
  /\ nextId' = nextId + 1
  /\ AddTimerInLoop(NewNode(delay, interval))
  /\ handles' = handles \union {NodeId(NewNode(delay, interval))}
  /\ UNCHANGED <<clock, batchVars, pending, returning, historyVars, active,
                 cancelingTimers_>>

\* addTimer on another thread hands the node to the loop ...
AddTimerElsewhere(delay, interval) ==
  /\ nextId <= MaxTimers
  /\ nextId' = nextId + 1
  /\ pending' = Append(pending, [op |-> "add", node |-> NewNode(delay, interval)])
  /\ returning' = returning \union {nextId}
  /\ UNCHANGED <<clockVars, batchVars, handles, historyVars, active,
                 timeQueue_, cancelingTimers_>>

\* Read from freed memory, an identity is that of a node made there since, or
\* one that no node has.
Leftovers ==
  {h \in [id : 1 .. nextId - 1, expire : Times] :
     \A n \in NodesAlive : n.id = h.id => n.expire = h.expire}

\* ... and then reads the identity to return from the node.  The loop may have
\* restarted it by then, or deleted it.
ReturnFromAddTimer(id) ==
  /\ id \in returning
  /\ returning' = returning \ {id}
  /\ \E h \in IF \E n \in NodesAlive : n.id = id
                THEN {NodeId(n) : n \in {m \in NodesAlive : m.id = id}}
                ELSE Leftovers :
       handles' = handles \union {h}
  /\ UNCHANGED <<clockVars, batchVars, nextId, pending, historyVars, active,
                 timeQueue_, cancelingTimers_>>

-----------------------------------------------------------------------------
(* Cancelling a timer.                                                     *)

\* The nodes timeQueue_.find(h) can return: the key is the pair.
Found(h) == {n \in timeQueue_ : NodeId(n) = h}

\* Has addTimerInLoop run for this timer?
Added(id) == /\ id < nextId
             /\ \A i \in DOMAIN pending :
                  pending[i].op = "add" => pending[i].node.id # id

DelTimerInLoop(h) ==
  /\ timeQueue_' = timeQueue_ \ Found(h)
  /\ cancelingTimers_' = IF Found(h) = {} /\ pc # "idle"
                           THEN cancelingTimers_ \union {h}
                           ELSE cancelingTimers_
  /\ cancels' = IF Added(h.id)
                  THEN cancels \union {<<h.id, h.id \in restarted>>}
                  ELSE cancels

\* cancelTimer on the loop's thread; each identity is used once.
CancelTimer(h) ==
  /\ InUserCode
  /\ h \in handles
  /\ handles' = handles \ {h}
  /\ DelTimerInLoop(h)
  /\ UNCHANGED <<clockVars, batchVars, nextId, pending, returning, restarted,
                 active>>

\* cancelTimer on another thread.
CancelTimerElsewhere(h) ==
  /\ h \in handles
  /\ handles' = handles \ {h}
  /\ pending' = Append(pending, [op |-> "cancel", node |-> h])
  /\ UNCHANGED <<clockVars, batchVars, nextId, returning, historyVars, active,
                 timeQueue_, cancelingTimers_>>

-----------------------------------------------------------------------------
(* The loop.                                                               *)

\* doPendingFunctors runs what other threads queued, after the handlers.
RunPending ==
  /\ pc = "idle"
  /\ ~active
  /\ pending # <<>>
  /\ pending' = Tail(pending)
  /\ LET f == Head(pending) IN
       IF f.op = "add"
         THEN AddTimerInLoop(f.node) /\ UNCHANGED <<cancelingTimers_, cancels>>
         ELSE DelTimerInLoop(f.node) /\ UNCHANGED <<armed, readable>>
  /\ UNCHANGED <<clock, batchVars, nextId, returning, handles, restarted, active>>

\* poll reports the timerfd; other handlers may come before the timer's.
Poll ==
  /\ pc = "idle"
  /\ ~active
  /\ readable
  /\ active' = TRUE
  /\ UNCHANGED <<clockVars, batchVars, clientVars, historyVars, timeQueue_,
                 cancelingTimers_>>

\* getExpired: everything below (now, UINT64_MAX).
IsExpired(n) == n.expire <= clock

GetExpired == {n \in timeQueue_ : IsExpired(n)}

\* Mutant of LeftWaiting: the expired nodes are copied and not erased.
NotErased == timeQueue_

\* What getExpired leaves in the queue.
LeftWaiting == timeQueue_ \ GetExpired

\* The order in which the set keeps its nodes.
InOrder(batch) == \A i, j \in DOMAIN batch : i < j => Before(batch[i], batch[j])

\* handleRead up to its loop over the batch.
HandleRead ==
  /\ pc = "idle"
  /\ active
  /\ active' = FALSE
  /\ readable' = FALSE
  /\ now' = clock
  /\ expired' \in {batch \in SetToSeqs(GetExpired) : InOrder(batch)}
  /\ timeQueue_' = LeftWaiting
  /\ cancelingTimers_' = {}
  /\ index' = 0
  /\ pc' = "batch"
  /\ UNCHANGED <<clock, armed, clientVars, historyVars>>

\* it->run() is entered ...
RunTimer ==
  /\ pc = "batch"
  /\ index < Len(expired)
  /\ index' = index + 1
  /\ pc' = "callback"
  /\ UNCHANGED <<clockVars, now, expired, clientVars, historyVars, active,
                 timeQueue_, cancelingTimers_>>

\* ... and returns.
ReturnFromTimer ==
  /\ pc = "callback"
  /\ pc' = "batch"
  /\ UNCHANGED <<clockVars, now, expired, index, clientVars, historyVars,
                 active, timeQueue_, cancelingTimers_>>

\* Mutant of Requeued: a timer that was cancelled during the batch is restarted.
RequeuesCancelled(n) == n.interval > 0

\* reset keeps the repeating timers of the batch that were not cancelled ...
Requeued(n) == n.interval > 0 /\ NodeId(n) \notin cancelingTimers_

\* ... with a new expiration, counted from the time the batch was taken ...
Restart(n) == [n EXCEPT !.expire = now + n.interval]

AfterReset == timeQueue_ \union {Restart(n) : n \in {m \in ToSet(expired) : Requeued(m)}}

\* Mutant of MustRearm: reset leaves the timerfd as it is.
NeverRearms == FALSE

\* ... deletes the others and arms the timerfd for what is earliest then.
MustRearm == AfterReset # {}

Reset ==
  /\ pc = "batch"
  /\ index = Len(expired)
  /\ timeQueue_' = AfterReset
  /\ IF MustRearm THEN ResetTimerfd(Earliest(AfterReset).expire)
                  ELSE UNCHANGED <<armed, readable>>
  /\ restarted' = restarted \union {n.id : n \in {m \in ToSet(expired) : Requeued(m)}}
  /\ expired' = <<>>
  /\ index' = 0
  /\ now' = 0
  /\ pc' = "idle"
  /\ UNCHANGED <<clock, clientVars, active, cancelingTimers_, cancels>>

LoopStep == RunPending \/ Poll \/ HandleRead \/ RunTimer \/ ReturnFromTimer \/ Reset

Next ==
  \/ Tick
  \/ TimerfdExpires
  \/ \E d \in Delays, i \in Intervals : AddTimer(d, i) \/ AddTimerElsewhere(d, i)
  \/ \E id \in returning : ReturnFromAddTimer(id)
  \/ \E h \in handles : CancelTimer(h) \/ CancelTimerElsewhere(h)
  \/ LoopStep

SafeSpec == Init /\ [][Next]_vars

\* Time passes, the timerfd expires, and the loop's thread runs.
Fairness == WF_vars(Tick) /\ WF_vars(TimerfdExpires) /\ WF_vars(LoopStep)

Spec == SafeSpec /\ Fairness

-----------------------------------------------------------------------------
(* Properties.                                                             *)

\* The types of the variables; a node waits, is in the batch, or is on its
\* way to the loop, under one identity.
TypeOK ==
  /\ clock \in 0 .. MaxTime
  /\ nextId \in 1 .. MaxTimers + 1
  /\ timeQueue_ \subseteq Nodes
  /\ armed \in {Never} \union Nat
  /\ readable \in BOOLEAN
  /\ active \in BOOLEAN
  /\ pc \in Pcs
  /\ now \in 0 .. MaxTime
  /\ expired \in Seq(Nodes)
  /\ index \in 0 .. Len(expired)
  /\ cancelingTimers_ \subseteq NodeIds
  /\ pending \in Seq([op : {"add"}, node : Nodes]
                     \union [op : {"cancel"}, node : NodeIds])
  /\ returning \subseteq Ids
  /\ handles \subseteq NodeIds
  /\ restarted \subseteq Ids
  /\ cancels \subseteq Ids \X BOOLEAN

\* No timer is missed (resetTimerfd, insert, reset): while a timer waits and
\* no batch is being run, the timerfd has fired or will fire no later than
\* the earliest timer is due, or one tick from now if it is overdue.
NoMissedTimer ==
  timeQueue_ # {} /\ pc = "idle" =>
    \/ active
    \/ readable
    \/ armed # Never /\ armed <= ArmTime(Earliest(timeQueue_).expire)

\* The identities in timeQueue_ and the batch are distinct: no node is in two
\* places, so that none is run or deleted twice.
OnePlacePerNode ==
  /\ \A n, m \in timeQueue_ : n.id = m.id => n = m
  /\ \A i, j \in DOMAIN expired : expired[i].id = expired[j].id => i = j
  /\ \A n \in timeQueue_, i \in DOMAIN expired : n.id # expired[i].id

\* A timer cancelled before it was ever restarted, be it while it waits or
\* during the batch of its first expiry, never waits again (delTimerInLoop
\* and the test of cancelingTimers_ in reset).
FirstCancelHolds == \A n \in timeQueue_ : <<n.id, FALSE>> \notin cancels

\* A repeating timer is put back "if the user has not deleted it" (comment in
\* reset): none that was cancelled waits.
CancelledNotRequeued ==
  \A n \in timeQueue_ : <<n.id, FALSE>> \notin cancels /\ <<n.id, TRUE>> \notin cancels

\* A timer waits from its creation on; what is left of the batch is firing.
TS == INSTANCE TimerService WITH
        time     <- clock,
        used     <- 1 .. nextId - 1,
        waiting  <- timeQueue_ \union Queued,
        firing   <- SubSeq(expired, index + 1, Len(expired)),
        ran      <- {expired[i] : i \in 1 .. index},
        taken    <- now,
        repeated <- restarted,
        stopped  <- {id \in Ids : <<id, FALSE>> \in cancels},
        asked    <- {id \in Ids : <<id, TRUE>> \in cancels}

\* The queue and its timerfd keep the promise of runAt, runEvery and
\* cancelTimer: callbacks run when they are due and never before, once for
\* every time they are due and in that order; a repeating timer comes back
\* unless it was cancelled, and a timer cancelled before it first came back
\* does not.
ImplementsTimerService == TS!Spec

\* A waiting timer that is due within the clock's range is eventually taken
\* out of the queue, to be run or because it was cancelled.
DueTimersLeave ==
  \A id \in Ids, e \in 0 .. MaxTime :
    (\E n \in timeQueue_ : n.id = id /\ n.expire = e)
      ~> ~(\E n \in timeQueue_ : n.id = id /\ n.expire = e)
=============================================================================

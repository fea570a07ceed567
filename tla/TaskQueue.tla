----------------------------- MODULE TaskQueue -----------------------------
(***************************************************************************)
(* What EventLoop promises the callers of runInLoop and queueInLoop        *)
(* (EventLoop.h, "run cb in this loop" and "put cb in the queue, wake the  *)
(* loop's thread, run cb"): one queue, served in order of arrival by one   *)
(* thread; a functor handed over once runs at most once; and it does run   *)
(* if the loop is not stopped.  Nothing is said of wakeups, batches or the *)
(* poller.                                                                 *)
(***************************************************************************)
EXTENDS Sequences

CONSTANT Functors      \* the callbacks clients hand over

VARIABLES
  submitted,           \* the functors handed over so far
  queue,               \* those waiting, oldest first
  executed,            \* those run, in the order they were run
  stopped              \* nobody is serving the queue, or it was told to quit

vars == <<submitted, queue, executed, stopped>>

Init ==
  /\ submitted = {}
  /\ queue = <<>>
  /\ executed = <<>>
  /\ stopped = TRUE

\* A client queues a functor it has not handed over before.
Submit(f) ==
  /\ f \notin submitted
  /\ submitted' = submitted \union {f}
  /\ queue' = Append(queue, f)
  /\ UNCHANGED <<executed, stopped>>

\* The serving thread runs a functor on the spot, ahead of the queue.
RunNow(f) ==
  /\ f \notin submitted
  /\ submitted' = submitted \union {f}
  /\ executed' = Append(executed, f)
  /\ UNCHANGED <<queue, stopped>>

\* The serving thread runs the oldest functor.
Serve ==
  /\ queue # <<>>
  /\ executed' = Append(executed, Head(queue))
  /\ queue' = Tail(queue)
  /\ UNCHANGED <<submitted, stopped>>

\* Service starts or stops.
Toggle ==
  /\ stopped' = ~stopped
  /\ UNCHANGED <<submitted, queue, executed>>

Next ==
  \/ \E f \in Functors : Submit(f) \/ RunNow(f)
  \/ Serve
  \/ Toggle

SafeSpec == Init /\ [][Next]_vars

\* A queue that is not stopped is served.
Spec == SafeSpec /\ WF_vars(Serve /\ ~stopped)
=============================================================================

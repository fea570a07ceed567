----------------------------- MODULE EventLoop -----------------------------
(***************************************************************************)
(* One EventLoop (net/core/EventLoop.cpp): the thread that runs loop(),    *)
(* and the other threads that call queueInLoop, runInLoop and quit on it.  *)
(*                                                                         *)
(* The loop thread alternates between Poller::poll, the handlers of the    *)
(* active channels and doPendingFunctors.  It blocks only in poll; what    *)
(* another thread does while it is blocked is noticed through the eventfd. *)
(* The poller also returns by itself after kPollTimeMs (10 seconds): the   *)
(* timeout is an action without fairness, so that nothing below is true    *)
(* only because the loop looks around every ten seconds.                   *)
(*                                                                         *)
(* An eventfd is a counter; only whether it is zero is observed, and a     *)
(* read empties it, so wakeupFd_ is the boolean "readable".                *)
(***************************************************************************)
EXTENDS Sequences, Naturals

CONSTANTS
  Threads,        \* threads other than the loop's that call into the loop
  Functors,       \* the functors handed over during a behaviour, once each
  LoopThread,     \* the thread that created the loop (threadId_)
  EarlyCalls      \* does the loop's own thread queue functors before loop()?

ASSUME LoopThreadAssumption == LoopThread \notin Threads
ASSUME EarlyCallsAssumption == EarlyCalls \in BOOLEAN

VARIABLES
  loopPc,                  \* where the loop thread is, see LoopPcs
  quit_,                   \* EventLoop::quit_
  callingPendingFunctors_, \* EventLoop::callingPendingFunctors_
  pendingFunctors_,        \* EventLoop::pendingFunctors_, guarded by mutex_
  functors,                \* the local vector of doPendingFunctors
  wakeupFd_,               \* is the eventfd readable?
  activeChannels_,         \* what poll reported and is not yet handled
  call,                    \* per thread: the EventLoop call it is inside
  submitted,               \* the functors handed over so far
  executed                 \* history: the functors run, in order

queueVars == <<pendingFunctors_, functors, submitted, executed>>
vars == <<loopPc, quit_, callingPendingFunctors_, wakeupFd_, activeChannels_,
          call, queueVars>>

AllThreads == Threads \union {LoopThread}

\* "outside" loop(); the test of `while (!quit_)`; "poll"; between channels
\* ("events") and inside the callback of one ("handler"); before, between and
\* inside the functors of doPendingFunctors ("pending", "run", "functor").
LoopPcs == {"outside", "test", "poll", "events", "handler",
            "pending", "run", "functor"}

\* The channels of the poller: the eventfd's and, as one, everybody else's.
Channels == {"wakeup", "io"}

\* A thread between queueInLoop's push and its wakeup test, or between
\* quit's store and its wakeup.
Calls == {"none", "queueInLoop", "quit"}

Init ==
  /\ loopPc = "outside"
  /\ quit_ = FALSE
  /\ callingPendingFunctors_ = FALSE
  /\ pendingFunctors_ = <<>>
  /\ functors = <<>>
  /\ wakeupFd_ = FALSE
  /\ activeChannels_ = {}
  /\ call = [t \in AllThreads |-> "none"]
  /\ submitted = {}
  /\ executed = <<>>

-----------------------------------------------------------------------------
(* Calls into the loop.                                                    *)

isInLoopThread(t) == t = LoopThread

\* User code runs on the loop's thread only inside a callback, or before (or
\* after) loop() when EarlyCalls allows it; on another thread at any time.
\* A thread is inside one call at a time.
MayCall(t) ==
  /\ call[t] = "none"
  /\ isInLoopThread(t) =>
       \/ loopPc \in {"handler", "functor"}
       \/ EarlyCalls /\ loopPc = "outside"

\* queueInLoop up to the end of its critical section.
QueueInLoop(t, f) ==
  /\ MayCall(t)
  /\ f \notin submitted
  /\ submitted' = submitted \union {f}
  /\ pendingFunctors_' = Append(pendingFunctors_, f)
  /\ call' = [call EXCEPT ![t] = "queueInLoop"]
  /\ UNCHANGED <<loopPc, quit_, callingPendingFunctors_, functors, wakeupFd_,
                 activeChannels_, executed>>

\* Mutant of NeedsWakeup: a functor that queues another one wakes nobody.
WakesOthersOnly(t) == ~isInLoopThread(t)

\* The condition under which queueInLoop writes the eventfd.
NeedsWakeup(t) == ~isInLoopThread(t) \/ callingPendingFunctors_

\* The rest of queueInLoop, and wakeup().
FinishQueueInLoop(t) ==
  /\ call[t] = "queueInLoop"
  /\ wakeupFd_' = (wakeupFd_ \/ NeedsWakeup(t))
  /\ call' = [call EXCEPT ![t] = "none"]
  /\ UNCHANGED <<loopPc, quit_, callingPendingFunctors_, activeChannels_,
                 queueVars>>

\* runInLoop on the loop's own thread runs the callback on the spot.  On any
\* other thread it is queueInLoop.
RunInLoopThread(f) ==
  /\ MayCall(LoopThread)
  /\ f \notin submitted
  /\ submitted' = submitted \union {f}
  /\ executed' = Append(executed, f)
  /\ UNCHANGED <<loopPc, quit_, callingPendingFunctors_, pendingFunctors_,
                 functors, wakeupFd_, activeChannels_, call>>

\* Mutant of QuitNeedsWakeup: the flag is set and nothing else.
WakesNobody(t) == FALSE

\* quit() sets the flag; only a thread other than the loop's goes on to wake
\* the loop up.
QuitNeedsWakeup(t) == ~isInLoopThread(t)

Quit(t) ==
  /\ MayCall(t)
  /\ quit_' = TRUE
  /\ call' = [call EXCEPT ![t] = IF QuitNeedsWakeup(t) THEN "quit" ELSE "none"]
  /\ UNCHANGED <<loopPc, callingPendingFunctors_, wakeupFd_, activeChannels_,
                 queueVars>>

\* Mutant of FinishQuit: the eventfd is not written.
FinishQuitInSilence(t) ==
  /\ call[t] = "quit"
  /\ call' = [call EXCEPT ![t] = "none"]
  /\ UNCHANGED <<loopPc, quit_, callingPendingFunctors_, wakeupFd_,
                 activeChannels_, queueVars>>

\* The rest of quit(): wakeup().
FinishQuit(t) ==
  /\ call[t] = "quit"
  /\ wakeupFd_' = TRUE
  /\ call' = [call EXCEPT ![t] = "none"]
  /\ UNCHANGED <<loopPc, quit_, callingPendingFunctors_, activeChannels_,
                 queueVars>>

-----------------------------------------------------------------------------
(* The loop thread.                                                        *)

\* A step of loop() itself: the thread is not inside a call of its callback.
LoopAt(pc) == loopPc = pc /\ call[LoopThread] = "none"

\* The first two statements of loop().
EnterLoop ==
  /\ LoopAt("outside")
  /\ loopPc' = "test"
  /\ quit_' = FALSE
  /\ UNCHANGED <<callingPendingFunctors_, wakeupFd_, activeChannels_, call,
                 queueVars>>

\* while (!quit_)
TestQuit ==
  /\ LoopAt("test")
  /\ loopPc' = IF quit_ THEN "outside" ELSE "poll"
  /\ UNCHANGED <<quit_, callingPendingFunctors_, wakeupFd_, activeChannels_,
                 call, queueVars>>

\* poll returns with channels that are ready: any of them, for the poller's
\* event list may be too short for all.
PollReturn(ready) ==
  /\ LoopAt("poll")
  /\ "wakeup" \in ready => wakeupFd_
  /\ activeChannels_' = ready
  /\ loopPc' = "events"
  /\ UNCHANGED <<quit_, callingPendingFunctors_, wakeupFd_, call, queueVars>>

PollReady == \E ready \in SUBSET Channels \ {{}} : PollReturn(ready)

\* poll returns empty-handed, after kPollTimeMs or on a signal.
PollTimeout == PollReturn({})

\* The eventfd's handler: EventLoop::handleRead.  The read also consumes the
\* wakeups written since poll returned.
HandleRead ==
  /\ LoopAt("events")
  /\ "wakeup" \in activeChannels_
  /\ wakeupFd_' = FALSE
  /\ activeChannels_' = activeChannels_ \ {"wakeup"}
  /\ UNCHANGED <<loopPc, quit_, callingPendingFunctors_, call, queueVars>>

\* Another channel's handler enters user code ...
HandleIo ==
  /\ LoopAt("events")
  /\ "io" \in activeChannels_
  /\ activeChannels_' = activeChannels_ \ {"io"}
  /\ loopPc' = "handler"
  /\ UNCHANGED <<quit_, callingPendingFunctors_, wakeupFd_, call, queueVars>>

\* ... and returns.
ReturnFromHandler ==
  /\ LoopAt("handler")
  /\ loopPc' = "events"
  /\ UNCHANGED <<quit_, callingPendingFunctors_, wakeupFd_, activeChannels_,
                 call, queueVars>>

\* Mutant of AllHandled: the walk over activeChannels_ stops anywhere.
StopsAnywhere == TRUE

\* The loop over activeChannels_ ends when every one was handled.
AllHandled == activeChannels_ = {}

EndOfEvents ==
  /\ LoopAt("events")
  /\ AllHandled
  /\ loopPc' = "pending"
  /\ UNCHANGED <<quit_, callingPendingFunctors_, wakeupFd_, activeChannels_,
                 call, queueVars>>

\* doPendingFunctors raises its flag and swaps the vectors under mutex_.  Only
\* this thread reads the flag, so the two are one step.
SwapPending ==
  /\ LoopAt("pending")
  /\ callingPendingFunctors_' = TRUE
  /\ functors' = pendingFunctors_
  /\ pendingFunctors_' = <<>>
  /\ loopPc' = "run"
  /\ UNCHANGED <<quit_, wakeupFd_, activeChannels_, call, submitted, executed>>

\* functor() is entered ...
RunFunctor ==
  /\ LoopAt("run")
  /\ functors # <<>>
  /\ executed' = Append(executed, Head(functors))
  /\ functors' = Tail(functors)
  /\ loopPc' = "functor"
  /\ UNCHANGED <<quit_, callingPendingFunctors_, wakeupFd_, activeChannels_,
                 call, pendingFunctors_, submitted>>

\* ... and returns.
ReturnFromFunctor ==
  /\ LoopAt("functor")
  /\ loopPc' = "run"
  /\ UNCHANGED <<quit_, callingPendingFunctors_, wakeupFd_, activeChannels_,
                 call, queueVars>>

\* The end of doPendingFunctors.
EndOfPending ==
  /\ LoopAt("run")
  /\ functors = <<>>
  /\ callingPendingFunctors_' = FALSE
  /\ loopPc' = "test"
  /\ UNCHANGED <<quit_, wakeupFd_, activeChannels_, call, queueVars>>

\* What the loop thread does on its own, except to wait for a file descriptor.
LoopStep ==
  \/ TestQuit
  \/ HandleRead \/ HandleIo \/ ReturnFromHandler \/ EndOfEvents
  \/ SwapPending \/ RunFunctor \/ ReturnFromFunctor \/ EndOfPending

Next ==
  \/ \E t \in AllThreads :
       \/ \E f \in Functors : QueueInLoop(t, f)
       \/ FinishQueueInLoop(t)
       \/ Quit(t)
       \/ FinishQuit(t)
  \/ \E f \in Functors : RunInLoopThread(f)
  \/ EnterLoop
  \/ PollReady
  \/ PollTimeout
  \/ LoopStep

SafeSpec == Init /\ [][Next]_vars

\* A thread inside a call finishes it; the loop thread runs, its callbacks
\* return, and epoll_wait reports a readable eventfd.  Nobody has to call
\* loop() or the loop, no other descriptor has to become ready, and the
\* timeout of poll need not be what gets the loop going.
Fairness ==
  /\ \A t \in AllThreads : /\ WF_vars(FinishQueueInLoop(t))
                           /\ WF_vars(FinishQuit(t))
  /\ WF_vars(LoopStep)
  /\ WF_vars(wakeupFd_ /\ PollReady)

Spec == SafeSpec /\ Fairness

-----------------------------------------------------------------------------
(* Properties.                                                             *)

\* The type of every variable; activeChannels_ holds something only while
\* loop() walks it.
TypeOK ==
  /\ loopPc \in LoopPcs
  /\ quit_ \in BOOLEAN
  /\ callingPendingFunctors_ \in BOOLEAN
  /\ pendingFunctors_ \in Seq(Functors)
  /\ functors \in Seq(Functors)
  /\ wakeupFd_ \in BOOLEAN
  /\ activeChannels_ \subseteq Channels
  /\ activeChannels_ # {} => loopPc \in {"events", "handler"}
  /\ call \in [AllThreads -> Calls]
  /\ submitted \subseteq Functors
  /\ executed \in Seq(Functors)

\* Somebody is between its push (or its store to quit_) and the wakeup.
WakeupUnderWay ==
  \E t \in Threads : call[t] \in {"queueInLoop", "quit"}

\* Is loop() about to block, with no look at pendingFunctors_ in between?
\* From "run" on the vector was already swapped out.
AboutToBlock == loopPc \in {"run", "functor", "test", "poll"}

\* No wakeup is lost (queueInLoop and its comment on callingPendingFunctors_):
\* when a functor waits and the loop is in poll, or gets there without looking
\* at the vector again, then poll will return at once or somebody is just
\* about to make it.  A functor never has to wait for kPollTimeMs.
NoLostWakeup ==
  pendingFunctors_ # <<>> /\ AboutToBlock =>
    wakeupFd_ \/ \E t \in AllThreads : call[t] # "none"

\* A quit() made on a running loop is noticed at once (EventLoop::quit): a loop
\* that blocks, or is going to, with quit_ set is being woken up.
QuitWakesLoop ==
  quit_ /\ loopPc = "poll" => wakeupFd_ \/ WakeupUnderWay

\* quit() ends a loop that runs, whoever calls it and whatever the loop is
\* doing (EventLoop::quit, "leave the event loop").
QuitEndsLoop == (quit_ /\ loopPc # "outside") ~> loopPc = "outside"

\* The loop implements the queue that its callers think of: see TaskQueue.
TQ == INSTANCE TaskQueue WITH
        queue   <- functors \o pendingFunctors_,
        stopped <- quit_ \/ loopPc = "outside"

\* Every functor queued on a loop that is not told to quit runs, once, in
\* order of arrival, without the help of poll's timeout (EventLoop.h on
\* queueInLoop).
ImplementsTaskQueue == TQ!Spec
=============================================================================

-------------------------- MODULE EventLoopThread --------------------------
(***************************************************************************)
(* EventLoopThread (net/core/EventLoopThread.cpp): the life of a loop that *)
(* runs on a thread of its own.  The owner calls startLoop, hands the loop *)
(* to its clients, and destroys the object; the new thread constructs the  *)
(* EventLoop on its stack, publishes its address in loop_, runs loop(),    *)
(* clears loop_ and destroys the EventLoop.  Composed with EventLoop, whose *)
(* LoopThread is the new thread and whose Threads are the owner and the    *)
(* clients.                                                                *)
(*                                                                         *)
(* Clients are assumed to keep the usual contract of an object: they use   *)
(* the loop only between startLoop and the destructor, and not after it    *)
(* has ended.                                                              *)
(*                                                                         *)
(* loop_ is a plain pointer.  startLoop and threadFunc use it with mutex_  *)
(* held, the destructor without: it tests loop_, then calls loop_->quit(). *)
(* The test and the call are steps of their own, and so are the thread's   *)
(* store of null and its release of mutex_.                                *)
(***************************************************************************)
EXTENDS EventLoop

CONSTANTS
  Owner,         \* the thread that constructs and destroys the object
  ClientsQuit    \* may others than the destructor call quit() on the loop,
                 \* once startLoop has returned it?  (A loop that ends before
                 \* that leaves startLoop waiting for a loop_ that is null.)

ASSUME OwnerAssumption == Owner \in Threads
ASSUME ClientsQuitAssumption == ClientsQuit \in BOOLEAN

VARIABLES
  ownerPc,       \* where the owner is, see OwnerPcs
  threadPc,      \* where threadFunc is, see ThreadPcs
  loop_          \* EventLoopThread::loop_ is not null

threadVars == <<ownerPc, threadPc, loop_>>
allVars == <<vars, threadVars>>

\* "waiting" is in startLoop, to lock mutex_ and test loop_; "blocked" is in
\* its cond_.wait.  The destructor is entered ("dtor"), has found loop_ set
\* ("tested"), is inside quit() ("quitting"), in join ("joining"), and has
\* returned ("gone") or brought the process down ("crashed").
OwnerPcs == {"created", "waiting", "blocked", "owning", "dtor", "tested",
             "quitting", "joining", "gone", "crashed"}

\* "init" is from the construction of the EventLoop to the end of callback_;
\* "cleared" is after loop_ = nullptr, with mutex_ held; "unlocked" is after
\* its release, with the EventLoop still there.
ThreadPcs == {"unstarted", "init", "published", "looping", "cleared",
              "unlocked", "exited"}

ThreadInit ==
  /\ Init
  /\ ownerPc = "created"
  /\ threadPc = "unstarted"
  /\ loop_ = FALSE

\* The EventLoop on the stack of threadFunc exists.
LoopAlive ==
  threadPc \in {"init", "published", "looping", "cleared", "unlocked"}

\* No thread of a process that crashed takes a step.
Running == ownerPc # "crashed"

-----------------------------------------------------------------------------
(* The owner.                                                              *)

\* startLoop starts the thread ...
StartThread ==
  /\ ownerPc = "created"
  /\ ownerPc' = "waiting"
  /\ threadPc' = "init"
  /\ UNCHANGED <<vars, loop_>>

\* ... and, holding mutex_, returns loop_ or waits for it.
TestLoopPointer ==
  /\ ownerPc = "waiting"
  /\ threadPc # "cleared"
  /\ ownerPc' = IF loop_ THEN "owning" ELSE "blocked"
  /\ UNCHANGED <<vars, threadPc, loop_>>

\* cond_.wait may return although nobody notified it.
SpuriousWakeup ==
  /\ ownerPc = "blocked"
  /\ ownerPc' = "waiting"
  /\ UNCHANGED <<vars, threadPc, loop_>>

\* The destructor is entered: before startLoop, or with the clients gone.
Destroy ==
  /\ ownerPc \in {"created", "owning"}
  /\ \A t \in Threads : call[t] = "none"
  /\ ownerPc' = "dtor"
  /\ UNCHANGED <<vars, threadPc, loop_>>

\* if (loop_ != nullptr), read without mutex_.  When it is null the destructor
\* is done: ~Thread detaches a thread that was started.
DestroyTestsLoop ==
  /\ ownerPc = "dtor"
  /\ ownerPc' = IF loop_ THEN "tested" ELSE "gone"
  /\ UNCHANGED <<vars, threadPc, loop_>>

\* loop_->quit() up to its store: with the pointer that was tested, or with a
\* second read that finds it still set.
DestroyCallsQuit ==
  /\ ownerPc = "tested"
  /\ Quit(Owner)
  /\ ownerPc' = "quitting"
  /\ UNCHANGED <<threadPc, loop_>>

\* The second half of quit(), its wakeup.
DestroyWakesLoop ==
  /\ ownerPc = "quitting"
  /\ FinishQuit(Owner)
  /\ ownerPc' = "joining"
  /\ UNCHANGED <<threadPc, loop_>>

\* The loop has ended under the destructor's hands: a second read of loop_
\* finds null, or quit() runs on an EventLoop that is no longer there.  That
\* may go well (the two steps above) or bring the process down.
DestroyCrashes ==
  /\ \/ ownerPc = "tested" /\ ~loop_
     \/ ownerPc = "quitting" /\ ~LoopAlive
  /\ ownerPc' = "crashed"
  /\ UNCHANGED <<vars, threadPc, loop_>>

\* Mutant of MayJoin: the thread is detached instead of joined.
JoinsNobody == TRUE

\* thread_.join() returns once the thread has exited.
MayJoin == threadPc = "exited"

Join ==
  /\ ownerPc = "joining"
  /\ MayJoin
  /\ ownerPc' = "gone"
  /\ UNCHANGED <<vars, threadPc, loop_>>

-----------------------------------------------------------------------------
(* The new thread, threadFunc.                                             *)

\* Mutant of OwnerNotified: no notify_one.
NotifiesNobody == ownerPc

\* After callback_: loop_ = &loop and cond_.notify_one(), under mutex_.
OwnerNotified == IF ownerPc = "blocked" THEN "waiting" ELSE ownerPc

Publish ==
  /\ threadPc = "init"
  /\ LoopAt("outside")
  /\ loop_' = TRUE
  /\ ownerPc' = OwnerNotified
  /\ threadPc' = "published"
  /\ UNCHANGED vars

\* loop.loop() is entered.
RunLoop ==
  /\ threadPc = "published"
  /\ EnterLoop
  /\ threadPc' = "looping"
  /\ UNCHANGED <<ownerPc, loop_>>

\* Mutant of ClearLoop: the address stays published.
KeepsPointer ==
  /\ threadPc = "looping"
  /\ LoopAt("outside")
  /\ threadPc' = "cleared"
  /\ UNCHANGED <<vars, ownerPc, loop_>>

\* loop() has returned: mutex_ is locked and loop_ = nullptr,
ClearLoop ==
  /\ threadPc = "looping"
  /\ LoopAt("outside")
  /\ loop_' = FALSE
  /\ threadPc' = "cleared"
  /\ UNCHANGED <<vars, ownerPc>>

\* the local lock, declared last, is destroyed first and releases mutex_,
UnlockMutex ==
  /\ threadPc = "cleared"
  /\ threadPc' = "unlocked"
  /\ UNCHANGED <<vars, ownerPc, loop_>>

\* and the EventLoop on the stack is destroyed and the thread exits.
DestroyLoop ==
  /\ threadPc = "unlocked"
  /\ threadPc' = "exited"
  /\ UNCHANGED <<vars, ownerPc, loop_>>

-----------------------------------------------------------------------------
(* Clients, and the inside of loop().                                      *)

\* Who may start a call on the loop: callback_ and the loop's own callbacks
\* on the new thread, and the clients while they have the loop.  The loop's
\* callbacks go on while the destructor runs.
MayUseLoop(t) ==
  IF isInLoopThread(t) THEN threadPc \in {"init", "looping"}
                       ELSE ownerPc = "owning" /\ loop_

ClientCall ==
  /\ \/ \E t \in AllThreads, f \in Functors :
          MayUseLoop(t) /\ QueueInLoop(t, f)
     \/ \E f \in Functors :
          MayUseLoop(LoopThread) /\ RunInLoopThread(f)
     \/ \E t \in AllThreads :
          /\ ClientsQuit
          /\ ownerPc \notin {"waiting", "blocked"}
          /\ MayUseLoop(t)
          /\ Quit(t)
     \/ \E t \in AllThreads : FinishQueueInLoop(t)
     \/ \E t \in AllThreads : ownerPc # "quitting" /\ FinishQuit(t)
  /\ UNCHANGED threadVars

InsideLoop ==
  /\ \/ PollReady
     \/ PollTimeout
     \/ LoopStep
  /\ UNCHANGED threadVars

OwnerStep ==
  \/ TestLoopPointer
  \/ DestroyTestsLoop \/ DestroyCallsQuit \/ DestroyWakesLoop
  \/ DestroyCrashes
  \/ Join

ThreadStep ==
  /\ Running
  /\ Publish \/ RunLoop \/ ClearLoop \/ UnlockMutex \/ DestroyLoop

ThreadNext ==
  \/ StartThread \/ SpuriousWakeup \/ Destroy
  \/ OwnerStep
  \/ ThreadStep
  \/ Running /\ ClientCall
  \/ Running /\ InsideLoop
  \/ ownerPc \in {"gone", "crashed"} /\ UNCHANGED allVars

\* Both threads are scheduled; nobody has to start or destroy anything, and a
\* blocked owner cannot count on a spurious wakeup.
ThreadFairness ==
  /\ WF_allVars(OwnerStep)
  /\ WF_allVars(ThreadStep)
  /\ \A t \in AllThreads :
       /\ WF_allVars(FinishQueueInLoop(t) /\ Running /\ UNCHANGED threadVars)
       /\ WF_allVars(/\ FinishQuit(t) /\ ownerPc # "quitting"
                     /\ Running /\ UNCHANGED threadVars)
  /\ WF_allVars(LoopStep /\ Running /\ UNCHANGED threadVars)
  /\ WF_allVars(wakeupFd_ /\ PollReady /\ Running /\ UNCHANGED threadVars)

ThreadSafeSpec == ThreadInit /\ [][ThreadNext]_allVars
ThreadSpec == ThreadSafeSpec /\ ThreadFairness

-----------------------------------------------------------------------------
(* Properties.                                                             *)

\* The types of the variables; loop_ is set from Publish to ClearLoop.
ThreadTypeOK ==
  /\ TypeOK
  /\ ownerPc \in OwnerPcs
  /\ threadPc \in ThreadPcs
  /\ loop_ \in BOOLEAN

\* A published address is that of an EventLoop that is still there, and the
\* destructor, which tests loop_ without mutex_ and then uses it, loses it in
\* between only to somebody else's quit(): as long as nobody has told the loop
\* to quit, a loop_ that was found set stays set (threadFunc and
\* ~EventLoopThread).
DestructorFindsLoop ==
  /\ loop_ => LoopAlive
  /\ ownerPc = "tested" /\ ~quit_ => loop_

\* startLoop returns a loop: the notification cannot be missed between its
\* test of loop_ and its wait (startLoop and threadFunc share mutex_).
StartLoopReturns == (ownerPc = "waiting") ~> (ownerPc = "owning")

\* A loop that runs can be ended: quit() ends it, whoever calls it and whatever
\* the loop is doing.  The destructor ends it too and is never stuck in its
\* join: it returns, unless the loop ended under its hands and the call through
\* loop_ brought the process down (EventLoop::quit, ~EventLoopThread).
DestroyRunningLoop ==
  /\ QuitEndsLoop
  /\ (ownerPc = "dtor" /\ threadPc = "looping") ~> ownerPc \in {"gone", "crashed"}

\* When the destructor has returned the loop is over: it runs no callback and
\* the thread does not touch loop_ again.  The thread has exited as well,
\* unless it was never started or somebody else made the loop quit: then the
\* destructor may have found loop_ null and have detached a thread that has
\* still to unlock mutex_ and to destroy its EventLoop (~EventLoopThread).
NoThreadLeftBehind ==
  ownerPc = "gone" =>
    /\ threadPc \in {"unstarted", "cleared", "unlocked", "exited"}
    /\ ~ClientsQuit => threadPc \in {"unstarted", "exited"}

\* quit() "leaves the event loop" (EventLoop.h): the destructor that calls it
\* comes to its end.
DestructorReturns == (ownerPc = "dtor") ~> ownerPc \in {"gone", "crashed"}

\* The mutex_ that the thread unlocks after loop_ = nullptr is there: the
\* destructor of the object it is a member of has not returned.
MutexOutlivesThread == ownerPc = "gone" => threadPc # "cleared"

\* A call made on the loop from another thread ends before the loop is
\* destroyed (EventLoop::quit, comment: "2. quit is called from another
\* thread").
CallsOnLiveLoop == \A t \in Threads : call[t] # "none" => LoopAlive
=============================================================================

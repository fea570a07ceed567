---------------------- MODULE EventLoopThreadProofs ----------------------
(***************************************************************************)
(* Theorems about EventLoop, for any number of threads and functors, and   *)
(* about EventLoopThread, for any number of clients.                       *)
(*                                                                         *)
(* NoLostWakeup is not inductive: it says nothing of a loop that is not    *)
(* running yet, nor of the flag that queueInLoop tests.  The inductive     *)
(* invariant adds what the phases of the loop fix (Phases) and extends the *)
(* claim about the eventfd to the time before loop() (WakeupPending).      *)
(*                                                                         *)
(* What an EventLoop guarantees it also guarantees inside an               *)
(* EventLoopThread, for every behaviour of the composition is one of       *)
(* EventLoop.  What is left is the correspondence of the two threads       *)
(* (Lockstep), and who ended the loop when it has ended (LoopOver).        *)
(***************************************************************************)
EXTENDS EventLoopThread, SequenceTheorems, TLAPS

USE DEF LoopPcs, Channels, Calls, AllThreads, isInLoopThread

\* What is fixed by where the loop thread is.
Phases ==
  /\ callingPendingFunctors_ <=> loopPc \in {"run", "functor"}
  /\ functors # <<>> => loopPc \in {"run", "functor"}
  /\ call[LoopThread] # "quit"
  /\ call[LoopThread] # "none" =>
       \/ loopPc \in {"handler", "functor"}
       \/ EarlyCalls /\ loopPc = "outside"

\* NoLostWakeup, from the moment functors can be queued.
WakeupPending ==
  pendingFunctors_ # <<>> /\ (AboutToBlock \/ loopPc = "outside") =>
    wakeupFd_ \/ \E t \in AllThreads : call[t] # "none"

-----------------------------------------------------------------------------
(* Type correctness.                                                       *)

\* Every variable has its type at all times, whatever the threads do.
THEOREM TypeCorrect == SafeSpec => []TypeOK
<1>1. Init => TypeOK
  <2>1. <<>> \in Seq(Functors)
    OBVIOUS
  <2> QED
    BY <2>1 DEF Init, TypeOK
<1>2. TypeOK /\ [Next]_vars => TypeOK'
  <2> SUFFICES ASSUME TypeOK, [Next]_vars PROVE TypeOK'
    OBVIOUS
  <2> USE DEF TypeOK
  <2>1. ASSUME NEW t \in AllThreads, NEW f \in Functors, QueueInLoop(t, f)
        PROVE  TypeOK'
    BY <2>1 DEF QueueInLoop, MayCall
  <2>2. ASSUME NEW t \in AllThreads, FinishQueueInLoop(t)
        PROVE  TypeOK'
    BY <2>2 DEF FinishQueueInLoop, NeedsWakeup, queueVars
  <2>3. ASSUME NEW t \in AllThreads, Quit(t)
        PROVE  TypeOK'
    BY <2>3 DEF Quit, MayCall, QuitNeedsWakeup, queueVars
  <2>4. ASSUME NEW t \in AllThreads, FinishQuit(t)
        PROVE  TypeOK'
    BY <2>4 DEF FinishQuit, queueVars
  <2>5. ASSUME NEW f \in Functors, RunInLoopThread(f)
        PROVE  TypeOK'
    BY <2>5 DEF RunInLoopThread, MayCall
  <2>6. CASE EnterLoop
    BY <2>6 DEF EnterLoop, LoopAt, queueVars
  <2>7. CASE PollReady
    BY <2>7 DEF PollReady, PollReturn, LoopAt, queueVars
  <2>8. CASE PollTimeout
    BY <2>8 DEF PollTimeout, PollReturn, LoopAt, queueVars
  <2>9. CASE LoopStep
    <3>1. CASE TestQuit
      BY <3>1 DEF TestQuit, LoopAt, queueVars
    <3>2. CASE HandleRead
      BY <3>2 DEF HandleRead, LoopAt, queueVars
    <3>3. CASE HandleIo
      BY <3>3 DEF HandleIo, LoopAt, queueVars
    <3>4. CASE ReturnFromHandler
      BY <3>4 DEF ReturnFromHandler, LoopAt, queueVars
    <3>5. CASE EndOfEvents
      BY <3>5 DEF EndOfEvents, AllHandled, LoopAt, queueVars
    <3>6. CASE SwapPending
      BY <3>6 DEF SwapPending, LoopAt
    <3>7. CASE RunFunctor
      BY <3>7 DEF RunFunctor, LoopAt
    <3>8. CASE ReturnFromFunctor
      BY <3>8 DEF ReturnFromFunctor, LoopAt, queueVars
    <3>9. CASE EndOfPending
      BY <3>9 DEF EndOfPending, LoopAt, queueVars
    <3> QED
      BY <2>9, <3>1, <3>2, <3>3, <3>4, <3>5, <3>6, <3>7, <3>8, <3>9
      DEF LoopStep
  <2>10. CASE UNCHANGED vars
    BY <2>10 DEF vars, queueVars
  <2> QED
    BY <2>1, <2>2, <2>3, <2>4, <2>5, <2>6, <2>7, <2>8, <2>9, <2>10 DEF Next
<1> QED
  BY <1>1, <1>2, PTL DEF SafeSpec

-----------------------------------------------------------------------------
(* The inductive invariant.                                                *)

IInv == TypeOK /\ Phases /\ QuitWakesLoop

\* IInv holds initially and every step preserves it.
LEMMA PhasesInvariant == SafeSpec => []IInv
<1>1. Init => Phases /\ QuitWakesLoop
  BY DEF Init, Phases, QuitWakesLoop
<1>2. IInv /\ TypeOK' /\ [Next]_vars => (Phases /\ QuitWakesLoop)'
  <2> SUFFICES ASSUME IInv, [Next]_vars PROVE Phases' /\ QuitWakesLoop'
    OBVIOUS
  <2> USE LoopThreadAssumption DEF IInv, TypeOK, Phases, QuitWakesLoop, WakeupUnderWay
  <2>1. ASSUME NEW t \in AllThreads, NEW f \in Functors, QueueInLoop(t, f)
        PROVE  Phases' /\ QuitWakesLoop'
    BY <2>1 DEF QueueInLoop, MayCall
  <2>2. ASSUME NEW t \in AllThreads, FinishQueueInLoop(t)
        PROVE  Phases' /\ QuitWakesLoop'
    BY <2>2 DEF FinishQueueInLoop, NeedsWakeup, queueVars
  <2>3. ASSUME NEW t \in AllThreads, Quit(t)
        PROVE  Phases' /\ QuitWakesLoop'
    BY <2>3 DEF Quit, MayCall, QuitNeedsWakeup, queueVars
  <2>4. ASSUME NEW t \in AllThreads, FinishQuit(t)
        PROVE  Phases' /\ QuitWakesLoop'
    BY <2>4 DEF FinishQuit, queueVars
  <2>5. ASSUME NEW f \in Functors, RunInLoopThread(f)
        PROVE  Phases' /\ QuitWakesLoop'
    BY <2>5 DEF RunInLoopThread, MayCall
  <2>6. CASE EnterLoop
    BY <2>6 DEF EnterLoop, LoopAt, queueVars
  <2>7. CASE PollReady
    BY <2>7 DEF PollReady, PollReturn, LoopAt, queueVars
  <2>8. CASE PollTimeout
    BY <2>8 DEF PollTimeout, PollReturn, LoopAt, queueVars
  <2>9. CASE LoopStep
    <3>1. CASE TestQuit
      BY <3>1 DEF TestQuit, LoopAt, queueVars
    <3>2. CASE HandleRead
      BY <3>2 DEF HandleRead, LoopAt, queueVars
    <3>3. CASE HandleIo
      BY <3>3 DEF HandleIo, LoopAt, queueVars
    <3>4. CASE ReturnFromHandler
      BY <3>4 DEF ReturnFromHandler, LoopAt, queueVars
    <3>5. CASE EndOfEvents
      BY <3>5 DEF EndOfEvents, LoopAt, queueVars
    <3>6. CASE SwapPending
      BY <3>6 DEF SwapPending, LoopAt
    <3>7. CASE RunFunctor
      BY <3>7 DEF RunFunctor, LoopAt
    <3>8. CASE ReturnFromFunctor
      BY <3>8 DEF ReturnFromFunctor, LoopAt, queueVars
    <3>9. CASE EndOfPending
      BY <3>9 DEF EndOfPending, LoopAt, queueVars
    <3> QED
      BY <2>9, <3>1, <3>2, <3>3, <3>4, <3>5, <3>6, <3>7, <3>8, <3>9
      DEF LoopStep
  <2>10. CASE UNCHANGED vars
    BY <2>10 DEF vars, queueVars
  <2> QED
    BY <2>1, <2>2, <2>3, <2>4, <2>5, <2>6, <2>7, <2>8, <2>9, <2>10 DEF Next
<1> QED
  BY <1>1, <1>2, TypeCorrect, PTL DEF SafeSpec, IInv

\* A quit() made while the loop runs is never overlooked: a loop that blocks
\* with quit_ set is about to be woken up (EventLoop::quit).
THEOREM QuitIsNoticed == SafeSpec => []QuitWakesLoop
BY PhasesInvariant, PTL DEF IInv

\* No wakeup is lost between the threads that queue functors and the loop
\* that drains the vector and blocks (EventLoop::queueInLoop), provided that
\* the loop's own thread queues nothing before loop().
THEOREM WakeupsAreKept ==
  ASSUME ~EarlyCalls
  PROVE  SafeSpec => []NoLostWakeup
<1>1. Init => WakeupPending
  BY DEF Init, WakeupPending
<1>2. IInv /\ WakeupPending /\ [Next]_vars => WakeupPending'
  <2> SUFFICES ASSUME IInv, WakeupPending, [Next]_vars PROVE WakeupPending'
    OBVIOUS
  <2> USE LoopThreadAssumption
      DEF IInv, TypeOK, Phases, WakeupPending, AboutToBlock
  <2>1. ASSUME NEW t \in AllThreads, NEW f \in Functors, QueueInLoop(t, f)
        PROVE  WakeupPending'
    BY <2>1 DEF QueueInLoop, MayCall
  <2>2. ASSUME NEW t \in AllThreads, FinishQueueInLoop(t)
        PROVE  WakeupPending'
    BY <2>2 DEF FinishQueueInLoop, NeedsWakeup, queueVars
  <2>3. ASSUME NEW t \in AllThreads, Quit(t)
        PROVE  WakeupPending'
    BY <2>3 DEF Quit, MayCall, QuitNeedsWakeup, queueVars
  <2>4. ASSUME NEW t \in AllThreads, FinishQuit(t)
        PROVE  WakeupPending'
    BY <2>4 DEF FinishQuit, queueVars
  <2>5. ASSUME NEW f \in Functors, RunInLoopThread(f)
        PROVE  WakeupPending'
    BY <2>5 DEF RunInLoopThread, MayCall
  <2>6. CASE EnterLoop
    BY <2>6 DEF EnterLoop, LoopAt, queueVars
  <2>7. CASE PollReady \/ PollTimeout
    BY <2>7 DEF PollReady, PollTimeout, PollReturn, LoopAt, queueVars
  <2>8. CASE LoopStep
    <3>1. CASE TestQuit
      BY <3>1 DEF TestQuit, LoopAt, queueVars
    <3>2. CASE HandleRead \/ HandleIo \/ ReturnFromHandler \/ EndOfEvents
      BY <3>2 DEF HandleRead, HandleIo, ReturnFromHandler, EndOfEvents,
                  LoopAt, queueVars
    <3>3. CASE SwapPending
      BY <3>3 DEF SwapPending, LoopAt
    <3>4. CASE RunFunctor
      BY <3>4 DEF RunFunctor, LoopAt
    <3>5. CASE ReturnFromFunctor \/ EndOfPending
      BY <3>5 DEF ReturnFromFunctor, EndOfPending, LoopAt, queueVars
    <3> QED
      BY <2>8, <3>1, <3>2, <3>3, <3>4, <3>5 DEF LoopStep
  <2>9. CASE UNCHANGED vars
    BY <2>9 DEF vars, queueVars
  <2> QED
    BY <2>1, <2>2, <2>3, <2>4, <2>5, <2>6, <2>7, <2>8, <2>9 DEF Next
<1>3. WakeupPending => NoLostWakeup
  BY DEF WakeupPending, NoLostWakeup
<1> QED
  BY <1>1, <1>2, <1>3, PhasesInvariant, PTL DEF SafeSpec

-----------------------------------------------------------------------------
(* EventLoop implements TaskQueue (its safety part).                       *)

queueBar == functors \o pendingFunctors_

\* Adding to the second of two sequences is adding to their concatenation.
LEMMA AppendConcat ==
  ASSUME NEW S, NEW s \in Seq(S), NEW u \in Seq(S), NEW e \in S
  PROVE  s \o Append(u, e) = Append(s \o u, e)
OBVIOUS

\* Taking from the first of two sequences is taking from their concatenation.
LEMMA HeadTailConcat ==
  ASSUME NEW S, NEW s \in Seq(S), NEW u \in Seq(S), s # <<>>
  PROVE  /\ s \o u # <<>>
         /\ Head(s \o u) = Head(s)
         /\ Tail(s \o u) = Tail(s) \o u
<1>1. s \o u # <<>> /\ Head(s \o u) = Head(s)
  OBVIOUS
<1>2. /\ Tail(s \o u) \in Seq(S)
      /\ Tail(s) \o u \in Seq(S)
  BY <1>1
<1>3. Len(Tail(s \o u)) = Len(Tail(s) \o u)
  BY <1>1
<1>4. \A i \in 1 .. Len(Tail(s \o u)) : Tail(s \o u)[i] = (Tail(s) \o u)[i]
  BY <1>1
<1>5. Tail(s \o u) = Tail(s) \o u
  BY <1>2, <1>3, <1>4, SeqEqual
<1> QED
  BY <1>1, <1>5

\* The loop's two vectors, one after the other, behave as the one queue its
\* callers think of: nothing is lost, doubled or reordered by the swap, by
\* wakeups or by functors queued from functors.
THEOREM ImplementsTaskQueueSafely == SafeSpec => TQ!SafeSpec
<1>1. Init => TQ!Init
  BY DEF Init, TQ!Init
<1>2. IInv /\ [Next]_vars => [TQ!Next]_TQ!vars
  <2> SUFFICES ASSUME IInv, [Next]_vars PROVE [TQ!Next]_TQ!vars
    OBVIOUS
  <2> USE DEF IInv, TypeOK, Phases, TQ!vars
  <2>1. ASSUME NEW t \in AllThreads, NEW f \in Functors, QueueInLoop(t, f)
        PROVE  TQ!Submit(f)
    <3>1. functors \o Append(pendingFunctors_, f) = Append(queueBar, f)
      BY AppendConcat DEF queueBar
    <3> QED
      BY <2>1, <3>1 DEF QueueInLoop, TQ!Submit, queueBar
  <2>2. ASSUME NEW t \in AllThreads, FinishQueueInLoop(t) \/ FinishQuit(t)
        PROVE  UNCHANGED TQ!vars
    BY <2>2 DEF FinishQueueInLoop, FinishQuit, queueVars
  <2>3. ASSUME NEW t \in AllThreads, Quit(t)
        PROVE  TQ!Toggle \/ UNCHANGED TQ!vars
    BY <2>3 DEF Quit, queueVars, TQ!Toggle
  <2>4. ASSUME NEW f \in Functors, RunInLoopThread(f)
        PROVE  TQ!RunNow(f)
    BY <2>4 DEF RunInLoopThread, TQ!RunNow
  <2>5. CASE EnterLoop
    <3>1. (quit_ \/ loopPc = "outside") = TRUE
      BY <2>5 DEF EnterLoop, LoopAt
    <3>2. (quit_ \/ loopPc = "outside")' = FALSE
      BY <2>5 DEF EnterLoop
    <3>3. (quit_ \/ loopPc = "outside")' = ~(quit_ \/ loopPc = "outside")
      BY <3>1, <3>2
    <3>4. UNCHANGED <<submitted, functors, pendingFunctors_, executed>>
      BY <2>5 DEF EnterLoop, queueVars
    <3>5. TQ!Toggle
      BY <3>3, <3>4 DEF TQ!Toggle
    <3> QED
      BY <3>5 DEF TQ!Next
  <2>6. CASE PollReady \/ PollTimeout
    BY <2>6 DEF PollReady, PollTimeout, PollReturn, LoopAt, queueVars
  <2>7. CASE LoopStep
    <3>1. CASE TestQuit
      BY <3>1 DEF TestQuit, LoopAt, queueVars
    <3>2. CASE HandleRead \/ HandleIo \/ ReturnFromHandler \/ EndOfEvents
      BY <3>2 DEF HandleRead, HandleIo, ReturnFromHandler, EndOfEvents,
                  LoopAt, queueVars
    <3>3. CASE SwapPending
      <4>1. functors = <<>>
        BY <3>3 DEF SwapPending, LoopAt
      <4>2. pendingFunctors_ \o <<>> = <<>> \o pendingFunctors_
        OBVIOUS
      <4> QED
        BY <3>3, <4>1, <4>2 DEF SwapPending, LoopAt
    <3>4. CASE RunFunctor
      <4>1. /\ queueBar # <<>>
            /\ Head(queueBar) = Head(functors)
            /\ Tail(queueBar) = Tail(functors) \o pendingFunctors_
        BY <3>4, HeadTailConcat DEF RunFunctor, queueBar
      <4>2. UNCHANGED <<submitted, quit_, pendingFunctors_>>
        BY <3>4 DEF RunFunctor
      <4>3. loopPc # "outside" /\ loopPc' # "outside"
        BY <3>4 DEF RunFunctor, LoopAt
      <4>4. UNCHANGED (quit_ \/ loopPc = "outside")
        BY <4>2, <4>3
      <4>5. /\ executed' = Append(executed, Head(queueBar))
            /\ queueBar' = Tail(queueBar)
        BY <3>4, <4>1, <4>2 DEF RunFunctor, queueBar
      <4>6. TQ!Serve
        BY <4>1, <4>2, <4>4, <4>5 DEF TQ!Serve, queueBar
      <4> QED
        BY <4>6 DEF TQ!Next
    <3>5. CASE ReturnFromFunctor \/ EndOfPending
      BY <3>5 DEF ReturnFromFunctor, EndOfPending, LoopAt, queueVars
    <3> QED
      BY <2>7, <3>1, <3>2, <3>3, <3>4, <3>5 DEF LoopStep, TQ!Next
  <2>8. CASE UNCHANGED vars
    BY <2>8 DEF vars, queueVars
  <2> QED
    BY <2>1, <2>2, <2>3, <2>4, <2>5, <2>6, <2>7, <2>8 DEF Next, TQ!Next
<1> QED
  BY <1>1, <1>2, PhasesInvariant, PTL DEF SafeSpec, TQ!SafeSpec

-----------------------------------------------------------------------------
(* The loop on a thread of its own.                                        *)

\* How far the new thread is, seen from loop_ and from the owner.  The owner
\* gets past startLoop only by a published loop, and into its destructor
\* only from there or without a thread.
Lockstep ==
  /\ loop_ <=> threadPc \in {"published", "looping"}
  /\ ownerPc = "created" => threadPc = "unstarted"
  /\ ownerPc \in {"owning", "tested", "quitting", "joining"} =>
       threadPc \in {"published", "looping", "cleared", "unlocked", "exited"}
  /\ ownerPc = "dtor" => threadPc # "init"
  /\ ownerPc = "gone" =>
       threadPc \in {"unstarted", "cleared", "unlocked", "exited"}

\* loop() is left only when somebody has called quit(), and when that can only
\* be the destructor, the destructor has joined the thread.
LoopOver ==
  /\ threadPc \in {"unstarted", "init", "published"} => loopPc = "outside"
  /\ threadPc = "looping" /\ loopPc = "outside" => quit_
  /\ threadPc \in {"cleared", "unlocked", "exited"} => quit_
  /\ ~ClientsQuit /\ quit_ =>
       ownerPc \in {"quitting", "joining", "gone", "crashed"}
  /\ ~ClientsQuit /\ ownerPc = "gone" => threadPc \in {"unstarted", "exited"}

PcsOK == ownerPc \in OwnerPcs /\ threadPc \in ThreadPcs /\ loop_ \in BOOLEAN

\* Every step of the owner, the new thread and the clients is a step of the
\* EventLoop or leaves it alone: threadFunc and the destructor use the loop
\* in no other way than its interface allows.
THEOREM ImplementsEventLoop == ThreadSafeSpec => SafeSpec
<1>1. ThreadInit => Init
  BY DEF ThreadInit
<1>2. [ThreadNext]_allVars => [Next]_vars
  <2> SUFFICES ASSUME [ThreadNext]_allVars PROVE [Next]_vars
    OBVIOUS
  <2> Owner \in AllThreads
    BY OwnerAssumption DEF AllThreads
  <2>1. CASE StartThread \/ SpuriousWakeup \/ Destroy \/ UNCHANGED allVars
    BY <2>1 DEF StartThread, SpuriousWakeup, Destroy, allVars
  <2>2. CASE OwnerStep
    BY <2>2 DEF OwnerStep, TestLoopPointer, DestroyTestsLoop, DestroyCallsQuit,
                DestroyWakesLoop, DestroyCrashes, Join, Next
  <2>3. CASE ThreadStep
    BY <2>3 DEF ThreadStep, Publish, RunLoop, ClearLoop, UnlockMutex, DestroyLoop, Next
  <2>4. CASE ClientCall
    BY <2>4 DEF ClientCall, Next
  <2>5. CASE InsideLoop
    BY <2>5 DEF InsideLoop, Next
  <2> QED
    BY <2>1, <2>2, <2>3, <2>4, <2>5 DEF ThreadNext
<1> QED
  BY <1>1, <1>2, PTL DEF ThreadSafeSpec, SafeSpec

\* The owner and the new thread keep step.
LEMMA LockstepInvariant == ThreadSafeSpec => [](PcsOK /\ Lockstep)
<1>1. ThreadInit => PcsOK /\ Lockstep
  BY DEF ThreadInit, PcsOK, Lockstep, OwnerPcs, ThreadPcs
<1>2. PcsOK /\ Lockstep /\ [ThreadNext]_allVars => (PcsOK /\ Lockstep)'
  <2> SUFFICES ASSUME PcsOK, Lockstep, [ThreadNext]_allVars
               PROVE  (PcsOK /\ Lockstep)'
    OBVIOUS
  <2> USE DEF PcsOK, Lockstep, OwnerPcs, ThreadPcs
  <2>1. CASE StartThread
    BY <2>1 DEF StartThread
  <2>2. CASE SpuriousWakeup
    BY <2>2 DEF SpuriousWakeup
  <2>3. CASE Destroy
    BY <2>3 DEF Destroy
  <2>4. CASE TestLoopPointer
    BY <2>4 DEF TestLoopPointer
  <2>5. CASE DestroyTestsLoop
    BY <2>5 DEF DestroyTestsLoop
  <2>6. CASE DestroyWakesLoop
    BY <2>6 DEF DestroyWakesLoop
  <2>7. CASE Join
    BY <2>7 DEF Join, MayJoin
  <2>8. CASE Publish
    BY <2>8 DEF Publish, OwnerNotified
  <2>9. CASE RunLoop
    BY <2>9 DEF RunLoop
  <2>10. CASE ClearLoop
    BY <2>10 DEF ClearLoop
  <2>11. CASE DestroyLoop
    BY <2>11 DEF DestroyLoop
  <2>12. CASE DestroyCallsQuit
    BY <2>12 DEF DestroyCallsQuit
  <2>13. CASE DestroyCrashes
    BY <2>13 DEF DestroyCrashes
  <2>14. CASE UnlockMutex
    BY <2>14 DEF UnlockMutex
  <2>15. CASE UNCHANGED threadVars
    BY <2>15 DEF threadVars
  <2> QED
    BY <2>1, <2>2, <2>3, <2>4, <2>5, <2>6, <2>7, <2>8, <2>9, <2>10, <2>11, <2>12,
       <2>13, <2>14, <2>15
       DEF ThreadNext, OwnerStep, ThreadStep, ClientCall, InsideLoop, allVars
<1> QED
  BY <1>1, <1>2, PTL DEF ThreadSafeSpec

\* The variables of the composition keep their types (EventLoopThread.cpp).
THEOREM ThreadTypeCorrect == ThreadSafeSpec => []ThreadTypeOK
<1>1. TypeOK /\ PcsOK /\ Lockstep => ThreadTypeOK
  BY DEF PcsOK, Lockstep, ThreadTypeOK
<1> QED
  BY <1>1, ImplementsEventLoop, TypeCorrect, LockstepInvariant, PTL

\* Whoever ended the loop did it by quit().
LEMMA LoopOverInvariant == ThreadSafeSpec => []LoopOver
<1>1. ThreadInit => LoopOver
  BY DEF ThreadInit, Init, LoopOver
<1>2. PcsOK /\ Lockstep /\ LoopOver /\ [ThreadNext]_allVars => LoopOver'
  <2> SUFFICES ASSUME PcsOK, Lockstep, LoopOver, [ThreadNext]_allVars
               PROVE  LoopOver'
    OBVIOUS
  <2> USE DEF PcsOK, Lockstep, LoopOver, OwnerPcs, ThreadPcs
  <2>1. CASE StartThread \/ SpuriousWakeup \/ Destroy
    BY <2>1 DEF StartThread, SpuriousWakeup, Destroy, vars
  <2>2. CASE TestLoopPointer \/ DestroyTestsLoop
    BY <2>2 DEF TestLoopPointer, DestroyTestsLoop, vars
  <2>3. CASE DestroyCallsQuit
    BY <2>3 DEF DestroyCallsQuit, Quit, queueVars
  <2>4. CASE DestroyWakesLoop
    BY <2>4 DEF DestroyWakesLoop, FinishQuit, queueVars
  <2>5. CASE DestroyCrashes \/ Join
    BY <2>5 DEF DestroyCrashes, Join, MayJoin, vars
  <2>6. CASE Publish
    BY <2>6 DEF Publish, OwnerNotified, LoopAt, vars
  <2>7. CASE RunLoop
    BY <2>7 DEF RunLoop, EnterLoop, LoopAt, queueVars
  <2>8. CASE ClearLoop \/ UnlockMutex \/ DestroyLoop
    BY <2>8 DEF ClearLoop, UnlockMutex, DestroyLoop, LoopAt, vars
  <2>9. CASE ClientCall
    BY <2>9 DEF ClientCall, QueueInLoop, FinishQueueInLoop, RunInLoopThread,
                Quit, FinishQuit, queueVars, threadVars
  <2>10. CASE InsideLoop
    <3>1. loopPc # "outside"
      BY <2>10 DEF InsideLoop, PollReady, PollTimeout, PollReturn, LoopStep,
           TestQuit, HandleRead, HandleIo, ReturnFromHandler, EndOfEvents,
           SwapPending, RunFunctor, ReturnFromFunctor, EndOfPending, LoopAt
    <3>2. quit_' = quit_ /\ (loopPc' = "outside" => quit_)
      BY <2>10 DEF InsideLoop, PollReady, PollTimeout, PollReturn, LoopStep,
           TestQuit, HandleRead, HandleIo, ReturnFromHandler, EndOfEvents,
           SwapPending, RunFunctor, ReturnFromFunctor, EndOfPending, LoopAt,
           queueVars
    <3>3. UNCHANGED threadVars
      BY <2>10 DEF InsideLoop
    <3> QED
      BY <3>1, <3>2, <3>3 DEF threadVars
  <2>11. CASE UNCHANGED allVars
    BY <2>11 DEF allVars, vars, threadVars
  <2> QED
    BY <2>1, <2>2, <2>3, <2>4, <2>5, <2>6, <2>7, <2>8, <2>9, <2>10, <2>11
       DEF ThreadNext, OwnerStep, ThreadStep
<1> QED
  BY <1>1, <1>2, LockstepInvariant, PTL DEF ThreadSafeSpec

\* A published loop_ is the address of an EventLoop that exists, and only
\* somebody else's quit() takes it away between the destructor's test and its
\* use (~EventLoopThread, threadFunc).
THEOREM LoopIsFound == ThreadSafeSpec => []DestructorFindsLoop
<1>1. Lockstep /\ LoopOver => DestructorFindsLoop
  BY DEF Lockstep, LoopOver, DestructorFindsLoop, LoopAlive
<1> QED
  BY <1>1, LockstepInvariant, LoopOverInvariant, PTL

\* When the destructor has returned the loop is over and the thread is past
\* loop_ = nullptr; when only the destructor quits the loop, the thread has
\* exited or was never started (~EventLoopThread).
THEOREM NobodyLeftBehind == ThreadSafeSpec => []NoThreadLeftBehind
<1>1. Lockstep /\ LoopOver => NoThreadLeftBehind
  BY DEF Lockstep, LoopOver, NoThreadLeftBehind
<1> QED
  BY <1>1, LockstepInvariant, LoopOverInvariant, PTL

\* A loop on a thread of its own loses no wakeup, however many clients use it
\* and whenever the destructor runs (queueInLoop, threadFunc).
THEOREM WakeupsAreKeptOnThread ==
  ASSUME ~EarlyCalls
  PROVE  ThreadSafeSpec => []NoLostWakeup
BY ImplementsEventLoop, WakeupsAreKept, PTL
=============================================================================

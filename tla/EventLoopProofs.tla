-------------------------- MODULE EventLoopProofs --------------------------
(***************************************************************************)
(* Theorems about EventLoop, for every set of threads, channels and        *)
(* functors and every eventfd limit.                                       *)
(***************************************************************************)
EXTENDS EventLoop, SequenceTheorems, TLAPS

(* The strengthening of NoLostWakeup.  A functor can wait unannounced only  *)
(* between handleRead, which clears the eventfd, and the swap, which takes  *)
(* every functor: elsewhere in loop() a wakeup is owed.                     *)
WakeupOwed ==
  pc \in {"idle", "run", "functor", "check", "poll"} /\ AwaitsWeakup
    => WeakupComing

IInv == TypeOK /\ WakeupOwed

-----------------------------------------------------------------------------
(* Appending a functor the loop was told about keeps what else waits.       *)
LEMMA AwaitsAfterAppend ==
  ASSUME NEW f \in Functors, pendingFunctors \in Seq(Functors),
         pendingFunctors' = Append(pendingFunctors, f),
         AwaitsWeakup',
         early \subseteq early'
  PROVE  AwaitsWeakup \/ f \notin early'
<1> PICK i \in 1 .. Len(pendingFunctors') : pendingFunctors'[i] \notin early'
  BY DEF AwaitsWeakup
<1>1. Len(pendingFunctors') = Len(pendingFunctors) + 1
  OBVIOUS
<1>2. CASE i = Len(pendingFunctors) + 1
  BY <1>2
<1>3. CASE i \in 1 .. Len(pendingFunctors)
  BY <1>3 DEF AwaitsWeakup
<1> QED BY <1>1, <1>2, <1>3

(* The typing invariant is inductive.                                       *)
LEMMA TypeInitially == Init => Typed
<1> SUFFICES ASSUME Init PROVE Typed
  OBVIOUS
<1> USE DEF Init
<1>1. <<>> \in Seq(Functors)
  OBVIOUS
<1>2. weakupCount \in 0 .. MaxCount
  BY CountAssumption
<1>3. looping \in BOOLEAN /\ quit \in BOOLEAN
      /\ callingPendingFunctors \in BOOLEAN
  BY Zenon
<1> QED BY <1>1, <1>2, <1>3, Zenon DEF Typed, Places

LEMMA TypeStep == Typed /\ [Next]_loopVars => Typed'
<1> SUFFICES ASSUME Typed, [Next]_loopVars PROVE Typed'
  OBVIOUS
<1> USE DEF Typed
<1>1. CASE UNCHANGED loopVars
  BY <1>1 DEF loopVars
<1>2. ASSUME NEW t \in AllThreads, NEW f \in Functors, QueueInLoop(t, f)
      PROVE Typed'
  BY <1>2 DEF QueueInLoop, Emplaced
<1>3. ASSUME NEW t \in AllThreads, NEW f \in Functors, RunInLoop(t, f)
      PROVE Typed'
  BY <1>2, <1>3, SMTT(60) DEF RunInLoop
<1>4. ASSUME NEW t \in AllThreads, Quit(t) PROVE Typed'
  BY <1>4 DEF Quit
<1>5. ASSUME NEW t \in AllThreads, Weakup(t) PROVE Typed'
  BY <1>5, CountAssumption DEF Weakup, EventfdAdd
<1>6. CASE LoopStart
  BY <1>6 DEF LoopStart, Go, Places
<1>7. ASSUME NEW ready \in SUBSET (IOChannels \cup {WeakupChannel}),
             PollReturn(ready)
      PROVE Typed'
  BY <1>7 DEF PollReturn, Go, Places
<1>8. CASE PollWoken
  BY <1>7, <1>8 DEF PollWoken
<1>9. CASE PollIO
  BY <1>7, <1>9 DEF PollIO
<1>10. CASE PollTimeout
  BY <1>7, <1>10 DEF PollTimeout
<1>11. CASE LoopExit
  BY <1>11 DEF LoopExit, Go, Places
<1>12. CASE BeginPoll
  BY <1>12 DEF BeginPoll, Go, Places
<1>13. CASE HandleRead
  BY <1>13, CountAssumption DEF HandleRead, Go, Places
<1>14. ASSUME NEW c \in IOChannels, HandleEvent(c) PROVE Typed'
  BY <1>14 DEF HandleEvent, Go, Places
<1>15. CASE CallbackReturn
  BY <1>15 DEF CallbackReturn, Go, Places
<1>16. CASE BeginPendingFunctors
  BY <1>16 DEF BeginPendingFunctors, Go, Places
<1>17. CASE SwapFunctors
  BY <1>17 DEF SwapFunctors, AfterSwap, Go, Places
<1>18. CASE RunFunctor
  BY <1>18 DEF RunFunctor, Go, Places
<1>19. CASE FunctorReturn
  BY <1>19 DEF FunctorReturn, Go, Places
<1>20. CASE EndPendingFunctors
  BY <1>20 DEF EndPendingFunctors, FlagAfterBatch, Go, Places
<1> QED
  BY <1>1, <1>2, <1>3, <1>4, <1>5, <1>6, <1>8, <1>9, <1>10, <1>11, <1>12,
     <1>13, <1>14, <1>15, <1>16, <1>17, <1>18, <1>19, <1>20
  DEF Next, LoopStep, InsideLoop, CallStep

-----------------------------------------------------------------------------
(* Where the loop's thread is decides the flag, the batch and looping_.     *)
Control == FlagUp /\ BatchOver /\ LoopingInside

LEMMA ControlStep == Typed /\ Control /\ [Next]_loopVars => Control'
<1> SUFFICES ASSUME Typed, Control, [Next]_loopVars PROVE Control'
  OBVIOUS
<1> USE DEF Control, FlagUp, BatchOver, LoopingInside
<1>1. CASE UNCHANGED loopVars
  BY <1>1 DEF loopVars
<1>2. ASSUME NEW t \in AllThreads, CallStep(t) PROVE Control'
  BY <1>2 DEF CallStep, QueueInLoop, RunInLoop, Quit, Weakup
<1>3. CASE LoopStart
  BY <1>3 DEF LoopStart, Go
<1>4. CASE PollWoken \/ PollIO \/ PollTimeout
  BY <1>4 DEF PollWoken, PollIO, PollTimeout, PollReturn, Go
<1>5. CASE LoopExit \/ BeginPoll
  BY <1>5 DEF LoopExit, BeginPoll, Go
<1>6. CASE HandleRead \/ CallbackReturn \/ \E c \in IOChannels : HandleEvent(c)
  BY <1>6 DEF HandleRead, CallbackReturn, HandleEvent, Go
<1>7. CASE BeginPendingFunctors
  BY <1>7 DEF BeginPendingFunctors, Go
<1>8. CASE SwapFunctors
  BY <1>8 DEF SwapFunctors, Go
<1>9. CASE RunFunctor
  BY <1>9 DEF RunFunctor, Go
<1>10. CASE FunctorReturn
  BY <1>10 DEF FunctorReturn, Go
<1>11. CASE EndPendingFunctors
  BY <1>11 DEF EndPendingFunctors, FlagAfterBatch, Go
<1> QED
  BY <1>1, <1>2, <1>3, <1>4, <1>5, <1>6, <1>7, <1>8, <1>9, <1>10, <1>11
  DEF Next, LoopStep, InsideLoop

LEMMA TypeOKInitially == Init => TypeOK
<1>1. Init => FlagUp /\ BatchOver /\ LoopingInside
  BY DEF Init, FlagUp, BatchOver, LoopingInside
<1> QED BY <1>1, TypeInitially DEF TypeOK

LEMMA TypeOKStep == TypeOK /\ [Next]_loopVars => TypeOK'
BY TypeStep, ControlStep DEF TypeOK, Control

(* Every reachable state of the loop is well typed, and a pass through      *)
(* loop() leaves the flag and the batch as it found them, also when the     *)
(* functors themselves queue or quit (EventLoop.cpp:58-75,115-126).         *)
THEOREM TypeCorrect == SafeSpec => []TypeOK
BY TypeOKInitially, TypeOKStep, PTL DEF SafeSpec

-----------------------------------------------------------------------------
(* A queueInLoop from a place where no functor may wait unannounced owes a  *)
(* weakup() itself, or its functor is early.                                *)
LEMMA QueueKeepsWakeup ==
  ASSUME IInv, NEW t \in AllThreads, NEW f \in Functors, QueueInLoop(t, f)
  PROVE  WakeupOwed'
<1> USE DEF IInv, TypeOK, Typed, WakeupOwed
<1>1. CASE t \in mustWeakup'
  BY <1>1 DEF WeakupComing
<1>2. CASE t \notin mustWeakup'
  <2>1. t = LoopThread /\ ~callingPendingFunctors
    BY <1>2 DEF QueueInLoop, NeedsWeakup
  <2>2. pc \in {"idle", "callback"}
    BY <2>1 DEF FlagUp, QueueInLoop, InUserCode
  <2>3. CASE pc = "callback"
    BY <2>3 DEF QueueInLoop
  <2>4. CASE pc = "idle"
    <3>1. f \in early' /\ early \subseteq early'
      BY <2>1, <2>4 DEF QueueInLoop
    <3>2. AwaitsWeakup' => AwaitsWeakup
      BY <3>1, AwaitsAfterAppend DEF QueueInLoop, Emplaced
    <3>3. WeakupComing => WeakupComing'
      BY <1>2, <2>1 DEF QueueInLoop, WeakupComing, NeedsWeakup
    <3> QED BY <2>4, <3>2, <3>3 DEF QueueInLoop
  <2> QED BY <2>2, <2>3, <2>4
<1> QED BY <1>1, <1>2

(* Every step keeps a wakeup owed wherever one must be.                     *)
LEMMA WakeupStep == IInv /\ [Next]_loopVars => WakeupOwed'
<1> SUFFICES ASSUME IInv, [Next]_loopVars PROVE WakeupOwed'
  OBVIOUS
<1> USE DEF IInv, TypeOK, WakeupOwed
<1>1. CASE UNCHANGED loopVars
  BY <1>1 DEF loopVars, AwaitsWeakup, WeakupComing
<1>2. ASSUME NEW t \in AllThreads, NEW f \in Functors, QueueInLoop(t, f)
      PROVE WakeupOwed'
  BY <1>2, QueueKeepsWakeup
<1>3. ASSUME NEW t \in AllThreads, NEW f \in Functors, RunInLoop(t, f)
      PROVE WakeupOwed'
  BY <1>2, <1>3 DEF RunInLoop, AwaitsWeakup, WeakupComing
<1>4. ASSUME NEW t \in AllThreads, Quit(t) PROVE WakeupOwed'
  BY <1>4 DEF Quit, AwaitsWeakup, WeakupComing
<1>5. ASSUME NEW t \in AllThreads, Weakup(t) PROVE WakeupOwed'
  <2>1. weakupCount' > 0
    BY <1>5, CountAssumption DEF Weakup, EventfdAdd, TypeOK, Typed
  <2> QED BY <2>1 DEF WeakupComing
<1>6. CASE LoopStart \/ LoopExit \/ BeginPoll \/ EndPendingFunctors
  BY <1>6 DEF LoopStart, LoopExit, BeginPoll, EndPendingFunctors, Go,
              AwaitsWeakup, WeakupComing
<1>7. CASE RunFunctor \/ FunctorReturn
  BY <1>7 DEF RunFunctor, FunctorReturn, Go, AwaitsWeakup, WeakupComing
<1>8. CASE PollWoken \/ PollIO \/ PollTimeout
  BY <1>8 DEF PollWoken, PollIO, PollTimeout, PollReturn, Go
<1>9. CASE HandleRead \/ CallbackReturn \/ \E c \in IOChannels : HandleEvent(c)
  BY <1>9 DEF HandleRead, CallbackReturn, HandleEvent, Go
<1>10. CASE BeginPendingFunctors
  BY <1>10 DEF BeginPendingFunctors, Go
<1>11. CASE SwapFunctors
  <2>1. functors = <<>>
    BY <1>11 DEF SwapFunctors, Go, BatchOver
  <2>2. Len(pendingFunctors') = 0
    BY <1>11, <2>1 DEF SwapFunctors, AfterSwap
  <2> QED BY <2>2 DEF AwaitsWeakup
<1> QED
  BY <1>1, <1>2, <1>3, <1>4, <1>5, <1>6, <1>7, <1>8, <1>9, <1>10, <1>11
  DEF Next, LoopStep, InsideLoop, CallStep

LEMMA IInvInitially == Init => IInv
<1> SUFFICES ASSUME Init PROVE IInv
  OBVIOUS
<1>1. TypeOK
  BY TypeOKInitially
<1>2. WakeupOwed
  <2>1. Len(pendingFunctors) = 0
    BY DEF Init
  <2> QED BY <2>1 DEF WakeupOwed, AwaitsWeakup
<1> QED BY <1>1, <1>2 DEF IInv

LEMMA IInvAlways == SafeSpec => []IInv
<1>1. IInv /\ [Next]_loopVars => IInv'
  BY TypeOKStep, WakeupStep DEF IInv
<1> QED BY IInvInitially, <1>1, PTL DEF SafeSpec

(* No interleaving of queueInLoop, quit, handleRead and doPendingFunctors   *)
(* leaves the loop in poll() with a functor nobody will wake it for.        *)
THEOREM NoWakeupIsLost == SafeSpec => []NoLostWakeup
<1>1. IInv => NoLostWakeup
  BY DEF IInv, WakeupOwed, NoLostWakeup
<1> QED BY IInvAlways, <1>1, PTL

-----------------------------------------------------------------------------
(* The queue a caller sees, and what emplacing and running do to it.        *)
LEMMA ConcatAppend ==
  ASSUME NEW S, NEW s \in Seq(S), NEW t \in Seq(S), NEW e \in S
  PROVE  s \o Append(t, e) = Append(s \o t, e)
<1>1. Append(t, e) = t \o <<e>> /\ Append(s \o t, e) = (s \o t) \o <<e>>
  BY AppendIsConcat, ConcatProperties
<1>2. <<e>> \in Seq(S)
  OBVIOUS
<1> QED BY <1>1, <1>2, ConcatAssociative

LEMMA ConcatHeadTail ==
  ASSUME NEW S, NEW s \in Seq(S), NEW t \in Seq(S), s # <<>>
  PROVE  /\ s \o t # <<>>
         /\ Head(s \o t) = Head(s)
         /\ Tail(s \o t) = Tail(s) \o t
<1> DEFINE u == s \o t
           v == Tail(s) \o t
<1>1. u \in Seq(S) /\ Len(u) = Len(s) + Len(t)
      /\ \A i \in 1 .. Len(s) + Len(t) :
            u[i] = IF i <= Len(s) THEN s[i] ELSE t[i - Len(s)]
  BY ConcatProperties
<1>2. Tail(s) \in Seq(S) /\ Len(Tail(s)) = Len(s) - 1
      /\ \A i \in 1 .. Len(Tail(s)) : Tail(s)[i] = s[i + 1]
  BY HeadTailProperties
<1>3. v \in Seq(S) /\ Len(v) = Len(s) - 1 + Len(t)
      /\ \A i \in 1 .. Len(s) - 1 + Len(t) :
            v[i] = IF i <= Len(s) - 1 THEN Tail(s)[i] ELSE t[i - (Len(s) - 1)]
  BY <1>2, ConcatProperties
<1>4. Len(s) \in Nat \ {0} /\ Len(t) \in Nat
  BY EmptySeq
<1>5. u # <<>>
  BY <1>1, <1>4
<1>6. Head(u) = Head(s)
  BY <1>1, <1>4
<1>7. Tail(u) \in Seq(S) /\ Len(Tail(u)) = Len(u) - 1
      /\ \A i \in 1 .. Len(Tail(u)) : Tail(u)[i] = u[i + 1]
  BY <1>1, <1>5, HeadTailProperties
<1>8. ASSUME NEW i \in 1 .. Len(v) PROVE Tail(u)[i] = v[i]
  BY <1>1, <1>2, <1>3, <1>4, <1>7, <1>8
<1>9. Tail(u) = v
  BY <1>1, <1>3, <1>4, <1>7, <1>8, SeqEqual
<1> QED BY <1>5, <1>6, <1>9

(* Every step of the loop is a step of TaskQueue or leaves it unchanged.    *)
LEMMA RefinementStep == IInv /\ [Next]_loopVars => [Tasks!Next]_(Tasks!vars)
<1> SUFFICES ASSUME IInv, [Next]_loopVars
             PROVE  Tasks!Next \/ UNCHANGED Tasks!vars
  OBVIOUS
<1> USE DEF IInv, TypeOK, Typed, Tasks!Next, Tasks!vars
<1>1. CASE UNCHANGED loopVars
  BY <1>1 DEF loopVars
<1>2. ASSUME NEW t \in AllThreads, NEW f \in Functors, QueueInLoop(t, f)
      PROVE  Tasks!Submit(f)
  BY <1>2, ConcatAppend, SMTT(60) DEF QueueInLoop, Emplaced, Tasks!Submit
<1>3. ASSUME NEW t \in AllThreads, NEW f \in Functors, RunInLoop(t, f)
      PROVE  Tasks!Submit(f) \/ Tasks!RunNow(f)
  BY <1>2, <1>3 DEF RunInLoop, Tasks!RunNow
<1>4. ASSUME NEW t \in AllThreads, Quit(t) \/ Weakup(t)
      PROVE  UNCHANGED Tasks!vars
  BY <1>4 DEF Quit, Weakup
<1>5. ASSUME NEW t \in AllThreads, CallStep(t)
      PROVE  Tasks!Next \/ UNCHANGED Tasks!vars
  BY <1>2, <1>3, <1>4, <1>5 DEF CallStep
<1>6. CASE LoopStart \/ LoopExit
  BY <1>6 DEF LoopStart, LoopExit, Go, LoopingInside, Tasks!OpenOrClose
<1>7. CASE BeginPoll \/ BeginPendingFunctors \/ FunctorReturn
           \/ EndPendingFunctors \/ CallbackReturn \/ HandleRead
           \/ \E c \in IOChannels : HandleEvent(c)
  BY <1>7 DEF BeginPoll, BeginPendingFunctors, FunctorReturn,
              EndPendingFunctors, CallbackReturn, HandleRead, HandleEvent
<1>8. CASE PollWoken \/ PollIO \/ PollTimeout
  BY <1>8 DEF PollWoken, PollIO, PollTimeout, PollReturn
<1>9. CASE SwapFunctors
  <2>1. functors = <<>>
    BY <1>9 DEF SwapFunctors, Go, BatchOver
  <2>2. functors \o pendingFunctors = pendingFunctors
        /\ pendingFunctors \o functors = pendingFunctors
    BY <2>1, ConcatEmptySeq
  <2> QED BY <1>9, <2>2 DEF SwapFunctors, AfterSwap
<1>10. CASE RunFunctor
  <2>1. looping
    BY <1>10 DEF RunFunctor, Go, LoopingInside
  <2> QED BY <1>10, <2>1, ConcatHeadTail, ZenonT(60) DEF RunFunctor, Tasks!Execute
<1> QED
  BY <1>1, <1>5, <1>6, <1>7, <1>8, <1>9, <1>10 DEF Next, LoopStep, InsideLoop

(* The loop is a FIFO queue of functors: whatever the interleaving, they    *)
(* are run in the order they were queued, none twice and none skipped.      *)
THEOREM LoopIsTaskQueue == SafeSpec => TaskQueueRefined
<1>1. Init => Tasks!Init
  BY DEF Init, Tasks!Init
<1> QED BY <1>1, IInvAlways, RefinementStep, PTL
      DEF SafeSpec, TaskQueueRefined, Tasks!SafeSpec
=============================================================================

----------------------- MODULE EventLoopThreadProofs -----------------------
(***************************************************************************)
(* Theorems about EventLoopThread, for every set of threads and quitters   *)
(* and every owner among them.                                             *)
(***************************************************************************)
EXTENDS EventLoopThread, EventLoopProofs

(* The destructor has stored quit_, or is over.                             *)
DestructorQuit == owner \in {"weakup", "join", "gone"}

(* loop_ is set exactly between its two assignments in threadFunc.          *)
PublishedInLoop == loop_ <=> worker \in {"loop", "clear"}

(* A loop stops because the destructor or user code has quit it.            *)
QuitHasCause == quit => DestructorQuit \/ outsiders # {}
StopHasCause ==
  worker \in {"clear", "unlock", "dying", "finished"} =>
    DestructorQuit \/ outsiders # {}

(* There is no worker before startLoop, and startLoop waits for loop_.      *)
WorkerStarted == worker = "none" => owner \in {"constructed", "gone"}
NotStarted == owner = "constructed" => worker = "none"
UsedAfterPublication ==
  owner \in {"using", "tested"} => worker \notin {"none", "starting", "callback"}

ThreadInv ==
  /\ ThreadTypeOK
  /\ PublishedInLoop
  /\ QuitHasCause
  /\ StopHasCause
  /\ WorkerStarted
  /\ NotStarted
  /\ UsedAfterPublication
  /\ ObjectOutlivesWorker

-----------------------------------------------------------------------------
(* Every step of the life of an EventLoopThread is a step of its loop, or   *)
(* none: what is proved of EventLoop holds inside an EventLoopThread.       *)

LEMMA LifeStepIsLoopStep == [NextThread]_vars => [Next]_loopVars
<1> SUFFICES ASSUME [NextThread]_vars PROVE [Next]_loopVars
  OBVIOUS
<1> Owner \in AllThreads
  BY OwnerAssumption DEF AllThreads
<1>1. CASE UNCHANGED vars
  BY <1>1 DEF vars
<1>2. CASE StartLoop \/ ThreadStarted \/ WaitForLoop \/ SpuriousWakeup
           \/ Destroy \/ DestroyReads \/ Join
  BY <1>2 DEF StartLoop, ThreadStarted, WaitForLoop, SpuriousWakeup, Destroy,
              DestroyReads, Join
<1>3. CASE DestroyQuit \/ DestroyWeakup
  BY <1>3 DEF DestroyQuit, DestroyWeakup, Next, CallStep
<1>4. CASE ConstructLoop \/ Publish \/ ClearLoop \/ Unlock \/ DestroyLoop
  BY <1>4 DEF ConstructLoop, Publish, ClearLoop, Unlock, DestroyLoop
<1>5. CASE EnterLoop \/ Looping \/ LeaveLoop \/ IdlePoll
  BY <1>5 DEF EnterLoop, Looping, LeaveLoop, IdlePoll, Next, LoopStep
<1>6. ASSUME NEW t \in AllThreads, Call(t) \/ CallWeakup(t)
      PROVE Next
  BY <1>6 DEF Call, CallWeakup, Next, CallStep
<1> QED
  BY <1>1, <1>2, <1>3, <1>4, <1>5, <1>6 DEF NextThread, OwnerStep, WorkerStep

(* The loop of an EventLoopThread, with its callers restricted to those who *)
(* have its address and its thread to threadFunc, behaves as EventLoop: its *)
(* typing, its wakeups and its refinement of TaskQueue carry over.          *)
THEOREM ThreadRunsLoop == SpecThread => SafeSpec
<1>1. InitThread => Init
  BY DEF InitThread
<1> QED BY <1>1, LifeStepIsLoopStep, PTL DEF SpecThread, SafeSpec

-----------------------------------------------------------------------------
(* What user code and the loop itself do to quit_.                          *)

LEMMA QuitOnlyByQuit ==
  ASSUME TypeOK,
         InsideLoop \/ PollIO \/ PollTimeout
         \/ \E t \in AllThreads :
              Weakup(t) \/ \E f \in Functors : QueueInLoop(t, f) \/ RunInLoop(t, f)
  PROVE  quit' = quit
<1> USE DEF TypeOK, Typed
<1>1. CASE PollIO \/ PollTimeout
  BY <1>1 DEF PollIO, PollTimeout, PollReturn
<1>2. CASE InsideLoop
  BY <1>2 DEF InsideLoop, BeginPoll, PollWoken, PollReturn, HandleRead,
     HandleEvent, CallbackReturn, BeginPendingFunctors, SwapFunctors,
     RunFunctor, FunctorReturn, EndPendingFunctors
<1>3. ASSUME NEW t \in AllThreads,
             Weakup(t) \/ \E f \in Functors : QueueInLoop(t, f) \/ RunInLoop(t, f)
      PROVE quit' = quit
  BY <1>3 DEF Weakup, QueueInLoop, RunInLoop
<1> QED BY <1>1, <1>2, <1>3

LEMMA ThreadInitially == InitThread => ThreadInv
<1> SUFFICES ASSUME InitThread PROVE ThreadInv
  OBVIOUS
<1>1. /\ ~quit /\ ~loop_ /\ loop_ \in BOOLEAN
      /\ worker = "none" /\ owner = "constructed" /\ outsiders = {}
  BY Zenon DEF InitThread, Init
<1>2. worker \notin {"loop", "clear"} /\ owner # "wait"
  BY <1>1
<1>3. PublishedInLoop /\ QuitHasCause
  BY <1>1, <1>2, Zenon DEF PublishedInLoop, QuitHasCause
<1>4. worker \in WorkerPlaces /\ owner \in OwnerPlaces /\ outsiders \subseteq Quitters
  BY <1>1 DEF WorkerPlaces, OwnerPlaces
<1>5. ThreadTypeOK
  BY <1>1, <1>2, <1>4, Zenon DEF ThreadTypeOK
<1>6. StopHasCause /\ WorkerStarted /\ NotStarted
      /\ UsedAfterPublication /\ ObjectOutlivesWorker
  BY <1>1 DEF StopHasCause, WorkerStarted, NotStarted, UsedAfterPublication,
              ObjectOutlivesWorker, Running
<1> QED BY <1>3, <1>5, <1>6 DEF ThreadInv

LEMMA ThreadStep ==
  TypeOK /\ ThreadInv /\ [NextThread]_vars => ThreadInv'
<1> SUFFICES ASSUME TypeOK, ThreadInv, [NextThread]_vars PROVE ThreadInv'
  OBVIOUS
<1> quit \in BOOLEAN /\ loop_ \in BOOLEAN
  BY DEF TypeOK, Typed, ThreadInv, ThreadTypeOK
<1> USE DEF ThreadInv, ThreadTypeOK, PublishedInLoop, QuitHasCause,
        StopHasCause, WorkerStarted, NotStarted, UsedAfterPublication,
        ObjectOutlivesWorker, Running, DestructorQuit, WorkerPlaces, OwnerPlaces
<1>1. CASE UNCHANGED vars
  BY <1>1 DEF vars, loopVars, threadVars
<1>2. CASE StartLoop
  BY <1>2 DEF StartLoop, loopVars
<1>3. CASE ThreadStarted \/ SpuriousWakeup
  BY <1>3 DEF ThreadStarted, SpuriousWakeup, loopVars
<1>4. CASE WaitForLoop
  BY <1>4 DEF WaitForLoop, loopVars
<1>5. CASE Destroy
  BY <1>5 DEF Destroy, loopVars
<1>5a. CASE DestroyReads
  BY <1>5a DEF DestroyReads, loopVars
<1>6. CASE DestroyQuit
  BY <1>6 DEF DestroyQuit, Quit, QuitWakes
<1>7. CASE DestroyWeakup
  BY <1>7 DEF DestroyWeakup, Weakup
<1>8. CASE Join
  BY <1>8 DEF Join, MayJoin, loopVars
<1>9. CASE ConstructLoop
  BY <1>9 DEF ConstructLoop, WorkerGo, loopVars
<1>10. CASE Publish
  BY <1>10 DEF Publish, WorkerGo, Notified, loopVars
<1>11. CASE EnterLoop
  BY <1>11 DEF EnterLoop, LoopStart, threadVars
<1>12. CASE LeaveLoop
  BY <1>12 DEF LeaveLoop, LoopExit
<1>13. CASE ClearLoop
  BY <1>13 DEF ClearLoop, WorkerGo, Cleared, loopVars
<1>14. CASE Unlock \/ DestroyLoop
  BY <1>14 DEF Unlock, DestroyLoop, WorkerGo, loopVars
<1>15. CASE Looping \/ IdlePoll
  BY <1>15, QuitOnlyByQuit DEF Looping, IdlePoll, threadVars
<1>16. ASSUME NEW t \in AllThreads, CallWeakup(t)
       PROVE ThreadInv'
  BY <1>16, QuitOnlyByQuit DEF CallWeakup, threadVars
<1>17. ASSUME NEW t \in AllThreads, Call(t)
       PROVE ThreadInv'
  <2>1. ASSUME NEW f \in Functors, QueueInLoop(t, f) \/ RunInLoop(t, f),
               UNCHANGED threadVars
        PROVE ThreadInv'
    <3>1. quit' = quit
      BY <2>1, QuitOnlyByQuit
    <3> QED BY <2>1, <3>1 DEF threadVars
  <2>2. ASSUME t \in Quitters, outsiders' = outsiders \cup {t},
               UNCHANGED <<worker, owner, loop_>>
        PROVE ThreadInv'
    BY <2>2
  <2> QED BY <1>17, <2>1, <2>2 DEF Call, threadVars
<1> QED
  BY <1>1, <1>2, <1>3, <1>4, <1>5, <1>6, <1>7, <1>8, <1>9, <1>10, <1>11,
     <1>12, <1>13, <1>14, <1>15, <1>16, <1>17, <1>5a
  DEF NextThread, OwnerStep, WorkerStep

LEMMA ThreadInvariant == SpecThread => []ThreadInv
<1>1. SpecThread => []TypeOK
  BY ThreadRunsLoop, TypeCorrect, PTL
<1> QED BY <1>1, ThreadInitially, ThreadStep, PTL DEF SpecThread

(* The object's variables keep their types, and nobody sleeps in cond_.wait *)
(* while loop_ is published (EventLoopThread.cpp:31-33,45-47).              *)
THEOREM ThreadTypeCorrect == SpecThread => []ThreadTypeOK
BY ThreadInvariant, PTL DEF ThreadInv

(* A loop_ that is not null is the address of a live loop                   *)
(* (EventLoopThread.cpp:45-53).                                             *)
THEOREM PublishedIsAlive == SpecThread => []PublishedLoopIsAlive
<1>1. ThreadInv => PublishedLoopIsAlive
  BY DEF ThreadInv, PublishedInLoop, PublishedLoopIsAlive, LoopAlive
<1> QED BY <1>1, ThreadInvariant, PTL

(* Unless user code quits the loop, the mutex and the callback outlive the  *)
(* worker that uses them: the destructor finds loop_ set and joins          *)
(* (EventLoopThread.cpp:18-23).                                             *)
THEOREM WorkerIsJoined == SpecThread => []ObjectOutlivesWorker
BY ThreadInvariant, PTL DEF ThreadInv
=============================================================================

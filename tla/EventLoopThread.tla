-------------------------- MODULE EventLoopThread --------------------------
(***************************************************************************)
(* An EventLoopThread (muduo/EventLoopThread.cpp over muduo/Thread.cpp):   *)
(* the owner constructs it, starts the loop's thread with startLoop, uses  *)
(* the loop and finally destroys the object; the worker, which is          *)
(* LoopThread, runs threadFunc around EventLoop::loop.                     *)
(*                                                                         *)
(* Every step of EventLoop is a step here, restricted to when the caller   *)
(* has the loop's address.  The mutex is a variable only where the order   *)
(* of its release matters: the worker still holds it, inside an object the *)
(* owner may be destroying, after it has cleared loop_.                    *)
(***************************************************************************)
EXTENDS EventLoop

CONSTANTS
  Owner,      \* the thread that owns the EventLoopThread
  Quitters    \* the threads whose user code calls quit(); the destructor
              \* calls it whoever is listed here

ASSUME OwnerAssumption == Owner \in Threads
ASSUME QuitterAssumption == Quitters \subseteq AllThreads

VARIABLES
  worker,    \* where threadFunc is
  owner,     \* where the owner is in the life of the object
  loop_,     \* loop_ is the address of the loop, and not null
  outsiders  \* history: the threads whose user code has called quit()

threadVars == <<worker, owner, loop_, outsiders>>
vars == <<loopVars, threadVars>>

(* "none": no thread; "starting": before Thread::start has its tid;         *)
(* "callback": the loop exists and callback_(&loop) runs; "loop": loop_ is  *)
(* published; "clear": loop.loop() returned; "unlock": loop_ is null and    *)
(* the mutex still held; "dying": the mutex is released, ~EventLoop comes   *)
(* next; "finished": threadFunc has returned.                               *)
WorkerPlaces == {"none", "starting", "callback", "loop", "clear", "unlock",
                 "dying", "finished"}

(* "constructed": before startLoop; "tid": in Thread::start, waiting for    *)
(* the semaphore; "lock": about to test loop_ in startLoop; "wait": in      *)
(* cond_.wait; "using": startLoop has returned; "tested": in the destructor *)
(* after its test of loop_; "quit": it has read loop_ again and calls       *)
(* quit(); "weakup": inside that quit(); "join": in join(); "gone": the     *)
(* object and its mutex are destroyed; "crashed": quit() was called on a    *)
(* null pointer, which ends the process.                                    *)
OwnerPlaces == {"constructed", "tid", "lock", "wait", "using", "tested",
                "quit", "weakup", "join", "gone", "crashed"}

LoopAlive == worker \in {"callback", "loop", "clear", "unlock", "dying"}
MutexFree == worker # "unlock"
Running == owner # "crashed"

InitThread ==
  /\ Init
  /\ worker = "none"
  /\ owner = "constructed"
  /\ loop_ = FALSE
  /\ outsiders = {}

-----------------------------------------------------------------------------
(* The owner.                                                               *)

StartLoop ==
  /\ owner = "constructed"
  /\ owner' = "tid"
  /\ worker' = "starting"
  /\ UNCHANGED <<loopVars, loop_, outsiders>>

(* sem_wait returns once the new thread has stored its tid.                 *)
ThreadStarted ==
  /\ owner = "tid"
  /\ worker # "starting"
  /\ owner' = "lock"
  /\ UNCHANGED <<loopVars, worker, loop_, outsiders>>

(* The test of the while: it is made, again, each time the lock is had.     *)
WaitForLoop ==
  /\ owner = "lock"
  /\ MutexFree
  /\ owner' = IF loop_ THEN "using" ELSE "wait"
  /\ UNCHANGED <<loopVars, worker, loop_, outsiders>>

(* cond_.wait may also return for no reason at all.                         *)
SpuriousWakeup ==
  /\ owner = "wait"
  /\ owner' = "lock"
  /\ UNCHANGED <<loopVars, worker, loop_, outsiders>>

(* ~EventLoopThread tests loop_ without the mutex.  When it is null there   *)
(* is no quit and no join: the thread, if there is one, is detached.        *)
Destroy ==
  /\ owner \in {"constructed", "using"}
  /\ Owner \notin mustWeakup
  /\ owner' = IF loop_ THEN "tested" ELSE "gone"
  /\ UNCHANGED <<loopVars, worker, loop_, outsiders>>

(* loop_->quit() reads loop_ a second time, still without the mutex.        *)
DestroyReads ==
  /\ owner = "tested"
  /\ owner' = IF loop_ THEN "quit" ELSE "crashed"
  /\ UNCHANGED <<loopVars, worker, loop_, outsiders>>

DestroyQuit ==
  /\ owner = "quit"
  /\ Quit(Owner)
  /\ owner' = IF QuitWakes(Owner) THEN "weakup" ELSE "join"
  /\ UNCHANGED <<worker, loop_, outsiders>>

DestroyWeakup ==
  /\ owner = "weakup"
  /\ Weakup(Owner)
  /\ owner' = "join"
  /\ UNCHANGED <<worker, loop_, outsiders>>

MayJoin_Detached == TRUE

(* thread_.join() returns when threadFunc has.                              *)
MayJoin == worker = "finished"

Join ==
  /\ owner = "join"
  /\ MayJoin
  /\ owner' = "gone"
  /\ UNCHANGED <<loopVars, worker, loop_, outsiders>>

-----------------------------------------------------------------------------
(* The worker.                                                              *)

WorkerGo(from, to) ==
  /\ worker = from
  /\ LoopThread \notin mustWeakup
  /\ worker' = to

(* The tid is stored, the semaphore posted, and the loop constructed.       *)
ConstructLoop ==
  /\ WorkerGo("starting", "callback")
  /\ UNCHANGED <<loopVars, owner, loop_, outsiders>>

Notified_Nobody == owner

(* Who waits on cond_ is woken, and will want the lock.                     *)
Notified == IF owner = "wait" THEN "lock" ELSE owner

Publish ==
  /\ WorkerGo("callback", "loop")
  /\ loop_' = TRUE
  /\ owner' = Notified
  /\ UNCHANGED <<loopVars, outsiders>>

EnterLoop ==
  /\ worker = "loop"
  /\ LoopStart
  /\ UNCHANGED threadVars

LeaveLoop ==
  /\ worker = "loop"
  /\ LoopExit
  /\ worker' = "clear"
  /\ UNCHANGED <<owner, loop_, outsiders>>

Cleared_Kept == loop_
Cleared == FALSE

ClearLoop ==
  /\ WorkerGo("clear", "unlock")
  /\ loop_' = Cleared
  /\ UNCHANGED <<loopVars, owner, outsiders>>

Unlock ==
  /\ WorkerGo("unlock", "dying")
  /\ UNCHANGED <<loopVars, owner, loop_, outsiders>>

DestroyLoop ==
  /\ WorkerGo("dying", "finished")
  /\ UNCHANGED <<loopVars, owner, loop_, outsiders>>

-----------------------------------------------------------------------------
(* The steps of EventLoop inside this life.                                 *)

(* User code of t reaches the loop: the worker's through callback_ and what *)
(* runs inside loop(), the owner's through the result of startLoop.         *)
HasLoop(t) ==
  IF t = LoopThread THEN worker = "callback" \/ looping
                    ELSE t = Owner /\ owner = "using" /\ LoopAlive

Call(t) ==
  /\ Running
  /\ HasLoop(t)
  /\ \/ /\ \E f \in Functors : QueueInLoop(t, f) \/ RunInLoop(t, f)
        /\ UNCHANGED outsiders
     \/ /\ t \in Quitters
        /\ Quit(t)
        /\ outsiders' = outsiders \cup {t}
  /\ UNCHANGED <<worker, owner, loop_>>

CallWeakup(t) ==
  /\ Running
  /\ t = Owner => owner # "weakup"
  /\ Weakup(t)
  /\ UNCHANGED threadVars

Looping ==
  /\ InsideLoop
  /\ UNCHANGED threadVars

IdlePoll ==
  /\ Running
  /\ PollIO \/ PollTimeout
  /\ UNCHANGED threadVars

WorkerStep ==
  /\ Running
  /\ \/ ConstructLoop
     \/ Publish
     \/ EnterLoop
     \/ Looping
     \/ LeaveLoop
     \/ ClearLoop
     \/ Unlock
     \/ DestroyLoop

OwnerStep ==
  \/ ThreadStarted
  \/ WaitForLoop
  \/ DestroyReads
  \/ DestroyQuit
  \/ DestroyWeakup
  \/ Join

NextThread ==
  \/ StartLoop
  \/ OwnerStep
  \/ SpuriousWakeup
  \/ Destroy
  \/ WorkerStep
  \/ IdlePoll
  \/ \E t \in AllThreads : Call(t) \/ CallWeakup(t)

(* Both threads are scheduled and calls already begun go on; nobody has to  *)
(* call startLoop, the destructor or the loop, and nothing wakes a waiting  *)
(* owner but the notification.                                              *)
SpecThread ==
  /\ InitThread /\ [][NextThread]_vars
  /\ WF_vars(WorkerStep)
  /\ WF_vars(OwnerStep)
  /\ \A t \in AllThreads : WF_vars(CallWeakup(t))

-----------------------------------------------------------------------------
(* Properties.                                                              *)

(* Every variable of the object has its type, and nobody sleeps in          *)
(* cond_.wait while loop_ is published (EventLoopThread.cpp:45-47).         *)
ThreadTypeOK ==
  /\ worker \in WorkerPlaces
  /\ owner \in OwnerPlaces
  /\ loop_ \in BOOLEAN
  /\ outsiders \subseteq Quitters
  /\ owner = "wait" => ~loop_

(* loop_ never outlives the loop: whoever reads it non-null under the mutex *)
(* finds a loop that has not been destroyed (EventLoopThread.cpp:51-53).    *)
PublishedLoopIsAlive == loop_ => LoopAlive

(* As long as the destructor is the only one to end the loop, the object,   *)
(* with the mutex and the callback the worker uses, is not destroyed under  *)
(* a worker that is still in threadFunc: the destructor joins it            *)
(* (EventLoopThread.cpp:20-23); and its two reads of loop_, made without    *)
(* the mutex, agree.  A loop that user code quits may be between loop_ =    *)
(* nullptr and the unlock, and become null between the two reads.           *)
ObjectOutlivesWorker ==
  outsiders = {} =>
    /\ owner = "gone" => worker \in {"none", "finished"}
    /\ Running

(* startLoop returns: the notification is not lost between the test of      *)
(* loop_ and the wait (EventLoopThread.cpp:31-33 with 45-47).  The one      *)
(* exception is a loop that user code has quit: loop_ may be null again     *)
(* before startLoop has the mutex.                                          *)
StartReturns ==
  owner = "tid" ~> owner \notin {"tid", "lock", "wait"} \/ outsiders # {}

(* A destructor that finds the worker inside loop() returns: its quit stops *)
(* the loop, threadFunc ends, join() returns.                               *)
DestroyReturnsFromLoop ==
  owner \in {"weakup", "join"} /\ quit /\ looping ~> owner = "gone"

(* The destructor always returns: "quit the event loop" (EventLoop.h:25).   *)
(* A worker that has published loop_ and not yet entered loop() refutes it: *)
(* loop() resets quit_ (EventLoop.cpp:60) and join() waits for ever.        *)
DestroyReturns == owner = "tested" ~> owner = "gone"
=============================================================================

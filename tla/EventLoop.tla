----------------------------- MODULE EventLoop -----------------------------
(***************************************************************************)
(* One EventLoop (muduo/EventLoop.cpp): its own thread, which polls,       *)
(* dispatches channel callbacks and runs the functors queued for it, and   *)
(* the other threads that queue functors and ask it to quit.               *)
(*                                                                         *)
(* Steps are cut where another thread can see the difference: queueInLoop  *)
(* appends under the mutex and only afterwards writes the eventfd; quit    *)
(* stores quit_ and only afterwards writes the eventfd;                    *)
(* doPendingFunctors raises its flag, swaps the vectors under the mutex    *)
(* and then runs the batch without the mutex.                              *)
(*                                                                         *)
(* poll is taken at the contract of the abstract class Poller: it hands    *)
(* back exactly the channels that are ready.  What EpollPoller does is     *)
(* the subject of module EpollPoller.                                      *)
(***************************************************************************)
EXTENDS Naturals, Sequences

CONSTANTS
  LoopThread,      \* the thread of threadId_, which constructed the loop
  Threads,         \* the other threads that hold a pointer to the loop
  WeakupChannel,   \* weakupChannel_, the channel of the eventfd weakupFd_
  IOChannels,      \* the other channels registered with the loop
  Functors,        \* the functors callers submit, each at most once
  MaxCount         \* the largest value the eventfd counter can hold

ASSUME ThreadAssumption == LoopThread \notin Threads
ASSUME ChannelAssumption == WeakupChannel \notin IOChannels
ASSUME CountAssumption == MaxCount \in Nat \ {0}

VARIABLES
  pc,                      \* where the loop's thread is
  looping,                 \* looping_
  quit,                    \* quit_
  callingPendingFunctors,  \* callingPendingFunctors_
  pendingFunctors,         \* pendingFunctors_, guarded by mutex
  functors,                \* the local vector of doPendingFunctors
  activateChannels,        \* activateChannels_ not yet dispatched
  weakupCount,             \* the counter behind weakupFd_
  mustWeakup,              \* threads whose next step is weakup()
  submitted,               \* history: functors handed over so far
  early,                   \* history: queued by the loop's thread outside loop()
  ran                      \* history: functors started, in order

loopVars == <<pc, looping, quit, callingPendingFunctors, pendingFunctors,
              functors, activateChannels, weakupCount, mustWeakup, submitted,
              early, ran>>

AllThreads == Threads \cup {LoopThread}

(* "idle": outside loop(); "check": at while (!quit_); "poll": in poll();   *)
(* "handle": in the dispatch loop; "callback": inside a channel's callback; *)
(* "swap", "run", "functor": in doPendingFunctors, before the swap, between *)
(* functors and inside one.                                                 *)
Places == {"idle", "check", "poll", "handle", "callback", "swap", "run",
           "functor"}

Init ==
  /\ pc = "idle"
  /\ looping = FALSE
  /\ quit = FALSE
  /\ callingPendingFunctors = FALSE
  /\ pendingFunctors = <<>>
  /\ functors = <<>>
  /\ activateChannels = {}
  /\ weakupCount = 0
  /\ mustWeakup = {}
  /\ submitted = {}
  /\ early = {}
  /\ ran = <<>>

-----------------------------------------------------------------------------
(* Calls into the loop, from any thread.                                    *)

(* t runs user code, so it may call a member of the loop.  The loop's own   *)
(* thread does so in callbacks, in functors and outside loop().             *)
InUserCode(t) ==
  /\ t \notin mustWeakup
  /\ t = LoopThread => pc \in {"idle", "callback", "functor"}

NeedsWeakup_OtherThreadsOnly(t) == t # LoopThread

(* The test of queueInLoop.  Only the loop's thread ever reads the flag,    *)
(* and only that thread writes it, so it is tested with the append.         *)
NeedsWeakup(t) == t # LoopThread \/ callingPendingFunctors

(* The vector after emplace_back.                                           *)
Emplaced(f) == Append(pendingFunctors, f)

(* queueInLoop: append under the mutex, then weakup() if the test says so.  *)
QueueInLoop(t, f) ==
  /\ InUserCode(t)
  /\ f \notin submitted
  /\ pendingFunctors' = Emplaced(f)
  /\ mustWeakup' = IF NeedsWeakup(t) THEN mustWeakup \cup {t} ELSE mustWeakup
  /\ submitted' = submitted \cup {f}
  /\ early' = IF t = LoopThread /\ pc = "idle" THEN early \cup {f} ELSE early
  /\ UNCHANGED <<pc, looping, quit, callingPendingFunctors, functors,
                 activateChannels, weakupCount, ran>>

(* runInLoop: at once on the loop's thread, queued from any other.          *)
RunInLoop(t, f) ==
  \/ /\ t = LoopThread
     /\ InUserCode(t)
     /\ f \notin submitted
     /\ submitted' = submitted \cup {f}
     /\ ran' = Append(ran, f)
     /\ UNCHANGED <<pc, looping, quit, callingPendingFunctors,
                    pendingFunctors, functors, activateChannels, weakupCount,
                    mustWeakup, early>>
  \/ /\ t # LoopThread
     /\ QueueInLoop(t, f)

QuitWakes_Never(t) == FALSE

(* quit wakes the loop when it is called from another thread.               *)
QuitWakes(t) == t # LoopThread

(* quit: the store; the weakup() of another thread follows.                 *)
Quit(t) ==
  /\ InUserCode(t)
  /\ quit' = TRUE
  /\ mustWeakup' = IF QuitWakes(t) THEN mustWeakup \cup {t} ELSE mustWeakup
  /\ UNCHANGED <<pc, looping, callingPendingFunctors, pendingFunctors,
                 functors, activateChannels, weakupCount, submitted, early,
                 ran>>

(* Adding one to the eventfd.  The descriptor is non-blocking, so at its    *)
(* limit the write fails, is logged, and leaves the counter where it was.   *)
EventfdAdd(n) == IF n < MaxCount THEN n + 1 ELSE n

(* weakup, called without the mutex.                                        *)
Weakup(t) ==
  /\ t \in mustWeakup
  /\ mustWeakup' = mustWeakup \ {t}
  /\ weakupCount' = EventfdAdd(weakupCount)
  /\ UNCHANGED <<pc, looping, quit, callingPendingFunctors, pendingFunctors,
                 functors, activateChannels, submitted, early, ran>>

-----------------------------------------------------------------------------
(* The loop's own thread, in loop().                                        *)

(* The loop's thread leaves "from" for "to"; not in the middle of a call.   *)
Go(from, to) ==
  /\ pc = from
  /\ LoopThread \notin mustWeakup
  /\ pc' = to

(* Entering loop(): whatever quit_ was, it is reset.  A quit() between the  *)
(* two stores is lost like one before them, and no other thread reads       *)
(* looping_, so they are one step.                                          *)
LoopStart ==
  /\ Go("idle", "check")
  /\ looping' = TRUE
  /\ quit' = FALSE
  /\ UNCHANGED <<callingPendingFunctors, pendingFunctors, functors,
                 activateChannels, weakupCount, mustWeakup, submitted, early,
                 ran>>

LoopExit ==
  /\ Go("check", "idle")
  /\ quit
  /\ looping' = FALSE
  /\ UNCHANGED <<quit, callingPendingFunctors, pendingFunctors, functors,
                 activateChannels, weakupCount, mustWeakup, submitted, early,
                 ran>>

BeginPoll ==
  /\ Go("check", "poll")
  /\ ~quit
  /\ activateChannels' = {}
  /\ UNCHANGED <<looping, quit, callingPendingFunctors, pendingFunctors,
                 functors, weakupCount, mustWeakup, submitted, early, ran>>

(* poll returns the ready channels.                                         *)
PollReturn(ready) ==
  /\ Go("poll", "handle")
  /\ activateChannels' = ready
  /\ UNCHANGED <<looping, quit, callingPendingFunctors, pendingFunctors,
                 functors, weakupCount, mustWeakup, submitted, early, ran>>

(* The eventfd is readable, and any of the other channels may be too.       *)
PollWoken ==
  /\ weakupCount > 0
  /\ \E io \in SUBSET IOChannels : PollReturn(io \cup {WeakupChannel})

(* Only other channels are ready: up to the peers, never to be relied on.   *)
PollIO ==
  /\ weakupCount = 0
  /\ \E io \in SUBSET IOChannels \ {{}} : PollReturn(io)

(* kPollTimeMs passed, or a signal interrupted epoll_wait.                  *)
PollTimeout ==
  /\ weakupCount = 0
  /\ PollReturn({})

(* The weakup channel's callback, handleRead: reading the eventfd takes the *)
(* whole counter.                                                           *)
HandleRead ==
  /\ Go("handle", "handle")
  /\ WeakupChannel \in activateChannels
  /\ activateChannels' = activateChannels \ {WeakupChannel}
  /\ weakupCount' = 0
  /\ UNCHANGED <<looping, quit, callingPendingFunctors, pendingFunctors,
                 functors, mustWeakup, submitted, early, ran>>

(* Any other channel: its callback is user code.                            *)
HandleEvent(c) ==
  /\ Go("handle", "callback")
  /\ c \in activateChannels \ {WeakupChannel}
  /\ activateChannels' = activateChannels \ {c}
  /\ UNCHANGED <<looping, quit, callingPendingFunctors, pendingFunctors,
                 functors, weakupCount, mustWeakup, submitted, early, ran>>

CallbackReturn ==
  /\ Go("callback", "handle")
  /\ UNCHANGED <<looping, quit, callingPendingFunctors, pendingFunctors,
                 functors, activateChannels, weakupCount, mustWeakup,
                 submitted, early, ran>>

-----------------------------------------------------------------------------
(* doPendingFunctors.                                                       *)

BeginPendingFunctors ==
  /\ Go("handle", "swap")
  /\ activateChannels = {}
  /\ callingPendingFunctors' = TRUE
  /\ UNCHANGED <<looping, quit, pendingFunctors, functors, activateChannels,
                 weakupCount, mustWeakup, submitted, early, ran>>

AfterSwap_Copied == pendingFunctors

(* What swap leaves in pendingFunctors_: the local vector's old contents.   *)
AfterSwap == functors

SwapFunctors ==
  /\ Go("swap", "run")
  /\ functors' = pendingFunctors
  /\ pendingFunctors' = AfterSwap
  /\ UNCHANGED <<looping, quit, callingPendingFunctors, activateChannels,
                 weakupCount, mustWeakup, submitted, early, ran>>

RunFunctor ==
  /\ Go("run", "functor")
  /\ functors # <<>>
  /\ ran' = Append(ran, Head(functors))
  /\ functors' = Tail(functors)
  /\ UNCHANGED <<looping, quit, callingPendingFunctors, pendingFunctors,
                 activateChannels, weakupCount, mustWeakup, submitted, early>>

FunctorReturn ==
  /\ Go("functor", "run")
  /\ UNCHANGED <<looping, quit, callingPendingFunctors, pendingFunctors,
                 functors, activateChannels, weakupCount, mustWeakup,
                 submitted, early, ran>>

FlagAfterBatch_StillUp == callingPendingFunctors

(* The flag is lowered when the batch is over, whatever it contained.       *)
FlagAfterBatch == FALSE

EndPendingFunctors ==
  /\ Go("run", "check")
  /\ functors = <<>>
  /\ callingPendingFunctors' = FlagAfterBatch
  /\ UNCHANGED <<looping, quit, pendingFunctors, functors, activateChannels,
                 weakupCount, mustWeakup, submitted, early, ran>>

-----------------------------------------------------------------------------

(* What the loop's thread does inside loop() without anybody's help.        *)
InsideLoop ==
  \/ BeginPoll
  \/ PollWoken
  \/ HandleRead
  \/ \E c \in IOChannels : HandleEvent(c)
  \/ CallbackReturn
  \/ BeginPendingFunctors
  \/ SwapFunctors
  \/ RunFunctor
  \/ FunctorReturn
  \/ EndPendingFunctors

LoopStep == LoopExit \/ InsideLoop

CallStep(t) ==
  \/ \E f \in Functors : QueueInLoop(t, f) \/ RunInLoop(t, f)
  \/ Quit(t)
  \/ Weakup(t)

Next ==
  \/ LoopStart
  \/ LoopStep
  \/ PollIO
  \/ PollTimeout
  \/ \E t \in AllThreads : CallStep(t)

SafeSpec == Init /\ [][Next]_loopVars

(* Threads are scheduled, so the loop's thread keeps stepping and a thread  *)
(* inside queueInLoop or quit reaches its weakup(); callbacks and functors  *)
(* return.  Nothing makes a peer send, a caller call, or epoll_wait time    *)
(* out: what is shown with this fairness does not lean on kPollTimeMs.      *)
Fairness ==
  /\ WF_loopVars(LoopStep)
  /\ \A t \in AllThreads : WF_loopVars(Weakup(t))

Spec == SafeSpec /\ Fairness

-----------------------------------------------------------------------------
(* Properties.                                                              *)

Typed ==
  /\ pc \in Places
  /\ looping \in BOOLEAN
  /\ quit \in BOOLEAN
  /\ callingPendingFunctors \in BOOLEAN
  /\ pendingFunctors \in Seq(Functors)
  /\ functors \in Seq(Functors)
  /\ activateChannels \in SUBSET (IOChannels \cup {WeakupChannel})
  /\ weakupCount \in 0 .. MaxCount
  /\ mustWeakup \in SUBSET AllThreads
  /\ submitted \in SUBSET Functors
  /\ early \in SUBSET Functors
  /\ ran \in Seq(Functors)

(* The flag of doPendingFunctors is up from before the swap to the end.     *)
FlagUp == callingPendingFunctors <=> pc \in {"swap", "run", "functor"}

(* The local vector of doPendingFunctors is empty outside its loop.         *)
BatchOver == pc \notin {"run", "functor"} => functors = <<>>

(* looping_ is set exactly inside loop().                                   *)
LoopingInside == looping <=> pc # "idle"

(* Every variable has its type, and where the loop's thread is decides      *)
(* callingPendingFunctors_, looping_ and whether functors of a batch are    *)
(* left: a pass through loop() ends as it began (EventLoop.cpp:58-75 and    *)
(* 115-126), whoever calls in and whatever the functors queue.              *)
TypeOK == Typed /\ FlagUp /\ BatchOver /\ LoopingInside

(* Some functor waits that the loop's thread did not queue outside loop().  *)
AwaitsWeakup ==
  \E i \in 1 .. Len(pendingFunctors) : pendingFunctors[i] \notin early

WeakupComing == weakupCount > 0 \/ mustWeakup # {}

(* No lost wakeup (EventLoop.cpp:107-112): when the loop is in poll() or    *)
(* about to enter it, and a functor was queued from another thread or from  *)
(* inside loop(), then the eventfd is readable or the thread that will make *)
(* it so is on its way.  handleRead clears the counter for all wakeups at   *)
(* once, so this rests on the order read, raise the flag, swap, run.  What   *)
(* the loop's own thread queues before loop() is the exception: queueInLoop *)
(* sees neither another thread nor the flag, and such a functor may wait    *)
(* for kPollTimeMs.                                                         *)
NoLostWakeup == pc \in {"check", "poll"} /\ AwaitsWeakup => WeakupComing

RangeOf(s) == {s[i] : i \in 1 .. Len(s)}

(* Every functor queued while the loop can be woken is run, or the loop     *)
(* stops, and without waiting for kPollTimeMs to expire.                    *)
QueuedRuns ==
  \A f \in Functors :
    f \in submitted \ early ~> f \in RangeOf(ran) \/ ~looping

(* A quit() that reaches a loop inside loop() stops it, also when the loop  *)
(* was blocked in poll() or had already passed its test of quit_.           *)
QuitStops == looping /\ quit ~> ~looping

(* The loop implements TaskQueue: the queue a caller sees is what is left   *)
(* of the batch being run followed by what has been queued since            *)
(* (EventLoop.cpp:115-126).  That it is drained is QueuedRuns.              *)
Tasks == INSTANCE TaskQueue WITH
           queue <- functors \o pendingFunctors,
           open  <- looping

TaskQueueRefined == Tasks!SafeSpec
=============================================================================

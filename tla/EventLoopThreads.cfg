\* Two threads and the loop's own, three functors, an eventfd that saturates.
CONSTANTS
  LoopThread = loopThread
  Threads = {t1, t2}
  WeakupChannel = weakupChannel
  IOChannels = {io1}
  Functors = {f1, f2, f3}
  MaxCount = 2
SPECIFICATION Spec
INVARIANT TypeOK
INVARIANT NoLostWakeup
PROPERTY QueuedRuns
PROPERTY QuitStops
PROPERTY TaskQueueRefined

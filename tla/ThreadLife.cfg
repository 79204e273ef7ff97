\* The destructor, what runs in the loop and the owner may all end it.
CONSTANTS
  LoopThread = worker
  Threads = {owner}
  Owner = owner
  Quitters = {worker, owner}
  WeakupChannel = weakupChannel
  IOChannels = {io1}
  Functors = {f1, f2}
  MaxCount = 1
SPECIFICATION SpecThread
CHECK_DEADLOCK FALSE
INVARIANT ThreadTypeOK
INVARIANT ObjectOutlivesWorker
INVARIANT PublishedLoopIsAlive
PROPERTY StartReturns
PROPERTY DestroyReturnsFromLoop

\* A destructor that is faster than loop().
CONSTANTS
  LoopThread = worker
  Threads = {owner}
  Owner = owner
  Quitters = {}
  WeakupChannel = weakupChannel
  IOChannels = {io1}
  Functors = {f1, f2}
  MaxCount = 1
SPECIFICATION SpecThread
CHECK_DEADLOCK FALSE
PROPERTY DestroyReturns

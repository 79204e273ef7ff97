\* No pool, a pool of one loop and a pool of two; three clients.
CONSTANTS
  MaxThreads = 2
  MaxConns = 3
SPECIFICATION Spec
\* The server and its loops may all end.
CHECK_DEADLOCK FALSE
INVARIANT TypeOK
PROPERTY LivesOnce
INVARIANT FreedDisconnected
INVARIANT RegisteredIsAlive
INVARIANT CloseCallbacksEnd
INVARIANT RoundRobin
PROPERTY ClosedIsForgotten

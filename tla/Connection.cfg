\* Two threads and the loop's own send and shut down, the server may go.
CONSTANTS
  kReadEvent <- ReadBit
  kWriteEvent <- WriteBit
  Callers = {t1, t2}
  Msgs = {m1, m2}
  Size = 2
  HighWaterMark = 3
  Uses = {"threadsSend", "threadsShutdown", "serverDestructs"}
SPECIFICATION Spec
CHECK_DEADLOCK FALSE
INVARIANT TypeOK
INVARIANT StreamIntact
INVARIANT ShutdownAfterOutput
INVARIANT CloseAsserts
INVARIANT EndsDisconnected
PROPERTY LivesOnce
PROPERTY HighWaterCrossings
PROPERTY ClosedIsFreed

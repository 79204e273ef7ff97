\* A temporary string sent from another thread.
CONSTANTS
  kReadEvent <- ReadBit
  kWriteEvent <- WriteBit
  Callers = {t1}
  Msgs = {m1}
  Size = 2
  HighWaterMark = 3
  Uses = {"threadsSend", "stringsDie"}
SPECIFICATION SafeSpec
CHECK_DEADLOCK FALSE
INVARIANT SentAsPassed

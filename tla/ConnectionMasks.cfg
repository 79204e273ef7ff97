\* The masks of Channel.cpp, which share EPOLLPRI.
CONSTANTS
  kReadEvent <- CodeReadEvent
  kWriteEvent <- CodeWriteEvent
  Callers = {t1}
  Msgs = {m1}
  Size = 2
  HighWaterMark = 3
  Uses = {"threadsSend"}
SPECIFICATION SafeSpec
CHECK_DEADLOCK FALSE
INVARIANT OutputArmed

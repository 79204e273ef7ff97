\* The array of events_ is larger than what one poll reports.
CONSTANTS
  kReadEvent <- CodeReadEvent
  kWriteEvent <- CodeWriteEvent
  Channels = {c1, c2}
  Fds = {fd1, fd2}
  Null = null
  kInitEventsListSize = 2
  MaxListSize = 2
SPECIFICATION Spec
CONSTRAINT ListBound
INVARIANT OnlyActiveFilled
CHECK_DEADLOCK FALSE

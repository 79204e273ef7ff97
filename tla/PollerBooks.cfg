\* Two descriptors, two channels that may follow each other on one, two slots, then four.
CONSTANTS
  kReadEvent <- CodeReadEvent
  kWriteEvent <- CodeWriteEvent
  Channels = {c1, c2}
  Fds = {fd1, fd2}
  Null = null
  kInitEventsListSize = 2
  MaxListSize = 4
SPECIFICATION Spec
CONSTRAINT ListBound
INVARIANT TypeOK
INVARIANT BooksAgree
INVARIANT CtlNeverFatal
INVARIANT BatchIsAlive
PROPERTY SurvivingPollIsExact
CHECK_DEADLOCK FALSE

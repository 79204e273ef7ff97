\* Two users and the worker, two observers in a list of at most two.
CONSTANTS
  Users = {t1, t2}
  Worker = worker
  Observers = {o1, o2}
  Msgs = {m1, m2}
  Empty = empty
  MaxEntries = 2
  MaxAgain = 1
  MaxNested = 2
SPECIFICATION Spec
\* The Subject may be destroyed, or the run end.
CHECK_DEADLOCK FALSE
INVARIANT TypeOK
INVARIANT NotificationOrder
INVARIANT SeenInOrder
INVARIANT DrainedAtEnd
PROPERTY WorkerServes
PROPERTY DestructorReturns

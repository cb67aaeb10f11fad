\* A payload of three values stands for 2^32; with six pushes it wraps twice, and the
\* window is the largest the payload can tell apart.
SPECIFICATION MCSpec
CONSTANTS
  Items = {i1}
  Callers = {c1, c2}
  Kthread = Kthread
  PayloadRange = 3
  Window = 2
  MaxQueued = 6
  Waiters = {w1, w2}
  NoThread = NoThread
  Threads = {t1, t2, t3}
  Objects = {g1, g2}
  AddFailures = {"init", "queue", "register"}
INVARIANT SemaphoreCountsItems
INVARIANT FlushWaitsForItems
INVARIANT StopDrains
PROPERTY WorkCompletes
INVARIANT ToldIsReleased
PROPERTY ImplementsCounter
PROPERTY WaitReturns
INVARIANT LockHandedOver
INVARIANT InterruptsFollowHolders
INVARIANT RemovedIsQuiet
INVARIANT KrefExact
PROPERTY CallsReturn

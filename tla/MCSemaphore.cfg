\* Three threads and an interrupt handler share two semaphores.
SPECIFICATION Spec
CONSTANTS
  t1 = t1
  t2 = t2
  t3 = t3
  h1 = h1
  Threads = {t1, t2, t3}
  Handlers = {h1}
  MaxSemaphores = 2
  Values = {0, 1}
  MaxPermits = 3
SYMMETRY Symmetry
INVARIANTS
  ValueCountsWaiters
  PermitsConserved
  IInv
PROPERTIES
  ReleasedByHolder
  Refines
\* Every thread may wait for a semaphore that nobody raises any more.
CHECK_DEADLOCK FALSE

\* Three threads, two processors that take interrupts, one disk; two
\* semaphores, so that destroyed semaphores are used again at once;
\* with the fairness of the device and the processors.
SPECIFICATION FairDiskSpec
CONSTANTS
  t1 = t1
  t2 = t2
  t3 = t3
  h1 = h1
  h2 = h2
  d1 = d1
  d2 = d2
  Threads = {t1, t2, t3}
  Handlers = {h1, h2}
  Disks = {d1}
  MaxSemaphores = 2
  Values = {0}
  MaxPermits = 0
INVARIANTS
  DeviceInStep
  RequestsAlive
  SleepersPending
PROPERTIES
  ReturnsWhenDone
  RequestsFinish

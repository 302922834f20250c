\* Two disks that share the two semaphores.
SPECIFICATION DiskSpec
CONSTANTS
  t1 = t1
  t2 = t2
  t3 = t3
  h1 = h1
  h2 = h2
  d1 = d1
  d2 = d2
  Threads = {t1, t2, t3}
  Handlers = {h1, h2}
  Disks = {d1, d2}
  MaxSemaphores = 2
  Values = {0}
  MaxPermits = 0
SYMMETRY Symmetry
INVARIANT
  SleepersPending

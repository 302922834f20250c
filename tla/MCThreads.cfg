\* Three threads and the idle thread on two processors; two resources that
\* share the only hash chain.
SPECIFICATION Spec
CONSTANTS
  MaxThreads = 4
  c1 = c1
  c2 = c2
  CPUs = {c1, c2}
  Resources = {1, 2}
  HashSize = 1
SYMMETRY Symmetry
INVARIANTS
  ReadyListIsQueue
  RunsOnOneCPU
  NoSleeperLost
PROPERTIES
  LifeCycle
  WakesLongestWaiting

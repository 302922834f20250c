\* Two threads and the idle thread on two processors, one resource, with the
\* fairness of the interrupt hardware.
SPECIFICATION FairSpec
CONSTANTS
  MaxThreads = 3
  c1 = c1
  c2 = c2
  CPUs = {c1, c2}
  Resources = {1}
  HashSize = 1
INVARIANTS
  IInv
PROPERTIES
  WokenRuns

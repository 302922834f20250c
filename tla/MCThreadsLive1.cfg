\* Three threads and the idle thread on the single processor of the x86_64
\* port: there are always fewer processors than ready threads.
SPECIFICATION FairSpec
CONSTANTS
  MaxThreads = 4
  c1 = c1
  c2 = c2
  CPUs = {c1}
  Resources = {1, 2}
  HashSize = 1
PROPERTIES
  ReadyRuns

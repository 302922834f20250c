SPECIFICATION FairSpec
CONSTANTS
  t1 = t1
  t2 = t2
  t3 = t3
  fs1 = fs1
  fs2 = fs2
  root = root
  disk = disk
  None = None
  Threads = {t1, t2}
  Rows = {0}
  Files = {0}
  Filesystems = {fs1}
  Volumes = {root}
  MaxOps = 3
  Misuse = {"not open"}
PROPERTY HaltCompletes
CHECK_DEADLOCK FALSE

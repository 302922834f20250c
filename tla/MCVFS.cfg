SPECIFICATION Spec
CONSTANTS
  t1 = t1
  t2 = t2
  t3 = t3
  fs1 = fs1
  fs2 = fs2
  root = root
  disk = disk
  None = None
  Threads = {t1, t2, t3}
  Rows = {0, 1}
  Files = {0, 1}
  Filesystems = {fs1, fs2}
  Volumes = {root, disk}
  MaxOps = 3
  Misuse = {}
SYMMETRY Symmetry
INVARIANTS OpsCounted DriverCallsMounted OpenFilesMounted RowsExclusive

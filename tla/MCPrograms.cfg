SPECIFICATION Spec
CONSTANTS
  t1 = t1
  t2 = t2
  h1 = h1
  h2 = h2
  WordBytes = 2
  ByteBits = 4
  BigEndian = TRUE
  DiskBlocks = 7
  BlockSize = 4
  Names = {1, 2}
  MAGIC = 14
  Threads = {t1, t2}
  Handles = {h1, h2}
  StartBlock = 0
  Sizes = {4, 5, 13}
  Junk = {1}
  Offs = {0, 3, 5}
  Lens = {5}
  Values = {1}
  RemoveOpen = FALSE
  MaxFaults = 1
  Attached <- Drives
  ByteBase = 4
  NibbleBase = 2
  Clients = {t1, t2}
  Sectors = {90, 100}
  OneVolume = TRUE
  IntBits = 8
  CharBits = 8
  PageBytes = 4096
  KernelEnd = 100000
  Stallocs <- Earlier
  MemBlocks = 48
  Regions <- PC
  Radix = 4
  PoolSize = 48
  Starters = {t1, t2}
  Executables <- Files
  PageUnits = 2
  MaxDisks = 2
  Attempts = {1}
  HEAP_SIZE = 68
  SizeT = 4
  INT_MAX = 255
  IntsInSize = 2
  BUFSIZE = 10
  RequestSizes = {1, 18, 200}
  RevSize = 4
  UINT_MAX = 511
  FormatItems <- Items
  MaxItems = 3
  BufferSizes = {0, 1, 2, 3, 6, 9}
  HALF_BITS = 2
SYMMETRY Symmetry
INVARIANTS
  LockReleased
  VolumeSound
  SectorsRight
  FramesExclusive
  ProgramImage
  HeapTiled
  
  DivisionCorrect
PROPERTY AnswersTrue
CONSTRAINT Whole
VIEW View

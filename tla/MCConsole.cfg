\* The mips32 terminal: two threads that write, read and print, interrupts on
\* two processors and a buffer of two characters.  The x86_64 screen: three
\* lines of two characters.  Its keyboard: two readers.
SPECIFICATION Spec
CONSTANTS
  t1 = t1
  t2 = t2
  h1 = h1
  h2 = h2
  r1 = r1
  r2 = r2
  Callers = {t1, t2}
  Handlers = {h1, h2}
  BufSize = 2
  WriteLens = {3}
  ReadLens = {1, 2}
  TypeAhead = 3
  Rows = 3
  Columns = 2
  Boot <- SomeBoot
  Texts <- SomeTexts
  Readers = {r1, r2}
  LineLens = {2}
  MaxSince = 2
SYMMETRY Symmetry
VIEW View
INVARIANTS
  RingsInOrder
  InterruptComes
  SleepersRemembered
  ScreenShowsLines
PROPERTY
  KeysInOrder

SPECIFICATION Spec
CONSTANTS
  Procs = {p1, p2}
  Blocks = {b1, b2, b3}
  Vals = {0, 1}
  NotCached = NotCached
  MAXOPBLOCKS = 2
  LOGSIZE = 4
  NLOG = 4
  OpBlocks = 2
INVARIANTS NeverPanics

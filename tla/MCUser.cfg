SPECIFICATION PartSpec
CONSTANTS
  Readers = {r1, r2}
  Writers = {w1, w2}
  Killable = {}
  NoProc = NoProc
  Bytes = {0}
  PIPESIZE = 1
  UINT = 2
  MaxN = 2
SYMMETRY Symmetry
INVARIANTS NoReaderLeftAsleep FilesCounted FreeListSound ParsesLines PrintsMatchingLines RoutinesCorrect
PROPERTIES ZeroMeansEof

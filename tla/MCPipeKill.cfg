SPECIFICATION Spec
CONSTANTS
  Readers = {r1}
  Writers = {w1, w2}
  Killable = {w1}
  NoProc = NoProc
  Bytes = {0}
  PIPESIZE = 2
  UINT = 4
  MaxN = 2
INVARIANTS NoReaderLeftAsleep

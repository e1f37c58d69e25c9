SPECIFICATION FairSpec
CONSTANTS
  Readers = {r1}
  Writers = {w1}
  Killable = {r1, w1}
  NoProc = NoProc
  Bytes = {0, 1}
  PIPESIZE = 2
  UINT = 4
  MaxN = 2
INVARIANTS PipeSafe
PROPERTIES ImplementsByteStream CallsReturn

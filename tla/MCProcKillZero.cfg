SPECIFICATION Spec
CONSTANTS
  NPROC = 3
  MaxPid = 4
  KillPids <- ChildPidsAndZero
INVARIANT KilledOnlyIfAsked

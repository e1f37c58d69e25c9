SPECIFICATION Spec
CONSTANTS
  NPROC = 4
  MaxPid = 4
  KillPids <- ChildPids
INVARIANTS FreedOffStack WaitersServed SlotsClean

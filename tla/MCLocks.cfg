SPECIFICATION LiveSpec
CONSTANTS
  CPUs = {c1, c2}
  NoCpu = NoCpu
  NLocks = 2
  Procs = {p1, p2, p3}
  Blocks = {b1, b2}
  NotCached = NotCached
INVARIANTS MutualExclusion NeverPanics InterruptsFollowLocks
PROPERTIES LocksKeepMoving SleeperWakes

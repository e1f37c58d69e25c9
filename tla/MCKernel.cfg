SPECIFICATION PartSpec
CONSTANTS
  CPUs = {a1, a2}
  NPROC = 3
  Others = {o1, o2}
  Third = a3
  Blocks = {b1, b2, b3, b4}
  None = None
  Nobody = Nobody
  NoCpu = NoCpu
SYMMETRY Symmetry
INVARIANTS OneCpuPerStack SwitchSafe SleepLockSafe TrapsSafe DriverSafe  OutputSafe
PROPERTIES SleepsExactly ConsoleCorrect

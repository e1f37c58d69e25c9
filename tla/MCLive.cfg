SPECIFICATION LiveSpec
CONSTANTS
  CPUs = {c1}
  NoCpu = NoCpu
  NPROC = 3
  Harts = {h1, h2}
  Nobody = Nobody
PROPERTIES SchedProgress BootCorrect PrintfCorrect

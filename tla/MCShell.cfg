SPECIFICATION LiveSpec
CONSTANTS
  Lines <- CommandLines
  Program <- Programs
  NPROC = 6
  NPIPE = 2
  NOFILE = 6
  PIPESIZE = 1
  MaxLines = 1
PROPERTIES InitReaps ShellCorrect

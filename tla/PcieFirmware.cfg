\* Lab H3: the bring-up in the order main.c writes the registers.
SPECIFICATION BringUpSpec
CONSTANTS
  Bdfs <- MCBdfs
  Regs <- MCRegs
  Words <- MCWords
  Data <- MCData
  Accesses = {}
  Latency = 2
  PollLimit = 6
  DataFirst = FALSE
INVARIANT SizeProbe

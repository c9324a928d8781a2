\* Lab H3: the bring-up in the order the testbench writes the registers.
SPECIFICATION FairBringUpSpec
CONSTANTS
  Bdfs <- MCBdfs
  Regs <- MCRegs
  Words <- MCWords
  Data <- MCData
  Accesses = {}
  Latency = 2
  PollLimit = 6
  DataFirst = TRUE
PROPERTY BringUpPasses

\* Lab H2: calls against an endpoint slow enough for the driver to time out.
SPECIFICATION FairSpec
CONSTANTS
  Bdfs <- MCBdfs
  Regs <- MCRegs
  Words <- MCWords
  Scratch = "040"
  PollLimit = 2
  DataFirst = TRUE
  Latency = 10
PROPERTIES
  AtomicSpace
  CommandCompletes

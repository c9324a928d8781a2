\* Lab H3: any software on the bus of the root port.
SPECIFICATION FairSpec
CONSTANTS
  Bdfs <- MCBdfs
  Regs <- MCRegs
  Words <- MCWords
  Data <- MCData
  Accesses <- MCAccesses
  Latency = 1
INVARIANTS
  CompletionOwned
  ReadsInOrder
PROPERTY StallsEnd

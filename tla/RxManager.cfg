\* The RX manager and main loop of lab 20 over the real driver.
SPECIFICATION FairSpec
CONSTANTS
  NULL = NULL
  RX_DRIVER_COUNT = 2
  RX_DRIVER_SIZE = 2
  RX_RING_SIZE = 3
  READ_SIZE = 2
  Buffers <- MCBuffers
  BufLen <- MCBufLen
  MaxBytes = 6
INVARIANTS
  ManagerTracks
  Accounting
PROPERTIES
  StopIsFinal
  StopLosesNothing

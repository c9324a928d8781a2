\* The driver of lab 20 under its most general client: safety, contract, progress.
SPECIFICATION FairSpec
CONSTANTS
  b1 = b1
  b2 = b2
  b3 = b3
  NULL = NULL
  Buffers <- MCBuffers
  BufLen <- MCBufLen
  MaxBytes = 4
INVARIANTS
  Ownership
  RefusesLent
  Delivery
PROPERTIES
  ImplementsStream
  StopCompletes
  ByteFetched

SPECIFICATION FairSpec
CONSTANTS
  Devices = 6
  Functions = 3
  MaxDevices = 4
  MaxBars = 2
  Controllers <- MCControllers
  Width = 4
  MaxCalls = 5
  Boards <- MCBoards
  RB_SIZE = 3
  MaxArrive = 5
  Banner <- MCBanner
  Bits = {b0, b1, b2}
  TEST_MASK = {b1, b2}
  TEST_VALUE = {b0, b1}
  MaxChanges = 2
  Wide = 3
  SpiMaxLen = 3
  SpiMaxCalls = 2
  Response <- MCResponse
  SpiBytes <- MCSpiBytes
  Depth = 2
  SspBytes = {1, 2}
  SspMaxLen = 3
  SspMaxCalls = 4
INVARIANTS
  EnumerationExact RangesDisjoint BarsDecode EchoInOrder UpdateAtomic RegisterLeft
  FullDuplex TransferShifted
PROPERTIES ByteEchoed
\* Every program ends in an endless loop or sleeps for ever.
CHECK_DEADLOCK FALSE

\* Labs 13 and 14: the I2C masters and the EEPROM, with stretching and resets.
SPECIFICATION FairSpec
CONSTANTS
  Width = 2
  TargetAddr = 0
  AddressWidth = 2
  Cells = 16
  PageSize = 2
  ReadyPollLimit = 2
  Scripts <- MCScripts
  MaxResets = 1
  DeviceStretch = 2
  MessageStretch = 0
INVARIANTS
  CallsHold
  MessageArrives
PROPERTIES
  NoStrayCondition
  CallsReturn

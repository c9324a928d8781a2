\* Two handles on a partition of three slots, with every failure (lab 23).
SPECIFICATION LogSpec
CONSTANTS
  Handles = {g_log, g_recovered_log}
  N = 3
  Records = {a, b}
  Erased = Erased
  Torn = Torn
INVARIANTS
  AckedDurable
  HandleSound
PROPERTIES
  NeverReprogram

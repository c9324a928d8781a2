\* A ring of three slots and sequence numbers modulo six, so that they wrap
\* around, under every write failure and power cut (lab 24).
SPECIFICATION Spec
CONSTANTS
  Writer = g_log
  Readers = {g_recovered_log}
  N = 3
  M = 6
  Codes = {c1, c2}
  NoSlot = NoSlot
  Junk = Junk
INVARIANTS
  Recoverable
  HandlesCoherent
  History
PROPERTIES
  PublishIsAtomic

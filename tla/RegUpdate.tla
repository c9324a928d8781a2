----------------------------- MODULE RegUpdate -----------------------------
(***************************************************************************)
(* Lab 21: byte access to a sensor register over I2C (reg_access.c) and    *)
(* the program that tries it on hardware (main.c).  A byte is the set of   *)
(* its 1 bits.  One step is one transfer of Zephyr's I2C API, which may    *)
(* fail, a failed write before or after it reached the register; between   *)
(* two of them the sensor, or another master, may change bits itself.      *)
(***************************************************************************)
EXTENDS Integers, FiniteSets

CONSTANTS
  Bits,       \* bits of the register
  TEST_MASK, TEST_VALUE,  \* from the devicetree
  MaxChanges  \* bound: changes the sensor makes itself

ASSUME RegAssumption ==
  TEST_MASK \subseteq Bits /\ TEST_VALUE \subseteq Bits /\ MaxChanges \in Nat

VARIABLES
  reg,        \* the sensor's register
  test,       \* g_lab21_stage, with the two halves of an update told apart
  original, updated,  \* g_original_value, g_after_update
  old_value,  \* that of reg_update_byte
  changes,    \* number of changes the sensor made
  due,        \* history: the register, had each update been one step
  raced,      \* history: the bits the sensor changed between the two halves of an update
  since, bad, \* history: it changed since the last write; a transfer failed
  first       \* history: the register at the start

regVars == <<reg, test, original, updated, old_value, changes, due, raced, since, bad, first>>

RegInit ==
  /\ reg = {} /\ test = "off" /\ original = {} /\ updated = {} /\ old_value = {}
  /\ changes = 0 /\ due = {} /\ raced = {} /\ since = FALSE /\ bad = FALSE
  /\ first = {}

\* main, as far as the check that the I2C controller is ready.
RegStart ==
  /\ test = "off" /\ bad' \in BOOLEAN
  /\ test' = IF bad' THEN "ERROR" ELSE "READ_ORIGINAL"
  /\ reg' \in SUBSET Bits /\ due' = reg' /\ first' = reg'
  /\ UNCHANGED <<original, updated, old_value, changes, raced, since>>

Updating == test \in {"UPDATE_WRITE", "NOOP_WRITE"}

SensorChanges ==
  /\ test \notin {"off", "DONE", "ERROR"} /\ changes < MaxChanges
  /\ changes' = changes + 1
  /\ \E b \in Bits :
       LET Flip(s) == IF b \in s THEN s \ {b} ELSE s \cup {b} IN
       /\ reg' = Flip(reg) /\ due' = Flip(due)
       /\ raced' = IF Updating THEN raced \cup {b} ELSE raced
  /\ since' = TRUE
  /\ UNCHANGED <<test, original, updated, old_value, bad, first>>

-----------------------------------------------------------------------------
(* reg_access.c *)

Xor(s, t) == (s \ t) \cup (t \ s)

\* With a bug: the value's bits outside the mask get in.
MergedUnmasked(old, mask, value) == (old \ mask) \cup value

\* What reg_update_byte makes of a byte: bits outside the mask are preserved.
Merged(old, mask, value) == (old \ mask) \cup (value \cap mask)

\* A read or write fails: the program stops where it is, lab21_error.
TransferFails ==
  /\ test' = "ERROR" /\ bad' = TRUE
  /\ UNCHANGED <<original, updated, old_value, changes, raced, since, first>>

\* A transfer that reads: reg_read_byte.  The program goes on to next, or to
\* lab21_error when what it read is not as expected.
reg_read_byte(at, next, expected) ==
  /\ test = at /\ test' = IF expected THEN next ELSE "ERROR"
  /\ UNCHANGED <<reg, due, changes, raced, since, bad, first>>

ReadFails ==
  /\ test \in {"READ_ORIGINAL", "VERIFY_WRITE", "UPDATE", "VERIFY_UPDATE", "NOOP_UPDATE"}
  /\ TransferFails /\ UNCHANGED <<reg, due>>

\* A transfer that writes, and what it leaves in the history.
reg_write_byte(at, next, value, meant) ==
  /\ test = at
  /\ \/ /\ test' = next /\ reg' = value /\ due' = meant /\ since' = FALSE
        /\ UNCHANGED <<original, updated, old_value, changes, raced, bad, first>>
     \/ TransferFails /\ reg' \in {reg, value} /\ due' = reg'

-----------------------------------------------------------------------------
(* main.c *)

ReadOriginal ==
  /\ reg_read_byte("READ_ORIGINAL", "DIRECT_WRITE", TRUE)
  /\ original' = reg /\ UNCHANGED <<updated, old_value>>

DirectValue == Xor(original, TEST_MASK)

DirectWrite == reg_write_byte("DIRECT_WRITE", "VERIFY_WRITE", DirectValue, DirectValue)

VerifyWrite ==
  /\ reg_read_byte("VERIFY_WRITE", "RESTORE", reg = DirectValue)
  /\ UNCHANGED <<original, updated, old_value>>

RestoreAfterWrite == reg_write_byte("RESTORE", "UPDATE", original, original)

\* reg_update_byte reads; when nothing would change it is done ...
UpdateRead(at, write, next, value) ==
  /\ reg_read_byte(at, IF Merged(reg, TEST_MASK, value) = reg THEN next ELSE write, TRUE)
  /\ old_value' = reg /\ UNCHANGED <<original, updated>>

\* ... and otherwise writes what follows from the value it read.
UpdateWrite(at, next, value) ==
  reg_write_byte(at, next, Merged(old_value, TEST_MASK, value), (due \ TEST_MASK) \cup (value \cap TEST_MASK))

Update ==
  \/ UpdateRead("UPDATE", "UPDATE_WRITE", "VERIFY_UPDATE", TEST_VALUE)
  \/ UpdateWrite("UPDATE_WRITE", "VERIFY_UPDATE", TEST_VALUE)

\* The update's result is compared with what the original value leads to.
VerifyUpdate ==
  /\ reg_read_byte("VERIFY_UPDATE", "NOOP_UPDATE",
                   reg = (original \ TEST_MASK) \cup (TEST_VALUE \cap TEST_MASK))
  /\ updated' = reg /\ UNCHANGED <<original, old_value>>

NoopUpdate ==
  \/ UpdateRead("NOOP_UPDATE", "NOOP_WRITE", "FINAL_RESTORE", updated)
  \/ UpdateWrite("NOOP_WRITE", "FINAL_RESTORE", updated)

\* With a bug: the restore forgets the bits outside the mask.
FinalRestoreMasked == reg_write_byte("FINAL_RESTORE", "DONE", original \cap TEST_MASK, original \cap TEST_MASK)

FinalRestore == reg_write_byte("FINAL_RESTORE", "DONE", original, original)

RegNext ==
  \/ RegStart \/ SensorChanges \/ ReadFails \/ ReadOriginal \/ DirectWrite
  \/ VerifyWrite \/ RestoreAfterWrite \/ Update \/ VerifyUpdate \/ NoopUpdate
  \/ FinalRestore

RegSpec == RegInit /\ [][RegNext]_regVars

-----------------------------------------------------------------------------
\* The register is what updates done in one step would leave, but for bits outside the
\* mask that the sensor changed between the read and the write of an update: the write
\* undoes their change.  A race costs no other bit, no bit the update is about, and no
\* failed transfer costs any (reg_access.c:53-71, "Preserve bits outside mask").
UpdateAtomic == Xor(reg, due) \subseteq raced \ TEST_MASK

\* At DONE the register is back to its original value, unless the sensor has changed
\* it since the last write.  The program stops at ERROR only after a failed transfer, for
\* a controller that is not ready or after a change of the sensor, and then no bit outside
\* the mask is left changed by the program itself (main.c:107-205).
RegisterLeft ==
  /\ test = "DONE" /\ ~since => reg = original
  /\ test = "ERROR" => bad \/ changes > 0
  /\ test = "ERROR" /\ changes = 0 => reg \ TEST_MASK = first \ TEST_MASK
=============================================================================

------------------------------- MODULE BootLog -------------------------------
(***************************************************************************)
(* Lab 23: the append-only boot log in a flash partition (boot_log.c).      *)
(*                                                                          *)
(* One thread uses any number of struct boot_log handles on the same        *)
(* partition, as main.c does with g_log and g_recovered_log.  A call is cut *)
(* at each flash access: an access may fail, programming may stop half way  *)
(* or store something else, and power may go between any two accesses.      *)
(*                                                                          *)
(* A slot's 16 bytes are Erased, a record, or Torn: anything else.          *)
(***************************************************************************)
EXTENDS Integers, FiniteSets

CONSTANTS
  Handles,        \* struct boot_log objects
  N,              \* capacity: region_size / BOOT_LOG_RECORD_SIZE
  Records,        \* records a caller appends
  Erased, Torn

ASSUME BootLogAssumption ==
  /\ N \in Nat \ {0}
  /\ Erased \notin Records \cup {Torn}
  /\ Torn \notin Records

VARIABLES
  flash,          \* the partition, slot by slot
  next_slot, initialized,          \* fields of each handle
  access, who,                     \* the access a call is at, and its handle
  record,                          \* boot_log_append: its argument
  index, found_empty,              \* boot_log_init: its locals
  rc,                              \* return code of the last call
  acked                            \* history: <<slot, record>> of successful appends

handleVars == <<next_slot, initialized>>
callVars == <<access, who, record, index, found_empty>>
logVars == <<flash, handleVars, callVars, rc, acked>>

Slots == 0..(N - 1)
Contents == Records \cup {Erased, Torn}

is_erased(data) == data = Erased

Set(f, h, v) == [f EXCEPT ![h] = v]

\* The current call returns, or a call returns at once, with code c.
Return(c) == access' = "idle" /\ rc' = c /\ UNCHANGED <<who, record, index, found_empty>>

-----------------------------------------------------------------------------
(* boot_log_init *)

\* memset, then the argument and geometry checks refuse.
InitRefused(h) ==
  /\ access = "idle"
  /\ next_slot' = Set(next_slot, h, 0)
  /\ initialized' = Set(initialized, h, FALSE)
  /\ Return("EINVAL")
  /\ UNCHANGED <<flash, acked>>

InitCall(h) ==
  /\ access = "idle"
  /\ next_slot' = Set(next_slot, h, 0)
  /\ initialized' = Set(initialized, h, FALSE)
  /\ access' = "scan"
  /\ who' = h
  /\ index' = 0
  /\ found_empty' = FALSE
  /\ UNCHANGED <<flash, record, rc, acked>>

ScanFails ==
  /\ access = "scan" /\ index < N
  /\ Return("EIO")
  /\ UNCHANGED <<flash, handleVars, acked>>

ScanErased ==
  /\ access = "scan" /\ index < N
  /\ is_erased(flash[index])
  /\ found_empty' = TRUE
  /\ index' = index + 1
  /\ UNCHANGED <<flash, handleVars, access, who, record, rc, acked>>

\* With a bug: a record after an erased slot is accepted.
ScanOccupiedAnywhere ==
  /\ access = "scan" /\ index < N
  /\ ~is_erased(flash[index])
  /\ next_slot' = Set(next_slot, who, index + 1)
  /\ index' = index + 1
  /\ UNCHANGED <<flash, initialized, access, who, record, found_empty, rc, acked>>

ScanOccupied ==
  /\ access = "scan" /\ index < N
  /\ ~is_erased(flash[index])
  /\ ~found_empty
  /\ next_slot' = Set(next_slot, who, index + 1)
  /\ index' = index + 1
  /\ UNCHANGED <<flash, initialized, access, who, record, found_empty, rc, acked>>

ScanHole ==
  /\ access = "scan" /\ index < N
  /\ ~is_erased(flash[index])
  /\ found_empty
  /\ Return("EILSEQ")
  /\ UNCHANGED <<flash, handleVars, acked>>

ScanDone ==
  /\ access = "scan" /\ index = N
  /\ initialized' = Set(initialized, who, TRUE)
  /\ Return("OK")
  /\ UNCHANGED <<flash, next_slot, acked>>

-----------------------------------------------------------------------------
(* boot_log_append *)

AppendRet(h, r) ==
  IF ~initialized[h] \/ is_erased(r) THEN "EINVAL"
  ELSE IF next_slot[h] >= N THEN "ENOSPC" ELSE "OK"

AppendRefused(h, r) ==
  /\ access = "idle"
  /\ AppendRet(h, r) # "OK"
  /\ Return(AppendRet(h, r))
  /\ UNCHANGED <<flash, handleVars, acked>>

AppendCall(h, r) ==
  /\ access = "idle"
  /\ AppendRet(h, r) = "OK"
  /\ access' = "check"
  /\ who' = h
  /\ record' = r
  /\ UNCHANGED <<flash, handleVars, index, found_empty, rc, acked>>

CheckFails ==
  /\ access = "check"
  /\ Return("EIO")
  /\ UNCHANGED <<flash, handleVars, acked>>

\* Another handle programmed the slot meanwhile: this one is out of date.
CheckOccupied ==
  /\ access = "check"
  /\ ~is_erased(flash[next_slot[who]])
  /\ initialized' = Set(initialized, who, FALSE)
  /\ Return("EEXIST")
  /\ UNCHANGED <<flash, next_slot, acked>>

\* With a bug: the slot is not checked.
CheckFreeUnread ==
  /\ access = "check"
  /\ initialized' = Set(initialized, who, FALSE)
  /\ access' = "program"
  /\ UNCHANGED <<flash, next_slot, who, record, index, found_empty, rc, acked>>

CheckFree ==
  /\ access = "check"
  /\ is_erased(flash[next_slot[who]])
  /\ initialized' = Set(initialized, who, FALSE)
  /\ access' = "program"
  /\ UNCHANGED <<flash, next_slot, who, record, index, found_empty, rc, acked>>

\* flash_write stores the record, part of it, none of it or a corrupted copy,
\* and reports success or an error independently of that.
Program ==
  /\ access = "program"
  /\ \E data \in {record, Torn, flash[next_slot[who]]} :
       flash' = Set(flash, next_slot[who], data)
  /\ \/ access' = "verify" /\ UNCHANGED <<who, record, index, found_empty, rc>>
     \/ Return("EIO")
  /\ UNCHANGED <<handleVars, acked>>

VerifyFails ==
  /\ access = "verify"
  /\ Return("EIO")
  /\ UNCHANGED <<flash, handleVars, acked>>

\* With a bug: what was programmed is not compared.
VerifiedUnread ==
  /\ access = "verify"
  /\ next_slot' = Set(next_slot, who, next_slot[who] + 1)
  /\ initialized' = Set(initialized, who, TRUE)
  /\ acked' = acked \cup {<<next_slot[who], record>>}
  /\ Return("OK")
  /\ UNCHANGED flash

Verified ==
  /\ access = "verify"
  /\ flash[next_slot[who]] = record
  /\ next_slot' = Set(next_slot, who, next_slot[who] + 1)
  /\ initialized' = Set(initialized, who, TRUE)
  /\ acked' = acked \cup {<<next_slot[who], record>>}
  /\ Return("OK")
  /\ UNCHANGED flash

-----------------------------------------------------------------------------
(* boot_log_read_last: one flash access, no state of its own. *)

ReadLastRet(h) ==
  IF ~initialized[h] THEN {"EINVAL"}
  ELSE IF next_slot[h] = 0 THEN {"ENOENT"}
  ELSE {"EIO"} \cup IF is_erased(flash[next_slot[h] - 1]) THEN {} ELSE {"OK"}

ReadLast(h) ==
  /\ access = "idle"
  /\ \E c \in ReadLastRet(h) : Return(c)
  /\ UNCHANGED <<flash, handleVars, acked>>

-----------------------------------------------------------------------------

\* Power goes and comes back: the handles are zeroed .bss again.
PowerCut ==
  /\ next_slot' = [h \in Handles |-> 0]
  /\ initialized' = [h \in Handles |-> FALSE]
  /\ Return("OK")
  /\ UNCHANGED <<flash, acked>>

\* The partition is erased, or holds anything left there by something else.
LogInit ==
  /\ flash \in [Slots -> {Erased, Torn}]
  /\ next_slot = [h \in Handles |-> 0]
  /\ initialized = [h \in Handles |-> FALSE]
  /\ access = "idle"
  /\ who \in Handles
  /\ record = Erased
  /\ index = 0
  /\ found_empty = FALSE
  /\ rc = "OK"
  /\ acked = {}

CallStep ==
  \/ ScanFails \/ ScanErased \/ ScanOccupied \/ ScanHole \/ ScanDone
  \/ CheckFails \/ CheckOccupied \/ CheckFree
  \/ Program \/ VerifyFails \/ Verified

LogNext ==
  \/ \E h \in Handles : InitRefused(h) \/ InitCall(h) \/ ReadLast(h)
  \/ \E h \in Handles, r \in Records \cup {Erased} :
       AppendRefused(h, r) \/ AppendCall(h, r)
  \/ CallStep
  \/ PowerCut

LogSpec == LogInit /\ [][LogNext]_logVars

-----------------------------------------------------------------------------
(* Properties. *)

\* Occupied slots come first; boot_log_init refuses any other partition.
HoleFree(f) ==
  \A i, j \in Slots : i < j /\ ~is_erased(f[j]) => ~is_erased(f[i])

LogTypeOK ==
  /\ flash \in [Slots -> Contents]
  /\ next_slot \in [Handles -> 0..N]
  /\ initialized \in [Handles -> BOOLEAN]
  /\ access \in {"idle", "scan", "check", "program", "verify"}
  /\ who \in Handles
  /\ record \in Records \cup {Erased}
  /\ index \in 0..N /\ found_empty \in BOOLEAN
  /\ rc \in {"OK", "EIO", "EINVAL", "ENOSPC", "EEXIST", "EILSEQ", "ENOENT"}
  /\ acked \subseteq Slots \X Records

\* An occupied slot is never programmed, "even with identical bytes"
\* (tests/host_contract.c), whichever handles are out of date.
NeverReprogram ==
  [][\A i \in Slots : ~is_erased(flash[i]) => flash'[i] = flash[i]]_logVars

\* A record whose append returned 0 is in its slot for ever, across power
\* cuts, failed appends and appends through other handles.
AckedDurable == \A a \in acked : flash[a[1]] = a[2]

\* A usable handle lies on a partition without holes and never points past
\* the first erased slot, however stale it is.
HandleSound ==
  \A h \in Handles : initialized[h] =>
    HoleFree(flash) /\ \A i \in Slots : i < next_slot[h] => ~is_erased(flash[i])

\* No call, failure or power cut makes a hole, and a partition that has one is
\* left as it is: initialisation can always be repeated with the same verdict.
HolesAreFinal ==
  [][IF HoleFree(flash) THEN HoleFree(flash') ELSE flash' = flash]_logVars
=============================================================================

------------------------------- MODULE FaultLog -------------------------------
(***************************************************************************)
(* Lab 24: the ring of fault records in an EEPROM (fault_log.c).            *)
(*                                                                          *)
(* A record is two body pages and a commit page.  fault_log_append          *)
(* overwrites the oldest one in three verified writes (invalidate, body,    *)
(* publish); a write may fail, do part of its work or nothing, or be cut by *)
(* a power failure, and each page it touches is then old, new or junk.      *)
(* fault_log_init finds the newest record by 32-bit serial arithmetic.      *)
(*                                                                          *)
(* One writer appends; readers are further handles on the same EEPROM that  *)
(* only call fault_log_init and fault_log_latest, as g_recovered_log does.  *)
(* A CRC is taken to tell apart any two bodies a torn write can mix.        *)
(***************************************************************************)
EXTENDS Integers

CONSTANTS
  Writer, Readers,   \* struct fault_log objects
  N,                 \* FAULT_LOG_SLOT_COUNT
  M,                 \* sequence numbers are modulo M, 2^32 in the code
  Codes,             \* fault codes
  NoSlot,            \* FAULT_LOG_NO_SLOT
  Junk               \* content of a page that is neither token nor body

ASSUME FaultLogAssumption ==
  /\ Writer \notin Readers
  /\ N \in Nat \ {0, 1}
  /\ M \in Nat /\ M % 2 = 0 /\ N <= M \div 2
  /\ NoSlot \notin 0..(N - 1)
  /\ Junk \notin (0..(M - 1)) \cup (Codes \X (0..(M - 1)))

VARIABLES
  token,      \* commit page of each slot
  head,       \* first body page: magic and sequence
  tail,       \* second body page: <<code, sequence its CRC was computed with>>
  sequence, newest_slot, initialized,     \* fields of each handle
  pc, body,                               \* fault_log_append: step and new body
  count                                   \* history: records published, up to N

eeprom == <<token, head, tail>>
handles == <<sequence, newest_slot, initialized>>
append == <<pc, body>>
vars == <<eeprom, handles, append, count>>

Handles == {Writer} \cup Readers
Slots == 0..(N - 1)
Seqs == 0..(M - 1)

Set(f, x, v) == [f EXCEPT ![x] = v]

-----------------------------------------------------------------------------
(* Recovery: pure functions of the EEPROM. *)

record_valid(s) ==
  token[s] = "committed" /\ head[s] # Junk /\ tail[s] # Junk /\ tail[s][2] = head[s]

\* With a bug: no serial arithmetic.
newer_plain(a, b) == a > b

newer(a, b) == LET delta == (a - b) % M IN delta # 0 /\ delta < M \div 2

\* The scan of fault_log_init: the newest slot among the first n.
best[n \in 0..N] ==
  IF n = 0 THEN NoSlot
  ELSE LET b == best[n - 1]
       IN IF record_valid(n - 1) /\ (b = NoSlot \/ newer(head[n - 1], head[b]))
          THEN n - 1
          ELSE b

Newest == best[N]

\* A ring spans at most N - 1 increments.
AgesPlausible ==
  \A s \in Slots : record_valid(s) /\ s # Newest =>
    (head[Newest] - head[s]) % M \in 1..(N - 1)

\* What a reboot would find: the newest record, or nothing.
Recovered ==
  IF Newest = NoSlot THEN <<>> ELSE <<Newest, head[Newest], tail[Newest][1]>>

-----------------------------------------------------------------------------
(* fault_log_init: reads only, so one step; some read may fail. *)

InitLog(h) ==
  /\ pc = "idle"
  /\ AgesPlausible
  /\ newest_slot' = Set(newest_slot, h, Newest)
  /\ sequence' = Set(sequence, h, IF Newest = NoSlot THEN 0 ELSE head[Newest])
  /\ initialized' = Set(initialized, h, TRUE)
  /\ UNCHANGED <<eeprom, append, count>>

\* An argument is refused, a read fails, or the ages are not plausible.
InitFails(h) ==
  /\ pc = "idle"
  /\ newest_slot' = Set(newest_slot, h, NoSlot)
  /\ sequence' = Set(sequence, h, 0)
  /\ initialized' = Set(initialized, h, FALSE)
  /\ UNCHANGED <<eeprom, append, count>>

-----------------------------------------------------------------------------
(* fault_log_append.  A call on an unusable handle, as after any failed one, *)
(* returns at once and changes nothing.                                      *)

\* With a bug: the newest record itself is overwritten.
target_newest == IF newest_slot[Writer] = NoSlot THEN 0 ELSE newest_slot[Writer]

target ==
  IF newest_slot[Writer] = NoSlot THEN 0 ELSE (newest_slot[Writer] + 1) % N

\* With a bug: a failed append leaves the log usable.
AppendCallKept(code) ==
  /\ pc = "idle"
  /\ initialized[Writer]
  /\ body' = <<code, IF newest_slot[Writer] = NoSlot
                     THEN 1 ELSE (sequence[Writer] + 1) % M>>
  /\ pc' = "invalidate"
  /\ UNCHANGED <<eeprom, handles, count>>

\* With a bug: the old record is not invalidated first.
AppendCallDirect(code) ==
  /\ pc = "idle"
  /\ initialized[Writer]
  /\ initialized' = Set(initialized, Writer, FALSE)
  /\ body' = <<code, IF newest_slot[Writer] = NoSlot
                     THEN 1 ELSE (sequence[Writer] + 1) % M>>
  /\ pc' = "write_body"
  /\ UNCHANGED <<eeprom, sequence, newest_slot, count>>

AppendCall(code) ==
  /\ pc = "idle"
  /\ initialized[Writer]
  /\ initialized' = Set(initialized, Writer, FALSE)
  /\ body' = <<code, IF newest_slot[Writer] = NoSlot
                     THEN 1 ELSE (sequence[Writer] + 1) % M>>
  /\ pc' = "invalidate"
  /\ UNCHANGED <<eeprom, sequence, newest_slot, count>>

Return == pc' = "idle" /\ body' = Junk

\* After a write the call goes on to a step, or returns the driver's error.
Proceed(step) == (pc' = step /\ UNCHANGED body) \/ Return

Invalidate ==
  /\ pc = "invalidate"
  /\ \E t \in {token[target], "invalid", "junk"} : token' = Set(token, target, t)
  /\ Proceed("verify_invalid")
  /\ UNCHANGED <<head, tail, handles, count>>

WriteBody ==
  /\ pc = "write_body"
  /\ \E p \in {head[target], body[2], Junk} : head' = Set(head, target, p)
  /\ \E p \in {tail[target], body, Junk} : tail' = Set(tail, target, p)
  /\ Proceed("verify_body")
  /\ UNCHANGED <<token, handles, count>>

BodyWritten == head[target] = body[2] /\ tail[target] = body

Publish ==
  /\ pc = "publish"
  /\ \E t \in {token[target], "committed", "junk"} :
       /\ token' = Set(token, target, t)
       /\ count' = IF t = "committed" /\ count < N THEN count + 1 ELSE count
  /\ Proceed("verify_record")
  /\ UNCHANGED <<head, tail, handles>>

\* A read-back that passes; VerifyFails is one that does not.
VerifyInvalid ==
  /\ pc = "verify_invalid"
  /\ token[target] = "invalid"
  /\ pc' = "write_body"
  /\ UNCHANGED <<eeprom, handles, body, count>>

VerifyBody ==
  /\ pc = "verify_body"
  /\ BodyWritten
  /\ pc' = "publish"
  /\ UNCHANGED <<eeprom, handles, body, count>>

VerifyRecord ==
  /\ pc = "verify_record"
  /\ record_valid(target) /\ BodyWritten
  /\ sequence' = Set(sequence, Writer, body[2])
  /\ newest_slot' = Set(newest_slot, Writer, target)
  /\ initialized' = Set(initialized, Writer, TRUE)
  /\ Return
  /\ UNCHANGED <<eeprom, count>>

\* The read fails, or what it returns differs from what was written.
VerifyFails ==
  /\ pc \in {"verify_invalid", "verify_body", "verify_record"}
  /\ Return
  /\ UNCHANGED <<eeprom, handles, count>>

-----------------------------------------------------------------------------
(* fault_log_latest: a call that does not return -EILSEQ changes nothing. *)

LatestRet(h) ==
  IF ~initialized[h] THEN "EIO"
  ELSE IF newest_slot[h] = NoSlot THEN "ENOENT"
  ELSE IF ~record_valid(newest_slot[h]) \/ head[newest_slot[h]] # sequence[h]
       THEN "EILSEQ" ELSE "OK"

LatestStale(h) ==
  /\ pc = "idle"
  /\ LatestRet(h) = "EILSEQ"
  /\ initialized' = Set(initialized, h, FALSE)
  /\ UNCHANGED <<eeprom, sequence, newest_slot, append, count>>

-----------------------------------------------------------------------------

\* Power goes, at any instant, and comes back: the handles are zeroed.
PowerCut ==
  /\ initialized' = [h \in Handles |-> FALSE]
  /\ newest_slot' = [h \in Handles |-> NoSlot]
  /\ sequence' = [h \in Handles |-> 0]
  /\ Return
  /\ UNCHANGED <<eeprom, count>>

\* A new EEPROM holds no record.
Init ==
  /\ token = [s \in Slots |-> "junk"]
  /\ head = [s \in Slots |-> Junk]
  /\ tail = [s \in Slots |-> Junk]
  /\ sequence = [h \in Handles |-> 0]
  /\ newest_slot = [h \in Handles |-> NoSlot]
  /\ initialized = [h \in Handles |-> FALSE]
  /\ pc = "idle"
  /\ body = Junk
  /\ count = 0

AppendStep ==
  \/ Invalidate \/ VerifyInvalid \/ WriteBody \/ VerifyBody
  \/ Publish \/ VerifyRecord \/ VerifyFails

Next ==
  \/ \E h \in Handles : InitLog(h) \/ InitFails(h) \/ LatestStale(h)
  \/ \E code \in Codes : AppendCall(code)
  \/ AppendStep
  \/ PowerCut

Spec == Init /\ [][Next]_vars

-----------------------------------------------------------------------------
(* Properties. *)

\* "A correctly generated eight-slot ring spans at most seven increments": the
\* age check of fault_log_init never refuses what appends, failures and power
\* cuts leave behind, also where the sequence number wraps around.
Recoverable == AgesPlausible

\* What a reboot finds changes in one step only, the write of the commit token,
\* and then to the record being appended: a torn or failed append shows the old
\* record or the new one, never another one, none, or a mixture.
PublishIsAtomic ==
  [][Recovered' # Recovered =>
       pc = "publish" /\ Recovered' = <<target, body[2], body[1]>>]_vars

\* At every instant the last N - 1 published records are intact, in ring order
\* with consecutive sequence numbers.
History ==
  \A d \in 0..(N - 2) : d < count =>
    /\ Newest # NoSlot
    /\ LET s == (Newest - d) % N
       IN record_valid(s) /\ head[s] = (head[Newest] - d) % M

\* A usable writer's RAM metadata is what a rescan would compute, so it never
\* overwrites the newest record or repeats a sequence number; and a handle that
\* was overtaken reads one of the last N records or -EILSEQ.
HandlesCoherent ==
  /\ initialized[Writer] =>
       /\ newest_slot[Writer] = Newest
       /\ Newest # NoSlot => sequence[Writer] = head[Newest]
  /\ \A h \in Handles : LatestRet(h) = "OK" =>
       (head[Newest] - sequence[h]) % M \in 0..(N - 1)
=============================================================================

-------------------------- MODULE LogWatchdogProofs ---------------------------
(***************************************************************************)
(* Proofs about two of the Zephyr labs: the boot log of lab 23 and the     *)
(* watchdog supervisor of lab 25.                                          *)
(*                                                                         *)
(* BootLog, for any number of handles, slots and records: an occupied slot *)
(* is never programmed, a record whose append was acknowledged stays in    *)
(* its slot, and a usable handle, however stale, never points past the     *)
(* first erased slot.  The invariant adds to these what the call in        *)
(* progress has established: Scanning is the loop invariant of             *)
(* boot_log_init, Appending what holds between the accesses of             *)
(* boot_log_append.                                                        *)
(*                                                                         *)
(* Watchdog, for any tasks, periods and timeout: the mutex excludes, no    *)
(* report is lost or used for two feeds, and a faulted supervisor never    *)
(* feeds again.  The invariant ties reported_mask to the reports made      *)
(* since the last feed.  They differ only between wdt_feed and the reset   *)
(* of the mask, and there the main thread holds the mutex.  A second       *)
(* invariant bounds the time since the last feed in a run that no stall    *)
(* disturbed: by what each thread has slept, and by who still has to       *)
(* report.                                                                 *)
(***************************************************************************)
EXTENDS BootLog, Watchdog, FiniteSetTheorems, NaturalsInduction, WellFoundedInduction, TLAPS

-----------------------------------------------------------------------------
(* Lab 23. *)

\* The slots before n are occupied.
FullBelow(n) == \A i \in Slots : i < n => ~is_erased(flash[i])

\* boot_log_init: the slots read so far are next_slot occupied ones followed by
\* erased ones only.
Scanning ==
  access = "scan" =>
    /\ ~initialized[who]
    /\ next_slot[who] <= index
    /\ FullBelow(next_slot[who])
    /\ \A i \in Slots : next_slot[who] <= i /\ i < index => is_erased(flash[i])
    /\ ~found_empty => next_slot[who] = index

\* boot_log_append: the handle is given up before its slot is programmed, and
\* the slot is still erased at that point.
Appending ==
  access \in {"check", "program", "verify"} =>
    /\ next_slot[who] < N
    /\ ~is_erased(record)
    /\ FullBelow(next_slot[who])
    /\ HoleFree(flash)
    /\ access = "check" => initialized[who]
    /\ access = "program" => ~initialized[who] /\ is_erased(flash[next_slot[who]])
    /\ access = "verify" => ~initialized[who]

LogInv == LogTypeOK /\ Scanning /\ Appending /\ HandleSound /\ AckedDurable

-----------------------------------------------------------------------------
(* Facts about the partition. *)

\* Programming the first erased slot makes no hole.
LEMMA ProgramKeepsHoleFree ==
  ASSUME NEW f \in [Slots -> Contents], NEW s \in Slots, NEW data,
         HoleFree(f), is_erased(f[s]), \A i \in Slots : i < s => ~is_erased(f[i])
  PROVE  HoleFree(Set(f, s, data))
<1>1. SUFFICES ASSUME NEW i \in Slots, NEW j \in Slots, i < j,
                      ~is_erased(Set(f, s, data)[j])
               PROVE  ~is_erased(Set(f, s, data)[i])
  BY DEF HoleFree
<1>2. /\ i # s => Set(f, s, data)[i] = f[i]
      /\ j # s => Set(f, s, data)[j] = f[j]
  BY DEF Set
<1>3. CASE j = s
  BY <1>1, <1>2, <1>3 DEF Slots
<1>4. CASE j # s /\ i # s
  BY <1>1, <1>2, <1>4 DEF HoleFree
<1>5. CASE j # s /\ i = s
  BY <1>1, <1>2, <1>5 DEF HoleFree
<1> QED
  BY <1>3, <1>4, <1>5

\* A partition whose occupied slots come first has no hole.
LEMMA PrefixHoleFree ==
  ASSUME NEW n \in Nat,
         \A i \in Slots : i < n => ~is_erased(flash[i]),
         \A i \in Slots : n <= i => is_erased(flash[i])
  PROVE  HoleFree(flash)
BY BootLogAssumption DEF HoleFree, Slots, BootLogAssumption

-----------------------------------------------------------------------------
(* One lemma per action, or per group of actions that write neither the     *)
(* partition nor a handle.                                                  *)

\* A call ends, or is refused, and leaves partition and handles alone.
LEMMA ReturnStep ==
  ASSUME LogInv, NEW c \in {"OK", "EIO", "EINVAL", "ENOSPC", "EEXIST", "EILSEQ", "ENOENT"},
         Return(c), UNCHANGED <<flash, handleVars, acked>>
  PROVE  LogInv'
BY DEF LogInv, Return, handleVars, LogTypeOK, Scanning, Appending, HandleSound, AckedDurable

\* boot_log_init gives the handle up before anything else.
LEMMA InitStep ==
  ASSUME LogInv, NEW h \in Handles, InitRefused(h) \/ InitCall(h)
  PROVE  LogInv'
<1> USE BootLogAssumption DEF BootLogAssumption, InitRefused, InitCall, Return, Set, LogInv
<1>1. LogTypeOK'
  <2>1. 0 \in 0..N
    OBVIOUS
  <2>2. next_slot' \in [Handles -> 0..N] /\ initialized' \in [Handles -> BOOLEAN]
    BY <2>1 DEF LogTypeOK
  <2>3. CASE InitRefused(h)
    BY <2>2, <2>3 DEF LogTypeOK
  <2>4. CASE InitCall(h)
    BY <2>1, <2>2, <2>4 DEF LogTypeOK
  <2> QED
    BY <2>3, <2>4
<1>2. Scanning'
  BY DEF Scanning, FullBelow, LogTypeOK, Slots
<1>3. Appending' /\ HandleSound' /\ AckedDurable'
  BY DEF Appending, HandleSound, AckedDurable, LogTypeOK
<1> QED
  BY <1>1, <1>2, <1>3

\* An erased slot read by the scan.
LEMMA ScanErasedStep ==
  ASSUME LogInv, ScanErased
  PROVE  LogInv'
<1> USE BootLogAssumption DEF BootLogAssumption, ScanErased, handleVars, LogInv
<1>1. LogTypeOK'
  BY DEF LogTypeOK
<1>2. Scanning'
  BY DEF Scanning, FullBelow, LogTypeOK, Slots
<1>3. Appending' /\ HandleSound' /\ AckedDurable'
  BY DEF Appending, HandleSound, AckedDurable
<1> QED
  BY <1>1, <1>2, <1>3

\* An occupied slot read by the scan before any erased one.
LEMMA ScanOccupiedStep ==
  ASSUME LogInv, ScanOccupied
  PROVE  LogInv'
<1> USE BootLogAssumption DEF BootLogAssumption, ScanOccupied, Set, LogInv
<1>1. LogTypeOK'
  BY DEF LogTypeOK
<1>2. Scanning'
  BY DEF Scanning, FullBelow, LogTypeOK, Slots
<1>3. HandleSound'
  BY DEF HandleSound, Scanning, LogTypeOK
<1>4. Appending' /\ AckedDurable'
  BY DEF Appending, AckedDurable
<1> QED
  BY <1>1, <1>2, <1>3, <1>4

\* The scan ends: the partition has no hole and the handle counts it.
LEMMA ScanDoneStep ==
  ASSUME LogInv, ScanDone
  PROVE  LogInv'
<1> USE BootLogAssumption DEF BootLogAssumption, ScanDone, Set, Return, LogInv
<1>1. LogTypeOK'
  BY DEF LogTypeOK
<1>2. HoleFree(flash)
  <2>1. next_slot[who] \in Nat
    BY DEF LogTypeOK
  <2>2. \A i \in Slots : i < next_slot[who] => ~is_erased(flash[i])
    BY DEF Scanning, FullBelow
  <2>3. \A i \in Slots : next_slot[who] <= i => is_erased(flash[i])
    BY DEF Scanning, LogTypeOK, Slots
  <2> QED
    BY <2>1, <2>2, <2>3, PrefixHoleFree
<1>3. HandleSound'
  BY <1>2 DEF HandleSound, HoleFree, Scanning, FullBelow, LogTypeOK
<1>4. Scanning' /\ Appending' /\ AckedDurable'
  BY DEF Scanning, Appending, AckedDurable
<1> QED
  BY <1>1, <1>3, <1>4

\* boot_log_append accepted.
LEMMA AppendCallStep ==
  ASSUME LogInv, NEW h \in Handles, NEW r \in Records \cup {Erased}, AppendCall(h, r)
  PROVE  LogInv'
<1> USE BootLogAssumption
    DEF BootLogAssumption, AppendCall, AppendRet, handleVars, LogInv
<1>1. LogTypeOK'
  BY DEF LogTypeOK
<1>2. Appending'
  BY DEF Appending, FullBelow, HoleFree, HandleSound, LogTypeOK
<1>3. Scanning' /\ HandleSound' /\ AckedDurable'
  BY DEF Scanning, HandleSound, AckedDurable
<1> QED
  BY <1>1, <1>2, <1>3

\* The check of the slot: stale, or free.
LEMMA CheckStep ==
  ASSUME LogInv, CheckOccupied \/ CheckFree
  PROVE  LogInv'
<1> USE BootLogAssumption
    DEF BootLogAssumption, CheckOccupied, CheckFree, Set, Return, LogInv
<1>1. LogTypeOK'
  BY DEF LogTypeOK
<1>2. Appending'
  BY DEF Appending, FullBelow, HoleFree, LogTypeOK
<1>3. HandleSound'
  BY DEF HandleSound, HoleFree, LogTypeOK
<1>4. Scanning' /\ AckedDurable'
  BY DEF Scanning, AckedDurable
<1> QED
  BY <1>1, <1>2, <1>3, <1>4

\* flash_write: the one step that writes the partition.
LEMMA ProgramStep ==
  ASSUME LogInv, Program
  PROVE  LogInv'
<1> USE BootLogAssumption DEF BootLogAssumption, LogInv
<1>1. PICK data \in {record, Torn, flash[next_slot[who]]} :
        flash' = Set(flash, next_slot[who], data)
  BY DEF Program
<1>2. /\ access = "program" /\ next_slot[who] \in Slots
      /\ is_erased(flash[next_slot[who]]) /\ data \in Contents
  BY DEF Program, Appending, LogTypeOK, Slots, Contents
<1>3. UNCHANGED <<handleVars, who, record, index, found_empty, acked>>
  BY DEF Program, Return
<1>4. \A i \in Slots : ~is_erased(flash[i]) => flash'[i] = flash[i]
  BY <1>1, <1>2 DEF Set, LogTypeOK
<1>5. HoleFree(flash')
  BY <1>1, <1>2, ProgramKeepsHoleFree DEF Appending, FullBelow, LogTypeOK
<1>6. LogTypeOK'
  BY <1>1, <1>2, <1>3 DEF Program, Return, Set, LogTypeOK, handleVars
<1>7. Appending' /\ Scanning'
  BY <1>2, <1>3, <1>4, <1>5
     DEF Program, Return, Appending, Scanning, FullBelow, LogTypeOK, handleVars
<1>8. HandleSound'
  BY <1>3, <1>4, <1>5 DEF HandleSound, handleVars
<1>9. AckedDurable'
  BY <1>3, <1>4 DEF AckedDurable, LogTypeOK, is_erased
<1> QED
  BY <1>6, <1>7, <1>8, <1>9

\* The record read back: the append succeeds.
LEMMA VerifiedStep ==
  ASSUME LogInv, Verified
  PROVE  LogInv'
<1> USE BootLogAssumption DEF BootLogAssumption, Verified, Set, Return, LogInv
<1>1. /\ next_slot[who] \in Slots /\ record \in Records
      /\ ~is_erased(flash[next_slot[who]]) /\ HoleFree(flash)
  BY DEF Appending, LogTypeOK, Slots, is_erased
<1>2. LogTypeOK'
  BY <1>1 DEF LogTypeOK, Slots
<1>3. HandleSound'
  BY <1>1 DEF HandleSound, HoleFree, Appending, FullBelow, LogTypeOK, Slots
<1>4. AckedDurable'
  BY DEF AckedDurable
<1>5. Scanning' /\ Appending'
  BY DEF Scanning, Appending
<1> QED
  BY <1>2, <1>3, <1>4, <1>5

\* Power goes: no handle is usable.
LEMMA PowerCutStep ==
  ASSUME LogInv, PowerCut
  PROVE  LogInv'
BY BootLogAssumption
   DEF BootLogAssumption, PowerCut, Return, LogInv, LogTypeOK, Scanning, Appending,
       HandleSound, AckedDurable

-----------------------------------------------------------------------------
(* The invariant, and what follows from it. *)

\* The initial state satisfies the invariant.
LEMMA LogInvInit == LogInit => LogInv
<1> SUFFICES ASSUME LogInit PROVE LogInv
  OBVIOUS
<1> USE BootLogAssumption DEF BootLogAssumption, LogInit
<1>1. LogTypeOK
  <2>1. flash \in [Slots -> Contents]
    BY DEF Contents
  <2>2. 0 \in 0..N
    OBVIOUS
  <2> QED
    BY <2>1, <2>2 DEF LogTypeOK
<1>2. Scanning /\ Appending /\ HandleSound /\ AckedDurable
  BY DEF Scanning, Appending, HandleSound, AckedDurable
<1> QED
  BY <1>1, <1>2 DEF LogInv

\* Every step preserves the invariant.
LEMMA LogInvStep == LogInv /\ [LogNext]_logVars => LogInv'
<1> SUFFICES ASSUME LogInv, [LogNext]_logVars PROVE LogInv'
  OBVIOUS
<1>1. ASSUME NEW h \in Handles, ReadLast(h) PROVE LogInv'
  BY <1>1, ReturnStep DEF ReadLast, ReadLastRet
<1>2. ASSUME NEW h \in Handles, NEW r \in Records \cup {Erased}, AppendRefused(h, r)
      PROVE  LogInv'
  BY <1>2, ReturnStep DEF AppendRefused, AppendRet
<1>3. ASSUME ScanFails \/ ScanHole \/ CheckFails \/ VerifyFails PROVE LogInv'
  BY <1>3, ReturnStep DEF ScanFails, ScanHole, CheckFails, VerifyFails
<1>4. ASSUME CallStep PROVE LogInv'
  BY <1>3, <1>4, ScanErasedStep, ScanOccupiedStep, ScanDoneStep, CheckStep,
     ProgramStep, VerifiedStep DEF CallStep
<1>5. ASSUME UNCHANGED logVars PROVE LogInv'
  BY <1>5 DEF logVars, handleVars, callVars, LogInv, LogTypeOK, Scanning, FullBelow,
     Appending, HandleSound, AckedDurable
<1> QED
  BY <1>1, <1>2, <1>4, <1>5, InitStep, AppendCallStep, PowerCutStep DEF LogNext

\* The inductive invariant of boot_log.c.
THEOREM LogInvariance == LogSpec => []LogInv
BY LogInvInit, LogInvStep, PTL DEF LogSpec

\* Partition, handles and locals keep their types; next_slot stays within 0..N.
THEOREM LogTypeCorrect == LogSpec => []LogTypeOK
<1>1. LogInv => LogTypeOK
  BY DEF LogInv
<1> QED
  BY <1>1, LogInvariance, PTL

\* A usable handle lies on a partition without holes, at or before the first
\* erased slot, whatever other handles have done since it was initialised.
THEOREM HandlesSound == LogSpec => []HandleSound
<1>1. LogInv => HandleSound
  BY DEF LogInv
<1> QED
  BY <1>1, LogInvariance, PTL

\* A record whose boot_log_append returned 0 is never lost or altered.
THEOREM AcknowledgedRecordsStay == LogSpec => []AckedDurable
<1>1. LogInv => AckedDurable
  BY DEF LogInv
<1> QED
  BY <1>1, LogInvariance, PTL

\* Every step that is not flash_write leaves the partition alone.
LEMMA OnlyProgramWrites ==
  ASSUME [LogNext]_logVars, ~Program
  PROVE  flash' = flash
BY DEF LogNext, CallStep, logVars, InitRefused, InitCall, ReadLast, AppendRefused,
   AppendCall, ScanFails, ScanErased, ScanOccupied, ScanHole, ScanDone, CheckFails,
   CheckOccupied, CheckFree, VerifyFails, Verified, PowerCut

\* boot_log_append never programs an occupied slot, even with the same bytes.
THEOREM OccupiedNeverProgrammed == LogSpec => NeverReprogram
<1>1. ASSUME LogInv, [LogNext]_logVars
      PROVE  \A i \in Slots : ~is_erased(flash[i]) => flash'[i] = flash[i]
  <2>1. CASE Program
    BY <1>1, <2>1 DEF Program, Set, LogInv, LogTypeOK, Appending
  <2>2. CASE ~Program
    BY <1>1, <2>2, OnlyProgramWrites
  <2> QED
    BY <2>1, <2>2
<1> QED
  BY <1>1, LogInvariance, PTL DEF LogSpec, NeverReprogram

\* No step makes a hole, and a partition with a hole is never written.
THEOREM HolesStay == LogSpec => HolesAreFinal
<1>1. ASSUME LogInv, [LogNext]_logVars
      PROVE  IF HoleFree(flash) THEN HoleFree(flash') ELSE flash' = flash
  <2>1. CASE Program
    <3>1. HoleFree(flash) /\ LogInv'
      BY <1>1, <2>1, LogInvStep DEF Program, LogInv, Appending
    <3>2. /\ next_slot[who] \in Slots /\ FullBelow(next_slot[who])
          /\ is_erased(flash[next_slot[who]])
      BY <1>1, <2>1, BootLogAssumption
         DEF BootLogAssumption, Program, LogInv, LogTypeOK, Appending, Slots
    <3>3. flash \in [Slots -> Contents]
      BY <1>1 DEF LogInv, LogTypeOK
    <3> QED
      BY <2>1, <3>1, <3>2, <3>3, ProgramKeepsHoleFree DEF Program, FullBelow
  <2>2. CASE ~Program
    BY <1>1, <2>2, OnlyProgramWrites
  <2> QED
    BY <2>1, <2>2
<1> QED
  BY <1>1, LogInvariance, PTL DEF LogSpec, HolesAreFinal

-----------------------------------------------------------------------------
(* Lab 25. *)

\* The mask is the set of fresh reports, except between a feed and the clearing.
MaskFollowsReports ==
  /\ pc[Main] # "clear" => reported_mask = fresh
  /\ pc[Main] = "clear" => fresh = {}

\* watchdog_service feeds only in WATCHDOG_RUNNING, and main starts it once.
MainAlone ==
  /\ pc[Main] = "init" => state = "UNINITIALIZED"
  /\ \A w \in Tasks : pc[w] \notin {"init", "clear"}

IInv == TypeOK /\ MutualExclusion /\ MaskFollowsReports /\ MainAlone

-----------------------------------------------------------------------------
(* One lemma per action. *)

\* The steps of any thread that only touch the mutex and sleep.
LEMMA AcquireStep ==
  ASSUME IInv, NEW t \in Threads, Acquire(t)
  PROVE  IInv'
<1> USE WatchdogAssumption
    DEF WatchdogAssumption, IInv, Threads, Acquire, At, GoTo, ctxVars, demoVars, hwVars
<1>1. TypeOK'
  BY DEF TypeOK
<1>2. MutualExclusion'
  BY DEF MutualExclusion, TypeOK
<1>3. MaskFollowsReports' /\ MainAlone'
  BY DEF MaskFollowsReports, MainAlone, TypeOK
<1> QED
  BY <1>1, <1>2, <1>3

\* A sleep ends.
LEMMA WakeStep ==
  ASSUME IInv, NEW t \in Threads, Wake(t)
  PROVE  IInv'
<1> USE WatchdogAssumption
    DEF WatchdogAssumption, IInv, Threads, Wake, At, GoTo, ctxVars, demoVars, hwVars
<1>1. TypeOK'
  BY DEF TypeOK
<1>2. MutualExclusion'
  BY DEF MutualExclusion, TypeOK
<1>3. MaskFollowsReports' /\ MainAlone'
  BY DEF MaskFollowsReports, MainAlone, TypeOK
<1> QED
  BY <1>1, <1>2, <1>3

\* A worker outside the mutex.
LEMMA WorkerLoopStep ==
  ASSUME IInv, NEW w \in Tasks, Stalled(w) \/ Work(w)
  PROVE  IInv'
<1> USE WatchdogAssumption
    DEF WatchdogAssumption, IInv, Threads, Stalled, Work, Sleep, At, GoTo, ctxVars,
        demoVars, hwVars
<1>1. TypeOK'
  BY DEF TypeOK
<1>2. MutualExclusion'
  BY DEF MutualExclusion, TypeOK
<1>3. MaskFollowsReports' /\ MainAlone'
  BY DEF MaskFollowsReports, MainAlone, TypeOK
<1> QED
  BY <1>1, <1>2, <1>3

\* A worker inside the mutex: the main thread is not between feed and reset.
LEMMA ReportStep ==
  ASSUME IInv, NEW w \in Tasks, Report(w) \/ ReportRefused(w)
  PROVE  IInv'
<1> USE WatchdogAssumption
    DEF WatchdogAssumption, IInv, Threads, Report, ReportRefused, At, GoTo, ctxVars,
        demoVars, hwVars
<1>1. TypeOK'
  BY DEF TypeOK
<1>2. MutualExclusion'
  BY DEF MutualExclusion, TypeOK
<1>3. pc[Main] # "clear"
  BY DEF MutualExclusion
<1>4. MaskFollowsReports' /\ MainAlone'
  BY <1>3 DEF MaskFollowsReports, MainAlone, TypeOK
<1> QED
  BY <1>1, <1>2, <1>4

\* A thread leaves the mutex.
LEMMA UnlockStep ==
  ASSUME IInv, NEW t \in Threads,
         (t \in Tasks /\ WorkerUnlock(t)) \/ (t = Main /\ MainUnlock)
  PROVE  IInv'
<1> USE WatchdogAssumption
    DEF WatchdogAssumption, IInv, Threads, WorkerUnlock, MainUnlock, Sleep, At, GoTo,
        ctxVars, demoVars, hwVars
<1>1. TypeOK'
  BY DEF TypeOK
<1>2. MutualExclusion'
  BY DEF MutualExclusion, TypeOK
<1>3. MaskFollowsReports' /\ MainAlone'
  BY DEF MaskFollowsReports, MainAlone, TypeOK
<1> QED
  BY <1>1, <1>2, <1>3

\* main: watchdog_init.
LEMMA BootStep ==
  ASSUME IInv, Boot
  PROVE  IInv'
<1> USE WatchdogAssumption DEF WatchdogAssumption, IInv, Threads, Boot, At, GoTo, demoVars
<1>1. TypeOK'
  BY DEF TypeOK
<1>2. MutualExclusion'
  BY DEF MutualExclusion, TypeOK
<1>3. MaskFollowsReports' /\ MainAlone'
  BY DEF MaskFollowsReports, MainAlone, TypeOK
<1> QED
  BY <1>1, <1>2, <1>3

\* main: the demonstration's stall, and watchdog_service waiting.
LEMMA MainLoopStep ==
  ASSUME IInv, InjectStall \/ ServiceWaiting
  PROVE  IInv'
<1> USE WatchdogAssumption
    DEF WatchdogAssumption, IInv, Threads, InjectStall, ServiceWaiting, At, GoTo,
        ctxVars, demoVars, hwVars
<1>1. TypeOK'
  BY DEF TypeOK
<1>2. MutualExclusion'
  BY DEF MutualExclusion, TypeOK
<1>3. MaskFollowsReports' /\ MainAlone'
  BY DEF MaskFollowsReports, MainAlone, TypeOK
<1> QED
  BY <1>1, <1>2, <1>3

\* main: wdt_feed, and the reset of the mask after it.
LEMMA FeedStep ==
  ASSUME IInv, Feed \/ Clear
  PROVE  IInv'
<1> USE WatchdogAssumption
    DEF WatchdogAssumption, IInv, Threads, Feed, Clear, At, GoTo, ctxVars, demoVars, hwVars
<1>1. TypeOK'
  BY DEF TypeOK
<1>2. MutualExclusion'
  BY DEF MutualExclusion, TypeOK
<1>3. MaskFollowsReports' /\ MainAlone'
  BY DEF MaskFollowsReports, MainAlone, TypeOK
<1> QED
  BY <1>1, <1>2, <1>3

\* Time passes.
LEMMA TickStep ==
  ASSUME IInv, Tick
  PROVE  IInv'
<1> USE WatchdogAssumption DEF WatchdogAssumption, IInv, Threads, Tick, ctxVars, demoVars, hwVars
<1>1. TypeOK'
  BY DEF TypeOK, At
<1>2. MutualExclusion' /\ MaskFollowsReports' /\ MainAlone'
  BY DEF MutualExclusion, MaskFollowsReports, MainAlone
<1> QED
  BY <1>1, <1>2

\* The initial state satisfies the invariant.
LEMMA InitIInv == Init => IInv
<1> SUFFICES ASSUME Init PROVE IInv
  OBVIOUS
<1> USE WatchdogAssumption DEF WatchdogAssumption, Threads, BootPc, Init
<1>1. TypeOK
  <2>1. g_successful_feeds \in 0..AutoStallAfter /\ elapsed \in 0..TIMEOUT
    OBVIOUS
  <2>2. slept \in [Threads -> Nat] /\ silence \in [Tasks -> Nat]
    OBVIOUS
  <2> QED
    BY <2>1, <2>2 DEF TypeOK
<1>2. MutualExclusion /\ MaskFollowsReports /\ MainAlone
  BY DEF MutualExclusion, MaskFollowsReports, MainAlone
<1> QED
  BY <1>1, <1>2 DEF IInv

\* A reset restores the initial state.
LEMMA ResetStep ==
  ASSUME Reset
  PROVE  IInv'
<1> USE WatchdogAssumption DEF WatchdogAssumption, Threads, BootPc, Reset
<1>1. TypeOK'
  <2>1. g_successful_feeds' \in 0..AutoStallAfter /\ elapsed' \in 0..TIMEOUT
    OBVIOUS
  <2>2. slept' \in [Threads -> Nat] /\ silence' \in [Tasks -> Nat]
    OBVIOUS
  <2> QED
    BY <2>1, <2>2 DEF TypeOK
<1>2. MutualExclusion' /\ MaskFollowsReports' /\ MainAlone'
  BY DEF MutualExclusion, MaskFollowsReports, MainAlone
<1> QED
  BY <1>1, <1>2 DEF IInv

\* Every step preserves the invariant.
LEMMA NextIInv == IInv /\ [Next]_vars => IInv'
<1> SUFFICES ASSUME IInv, [Next]_vars PROVE IInv'
  OBVIOUS
<1>1. ASSUME NEW w \in Tasks, WorkerStep(w) PROVE IInv'
  <2>1. CASE Stalled(w) \/ Work(w)
    BY <2>1, <1>1, WorkerLoopStep
  <2>2. CASE Report(w) \/ ReportRefused(w)
    BY <2>2, <1>1, ReportStep
  <2>3. CASE WorkerUnlock(w)
    <3>1. w \in Threads /\ ((w \in Tasks /\ WorkerUnlock(w)) \/ (w = Main /\ MainUnlock))
      BY <2>3, <1>1 DEF Threads
    <3> QED
      BY <3>1, UnlockStep
  <2> QED
    BY <1>1, <2>1, <2>2, <2>3 DEF WorkerStep
<1>2. ASSUME MainStep PROVE IInv'
  BY <1>2, BootStep, MainLoopStep, FeedStep, UnlockStep DEF MainStep, Threads
<1>3. ASSUME UNCHANGED vars PROVE IInv'
  BY <1>3 DEF vars, ctxVars, demoVars, hwVars, IInv, TypeOK, MutualExclusion,
     MaskFollowsReports, MainAlone
<1> QED
  BY <1>1, <1>2, <1>3, AcquireStep, WakeStep, TickStep, ResetStep
     DEF Next, ThreadStep

\* The inductive invariant of the supervisor.
THEOREM Invariance == Spec => []IInv
BY InitIInv, NextIInv, PTL DEF Spec

\* Masks, states, program counters and clocks keep their types.
THEOREM TypeCorrect == Spec => []TypeOK
<1>1. IInv => TypeOK
  BY DEF IInv
<1> QED
  BY <1>1, Invariance, PTL

\* Reports, service and feed exclude one another through the mutex.
THEOREM MutexExcludes == Spec => []MutualExclusion
<1>1. IInv => MutualExclusion
  BY DEF IInv
<1> QED
  BY <1>1, Invariance, PTL

\* Whenever the mutex is free the mask holds the reports since the last feed:
\* one made around a feed is counted for the next.
THEOREM ReportsKept == Spec => []NoLostReport
<1>1. IInv => NoLostReport
  BY WatchdogAssumption DEF WatchdogAssumption, IInv, NoLostReport, MutualExclusion,
     MaskFollowsReports, Threads
<1> QED
  BY <1>1, Invariance, PTL

\* The hardware is fed only when every task has reported since it last was.
THEOREM FeedsJustified == Spec => FeedJustified
<1>1. ASSUME IInv, [Next]_vars, armed', elapsed' < elapsed
      PROVE  fresh = Tasks
  <2>1. elapsed \in Nat
    BY <1>1, WatchdogAssumption DEF IInv, TypeOK, WatchdogAssumption
  <2>2. CASE Feed
    BY <1>1, <2>1, <2>2 DEF IInv, MaskFollowsReports, Feed, At
  <2>3. CASE ~Feed
    <3>1. elapsed' = elapsed \/ elapsed' = elapsed + 1 \/ armed' = FALSE
      BY <1>1, <2>3
         DEF Next, ThreadStep, WorkerStep, MainStep, Acquire, Wake, Stalled, Work, Report,
             ReportRefused, WorkerUnlock, Boot, InjectStall, ServiceWaiting, Clear,
             MainUnlock, Tick, Reset, vars, hwVars
    <3>2. armed' # FALSE
      BY <1>1
    <3> QED
      BY <1>1, <2>1, <3>1, <3>2
  <2> QED
    BY <2>2, <2>3
<1> QED
  BY <1>1, Invariance, PTL DEF Spec, FeedJustified

\* After an error of wdt_feed, or of watchdog_init, only the reset leaves
\* WATCHDOG_FAULTED: watchdog_service never feeds again.
THEOREM FaultsFinal == Spec => FaultIsFinal
<1>1. ASSUME IInv, [Next]_vars, state = "FAULTED", state' # "FAULTED"
      PROVE  armed /\ elapsed = TIMEOUT
  BY <1>1
     DEF IInv, MainAlone, Next, ThreadStep, WorkerStep, MainStep, Acquire, Wake, Stalled,
         Work, Report, ReportRefused, WorkerUnlock, Boot, InjectStall, ServiceWaiting,
         Feed, Clear, MainUnlock, Tick, Reset, At, vars, ctxVars
<1> QED
  BY <1>1, Invariance, PTL DEF Spec, FaultIsFinal
-----------------------------------------------------------------------------
(* The time between two feeds. *)

\* Finitely many tasks have a longest period, so MaxPeriod is one of them.
LEMMA LongestPeriod ==
  /\ MaxPeriod \in Nat
  /\ \A w \in Tasks : Period[w] <= MaxPeriod
<1> DEFINE Longest(m, S) == m \in S /\ \A w \in S : Period[w] <= Period[m]
           Group(S, n) == /\ S \subseteq Tasks /\ S # {}
                          /\ IsFiniteSet(S) /\ Cardinality(S) = n
           Bad == {n \in Nat : \E S : Group(S, n) /\ \A m \in S : ~Longest(m, S)}
<1>1. Bad = {}
  <2> SUFFICES ASSUME Bad # {} PROVE FALSE
    OBVIOUS
  <2>1. PICK n \in Bad : \A k \in Bad : ~(<<k, n>> \in OpToRel(<, Nat))
    <3> HIDE DEF Bad
    <3>1. Bad \subseteq Nat
      BY DEF Bad
    <3> QED
      BY <3>1, NatLessThanWellFounded, WFMin, Zenon
  <2>2. \A k \in Nat : k < n => k \notin Bad
    BY <2>1 DEF OpToRel
  <2>3. PICK S : Group(S, n) /\ \A m \in S : ~Longest(m, S)
    OBVIOUS
  <2>4. PICK x \in S : TRUE
    BY <2>3
  <2> DEFINE R == S \ {x}
  <2>5. IsFiniteSet(R) /\ Cardinality(R) = n - 1 /\ R \subseteq Tasks
    BY <2>3, <2>4, FS_RemoveElement
  <2>6. Period[x] \in Nat
    BY <2>3, <2>4, WatchdogAssumption DEF WatchdogAssumption, Threads
  <2>7. R # {}
    <3> SUFFICES ASSUME R = {} PROVE FALSE
      OBVIOUS
    <3>1. S = {x}
      BY <2>4
    <3>2. Longest(x, S)
      BY <3>1, <2>6
    <3> QED
      BY <3>2, <2>3, <2>4
  <2>8. n - 1 \in Nat
    BY <2>5, FS_CardinalityType
  <2>9. n - 1 \notin Bad
    BY <2>2, <2>8 DEF Bad
  <2>10. PICK m \in R : Longest(m, R)
    BY <2>5, <2>7, <2>8, <2>9
  <2>11. Period[m] \in Nat /\ \A w \in S : Period[w] \in Nat
    BY <2>3, <2>5, <2>10, WatchdogAssumption DEF WatchdogAssumption, Threads
  <2>12. Longest(m, S) \/ Longest(x, S)
    BY <2>4, <2>6, <2>10, <2>11
  <2> QED
    BY <2>3, <2>4, <2>10, <2>12
<1>2. Group(Tasks, Cardinality(Tasks)) /\ Cardinality(Tasks) \in Nat
  BY WatchdogAssumption, FS_CardinalityType DEF WatchdogAssumption
<1>3. PICK m \in Tasks : Longest(m, Tasks)
  BY <1>1, <1>2
<1>4. Period[m] \in {Period[w] : w \in Tasks} /\ \A w \in Tasks : Period[w] <= Period[m]
  BY <1>3
<1>5. /\ MaxPeriod \in {Period[w] : w \in Tasks}
      /\ \A w \in Tasks : Period[w] <= MaxPeriod
  BY <1>4 DEF MaxPeriod
<1> QED
  BY <1>5, WatchdogAssumption DEF WatchdogAssumption, Threads

\* No timer runs late by more than Slack, and the hardware counts from its
\* set-up on.
Timers ==
  /\ \A t \in Threads : slept[t] <= Period[t] + Slack
  /\ ~armed => elapsed = 0
  /\ pc[Main] = "init" => ~armed
  /\ ~disturbed => g_effective_stall_mask = {}

Steady == ~disturbed /\ state = "RUNNING"

\* A worker that has yet to report has run, or slept, since the last feed.
WorkersPrompt ==
  Steady => \A w \in Tasks :
    /\ pc[w] \in {"loop", "lock", "locked", "unlock", "sleep"}
    /\ pc[w] = "unlock" => w \in fresh
    /\ w \notin fresh => elapsed <= IF pc[w] = "sleep" THEN slept[w] ELSE Period[w] + Slack

\* Once all have reported, the main thread sleeps at most once before it feeds:
\* it never goes to sleep on a full mask.
MainPrompt ==
  Steady =>
    /\ pc[Main] \in {"loop", "lock", "locked", "clear", "unlock", "sleep"}
    /\ pc[Main] = "unlock" => fresh # Tasks
    /\ fresh = Tasks => elapsed <= MaxPeriod + Slack
         + (IF pc[Main] = "sleep" THEN slept[Main] ELSE Period[Main] + Slack)

\* A task silent for longer than the hardware counts has not reported since
\* the last feed, and that feed came within one timeout of its last report.
Silences ==
  \A w \in Tasks : silence[w] <= elapsed + (IF w \in fresh THEN 0 ELSE TIMEOUT)

TimeInv == Timers /\ WorkersPrompt /\ MainPrompt /\ Silences

\* The steps that neither report, feed nor let time pass: a sleep begins only
\* behind a report or on a mask that is not full, and ends within its bound.
LEMMA AcquireTimes ==
  ASSUME IInv, TimeInv, NEW t \in Threads, Acquire(t) \/ Wake(t)
  PROVE  TimeInv'
<1> USE WatchdogAssumption, LongestPeriod
    DEF WatchdogAssumption, IInv, TimeInv, TypeOK, Threads, Acquire, Wake, At, GoTo,
        ctxVars, demoVars, hwVars
<1>1. Timers'
  BY DEF Timers
<1>2. WorkersPrompt'
  BY DEF WorkersPrompt, Timers, Steady
<1>3. MainPrompt'
  BY DEF MainPrompt, Timers, Steady
<1>4. Silences'
  BY DEF Silences
<1> QED
  BY <1>1, <1>2, <1>3, <1>4

\* A worker at the top of its loop; undisturbed, it never skips its report.
LEMMA WorkerLoopTimes ==
  ASSUME IInv, TimeInv, NEW w \in Tasks, Stalled(w) \/ Work(w)
  PROVE  TimeInv'
<1> USE WatchdogAssumption
    DEF WatchdogAssumption, IInv, TimeInv, TypeOK, Threads, Stalled, Work, Sleep, At,
        GoTo, ctxVars, demoVars, hwVars
<1>1. Timers'
  BY DEF Timers
<1>2. WorkersPrompt'
  BY DEF WorkersPrompt, Timers, Steady
<1>3. MainPrompt'
  BY DEF MainPrompt, Steady
<1>4. Silences'
  BY DEF Silences
<1> QED
  BY <1>1, <1>2, <1>3, <1>4

\* The last report to arrive is at most a longest period after the feed.
LEMMA ReportTimes ==
  ASSUME IInv, TimeInv, NEW w \in Tasks, Report(w) \/ ReportRefused(w)
  PROVE  TimeInv'
<1> USE WatchdogAssumption
    DEF WatchdogAssumption, IInv, TimeInv, TypeOK, Threads, Report, ReportRefused, At,
        GoTo, ctxVars, demoVars, hwVars
<1>1. Timers'
  BY DEF Timers
<1>2. WorkersPrompt'
  BY DEF WorkersPrompt, Steady
<1>3. MainPrompt'
  <2>1. CASE Report(w)
    <3> SUFFICES ASSUME Steady PROVE MainPrompt'
      BY <2>1 DEF MainPrompt, Steady
    <3>1. pc[Main] # "unlock" /\ pc'[Main] = pc[Main] /\ pc[w] = "locked"
      BY <2>1 DEF MutualExclusion
    <3>2. w \notin fresh => elapsed <= Period[w] + Slack
      BY <3>1 DEF WorkersPrompt
    <3>3. w \notin fresh => elapsed <= MaxPeriod + Slack
      BY <3>2, LongestPeriod
    <3>4. w \in fresh => fresh' = fresh
      BY <2>1
    <3>5. slept' = slept /\ elapsed' = elapsed
      BY <2>1
    <3>6. MaxPeriod \in Nat /\ Period[Main] \in Nat /\ slept[Main] \in Nat
      BY LongestPeriod
    <3> QED
      BY <3>1, <3>3, <3>4, <3>5, <3>6 DEF MainPrompt, Steady
  <2>2. CASE ReportRefused(w)
    BY <2>2 DEF MainPrompt, Steady
  <2> QED
    BY <2>1, <2>2
<1>4. Silences'
  BY DEF Silences
<1> QED
  BY <1>1, <1>2, <1>3, <1>4

\* A thread leaves the mutex: a worker has reported, the main thread has seen
\* a mask that was not full, or has just cleared it.
LEMMA UnlockTimes ==
  ASSUME IInv, TimeInv, NEW t \in Threads,
         (t \in Tasks /\ WorkerUnlock(t)) \/ (t = Main /\ MainUnlock)
  PROVE  TimeInv'
<1> USE WatchdogAssumption
    DEF WatchdogAssumption, IInv, TimeInv, TypeOK, Threads, WorkerUnlock, MainUnlock,
        Sleep, At, GoTo, ctxVars, demoVars, hwVars
<1>1. Timers'
  BY DEF Timers
<1>2. WorkersPrompt'
  BY DEF WorkersPrompt, Steady
<1>3. MainPrompt'
  BY DEF MainPrompt, Steady
<1>4. Silences'
  BY DEF Silences
<1> QED
  BY <1>1, <1>2, <1>3, <1>4

\* The hardware starts to count when everyone starts to run.
LEMMA BootTimes ==
  ASSUME IInv, TimeInv, Boot
  PROVE  TimeInv'
<1> USE WatchdogAssumption, LongestPeriod
    DEF WatchdogAssumption, IInv, TimeInv, TypeOK, Threads, Boot, At, GoTo, demoVars
<1>1. Timers'
  BY DEF Timers
<1>2. WorkersPrompt'
  BY DEF WorkersPrompt, Timers, Steady
<1>3. MainPrompt'
  BY DEF MainPrompt, Timers, Steady
<1>4. Silences'
  BY DEF Silences
<1> QED
  BY <1>1, <1>2, <1>3, <1>4

\* main: a mask that is not full is what it waits for.
LEMMA MainLoopTimes ==
  ASSUME IInv, TimeInv, InjectStall \/ ServiceWaiting
  PROVE  TimeInv'
<1> USE WatchdogAssumption
    DEF WatchdogAssumption, IInv, TimeInv, TypeOK, Threads, InjectStall, ServiceWaiting,
        At, GoTo, ctxVars, demoVars, hwVars
<1>1. Timers'
  BY DEF Timers
<1>2. WorkersPrompt'
  BY DEF WorkersPrompt, Steady
<1>3. MainPrompt'
  BY DEF MainPrompt, MaskFollowsReports, Steady
<1>4. Silences'
  BY DEF Silences
<1> QED
  BY <1>1, <1>2, <1>3, <1>4

\* A feed starts the count again, and every task has reported within one
\* timeout of it; no worker is about to leave the mutex.
LEMMA FeedTimes ==
  ASSUME IInv, TimeInv, Feed \/ Clear
  PROVE  TimeInv'
<1> USE WatchdogAssumption
    DEF WatchdogAssumption, IInv, TimeInv, TypeOK, Threads, Feed, Clear, At, GoTo,
        ctxVars, demoVars, hwVars
<1>1. Timers'
  BY DEF Timers
<1>2. \A w \in Tasks : pc[w] # "unlock"
  BY DEF MutualExclusion
<1>3. WorkersPrompt'
  BY <1>2 DEF WorkersPrompt, Steady
<1>4. MainPrompt'
  BY DEF MainPrompt, MaskFollowsReports, Steady
<1>5. Silences'
  BY DEF Silences, MaskFollowsReports
<1> QED
  BY <1>1, <1>3, <1>4, <1>5

\* Time passes only while everyone sleeps, so every clock advances alike.
LEMMA TickTimes ==
  ASSUME IInv, TimeInv, Tick
  PROVE  TimeInv'
<1> USE WatchdogAssumption, LongestPeriod
    DEF WatchdogAssumption, IInv, TimeInv, TypeOK, Threads, Tick, At, ctxVars, demoVars,
        hwVars
<1>1. Timers'
  BY DEF Timers, MainAlone
<1>2. WorkersPrompt'
  BY DEF WorkersPrompt, Steady
<1>3. MainPrompt'
  BY DEF MainPrompt, Steady
<1>4. Silences'
  BY DEF Silences
<1> QED
  BY <1>1, <1>2, <1>3, <1>4

\* Power-on and the watchdog's reset.
LEMMA InitTimes == (Init => TimeInv) /\ (Reset => TimeInv')
<1> USE WatchdogAssumption DEF WatchdogAssumption, Threads, BootPc
<1>1. ASSUME Init PROVE TimeInv
  BY <1>1 DEF Init, TimeInv, Timers, WorkersPrompt, MainPrompt, Silences, Steady
<1>2. ASSUME Reset PROVE TimeInv'
  BY <1>2 DEF Reset, TimeInv, Timers, WorkersPrompt, MainPrompt, Silences, Steady
<1> QED
  BY <1>1, <1>2

\* Every step keeps the time bounds.
LEMMA NextTimes == IInv /\ TimeInv /\ [Next]_vars => TimeInv'
<1> SUFFICES ASSUME IInv, TimeInv, [Next]_vars PROVE TimeInv'
  OBVIOUS
<1>1. ASSUME NEW w \in Tasks, WorkerStep(w) PROVE TimeInv'
  <2>1. CASE Stalled(w) \/ Work(w)
    BY <2>1, <1>1, WorkerLoopTimes
  <2>2. CASE Report(w) \/ ReportRefused(w)
    BY <2>2, <1>1, ReportTimes
  <2>3. CASE WorkerUnlock(w)
    <3>1. w \in Threads /\ ((w \in Tasks /\ WorkerUnlock(w)) \/ (w = Main /\ MainUnlock))
      BY <2>3, <1>1 DEF Threads
    <3> QED
      BY <3>1, UnlockTimes
  <2> QED
    BY <1>1, <2>1, <2>2, <2>3 DEF WorkerStep
<1>2. ASSUME MainStep PROVE TimeInv'
  BY <1>2, BootTimes, MainLoopTimes, FeedTimes, UnlockTimes DEF MainStep, Threads
<1>3. ASSUME UNCHANGED vars PROVE TimeInv'
  BY <1>3 DEF vars, ctxVars, demoVars, hwVars, TimeInv, Timers, WorkersPrompt, MainPrompt,
     Silences, Steady
<1> QED
  BY <1>1, <1>2, <1>3, AcquireTimes, TickTimes, InitTimes DEF Next, ThreadStep

\* Without a stall the watchdog is fed within the longest period, one period of
\* the main thread and their slack, for any periods; and no task stays silent
\* for longer than two timeouts, stalled or not.
THEOREM FeedsInTime == Spec => []FeedWindow
<1>1. ASSUME IInv, TimeInv PROVE FeedWindow
  <2> USE <1>1, WatchdogAssumption, LongestPeriod
      DEF WatchdogAssumption, IInv, TimeInv, TypeOK, Threads
  <2>1. Steady => elapsed <= MaxPeriod + Period[Main] + 2 * Slack
    <3> SUFFICES ASSUME Steady PROVE elapsed <= MaxPeriod + Period[Main] + 2 * Slack
      OBVIOUS
    <3>1. CASE fresh = Tasks
      BY <3>1 DEF MainPrompt, Timers
    <3>2. CASE fresh # Tasks
      <4>1. PICK w \in Tasks : w \notin fresh
        BY <3>2
      <4>2. elapsed <= Period[w] + Slack
        BY <4>1 DEF WorkersPrompt, Timers
      <4> QED
        BY <4>2
    <3> QED
      BY <3>1, <3>2
  <2>2. \A w \in Tasks : silence[w] <= 2 * TIMEOUT
    BY DEF Silences
  <2> QED
    BY <2>1, <2>2 DEF FeedWindow, Steady
<1> QED
  BY <1>1, InitTimes, NextTimes, Invariance, PTL DEF Spec
=============================================================================

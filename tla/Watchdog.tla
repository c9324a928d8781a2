------------------------------- MODULE Watchdog -------------------------------
(***************************************************************************)
(* Lab 25: heartbeat supervision of a hardware watchdog                     *)
(* (watchdog_supervisor.c and main.c).  Worker threads report under a       *)
(* mutex; the main thread, every SERVICE_MS, feeds the watchdog if all of   *)
(* them reported since it last did.  A stalled worker or a feed error must  *)
(* end in a hardware reset.                                                 *)
(*                                                                          *)
(* Time passes in ticks, and only when every thread sleeps; a sleep ends    *)
(* between its period and Slack ticks later, which stands for timer         *)
(* rounding, scheduling and the time code takes.                            *)
(***************************************************************************)
EXTENDS Integers, FiniteSets

CONSTANTS
  Tasks,               \* the supervised tasks (WATCHDOG_REQUIRED_MASK)
  Main,                \* the main thread
  Period,              \* Period[t]: ticks a thread sleeps at the end of its loop
  Slack,               \* bound on how much longer a sleep lasts
  TIMEOUT,             \* WATCHDOG_TIMEOUT_MS in ticks
  AutoTask,            \* the task stalled by the demonstration
  AutoStallAfter,      \* g_auto_stall_after_feeds, 0 to stay healthy
  None

Threads == Tasks \cup {Main}

ASSUME WatchdogAssumption ==
  /\ Main \notin Tasks /\ None \notin Threads
  /\ AutoTask \in Tasks /\ IsFiniteSet(Tasks)
  /\ Period \in [Threads -> Nat \ {0}]
  /\ Slack \in Nat /\ TIMEOUT \in Nat /\ AutoStallAfter \in Nat

VARIABLES
  \* struct watchdog_ctx
  state, reported_mask, lock,
  \* threads
  pc,                  \* the step each thread is at
  slept,               \* ticks a sleeping thread has slept
  \* main.c
  g_effective_stall_mask,
  g_successful_feeds,  \* counted up to AutoStallAfter
  \* the hardware watchdog
  armed,
  elapsed,             \* ticks since it was set up or last fed
  \* history
  fresh,               \* tasks that reported since the last successful feed
  silence,             \* ticks since each task's last report, or since set-up,
                       \* counted up to 2 * TIMEOUT + 1
  disturbed            \* a stall was effective since the last reset

ctxVars == <<state, reported_mask>>
demoVars == <<g_effective_stall_mask, g_successful_feeds, disturbed>>
hwVars == <<armed, elapsed>>
vars == <<ctxVars, lock, pc, slept, demoVars, hwVars, fresh, silence>>

GoTo(t, step) == pc' = [pc EXCEPT ![t] = step]

At(t, step) == pc[t] = step

-----------------------------------------------------------------------------
(* k_mutex_lock(K_FOREVER), k_mutex_unlock and k_msleep. *)

Acquire(t) ==
  /\ At(t, "lock")
  /\ lock = None
  /\ lock' = t
  /\ GoTo(t, "locked")
  /\ UNCHANGED <<ctxVars, slept, demoVars, hwVars, fresh, silence>>

Sleep(t) == GoTo(t, "sleep") /\ slept' = [slept EXCEPT ![t] = 0]

Wake(t) ==
  /\ At(t, "sleep")
  /\ slept[t] >= Period[t]
  /\ GoTo(t, "loop")
  /\ UNCHANGED <<ctxVars, lock, slept, demoVars, hwVars, fresh, silence>>

-----------------------------------------------------------------------------
(* heartbeat_worker and watchdog_report *)

Stalled(w) ==
  /\ At(w, "loop")
  /\ w \in g_effective_stall_mask
  /\ Sleep(w)
  /\ UNCHANGED <<ctxVars, lock, demoVars, hwVars, fresh, silence>>

Work(w) ==
  /\ At(w, "loop")
  /\ w \notin g_effective_stall_mask
  /\ GoTo(w, "lock")
  /\ UNCHANGED <<ctxVars, lock, slept, demoVars, hwVars, fresh, silence>>

\* With a bug: the mask is overwritten.
ReportOverwrites(w) ==
  /\ At(w, "locked")
  /\ state = "RUNNING"
  /\ reported_mask' = {w}
  /\ fresh' = fresh \cup {w}
  /\ silence' = [silence EXCEPT ![w] = 0]
  /\ GoTo(w, "unlock")
  /\ UNCHANGED <<state, lock, slept, demoVars, hwVars>>

Report(w) ==
  /\ At(w, "locked")
  /\ state = "RUNNING"
  /\ reported_mask' = reported_mask \cup {w}
  /\ fresh' = fresh \cup {w}
  /\ silence' = [silence EXCEPT ![w] = 0]
  /\ GoTo(w, "unlock")
  /\ UNCHANGED <<state, lock, slept, demoVars, hwVars>>

ReportRefused(w) ==
  /\ At(w, "locked")
  /\ state # "RUNNING"
  /\ GoTo(w, "unlock_error")
  /\ UNCHANGED <<ctxVars, lock, slept, demoVars, hwVars, fresh, silence>>

WorkerUnlock(w) ==
  /\ lock' = None
  /\ \/ At(w, "unlock") /\ Sleep(w)
     \/ At(w, "unlock_error") /\ GoTo(w, "halted") /\ UNCHANGED slept
  /\ UNCHANGED <<ctxVars, demoVars, hwVars, fresh, silence>>

WorkerStep(w) == Stalled(w) \/ Work(w) \/ Report(w) \/ ReportRefused(w) \/ WorkerUnlock(w)

-----------------------------------------------------------------------------
(* main and watchdog_service *)

\* watchdog_init succeeds and the workers are created, or main halts.
Boot ==
  /\ At(Main, "init")
  /\ \/ /\ state' = "RUNNING"
        /\ armed' = TRUE
        /\ pc' = [t \in Threads |-> "loop"]
     \/ /\ state' = "FAULTED"
        /\ GoTo(Main, "halted")
        /\ UNCHANGED armed
  /\ UNCHANGED <<reported_mask, lock, slept, demoVars, elapsed, fresh, silence>>

\* The stall mask is what a debugger last wrote to g_stall_mask, which only
\* this step reads, and the demonstration's own stall once it has started.
InjectStall ==
  /\ At(Main, "loop")
  /\ \E requested \in SUBSET Tasks :
       g_effective_stall_mask' =
         IF AutoStallAfter # 0 /\ g_successful_feeds >= AutoStallAfter
         THEN requested \cup {AutoTask} ELSE requested
  /\ disturbed' = (disturbed \/ g_effective_stall_mask' # {})
  /\ GoTo(Main, "lock")
  /\ UNCHANGED <<ctxVars, lock, slept, g_successful_feeds, hwVars, fresh, silence>>

\* WATCHDOG_SERVICE_WAITING: someone has not reported yet.
ServiceWaiting ==
  /\ At(Main, "locked")
  /\ state = "RUNNING"
  /\ reported_mask # Tasks
  /\ GoTo(Main, "unlock")
  /\ UNCHANGED <<ctxVars, lock, slept, demoVars, hwVars, fresh, silence>>

\* With a bug: one report is enough.
FeedUnjustified ==
  /\ At(Main, "locked")
  /\ state = "RUNNING"
  /\ reported_mask # {}
  /\ \/ /\ elapsed' = 0
        /\ fresh' = {}
        /\ GoTo(Main, "clear")
        /\ UNCHANGED state
     \/ /\ state' = "FAULTED"
        /\ GoTo(Main, "unlock_error")
        /\ UNCHANGED <<elapsed, fresh>>
  /\ UNCHANGED <<reported_mask, lock, slept, demoVars, armed, silence>>

\* With a bug: the mutex is not held through both the feed and the clearing.
FeedReleases ==
  /\ At(Main, "locked")
  /\ state = "RUNNING"
  /\ reported_mask = Tasks
  /\ \/ /\ elapsed' = 0
        /\ fresh' = {}
        /\ lock' = None
        /\ GoTo(Main, "clear")
        /\ UNCHANGED state
     \/ /\ state' = "FAULTED"
        /\ GoTo(Main, "unlock_error")
        /\ UNCHANGED <<elapsed, fresh, lock>>
  /\ UNCHANGED <<reported_mask, slept, demoVars, armed, silence>>

\* wdt_feed reloads the hardware, or returns an error that ends all feeding:
\* main halts, so the branch of watchdog_service for a state other than
\* WATCHDOG_RUNNING is never taken.
Feed ==
  /\ At(Main, "locked")
  /\ state = "RUNNING"
  /\ reported_mask = Tasks
  /\ \/ /\ elapsed' = 0
        /\ fresh' = {}
        /\ GoTo(Main, "clear")
        /\ UNCHANGED state
     \/ /\ state' = "FAULTED"
        /\ GoTo(Main, "unlock_error")
        /\ UNCHANGED <<elapsed, fresh>>
  /\ UNCHANGED <<reported_mask, lock, slept, demoVars, armed, silence>>

\* With a bug: the mask is not cleared.
ClearForgotten ==
  /\ At(Main, "clear")
  /\ g_successful_feeds' = IF g_successful_feeds < AutoStallAfter
                           THEN g_successful_feeds + 1 ELSE g_successful_feeds
  /\ GoTo(Main, "unlock")
  /\ UNCHANGED <<ctxVars, lock, slept, g_effective_stall_mask, disturbed,
                 hwVars, fresh, silence>>

\* The feed is counted by main after watchdog_service has returned.
Clear ==
  /\ At(Main, "clear")
  /\ reported_mask' = {}
  /\ g_successful_feeds' = IF g_successful_feeds < AutoStallAfter
                           THEN g_successful_feeds + 1 ELSE g_successful_feeds
  /\ GoTo(Main, "unlock")
  /\ UNCHANGED <<state, lock, slept, g_effective_stall_mask, disturbed,
                 hwVars, fresh, silence>>

MainUnlock ==
  /\ lock' = None
  /\ \/ At(Main, "unlock") /\ Sleep(Main)
     \/ At(Main, "unlock_error") /\ GoTo(Main, "halted") /\ UNCHANGED slept
  /\ UNCHANGED <<ctxVars, demoVars, hwVars, fresh, silence>>

MainStep == Boot \/ InjectStall \/ ServiceWaiting \/ Feed \/ Clear \/ MainUnlock

-----------------------------------------------------------------------------
(* Time and the reset line. *)

Tick ==
  /\ \A t \in Threads :
       \/ At(t, "sleep") /\ slept[t] < Period[t] + Slack
       \/ pc[t] \in {"none", "halted"}
  /\ elapsed < TIMEOUT
  /\ slept' = [t \in Threads |-> IF At(t, "sleep") THEN slept[t] + 1 ELSE slept[t]]
  /\ IF armed
     THEN /\ elapsed' = elapsed + 1
          /\ silence' = [w \in Tasks |-> IF silence[w] <= 2 * TIMEOUT
                                        THEN silence[w] + 1 ELSE silence[w]]
     ELSE UNCHANGED <<elapsed, silence>>
  /\ UNCHANGED <<ctxVars, lock, pc, demoVars, armed, fresh>>

BootPc == [t \in Threads |-> IF t = Main THEN "init" ELSE "none"]

\* The watchdog expires and resets the SoC: everything starts again.
Reset ==
  /\ armed /\ elapsed = TIMEOUT
  /\ state' = "UNINITIALIZED" /\ reported_mask' = {} /\ lock' = None
  /\ pc' = BootPc /\ slept' = [t \in Threads |-> 0]
  /\ g_effective_stall_mask' = {} /\ g_successful_feeds' = 0
  /\ armed' = FALSE /\ elapsed' = 0
  /\ fresh' = {} /\ silence' = [w \in Tasks |-> 0] /\ disturbed' = FALSE

-----------------------------------------------------------------------------

Init ==
  /\ state = "UNINITIALIZED" /\ reported_mask = {} /\ lock = None
  /\ pc = BootPc /\ slept = [t \in Threads |-> 0]
  /\ g_effective_stall_mask = {} /\ g_successful_feeds = 0
  /\ armed = FALSE /\ elapsed = 0
  /\ fresh = {} /\ silence = [w \in Tasks |-> 0] /\ disturbed = FALSE

ThreadStep(t) ==
  \/ Acquire(t) \/ Wake(t)
  \/ t \in Tasks /\ WorkerStep(t)
  \/ t = Main /\ MainStep

Next == (\E t \in Threads : ThreadStep(t)) \/ Tick \/ Reset

Spec == Init /\ [][Next]_vars

(***************************************************************************)
(* Each thread is scheduled, time passes and the reset line works.          *)
(***************************************************************************)
Fairness ==
  /\ \A t \in Threads : WF_vars(ThreadStep(t))
  /\ WF_vars(Tick)
  /\ WF_vars(Reset)

FairSpec == Spec /\ Fairness

-----------------------------------------------------------------------------
(* Properties. *)

TypeOK ==
  /\ state \in {"UNINITIALIZED", "RUNNING", "FAULTED"}
  /\ reported_mask \subseteq Tasks
  /\ lock \in Threads \cup {None}
  /\ pc \in [Threads -> {"none", "init", "loop", "lock", "locked", "clear",
                         "unlock", "unlock_error", "sleep", "halted"}]
  /\ slept \in [Threads -> Nat]
  /\ g_effective_stall_mask \subseteq Tasks
  /\ g_successful_feeds \in 0..AutoStallAfter
  /\ armed \in BOOLEAN /\ elapsed \in 0..TIMEOUT
  /\ fresh \subseteq Tasks /\ silence \in [Tasks -> Nat]
  /\ disturbed \in BOOLEAN

\* The watchdog is fed only after every task reported since the last feed:
\* a report is never counted for two feeds.
FeedJustified == [][armed' /\ elapsed' < elapsed => fresh = Tasks]_vars

\* A report that arrives around a feed is kept for the next one.
NoLostReport == lock = None => reported_mask = fresh

\* Only one thread is between k_mutex_lock and k_mutex_unlock.
MutualExclusion ==
  \A t \in Threads :
    pc[t] \in {"locked", "clear", "unlock", "unlock_error"} => lock = t

\* "No future feeds" after a feed error: a faulted supervisor stays so until
\* the hardware resets.
FaultIsFinal ==
  [][state = "FAULTED" /\ state' # "FAULTED" => armed /\ elapsed = TIMEOUT]_vars

MaxPeriod == CHOOSE p \in {Period[w] : w \in Tasks} : \A w \in Tasks : Period[w] <= p

\* While no task is stalled, the watchdog is fed with the margin the periods
\* leave, so a healthy system is never reset; and no task is silent for longer
\* than two timeouts: its last report can justify one more feed, and that is all.
FeedWindow ==
  /\ ~disturbed /\ state = "RUNNING" =>
       elapsed <= MaxPeriod + Period[Main] + 2 * Slack
  /\ \A w \in Tasks : silence[w] <= 2 * TIMEOUT

\* A feed error ends in a reset: the main thread then halts without feeding,
\* and the watchdog it leaves running expires.  And no stall lasts for ever: it
\* is lifted or the system is reset.
FaultsEnd ==
  /\ At(Main, "unlock_error") ~> state = "UNINITIALIZED"
  /\ \A w \in Tasks : []<>(w \notin g_effective_stall_mask)
=============================================================================

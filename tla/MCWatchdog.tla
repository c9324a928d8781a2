----------------------------- MODULE MCWatchdog -----------------------------
(* The lab's two workers and main loop with periods scaled down: service 1, *)
(* workers 2 and 3 ticks. *)
EXTENDS Watchdog, TLC

CONSTANTS task0, task1
MCTasks == {task0, task1}
MCPeriod == (Main :> 1) @@ (task0 :> 2) @@ (task1 :> 3)
=============================================================================

----------------------------- MODULE IntervalTimer -----------------------------
(***************************************************************************)
(* timer.c: one periodic interval timer per process, delivered as SIGALRM. *)
(* start_timer and stop_timer are two system calls each; the operators     *)
(* below are those calls, to be composed with the steps of a client.       *)
(***************************************************************************)
VARIABLES
  itimer,       \* is ITIMER_REAL armed?  It re-arms itself (it_interval)
  timer_func,   \* timer_func_handler_pntr
  disposition,  \* what SIGALRM does: "kill" (SIG_DFL) or "handler"
  old_handler   \* the disposition saved by the last sigaction()

timerVars == <<itimer, timer_func, disposition, old_handler>>

TimerInit ==
  /\ itimer = FALSE /\ timer_func = "none"
  /\ disposition = "kill" /\ old_handler = "kill"

TimerTypeOK ==
  /\ itimer \in BOOLEAN
  /\ timer_func \in {"none", "timer_handler", "timer_handler_lora"}
  /\ disposition \in {"kill", "handler"} /\ old_handler \in {"kill", "handler"}

\* start_timer, lines 55-65: the timer runs before its handler is installed.
StartArm(f) ==
  /\ timer_func' = f /\ itimer' = TRUE
  /\ UNCHANGED <<disposition, old_handler>>

\* start_timer, lines 67-73.
StartInstall ==
  /\ old_handler' = disposition /\ disposition' = "handler"
  /\ UNCHANGED <<itimer, timer_func>>

\* A mutant of stop_timer: the two calls in the other order.
MutantStopRestore ==
  /\ disposition' = old_handler
  /\ UNCHANGED <<itimer, timer_func, old_handler>>

\* stop_timer, lines 87-91.
StopDisarm ==
  /\ itimer' = FALSE
  /\ UNCHANGED <<timer_func, disposition, old_handler>>

\* stop_timer, line 93.
StopRestore ==
  /\ disposition' = old_handler
  /\ UNCHANGED <<itimer, timer_func, old_handler>>

\* SIGALRM while f is the handler function: timer_sig_handler calls it.
AlarmCalls(f) == itimer /\ disposition = "handler" /\ timer_func = f

\* SIGALRM without a handler terminates the process.
AlarmKills == itimer /\ disposition = "kill"
===============================================================================

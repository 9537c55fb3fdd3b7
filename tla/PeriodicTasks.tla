---------------------------- MODULE PeriodicTasks -----------------------------
(***************************************************************************)
(* The tasks that beat starts, side by side: run_all_checks with the runs  *)
(* it queues, and clean_db.  (update_shifts is in DutyRota.)               *)
(***************************************************************************)
EXTENDS Scheduler, CleanDb

vars == <<scheduler, cleandb>>

Init == SchedulerInit /\ CleanDbInit

Next ==
    \/ SchedulerNext /\ UNCHANGED cleandb
    \/ CleanDbNext /\ UNCHANGED scheduler

(* Beat starts clean_db every day, and workers take messages and go on. *)
Spec ==
    /\ Init /\ [][Next]_vars
    /\ WF_vars(Day /\ UNCHANGED scheduler) /\ WF_vars(CleanStep /\ UNCHANGED scheduler)

TypeOK == SchedulerTypeOK /\ CleanDbTypeOK
=============================================================================

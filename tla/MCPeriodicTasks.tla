--------------------------- MODULE MCPeriodicTasks ----------------------------
(* Checks are numbers, and a check's number is its frequency in minutes. *)
EXTENDS PeriodicTasks

Frequencies == [c \in Checks |-> c]
=============================================================================

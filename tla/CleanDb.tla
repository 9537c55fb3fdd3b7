------------------------------- MODULE CleanDb --------------------------------
(***************************************************************************)
(* clean_db deletes results and snapshots that are older than a week, a    *)
(* batch of each table at a time, and queues itself again until a batch    *)
(* was not full.                                                           *)
(***************************************************************************)
EXTENDS Integers

CONSTANTS
    BatchSize,  \* 10000 in the code
    PerDay,     \* bound: rows that pass the age of a week in a day
    MaxKilled   \* bound: tasks killed

ASSUME CleanDbAssumption == BatchSize \in Nat \ {0} /\ {PerDay, MaxKilled} \subseteq Nat

VARIABLES
    expired,  \* by table, the rows older than a week when the last task began
    expiring, \* by table, the rows that became so since then
    cleaning, \* the task: queries it has done, and whether a count was full
    waiting,  \* a clean_db message is queued
    left,     \* rows that are still to expire today
    killed

cleandb == <<expired, expiring, cleaning, waiting, left, killed>>

(* StatusCheckResult, ServiceStatusSnapshot, InstanceStatusSnapshot. *)
Tables == 1 .. 3
NoTask == [done |-> 0, full |-> FALSE]

CleanDbTypeOK ==
    /\ expired \in [Tables -> Nat] /\ expiring \in [Tables -> Nat]
    /\ cleaning \in [done : 1 .. 7, full : BOOLEAN] \cup {NoTask}
    /\ waiting \in BOOLEAN
    /\ left \in 0 .. PerDay
    /\ killed \in 0 .. MaxKilled

CleanDbInit ==
    /\ expired = [t \in Tables |-> 0] /\ expiring = [t \in Tables |-> 0]
    /\ cleaning = NoTask
    /\ waiting = FALSE
    /\ left = 0
    /\ killed = 0
-----------------------------------------------------------------------------
(* A day passes and beat queues the task; the tasks of the day before are over. *)
Day ==
    /\ cleaning = NoTask /\ ~ waiting
    /\ waiting' = TRUE
    /\ left' = PerDay
    /\ UNCHANGED <<expired, expiring, cleaning, killed>>

Expire(t) ==
    /\ left > 0
    /\ left' = left - 1
    /\ expiring' = [expiring EXCEPT ![t] = @ + 1]
    /\ UNCHANGED <<expired, cleaning, waiting, killed>>

(* The task starts: its filters take the current time. *)
StartCleaning ==
    /\ waiting /\ cleaning = NoTask
    /\ waiting' = FALSE
    /\ cleaning' = [done |-> 1, full |-> FALSE]
    /\ expired' = [t \in Tables |-> expired[t] + expiring[t]]
    /\ expiring' = [t \in Tables |-> 0]
    /\ UNCHANGED <<left, killed>>

(* The tables are counted one by one ... *)
CountBatch(t) ==
    /\ cleaning.done = t
    /\ cleaning' = [done |-> t + 1, full |-> cleaning.full \/ expired[t] >= BatchSize]
    /\ UNCHANGED <<expired, expiring, waiting, left, killed>>

(* Mutant: a batch is taken to be full. *)
DeleteFullBatch(t) ==
    /\ cleaning.done = t + 3
    /\ cleaning' = [cleaning EXCEPT !.done = t + 4]
    /\ expired' = [expired EXCEPT ![t] = @ - BatchSize]
    /\ UNCHANGED <<expiring, waiting, left, killed>>

(* ... then a batch of each is deleted ... *)
DeleteBatch(t) ==
    /\ cleaning.done = t + 3
    /\ cleaning' = [cleaning EXCEPT !.done = t + 4]
    /\ expired' = [expired EXCEPT ![t] = IF @ >= BatchSize THEN @ - BatchSize ELSE 0]
    /\ UNCHANGED <<expiring, waiting, left, killed>>

(* Mutant: a full batch of the last table is not noticed. *)
RequeueNever ==
    /\ cleaning.done = 7
    /\ waiting' = FALSE
    /\ cleaning' = NoTask
    /\ UNCHANGED <<expired, expiring, left, killed>>

(* ... and the task is queued again if a count was full. *)
Requeue ==
    /\ cleaning.done = 7
    /\ waiting' = (waiting \/ cleaning.full)
    /\ cleaning' = NoTask
    /\ UNCHANGED <<expired, expiring, left, killed>>

(* A check, a service or an instance is deleted with rows of its own. *)
Cascade(t) ==
    /\ \E rows \in 0 .. expired[t] - 1 : expired' = [expired EXCEPT ![t] = rows]
    /\ UNCHANGED <<expiring, cleaning, waiting, left, killed>>

TaskKilled ==
    /\ cleaning # NoTask /\ killed < MaxKilled
    /\ killed' = killed + 1
    /\ cleaning' = NoTask
    /\ UNCHANGED <<expired, expiring, waiting, left>>

CleanStep == StartCleaning \/ Requeue \/ \E t \in Tables : CountBatch(t) \/ DeleteBatch(t)

CleanDbNext ==
    \/ Day \/ CleanStep \/ TaskKilled
    \/ \E t \in Tables : Expire(t) \/ Cascade(t)

CleanDbSpec == CleanDbInit /\ [][CleanDbNext]_cleandb
-----------------------------------------------------------------------------
(* "If we reached the batch size on either we need to re-queue" (tasks.py:101):
   a task that queues no other leaves nothing of what had expired when it began,
   although counts and deletes are separate queries and rows vanish in between. *)
LastBatchLeavesNothing ==
    [][Requeue /\ ~ waiting' => \A t \in Tables : expired'[t] = 0]_cleandb

(* Every day's rows are gone in the end, even after a task was killed in the
   middle of its batches. *)
DatabaseIsCleaned ==
    []<>(cleaning = NoTask /\ ~ waiting /\ \A t \in Tables : expired[t] = 0)
=============================================================================

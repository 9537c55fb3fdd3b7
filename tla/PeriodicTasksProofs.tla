------------------------- MODULE PeriodicTasksProofs -------------------------
(***************************************************************************)
(* Proofs about the tasks that beat starts, for every number of checks,    *)
(* every frequency, lag, batch size and number of losses.  Runs: in every  *)
(* minute in which a check was overdue it was queued, so that each such    *)
(* minute is the age of a message that is still there or was lost.         *)
(* Cleaning: while no count was full, counted tables hold less than a      *)
(* batch and deleted tables nothing.                                       *)
(***************************************************************************)
EXTENDS PeriodicTasks, TLAPS

(* last_run is never younger than the last run. *)
RowIsNotYounger ==
    \A c \in Checks :
        last_run[c] = Never \/ last_run[c] >= ran[c] \/ last_run[c] = Horizon

(* The minutes in which a check was overdue, without the one whose
   run_all_checks is still to come. *)
Overdue(c) == {minute \in Nat : /\ minute < ran[c] - Frequency[c]
                                /\ beat => minute # 0}

OverdueIsQueued == \A c \in Checks : Overdue(c) \subseteq jobs[c] \cup lost[c]

SchedulerInv == SchedulerTypeOK /\ RowIsNotYounger /\ OverdueIsQueued

LEMMA SchedulerInitInv == SchedulerInit => SchedulerInv
<1> SUFFICES ASSUME SchedulerInit PROVE SchedulerInv
    OBVIOUS
<1>1. 0 \in Never .. Horizon /\ 0 \in 0 .. MaxLosses
    BY SchedulerAssumption DEF Never
<1>2. SchedulerTypeOK
    BY <1>1 DEF SchedulerInit, SchedulerTypeOK
<1>3. RowIsNotYounger
    BY DEF SchedulerInit, RowIsNotYounger
<1>4. \A c \in Checks : Overdue(c) = {}
    BY SchedulerAssumption DEF SchedulerInit, Overdue
<1> QED
    BY <1>2, <1>3, <1>4 DEF SchedulerInv, OverdueIsQueued

(* A check that is overdue in the minute that begins is found due. *)
LEMMA OverdueIsDue ==
    ASSUME SchedulerInv, NEW c \in Checks, ran[c] > Frequency[c]
    PROVE  Due(c)
BY SchedulerAssumption DEF SchedulerInv, SchedulerTypeOK, RowIsNotYounger, Due, Never

LEMMA MinuteInv == ASSUME SchedulerInv, Minute PROVE SchedulerInv'
<1> USE SchedulerAssumption DEF SchedulerInv
<1>1. SchedulerTypeOK'
    <2>1. \A c \in Checks : Older(last_run[c]) \in Never .. Horizon
        BY DEF SchedulerTypeOK, Older, Never
    <2>2. \A c \in Checks : {age + 1 : age \in jobs[c]} \subseteq 0 .. MaxLag
        BY DEF SchedulerTypeOK, Minute
    <2>3. \A c \in Checks : {age + 1 : age \in lost[c]} \subseteq Nat
        BY DEF SchedulerTypeOK
    <2> QED
        BY <2>1, <2>2, <2>3 DEF SchedulerTypeOK, Minute
<1>2. RowIsNotYounger'
    BY DEF SchedulerTypeOK, RowIsNotYounger, Minute, Older, Never
<1>3. ASSUME NEW c \in Checks, NEW minute \in Overdue(c)'
      PROVE  minute \in jobs'[c] \cup lost'[c]
    <2>1. minute \in Nat /\ minute # 0 /\ minute < ran[c] + 1 - Frequency[c] /\ ~ beat
        BY <1>3 DEF Overdue, Minute, SchedulerTypeOK
    <2>2. minute - 1 \in Overdue(c)
        BY <2>1 DEF Overdue, SchedulerTypeOK
    <2>3. minute - 1 \in jobs[c] \cup lost[c]
        BY <2>2 DEF OverdueIsQueued
    <2>4. minute = (minute - 1) + 1
        BY <2>1
    <2>5. /\ jobs'[c] = {age + 1 : age \in jobs[c]}
          /\ lost'[c] = {age + 1 : age \in lost[c]}
        BY DEF Minute
    <2> QED
        BY <2>3, <2>4, <2>5
<1> QED
    BY <1>1, <1>2, <1>3 DEF OverdueIsQueued

(* The two ways in which the minute's run_all_checks goes. *)
LEMMA BeatInv == ASSUME SchedulerInv, RunAllChecks \/ BeatLost PROVE SchedulerInv'
<1> USE SchedulerAssumption DEF SchedulerInv
<1>1. SchedulerTypeOK' /\ RowIsNotYounger'
    <2>1. 0 \in 0 .. MaxLag /\ (losses < MaxLosses => losses + 1 \in 0 .. MaxLosses)
        BY DEF SchedulerTypeOK
    <2>2. CASE RunAllChecks
        BY <2>1, <2>2 DEF SchedulerTypeOK, RowIsNotYounger, RunAllChecks
    <2>3. CASE BeatLost
        <3>1. lost' \in [Checks -> SUBSET Nat]
            BY <2>3 DEF SchedulerTypeOK, BeatLost
        <3>2. losses' \in 0 .. MaxLosses /\ beat' \in BOOLEAN
            BY <2>1, <2>3 DEF BeatLost
        <3> QED
            BY <2>3, <3>1, <3>2 DEF SchedulerTypeOK, RowIsNotYounger, BeatLost
    <2> QED
        BY <2>2, <2>3
<1>2. ASSUME NEW c \in Checks, NEW minute \in Overdue(c)'
      PROVE  minute \in jobs'[c] \cup lost'[c]
    <2>1. /\ minute \in Nat /\ minute < ran[c] - Frequency[c]
          /\ jobs[c] \subseteq jobs'[c] /\ lost[c] \subseteq lost'[c]
        BY <1>2 DEF Overdue, RunAllChecks, BeatLost, SchedulerTypeOK
    <2>2. CASE minute = 0
        <3>1. Due(c)
            BY <2>1, <2>2, OverdueIsDue DEF SchedulerTypeOK
        <3> QED
            BY <3>1, <2>2 DEF RunAllChecks, BeatLost, SchedulerTypeOK
    <2>3. CASE minute # 0
        BY <2>1, <2>3 DEF Overdue, OverdueIsQueued
    <2> QED
        BY <2>2, <2>3
<1> QED
    BY <1>1, <1>2 DEF OverdueIsQueued

LEMMA RunInv ==
    ASSUME SchedulerInv, NEW c \in Checks, RunCheck(c) \/ RunLost(c) \/ StaleSave(c)
    PROVE  SchedulerInv'
<1> USE SchedulerAssumption DEF SchedulerInv
<1>1. CASE RunCheck(c)
    <2>1. SchedulerTypeOK' /\ RowIsNotYounger'
        BY <1>1 DEF RunCheck, SchedulerTypeOK, RowIsNotYounger, Never
    <2>2. ASSUME NEW d \in Checks
          PROVE  Overdue(d)' \subseteq jobs'[d] \cup lost'[d]
        <3>1. CASE d = c
            BY <1>1, <3>1 DEF RunCheck, Overdue, SchedulerTypeOK
        <3>2. CASE d # c
            BY <1>1, <3>2 DEF RunCheck, Overdue, OverdueIsQueued, SchedulerTypeOK
        <3> QED
            BY <3>1, <3>2
    <2> QED
        BY <2>1, <2>2 DEF OverdueIsQueued
<1>2. CASE RunLost(c)
    <2>1. SchedulerTypeOK' /\ RowIsNotYounger'
        BY <1>2 DEF RunLost, SchedulerTypeOK, RowIsNotYounger
    <2>2. \A d \in Checks : jobs[d] \cup lost[d] \subseteq jobs'[d] \cup lost'[d]
        BY <1>2 DEF RunLost, SchedulerTypeOK
    <2> QED
        BY <1>2, <2>1, <2>2 DEF RunLost, Overdue, OverdueIsQueued
<1>3. CASE StaleSave(c)
    <2>1. SchedulerTypeOK' /\ RowIsNotYounger'
        BY <1>3 DEF StaleSave, SchedulerTypeOK, RowIsNotYounger, Never
    <2> QED
        BY <1>3, <2>1 DEF StaleSave, Overdue, OverdueIsQueued
<1> QED
    BY <1>1, <1>2, <1>3

LEMMA SchedulerNextInv == ASSUME SchedulerInv, [SchedulerNext]_scheduler PROVE SchedulerInv'
<1>1. CASE UNCHANGED scheduler
    BY <1>1 DEF scheduler, SchedulerInv, SchedulerTypeOK, RowIsNotYounger, OverdueIsQueued, Overdue
<1>2. CASE SchedulerNext
    BY <1>2, MinuteInv, BeatInv, RunInv DEF SchedulerNext
<1> QED
    BY <1>1, <1>2
-----------------------------------------------------------------------------
(* What a task that found no full batch has established so far. *)
NotFullIsEmptied ==
    ~ cleaning.full =>
        \A t \in Tables : /\ cleaning.done > t => expired[t] < BatchSize
                          /\ cleaning.done > t + 3 => expired[t] = 0

CleanDbInv == CleanDbTypeOK /\ NotFullIsEmptied

LEMMA CleanDbInitInv == CleanDbInit => CleanDbInv
<1> SUFFICES ASSUME CleanDbInit PROVE CleanDbInv
    OBVIOUS
<1>1. 0 \in 0 .. PerDay /\ 0 \in 0 .. MaxKilled
    BY CleanDbAssumption
<1>2. CleanDbTypeOK
    BY <1>1 DEF CleanDbInit, CleanDbTypeOK
<1>3. NotFullIsEmptied
    BY DEF CleanDbInit, NotFullIsEmptied, NoTask, Tables
<1> QED
    BY <1>2, <1>3 DEF CleanDbInv

LEMMA CleanDbNextInv == ASSUME CleanDbInv, [CleanDbNext]_cleandb PROVE CleanDbInv'
<1> USE CleanDbAssumption DEF CleanDbInv, CleanDbTypeOK, NotFullIsEmptied, Tables, NoTask
<1>1. CASE UNCHANGED cleandb
    BY <1>1 DEF cleandb
<1>2. CASE Day
    BY <1>2 DEF Day
<1>6. CASE StartCleaning
    <2>1. /\ cleaning' = [done |-> 1, full |-> FALSE]
          /\ cleaning' \in [done : 1 .. 7, full : BOOLEAN]
        BY <1>6 DEF StartCleaning
    <2>2. expired' \in [Tables -> Nat] /\ expiring' \in [Tables -> Nat]
        BY <1>6 DEF StartCleaning
    <2>3. CleanDbTypeOK'
        BY <1>6, <2>1, <2>2 DEF StartCleaning
    <2>4. cleaning'.done = 1
        BY <2>1
    <2> QED
        BY <2>3, <2>4
<1>7. CASE Requeue \/ TaskKilled
    <2>1. /\ cleaning' = NoTask /\ cleaning'.done = 0
          /\ expired' = expired /\ expiring' = expiring /\ left' = left
        BY <1>7 DEF Requeue, TaskKilled
    <2>2. waiting' \in BOOLEAN
        BY <1>7, ZenonT(30) DEF Requeue, TaskKilled
    <2>3. killed' \in 0 .. MaxKilled
        BY <1>7 DEF Requeue, TaskKilled
    <2> QED
        BY <2>1, <2>2, <2>3
<1>3. ASSUME NEW t \in Tables, CountBatch(t)
      PROVE  CleanDbInv'
    <2>1. CleanDbTypeOK'
        BY <1>3 DEF CountBatch
    <2>2. /\ cleaning' = [done |-> t + 1, full |-> cleaning.full \/ expired[t] >= BatchSize]
          /\ cleaning.done = t /\ expired' = expired
        BY <1>3 DEF CountBatch
    <2>3. /\ cleaning'.done = t + 1
          /\ cleaning'.full <=> cleaning.full \/ expired[t] >= BatchSize
        BY <2>2
    <2>4. /\ cleaning.done = t /\ cleaning'.done = t + 1 /\ expired' = expired
          /\ ~ cleaning'.full => ~ cleaning.full /\ expired[t] < BatchSize
        BY <2>2, <2>3
    <2>5. ASSUME ~ cleaning'.full, NEW u \in Tables
          PROVE  /\ cleaning'.done > u => expired'[u] < BatchSize
                 /\ cleaning'.done > u + 3 => expired'[u] = 0
        BY <2>4, <2>5
    <2> QED
        BY <2>1, <2>5
<1>4. ASSUME NEW t \in Tables, DeleteBatch(t)
      PROVE  CleanDbInv'
    <2>1. /\ cleaning.done = t + 3 /\ cleaning'.done = t + 4 /\ cleaning'.full = cleaning.full
          /\ cleaning' \in [done : 1 .. 7, full : BOOLEAN]
        BY <1>4 DEF DeleteBatch
    <2>2. \A u \in Tables : /\ expired'[u] \in Nat /\ expired'[u] <= expired[u]
                            /\ u # t => expired'[u] = expired[u]
                            /\ expired[u] < BatchSize /\ u = t => expired'[u] = 0
        BY <1>4 DEF DeleteBatch
    <2>3. CleanDbTypeOK'
        BY <1>4, <2>1, <2>2 DEF DeleteBatch
    <2>4. ASSUME ~ cleaning'.full, NEW u \in Tables
          PROVE  /\ cleaning'.done > u => expired'[u] < BatchSize
                 /\ cleaning'.done > u + 3 => expired'[u] = 0
        BY <2>1, <2>2, <2>4
    <2> QED
        BY <2>3, <2>4
<1>5. ASSUME NEW t \in Tables, Expire(t) \/ Cascade(t)
      PROVE  CleanDbInv'
    BY <1>5 DEF Expire, Cascade
<1> QED
    BY <1>1, <1>2, <1>3, <1>4, <1>5, <1>6, <1>7 DEF CleanDbNext, CleanStep
-----------------------------------------------------------------------------
LEMMA BothInv == Spec => [](SchedulerInv /\ CleanDbInv)
<1>1. Init => SchedulerInv /\ CleanDbInv
    BY SchedulerInitInv, CleanDbInitInv DEF Init
<1>2. SchedulerInv /\ CleanDbInv /\ [Next]_vars => (SchedulerInv /\ CleanDbInv)'
    BY SchedulerNextInv, CleanDbNextInv DEF Next, vars
<1> QED
    BY <1>1, <1>2, PTL DEF Spec

(* The tasks keep their state in its types (the columns of base.py:428-441 and
   the counts of tasks.py:93). *)
THEOREM TasksTyped == Spec => []TypeOK
BY BothInv, PTL DEF SchedulerInv, CleanDbInv, TypeOK

(* Every minute of delay of a check beyond its frequency, one minute and the lag
   is a minute whose message was lost (run_all_checks, tasks.py:23). *)
THEOREM Timely == Spec => []ChecksAreTimely
<1>1. SchedulerInv => ChecksAreTimely
    <2> SUFFICES ASSUME SchedulerInv, NEW c \in Checks,
                        NEW minute \in MaxLag + 1 .. ran[c] - Frequency[c] - 1
                 PROVE  minute \in lost[c]
        BY DEF ChecksAreTimely
    <2>1. minute \in Overdue(c)
        BY SchedulerAssumption DEF Overdue, SchedulerInv, SchedulerTypeOK
    <2>2. minute \notin jobs[c]
        BY SchedulerAssumption DEF SchedulerInv, SchedulerTypeOK
    <2> QED
        BY <2>1, <2>2 DEF SchedulerInv, OverdueIsQueued
<1> QED
    BY <1>1, BothInv, PTL

(* checks_run_recently() (views.py:1035) does not deny that checks run while one
   frequent check has lost no message. *)
THEOREM Reported == Spec => []RunningIsReported
<1>1. SchedulerInv /\ ChecksAreTimely => RunningIsReported
    <2> SUFFICES ASSUME SchedulerInv, ChecksAreTimely, NEW c \in Checks,
                        Frequency[c] + 1 + MaxLag <= Recent, lost[c] = {}
                 PROVE  ran[c] <= Recent
        BY DEF RunningIsReported, ChecksRunning
    <2>1. MaxLag + 1 \notin MaxLag + 1 .. ran[c] - Frequency[c] - 1
        BY DEF ChecksAreTimely
    <2> QED
        BY <2>1, SchedulerAssumption DEF SchedulerInv, SchedulerTypeOK
<1> QED
    BY <1>1, BothInv, Timely, PTL

(* A clean_db task that queues no other leaves nothing of what had expired when
   it began (tasks.py:101). *)
THEOREM LastBatchCorrect == Spec => LastBatchLeavesNothing
<1>1. CleanDbInv /\ Requeue /\ ~ waiting' => \A t \in Tables : expired'[t] = 0
    BY DEF CleanDbInv, CleanDbTypeOK, NotFullIsEmptied, Requeue, Tables, NoTask
<1>2. CleanDbInv => [Requeue /\ ~ waiting' => \A t \in Tables : expired'[t] = 0]_cleandb
    BY <1>1
<1> QED
    BY <1>2, BothInv, PTL DEF LastBatchLeavesNothing
=============================================================================

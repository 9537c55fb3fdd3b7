------------------------------ MODULE Scheduler -------------------------------
(***************************************************************************)
(* Beat starts run_all_checks every minute; it queues a run of every check *)
(* that is due, whether or not one is queued already, and a check stays    *)
(* due until a run has written last_run.  Time is counted in minutes.      *)
(***************************************************************************)
EXTENDS Integers, FiniteSets

CONSTANTS
    Checks,
    Frequency,  \* minutes between the runs of each check
    MaxLag,     \* bound: minutes from the queueing of a run to its end
    MaxLosses,  \* bound: messages that are lost
    Recent,     \* minutes checks_run_recently() looks back, 10 in the code
    Horizon     \* minutes after which a last_run only gets older

ASSUME SchedulerAssumption ==
    /\ Frequency \in [Checks -> Nat]
    /\ {MaxLag, MaxLosses, Recent, Horizon} \subseteq Nat
    /\ \A c \in Checks : Frequency[c] < Horizon

VARIABLES
    last_run, \* by check, the age of last_run as the row has it; Never: null
    ran,      \* by check, the age of the end of its last run
    jobs,     \* by check, the ages of its messages, queued or being run
    lost,     \* by check, the ages of the messages lost since its last run
    losses,   \* messages lost in all
    beat      \* run_all_checks is still to come in this minute

scheduler == <<last_run, ran, jobs, lost, losses, beat>>

Never == -1

Older(age) == IF age = Never \/ age = Horizon THEN age ELSE age + 1

SchedulerTypeOK ==
    /\ last_run \in [Checks -> Never .. Horizon]
    /\ ran \in [Checks -> Nat]
    /\ jobs \in [Checks -> SUBSET (0 .. MaxLag)]
    /\ lost \in [Checks -> SUBSET Nat]
    /\ losses \in 0 .. MaxLosses
    /\ beat \in BOOLEAN

SchedulerInit ==
    /\ last_run = [c \in Checks |-> 0]
    /\ ran = [c \in Checks |-> 0]
    /\ jobs = [c \in Checks |-> {}]
    /\ lost = [c \in Checks |-> {}]
    /\ losses = 0
    /\ beat = FALSE
-----------------------------------------------------------------------------
(* Mutant: a check is due a minute late. *)
DueLate(c) == last_run[c] = Never \/ last_run[c] > Frequency[c] + 1

(* next_schedule has passed, or there never was a run. *)
Due(c) == last_run[c] = Never \/ last_run[c] > Frequency[c]

(* A minute passes; no message outlives its lag. *)
Minute ==
    /\ ~ beat
    /\ \A c \in Checks : MaxLag \notin jobs[c]
    /\ last_run' = [c \in Checks |-> Older(last_run[c])]
    /\ ran' = [c \in Checks |-> ran[c] + 1]
    /\ jobs' = [c \in Checks |-> {age + 1 : age \in jobs[c]}]
    /\ lost' = [c \in Checks |-> {age + 1 : age \in lost[c]}]
    /\ beat' = TRUE
    /\ UNCHANGED losses

RunAllChecks ==
    /\ beat
    /\ jobs' = [c \in Checks |-> IF Due(c) THEN jobs[c] \cup {0} ELSE jobs[c]]
    /\ beat' = FALSE
    /\ UNCHANGED <<last_run, ran, lost, losses>>

(* run_all_checks is lost: no check is queued in this minute. *)
BeatLost ==
    /\ beat /\ losses < MaxLosses
    /\ lost' = [c \in Checks |-> IF Due(c) THEN lost[c] \cup {0} ELSE lost[c]]
    /\ losses' = losses + 1
    /\ beat' = FALSE
    /\ UNCHANGED <<last_run, ran, jobs>>

(* run_status_check ends and has written last_run. *)
RunCheck(c) ==
    /\ \E age \in jobs[c] : jobs' = [jobs EXCEPT ![c] = @ \ {age}]
    /\ last_run' = [last_run EXCEPT ![c] = 0]
    /\ ran' = [ran EXCEPT ![c] = 0]
    /\ lost' = [lost EXCEPT ![c] = {}]
    /\ UNCHANGED <<losses, beat>>

(* The worker is killed in the run. *)
RunLost(c) ==
    /\ losses < MaxLosses
    /\ \E age \in jobs[c] :
          /\ jobs' = [jobs EXCEPT ![c] = @ \ {age}]
          /\ lost' = [lost EXCEPT ![c] = @ \cup {age}]
    /\ losses' = losses + 1
    /\ UNCHANGED <<last_run, ran, beat>>

(* A form saves the check as it was loaded after some earlier run, or before the
   first, last_run with the rest. *)
StaleSave(c) ==
    /\ \E age \in Never .. Horizon :
          /\ age \in {Never, Horizon} \/ age >= ran[c]
          /\ last_run' = [last_run EXCEPT ![c] = age]
    /\ UNCHANGED <<ran, jobs, lost, losses, beat>>

SchedulerNext ==
    \/ Minute \/ RunAllChecks \/ BeatLost
    \/ \E c \in Checks : RunCheck(c) \/ RunLost(c) \/ StaleSave(c)

SchedulerSpec == SchedulerInit /\ [][SchedulerNext]_scheduler
-----------------------------------------------------------------------------
(* frequency, "Minutes between each check." (base.py:430): a check is at most
   one minute and the lag of a message late, and each further minute of delay is
   accounted for by a message that was lost, although messages pile up, are run
   in any order and edits write old values of last_run back. *)
ChecksAreTimely ==
    \A c \in Checks : \A minute \in MaxLag + 1 .. ran[c] - Frequency[c] - 1 : minute \in lost[c]

(* Mutant: the boundary is left out. *)
ChecksRunningStrict == \E c \in Checks : ran[c] < Recent

(* What checks_run_recently() answers. *)
ChecksRunning == \E c \in Checks : ran[c] <= Recent

(* "Checks whether or not stuff is running" (views.py:1037): the page does not
   deny it while one check that is frequent enough has lost no message. *)
RunningIsReported ==
    (\E c \in Checks : Frequency[c] + 1 + MaxLag <= Recent /\ lost[c] = {}) => ChecksRunning
=============================================================================

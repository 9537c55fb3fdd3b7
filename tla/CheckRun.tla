------------------------------ MODULE CheckRun -------------------------------
(***************************************************************************)
(* One StatusCheck: its row, the results it stored, the workers that run   *)
(* it, the forms that edit it, its deletion, and a service that has this   *)
(* check only.  StatusCheck.save() recomputes the status from the stored   *)
(* results, looks for its own row, writes the whole row and then queues an *)
(* update of the services it is linked to; each query is a step.           *)
(***************************************************************************)
EXTENDS StatusRules

CONSTANTS
    Runners,     \* workers and web requests that run the check
    Editors,     \* requests that submit the check's edit form
    Debounces,   \* values of debounce users submit
    RecentLimit, \* results recent_results() reads, 10 in the code
    MaxCrashes,  \* bound: runners killed in the middle of a run
    Gone         \* no row

ASSUME ProcessAssumption == Runners \cap Editors = {}
ASSUME DebounceAssumption ==
    Debounces \subseteq Nat /\ Debounces # {}
ASSUME LimitAssumption == RecentLimit \in Nat \ {0} /\ MaxCrashes \in Nat
ASSUME GoneAssumption ==
    Gone \notin [active : BOOLEAN, debounce : Nat, has_run : BOOLEAN,
                 passing : BOOLEAN]

VARIABLES
    check,    \* the row, or Gone
    results,  \* outcomes of the newest results, newest first
    linked,   \* the check is one of the service's status_checks
    queued,   \* an update_service message is waiting
    seen,     \* the service's status counts this check as failing
    proc,     \* what each runner and editor is doing, with its copy
    crashes   \* runners killed so far

vars == <<check, results, linked, queued, seen, proc, crashes>>

Processes == Runners \cup Editors

(* has_run is "last_run is not null", passing is calculated_status. *)
Check == [active : BOOLEAN, debounce : Debounces, has_run : BOOLEAN,
          passing : BOOLEAN]

(* A process holds its copy of the row until it has written it.  The copy's
   passing is overwritten before it is read, so a fresh copy leaves it TRUE. *)
Idle == [pc |-> "idle"]
Dispatching == [pc |-> "dispatching"]
Linking == [pc |-> "linking"]
Busy == [pc   : {"running", "saving", "decided", "writing"},
         copy : Check]

TypeOK ==
    /\ check \in Check \cup {Gone}
    /\ results \in Seq(BOOLEAN) /\ Len(results) <= RecentLimit
    /\ {linked, queued, seen} \subseteq BOOLEAN
    /\ proc \in [Processes -> Busy \cup {Idle, Dispatching, Linking}]
    /\ crashes \in 0 .. MaxCrashes

(* A check just created through its form. *)
Init ==
    /\ check \in [active : BOOLEAN, debounce : Debounces, has_run : {FALSE},
                  passing : {TRUE}]
    /\ results = <<>>
    /\ linked = TRUE
    /\ queued = FALSE
    /\ seen = FALSE
    /\ proc = [p \in Processes |-> Idle]
    /\ crashes = 0

At(p, pc) == proc[p].pc = pc
-----------------------------------------------------------------------------
(* Mutant: recent_results() reads every result. *)
RecordedUnbounded(succeeded) == <<succeeded>> \o results

(* The results recent_results() reads, newest first, once one more is stored. *)
Recorded(succeeded) ==
    IF Len(results) < RecentLimit THEN <<succeeded>> \o results
    ELSE <<succeeded>> \o SubSeq(results, 1, RecentLimit - 1)

(* run_status_check loads the check ... *)
Load(r) ==
    /\ proc[r] = Idle /\ check # Gone
    /\ proc' = [proc EXCEPT ![r] = [pc   |-> "running",
                                    copy |-> [check EXCEPT !.passing = TRUE]]]
    /\ UNCHANGED <<check, results, linked, queued, seen, crashes>>

(* Mutant: last_run is not set. *)
StoreResultUndated(r) ==
    /\ At(r, "running") /\ check # Gone
    /\ \E succeeded \in BOOLEAN : results' = Recorded(succeeded)
    /\ proc' = [proc EXCEPT ![r].pc = "saving"]
    /\ UNCHANGED <<check, linked, queued, seen, crashes>>

(* ... and stores the outcome of _run() as the newest result. *)
StoreResult(r) ==
    /\ At(r, "running") /\ check # Gone
    /\ \E succeeded \in BOOLEAN : results' = Recorded(succeeded)
    /\ proc' = [proc EXCEPT ![r].pc = "saving", ![r].copy.has_run = TRUE]
    /\ UNCHANGED <<check, linked, queued, seen, crashes>>

(* A result cannot refer to a check that is gone: the task fails. *)
StoreFails(r) ==
    /\ At(r, "running") /\ check = Gone
    /\ proc' = [proc EXCEPT ![r] = Idle]
    /\ UNCHANGED <<check, results, linked, queued, seen, crashes>>

(* A form loads the check and changes it in memory. *)
Edit(e) ==
    /\ proc[e] = Idle /\ check # Gone
    /\ \E active \in BOOLEAN, debounce \in Debounces :
          proc' = [proc EXCEPT ![e] =
                     [pc   |-> "saving",
                      copy |-> [check EXCEPT !.active = active, !.debounce = debounce,
                                     !.passing = TRUE]]]
    /\ UNCHANGED <<check, results, linked, queued, seen, crashes>>
-----------------------------------------------------------------------------
(* StatusCheck.save().                                                     *)

(* Mutant: the results are read before the new one is stored. *)
VerdictOnOldResults(copy) ==
    ~ copy.has_run \/ results = <<>> \/ DebouncedPassing(Tail(results), copy.debounce)

(* calculated_status: a check that never ran passes, any other is judged by
   its recent results. *)
Verdict(copy) == ~ copy.has_run \/ DebouncedPassing(results, copy.debounce)

(* What is left once save() is over: a form goes on with the links. *)
Saved(p) == IF p \in Editors THEN Linking ELSE Idle

(* The status is computed; the row of a check that never ran is not looked
   for. *)
Decide(p) ==
    /\ At(p, "saving")
    /\ proc' = [proc EXCEPT
                  ![p].pc = IF proc[p].copy.has_run THEN "decided" ELSE "writing",
                  ![p].copy.passing = Verdict(proc[p].copy)]
    /\ UNCHANGED <<check, results, linked, queued, seen, crashes>>

(* Mutant: the row is not looked for. *)
FindSelfAlways(p) ==
    /\ At(p, "decided")
    /\ proc' = [proc EXCEPT ![p].pc = "writing"]
    /\ UNCHANGED <<check, results, linked, queued, seen, crashes>>

(* "Cannot find myself": save() gives up when the row is gone. *)
FindSelf(p) ==
    /\ At(p, "decided")
    /\ proc' = [proc EXCEPT ![p] = IF check = Gone THEN Saved(p)
                                   ELSE [@ EXCEPT !.pc = "writing"]]
    /\ UNCHANGED <<check, results, linked, queued, seen, crashes>>

(* The whole row is written: updated, or inserted when there is none. *)
Write(p) ==
    /\ At(p, "writing")
    /\ check' = proc[p].copy
    /\ proc' = [proc EXCEPT ![p] = Dispatching]
    /\ UNCHANGED <<results, linked, queued, seen, crashes>>

(* Mutant: services hear of failing checks only. *)
DispatchOnFailure(p) ==
    /\ proc[p] = Dispatching
    /\ queued' = (queued \/ (linked /\ check # Gone /\ ~ check.passing))
    /\ proc' = [proc EXCEPT ![p] = Saved(p)]
    /\ UNCHANGED <<check, results, linked, seen, crashes>>

(* update_related_services(); save() is over. *)
Dispatch(p) ==
    /\ proc[p] = Dispatching
    /\ queued' = (queued \/ linked)
    /\ proc' = [proc EXCEPT ![p] = Saved(p)]
    /\ UNCHANGED <<check, results, linked, seen, crashes>>

Save(p) == Decide(p) \/ FindSelf(p) \/ Write(p) \/ Dispatch(p)
-----------------------------------------------------------------------------
(* SymmetricalForm.save() sets the services of the check after its save(). *)
Relink(e) ==
    /\ proc[e] = Linking
    /\ IF check = Gone THEN UNCHANGED linked ELSE linked' \in BOOLEAN
    /\ proc' = [proc EXCEPT ![e] = Idle]
    /\ UNCHANGED <<check, results, queued, seen, crashes>>

(* ServiceUpdateView adds the check to the service or takes it away. *)
RelinkFromService ==
    /\ check # Gone
    /\ linked' = ~ linked
    /\ UNCHANGED <<check, results, queued, seen, proc, crashes>>

(* StatusCheckDeleteView: the results and the links go with the row. *)
Delete ==
    /\ check # Gone
    /\ check' = Gone
    /\ results' = <<>>
    /\ linked' = FALSE
    /\ UNCHANGED <<queued, seen, proc, crashes>>

(* clean_db: the oldest results go. *)
Purge ==
    /\ \E kept \in 0 .. Len(results) - 1 : results' = SubSeq(results, 1, kept)
    /\ UNCHANGED <<check, linked, queued, seen, proc, crashes>>

(* Whether all_failing_checks() of the service returns this check. *)
Counts == linked /\ check # Gone /\ check.active /\ ~ check.passing

(* update_service: the service takes its status from its checks. *)
UpdateService ==
    /\ queued
    /\ queued' = FALSE
    /\ seen' = Counts
    /\ UNCHANGED <<check, results, linked, proc, crashes>>

(* A runner is killed; its message was acknowledged on receipt. *)
Crash(r) ==
    /\ proc[r] # Idle /\ crashes < MaxCrashes
    /\ crashes' = crashes + 1
    /\ proc' = [proc EXCEPT ![r] = Idle]
    /\ UNCHANGED <<check, results, linked, queued, seen>>

Next ==
    \/ \E r \in Runners : Load(r) \/ StoreResult(r) \/ StoreFails(r) \/ Crash(r)
    \/ \E e \in Editors : Edit(e) \/ Relink(e)
    \/ \E p \in Processes : Save(p)
    \/ RelinkFromService
    \/ Delete
    \/ Purge
    \/ UpdateService

Spec == Init /\ [][Next]_vars

(* run_all_checks starts a run of every check, active or not, again and again;
   a run or a request that has begun goes on; messages are taken. *)
Fairness ==
    /\ \A r \in Runners : WF_vars(Load(r) \/ StoreResult(r) \/ StoreFails(r))
    /\ \A e \in Editors : WF_vars(Relink(e))
    /\ \A p \in Processes : WF_vars(Save(p))
    /\ WF_vars(UpdateService)

FairSpec == Spec /\ Fairness
-----------------------------------------------------------------------------
(* Runs and edits that overlap read and write stale copies; but once the
   edits stop and the verdict on the stored results no longer changes, that
   verdict becomes the status of the check and stays so. *)
StatusConverges ==
    \A verdict \in BOOLEAN :
        <>[](/\ check # Gone /\ results # <<>>
             /\ DebouncedPassing(results, check.debounce) = verdict
             /\ \A e \in Editors : proc[e] = Idle)
            => <>[](check # Gone /\ check.passing = verdict)

(* A service keeps up with a check that stays linked to it: the message of a
   run carries no status, so a late, merged or lost one is made good by the
   next. *)
ServiceConverges ==
    \A counts \in BOOLEAN :
        <>[](linked /\ Counts = counts) => <>[](seen = counts)

(* "If not active, check will not be used to calculate service status and will
   not trigger alerts" (base.py:418): a check that users have switched off stays
   off until they switch it on; a run that began before never does. *)
RunsNeverActivate ==
    [][\A r \in Runners :
          Write(r) /\ check # Gone /\ check'.active => check.active]_vars

(* save() past its look for the row: it will write, whatever happens. *)
WillWrite(p) == At(p, "writing") \/ (At(p, "saving") /\ ~ proc[p].copy.has_run)
Abandoned == check = Gone /\ \A p \in Processes : ~ WillWrite(p)

(* "Cannot find myself in the database, presumably have been deleted"
   (base.py:567): runs and edits still under way never insert a deleted check
   again, except for a save() that was already past that look. *)
AbandonedStaysDeleted == [][Abandoned => Abandoned']_vars
=============================================================================

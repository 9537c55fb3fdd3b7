---------------------------- MODULE ServiceUpdate ----------------------------
(***************************************************************************)
(* One service of Cabot, its update_service messages, the celery workers   *)
(* that handle them, and the web requests that edit and acknowledge it.    *)
(* The database commits every query on its own and no row is locked, so    *)
(* each query of Service.update_status() and alert() is a step: a worker   *)
(* loads the row, lists the failing checks, writes the whole row back, and *)
(* writes it again when it raises an alert.                                *)
(***************************************************************************)
EXTENDS AlertRules

CONSTANTS
    Workers,     \* celery worker processes
    Editors,     \* requests that submit the service's edit form
    Users,       \* sessions that acknowledge alerts
    Importances, \* importances of the checks linked to the service
    AckExpiry,   \* ACKNOWLEDGEMENT_EXPIRY, minutes
    MaxQueue,    \* bound: update_service messages waiting, and saves about to queue one
    MaxCrashes   \* bound: workers killed in the middle of a task or of a save

ASSUME ImportancesAssumption == Importances \subseteq Importance
ASSUME AckExpiryAssumption == AckExpiry \in Nat /\ AckExpiry < Horizon
ASSUME BoundsAssumption == MaxQueue \in Nat /\ MaxCrashes \in Nat

VARIABLES
    failing,  \* importances of the linked, active checks that are failing
    service,  \* the service's row
    unsent,   \* saves of checks that have not queued their update yet
    queue,    \* update_service messages waiting
    task,     \* what each worker is doing, with its copy of the row
    edit,     \* what each editor is doing, with its copy of the row
    acks,     \* age of each session's acknowledgement, None if cancelled
    looked,   \* sessions that found no acknowledgement and will create one
    crashes   \* workers killed so far

env    == <<failing, unsent, queue>>
people == <<edit, acks, looked>>
vars   == <<env, service, task, people, crashes>>

(* Before and after the queries of an update or an edit.  A worker that is
   sending and an editor that is linking have no more use for their copies. *)
Idle    == [pc |-> "idle"]
Sending == [pc |-> "sending"]
Linking == [pc |-> "linking"]
Task    == [pc  : {"loaded", "listed", "saved"},
            svc : Service,     \* the copy of the row in memory
            old : Status]      \* old_overall_status of the copy

TypeOK ==
    /\ failing \subseteq Importances
    /\ service \in Service
    /\ {unsent, queue} \subseteq 0 .. MaxQueue
    /\ task \in [Workers -> Task \cup {Idle, Sending}]
    /\ edit \in [Editors -> [pc : {"loaded"}, svc : Service] \cup {Idle, Linking}]
    /\ acks \in [Users -> MaybeAge]
    /\ looked \subseteq Users
    /\ crashes \in 0 .. MaxCrashes

Init ==
    /\ failing = {}
    /\ service \in [overall_status  : {"PASSING"},
                    last_alert_sent : {None},
                    alerts_enabled  : BOOLEAN]
    /\ unsent = 0 /\ queue = 0
    /\ task = [w \in Workers |-> Idle]
    /\ edit = [e \in Editors |-> Idle]
    /\ acks = [u \in Users |-> None]
    /\ looked = {}
    /\ crashes = 0
-----------------------------------------------------------------------------
(* The checks of the service.                                              *)

(* The row of a check is written with a new status, or the same one ... *)
CheckSaved ==
    /\ unsent < MaxQueue
    /\ failing' \in SUBSET Importances
    /\ unsent' = unsent + 1
    /\ UNCHANGED <<service, queue, task, crashes, people>>

(* ... and then an update is queued of each service it is linked to ... *)
UpdateQueued ==
    /\ unsent > 0 /\ queue < MaxQueue
    /\ unsent' = unsent - 1
    /\ queue' = queue + 1
    /\ UNCHANGED <<failing, service, task, crashes, people>>

(* ... unless the runner is killed, or the check unlinked, in between. *)
UpdateLost ==
    /\ unsent > 0 /\ crashes < MaxCrashes
    /\ unsent' = unsent - 1
    /\ crashes' = crashes + 1
    /\ UNCHANGED <<failing, service, queue, task, people>>

(* The set of linked checks changes and no update is queued: a check is
   deleted, or the form of a check changes its services after its save. *)
ChecksRelinked ==
    /\ failing' \in SUBSET Importances \ {failing}
    /\ UNCHANGED <<service, unsent, queue, task, crashes, people>>
-----------------------------------------------------------------------------
(* A celery worker runs update_service.                                    *)

(* The message is received and acknowledged, the row is loaded. *)
Take(w) ==
    /\ task[w] = Idle /\ queue > 0
    /\ queue' = queue - 1
    /\ task' = [task EXCEPT ![w] = [pc |-> "loaded", svc |-> service,
                                    old |-> service.overall_status]]
    /\ UNCHANGED <<failing, unsent, service, crashes, people>>

(* update_status() lists the failing checks. *)
ListFailing(w) ==
    /\ task[w].pc = "loaded"
    /\ task' = [task EXCEPT ![w].pc = "listed",
                            ![w].svc.overall_status = MostSevere(failing)]
    /\ UNCHANGED <<service, crashes, env, people>>

(* Mutant: the save is left to alert() when alert() is called. *)
SaveStatusLeftToAlert(w) ==
    /\ task[w].pc = "listed"
    /\ task' = IF task[w].old = "PASSING" /\ task[w].svc.overall_status = "PASSING"
               THEN [task EXCEPT ![w] = Idle]
               ELSE [task EXCEPT ![w].pc = "saved"]
    /\ UNCHANGED <<service, crashes, env, people>>

(* update_status() saves the row, every column of it, and returns unless the
   service is or was failing. *)
SaveStatus(w) ==
    /\ task[w].pc = "listed"
    /\ service' = task[w].svc
    /\ task' = IF task[w].old = "PASSING" /\ task[w].svc.overall_status = "PASSING"
               THEN [task EXCEPT ![w] = Idle]
               ELSE [task EXCEPT ![w].pc = "saved"]
    /\ UNCHANGED <<crashes, env, people>>

(* Mutant: an alert is repeated only when the status changes. *)
QuietUnlessChanged(svc, old) ==
    ~ svc.alerts_enabled \/ svc.overall_status = old

(* The early returns of alert(), for a copy of the row and the status it had. *)
Quiet(svc, old) ==
    ~ svc.alerts_enabled \/ Suppressed(old, svc.overall_status, svc.last_alert_sent)

(* alert() returns early. *)
AlertSkipped(w) ==
    /\ task[w].pc = "saved"
    /\ Quiet(task[w].svc, task[w].old)
    /\ task' = [task EXCEPT ![w] = Idle]
    /\ UNCHANGED <<service, crashes, env, people>>

(* Mutant: alert() does not save the row. *)
AlertRaisedUnsaved(w) ==
    /\ task[w].pc = "saved"
    /\ ~ Quiet(task[w].svc, task[w].old)
    /\ task' = [task EXCEPT ![w] = Sending]
    /\ UNCHANGED <<service, crashes, env, people>>

(* alert() goes ahead: it dates the alert and saves the row again. *)
AlertRaised(w) ==
    /\ task[w].pc = "saved"
    /\ ~ Quiet(task[w].svc, task[w].old)
    /\ service' = [task[w].svc EXCEPT
                      !.last_alert_sent = AlertTime(task[w].svc.overall_status)]
    /\ task' = [task EXCEPT ![w] = Sending]
    /\ UNCHANGED <<crashes, env, people>>

(* Mutant: acknowledgements do not expire. *)
UnexpiredForever == {u \in Users : acks[u] # None}

(* unexpired_acknowledgements(), by the session that made them. *)
Unexpired == {u \in Users : acks[u] # None /\ acks[u] <= AckExpiry}

Sent(w) ==
    /\ task[w] = Sending
    /\ task' = [task EXCEPT ![w] = Idle]
    /\ UNCHANGED <<service, crashes, env, people>>

(* alert() ends: send_alert() to the duty officers and users, or only
   send_alert_update() while somebody has acknowledged. *)
Page(w)       == Unexpired = {} /\ Sent(w)
SendUpdate(w) == Unexpired # {} /\ Sent(w)

(* The worker is killed, or an exception ends the task, such as that of
   get_duty_officers().  Its message was acknowledged on receipt: the task is not
   run again. *)
Crash(w) ==
    /\ task[w] # Idle /\ crashes < MaxCrashes
    /\ crashes' = crashes + 1
    /\ task' = [task EXCEPT ![w] = Idle]
    /\ UNCHANGED <<service, env, people>>

Step(w) ==
    \/ ListFailing(w) \/ SaveStatus(w)
    \/ AlertSkipped(w) \/ AlertRaised(w)
    \/ Page(w) \/ SendUpdate(w)
-----------------------------------------------------------------------------
(* Web requests.                                                           *)

(* ServiceUpdateView, or the API, loads the row ... *)
EditLoad(e) ==
    /\ edit[e] = Idle
    /\ edit' = [edit EXCEPT ![e] = [pc |-> "loaded", svc |-> service]]
    /\ UNCHANGED <<service, task, acks, looked, crashes, env>>

(* ... saves it, every column of it, with the alerts_enabled submitted, and from
   the API with any overall_status ... *)
EditSave(e) ==
    /\ edit[e].pc = "loaded"
    /\ \E enabled \in BOOLEAN, status \in Status :
          service' = [edit[e].svc EXCEPT !.alerts_enabled = enabled, !.overall_status = status]
    /\ edit' = [edit EXCEPT ![e] = Linking]
    /\ UNCHANGED <<task, acks, looked, crashes, env>>

(* ... and sets its status_checks, which queues no update. *)
EditLinks(e) ==
    /\ edit[e] = Linking
    /\ failing' \in SUBSET Importances
    /\ edit' = [edit EXCEPT ![e] = Idle]
    /\ UNCHANGED <<service, unsent, queue, task, acks, looked, crashes>>

(* acknowledge_alert() finds no unexpired acknowledgement ... *)
AckQuery(u) ==
    /\ u \notin looked /\ Unexpired = {}
    /\ looked' = looked \cup {u}
    /\ UNCHANGED <<service, task, edit, acks, crashes, env>>

(* ... and creates one. *)
AckCreate(u) ==
    /\ u \in looked
    /\ acks' = [acks EXCEPT ![u] = 0]
    /\ looked' = looked \ {u}
    /\ UNCHANGED <<service, task, edit, crashes, env>>

(* remove_acknowledgement() cancels every unexpired one, whoever made it. *)
RemoveAck ==
    /\ Unexpired # {}
    /\ acks' = [u \in Users |-> IF u \in Unexpired THEN None ELSE acks[u]]
    /\ UNCHANGED <<service, task, edit, looked, crashes, env>>
-----------------------------------------------------------------------------
Aged(svc) == [svc EXCEPT !.last_alert_sent = Older(@)]

(* A minute passes: every moment is older, in the database and in memory. *)
Tick ==
    /\ service' = Aged(service)
    /\ task' = [w \in Workers |-> IF task[w] \in {Idle, Sending} THEN task[w]
                                  ELSE [task[w] EXCEPT !.svc = Aged(@)]]
    /\ edit' = [e \in Editors |-> IF edit[e].pc = "loaded"
                                  THEN [edit[e] EXCEPT !.svc = Aged(@)]
                                  ELSE edit[e]]
    /\ acks' = [u \in Users |-> Older(acks[u])]
    /\ UNCHANGED <<env, looked, crashes>>

Next ==
    \/ CheckSaved \/ UpdateQueued \/ UpdateLost
    \/ ChecksRelinked
    \/ \E w \in Workers : Take(w) \/ Step(w) \/ Crash(w)
    \/ \E e \in Editors : EditLoad(e) \/ EditSave(e) \/ EditLinks(e)
    \/ \E u \in Users : AckQuery(u) \/ AckCreate(u)
    \/ RemoveAck
    \/ Tick

Spec == Init /\ [][Next]_vars

(* Checks keep running on their schedule and each save goes on to queue an
   update, if it is not killed first; an idle worker takes a waiting message; a task or request that has begun goes
   on; time passes. *)
Fairness ==
    /\ WF_vars(CheckSaved)
    /\ WF_vars(UpdateQueued)
    /\ WF_vars(\E w \in Workers : Take(w))
    /\ \A w \in Workers : WF_vars(Step(w))
    /\ \A e \in Editors : WF_vars(EditSave(e) \/ EditLinks(e))
    /\ WF_vars(Tick)

FairSpec == Spec /\ Fairness
-----------------------------------------------------------------------------
(* Whatever overlapping updates, crashes, updates never queued and edits over
   stale copies did to the row, once the checks stop changing and the edits stop, its status
   becomes that of the checks and stays so. *)
StatusConverges ==
    \A importances \in SUBSET Importances :
        <>[](failing = importances /\ \A e \in Editors : edit[e] = Idle)
            => <>[](service.overall_status = MostSevere(importances))

(* While a service keeps failing with its alerts on, the people on duty are
   paged again and again, unless users keep acknowledging: neither a stale
   last_alert_sent nor a page lost in a crash silences it for good. *)
FailureIsPaged ==
    <>[](failing # {} /\ service.alerts_enabled)
        => \/ []<><<\E w \in Workers : Page(w)>>_vars
           \/ []<><<\E u \in Users : AckCreate(u)>>_vars
=============================================================================

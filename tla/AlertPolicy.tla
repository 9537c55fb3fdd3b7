---------------------------- MODULE AlertPolicy ------------------------------
(***************************************************************************)
(* What one service promises about its alerts, when its updates do not     *)
(* overlap.  An action is a whole Service.update_status() call with the    *)
(* alert() it makes, on any set of failing checks.  A celery worker can be *)
(* killed between the two saves of the call (UpdateInterrupted).           *)
(***************************************************************************)
EXTENDS AlertRules

VARIABLES
    service,   \* the service's row
    notice,    \* history: the last thing raised with the users
    blind      \* history: since that notice an update could not raise one

vars == <<service, notice, blind>>

TypeOK ==
    /\ service \in Service
    /\ notice \in Notice
    /\ blind \in BOOLEAN

Init ==
    /\ service \in [overall_status  : {"PASSING"},
                    last_alert_sent : {None},
                    alerts_enabled  : BOOLEAN]
    /\ notice = [status |-> "PASSING", age |-> Horizon]
    /\ blind = FALSE

-----------------------------------------------------------------------------

(* The row after the first save of update_status(). *)
Observed(status) == [service EXCEPT !.overall_status = status]

(* The service is or was failing: update_status() calls alert(). *)
Troubled(status) == ~ (service.overall_status = "PASSING" /\ status = "PASSING")

(* Passing before and after: nothing to tell. *)
UpdateHealthy(status) ==
    /\ ~ Troubled(status)
    /\ UNCHANGED vars

(* alert() returns at once: alerts are switched off for this service. *)
UpdateMuted(status) ==
    /\ Troubled(status)
    /\ ~ service.alerts_enabled
    /\ service' = Observed(status)
    /\ blind' = TRUE
    /\ UNCHANGED notice

(* alert() returns because it alerted recently. *)
UpdateSuppressed(status) ==
    /\ service.alerts_enabled
    /\ Suppressed(service.overall_status, status, service.last_alert_sent)
    /\ service' = Observed(status)
    /\ UNCHANGED <<notice, blind>>

(* alert() goes ahead: a failure, or the return to normal. *)
UpdateNotifies(status) ==
    /\ Troubled(status)
    /\ service.alerts_enabled
    /\ ~ Suppressed(service.overall_status, status, service.last_alert_sent)
    /\ service' = [Observed(status) EXCEPT !.last_alert_sent = AlertTime(status)]
    /\ notice' = [status |-> status, age |-> 0]
    /\ blind' = FALSE

(* The worker dies between the save of the status and the save of alert(). *)
UpdateInterrupted(status) ==
    /\ Troubled(status)
    /\ service' = Observed(status)
    /\ blind' = TRUE
    /\ UNCHANGED notice

CompleteUpdate(importances) ==
    LET status == MostSevere(importances) IN
    \/ UpdateHealthy(status)
    \/ UpdateMuted(status)
    \/ UpdateSuppressed(status)
    \/ UpdateNotifies(status)

(* A user switches the alerts of the service on or off. *)
SetAlertsEnabled ==
    /\ service' = [service EXCEPT !.alerts_enabled = ~ @]
    /\ UNCHANGED <<notice, blind>>

Tick ==
    /\ service' = [service EXCEPT !.last_alert_sent = Older(@)]
    /\ notice' = [notice EXCEPT !.age = Older(@)]
    /\ UNCHANGED blind

Update == \E importances \in SUBSET Importance : CompleteUpdate(importances)

Next ==
    \/ Update
    \/ \E status \in Status : UpdateInterrupted(status)
    \/ SetAlertsEnabled
    \/ Tick

Spec == Init /\ [][Next]_vars

(* Every run of a check ends with an update of its services, and checks run
   every few minutes, so updates complete again and again; time passes. *)
FairSpec == Spec /\ WF_vars(Update) /\ WF_vars(Tick)
-----------------------------------------------------------------------------

(* The column last_alert_sent always dates the last notice of a failure, and
   is null exactly when the users were last told that all is well. *)
LastAlertIsLastNotice ==
    service.last_alert_sent =
        IF notice.status = "PASSING" THEN None ELSE notice.age

(* Unless an update was kept from raising it, the users know whether the
   service is failing, and were told of a severity no lower than the
   present one: suppression never hides an escalation. *)
UsersAreInformed ==
    ~ blind =>
        /\ (service.overall_status = "PASSING") = (notice.status = "PASSING")
        /\ Rank[service.overall_status] <= Rank[notice.status]

(* A second alert about a failure is raised only when its interval has passed
   since the first, or when the service got worse in between. *)
RepeatsAreThrottled ==
    [][\A status \in Status \ {"PASSING"} :
          UpdateNotifies(status) /\ notice.status # "PASSING" =>
              \/ notice.age >= Interval(status)
              \/ Rank[status] > Rank[service.overall_status]]_vars

(* As long as a service with alerts on keeps failing, its users are reminded
   again and again. *)
FailureIsRepeated ==
    <>[](service.alerts_enabled /\ service.overall_status # "PASSING")
        => []<>(notice.age = 0 /\ notice.status # "PASSING")
=============================================================================

----------------------------- MODULE AlertRules ------------------------------
(***************************************************************************)
(* The decision CheckGroupMixin.alert() takes about one observation of a   *)
(* service, and the clock it reads.  A moment in the past is represented   *)
(* by its age in minutes, which stops growing at Horizon: every comparison *)
(* of the code is with an interval no longer than Horizon, so older        *)
(* moments need not be told apart.                                         *)
(***************************************************************************)
EXTENDS StatusRules

CONSTANTS
    AlertInterval,        \* ALERT_INTERVAL, minutes
    NotificationInterval, \* NOTIFICATION_INTERVAL, minutes
    Horizon,              \* ages stop growing here
    None                  \* a field that holds no moment (a null column)

ASSUME IntervalAssumption ==
    /\ AlertInterval \in Nat /\ NotificationInterval \in Nat /\ Horizon \in Nat
    /\ AlertInterval <= Horizon /\ NotificationInterval <= Horizon
ASSUME NoneAssumption == None \notin Nat

Age == 0 .. Horizon
MaybeAge == Age \cup {None}

(* One minute later. *)
Older(age) == IF age \in Age /\ age < Horizon THEN age + 1 ELSE age

(* Mutant: the interval is forgotten. *)
WithinForever(age, interval) == age # None

(* "sent and now - interval < sent". *)
Within(age, interval) == age # None /\ age < interval

(* How long alert() waits before it repeats an alert of this status. *)
Interval(status) ==
    IF status = "WARNING" THEN NotificationInterval ELSE AlertInterval

(* Mutants: an alert after a warning is no more important, as before
   version 0.8.5; an alert after any failure but a critical one is. *)
MoreImportantOnlyCritical(old, new) == old = "ERROR" /\ new = "CRITICAL"
MoreImportantAnyFailure(old, new)   == old \in {"WARNING", "ERROR"}

(* more_important in alert(). *)
MoreImportant(old, new) ==
    \/ old = "WARNING"
    \/ old = "ERROR" /\ new = "CRITICAL"

(* The early returns of alert() for a service that is not passing. *)
Suppressed(old, new, last_alert_sent) ==
    /\ new # "PASSING"
    /\ new = "WARNING" \/ ~ MoreImportant(old, new)
    /\ Within(last_alert_sent, Interval(new))

(* Mutant: "back to normal" counts as an alert. *)
AlertTimeAlways(new) == 0

(* What alert() writes to last_alert_sent once it goes ahead. *)
AlertTime(new) == IF new = "PASSING" THEN None ELSE 0

(* A service as update_status() and alert() use it: the fields they read
   before they write them. *)
Service == [overall_status  : Status,
            last_alert_sent : MaybeAge,
            alerts_enabled  : BOOLEAN]

(* What was last raised with the users of the service, and when. *)
Notice == [status : Status, age : Age]
=============================================================================

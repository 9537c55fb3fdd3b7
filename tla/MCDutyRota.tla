------------------------------ MODULE MCDutyRota ------------------------------
(* Each event is handed from one user to the next when it is modified.  The
   calendar and the profiles meet only in get_duty_officers(): they are explored
   in turn, each with enough of the other. *)
EXTENDS DutyRotaAudit

CONSTANTS e1, e2, u1, u2

Handover ==
    [e \in Events |-> [v \in Versions |-> IF (e = e1) = (v % 2 = 0) THEN u1 ELSE u2]]

VARIABLE scenario

(* Updates overlap and are killed; e1 is modified and unlisted and its first
   officer disabled; e2 only comes to pass. *)
CalendarChanges ==
    UNCHANGED <<version[e2], profiles>> /\ e2 \in listed' /\ u2 \in active'

(* Profiles are saved while the shifts of e1 and e2 pass, updated one at a time. *)
ProfilesChange == ~ overlapped' /\ UNCHANGED <<version, listed, active>>

MCInit == AuditInit /\ scenario \in {"calendar", "profiles"}

MCNext ==
    /\ AuditNext
    /\ scenario = "calendar" => CalendarChanges
    /\ scenario = "profiles" => ProfilesChange
    /\ UNCHANGED scenario

MCSpec == MCInit /\ [][MCNext]_<<auditVars, scenario>> /\ Fairness
=============================================================================

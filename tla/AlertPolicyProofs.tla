-------------------------- MODULE AlertPolicyProofs --------------------------
(***************************************************************************)
(* Proofs that AlertPolicy keeps its promises for every choice of the      *)
(* intervals.  The invariant that makes them inductive is the conjunction  *)
(* of the three that TLC checks: what suppression hides is known from the  *)
(* rank of the last notice, which in turn is known only because            *)
(* last_alert_sent dates that notice.                                      *)
(***************************************************************************)
EXTENDS AlertPolicy, StatusRulesProofs

Inv == TypeOK /\ LastAlertIsLastNotice /\ UsersAreInformed

LEMMA OlderMaybeAge ==
    /\ None \notin Age
    /\ Older(None) = None
    /\ \A age \in Age : Older(age) \in Age
    /\ \A age \in MaybeAge : Older(age) \in MaybeAge
BY IntervalAssumption, NoneAssumption DEF Older, Age, MaybeAge

(* A repeated alert is suppressed only if its severity is no greater than the
   one before: the guard of alert() in terms of ranks. *)
LEMMA SuppressedIsNoEscalation ==
    ASSUME NEW old \in Status, NEW new \in Status, NEW sent \in MaybeAge,
           old # "PASSING", Suppressed(old, new, sent)
    PROVE  /\ sent # None
           /\ new # "PASSING"
           /\ new = "WARNING" \/ Rank[new] <= Rank[old]
BY RankValues DEF Suppressed, MoreImportant, Within, Status, Importance

LEMMA InitInv == Init => Inv
<1> SUFFICES ASSUME Init PROVE Inv
    OBVIOUS
<1>1. Horizon \in Age
    BY IntervalAssumption DEF Age
<1>2. /\ service.overall_status = "PASSING" /\ service.last_alert_sent = None
      /\ service \in Service
    BY DEF Init, Service, Status, MaybeAge
<1>3. notice = [status |-> "PASSING", age |-> Horizon] /\ blind = FALSE
    BY DEF Init
<1>4. TypeOK
    BY <1>1, <1>2, <1>3 DEF TypeOK, Notice, Status
<1> QED
    BY <1>2, <1>3, <1>4, RankValues DEF Inv, LastAlertIsLastNotice, UsersAreInformed

LEMMA NextInv == Inv /\ [Next]_vars => Inv'
<1> SUFFICES ASSUME Inv, [Next]_vars PROVE Inv'
    OBVIOUS
<1> USE DEF Inv
<1>1. ASSUME NEW status \in Status, UpdateMuted(status) \/ UpdateInterrupted(status)
      PROVE  Inv'
    BY <1>1 DEF UpdateMuted, UpdateInterrupted, Observed, TypeOK, Service, Notice,
       LastAlertIsLastNotice, UsersAreInformed
<1>2. ASSUME NEW status \in Status, UpdateSuppressed(status)
      PROVE  Inv'
    <2>1. TypeOK' /\ LastAlertIsLastNotice'
        BY <1>2 DEF UpdateSuppressed, Observed, TypeOK, Service, Notice,
           LastAlertIsLastNotice
    <2>2. notice.status # "PASSING" /\ notice.status \in Status
        BY <1>2 DEF UpdateSuppressed, Suppressed, Within, TypeOK, Notice,
           LastAlertIsLastNotice
    <2>3. Rank[notice.status] >= 1
        BY <2>2, RankValues DEF Status, Importance
    <2>4. ASSUME ~ blind
          PROVE  status # "PASSING" /\ Rank[status] <= Rank[notice.status]
        <3>1. /\ service.overall_status \in Status
              /\ service.overall_status # "PASSING"
              /\ Rank[service.overall_status] <= Rank[notice.status]
              /\ service.last_alert_sent \in MaybeAge
            BY <2>2, <2>4 DEF UsersAreInformed, TypeOK, Service
        <3>2. \/ status = "WARNING"
              \/ Rank[status] <= Rank[service.overall_status]
            BY <3>1, <1>2, SuppressedIsNoEscalation DEF UpdateSuppressed
        <3>3. /\ Rank[status] \in 0 .. 3
              /\ Rank[service.overall_status] \in 0 .. 3
              /\ Rank[notice.status] \in 0 .. 3
            BY <3>1, <2>2, RankValues DEF Status, Importance
        <3> QED
            BY <3>1, <3>2, <3>3, <2>3, <1>2, RankValues DEF UpdateSuppressed, Suppressed
    <2>5. /\ service'.overall_status = status
          /\ notice' = notice
          /\ blind' = blind
        BY <1>2 DEF UpdateSuppressed, Observed, TypeOK, Service
    <2>6. UsersAreInformed'
        BY <2>2, <2>4, <2>5 DEF UsersAreInformed
    <2> QED
        BY <2>1, <2>6
<1>3. ASSUME NEW status \in Status, UpdateNotifies(status)
      PROVE  Inv'
    <2>1. 0 \in Age /\ AlertTime(status) \in MaybeAge
        BY IntervalAssumption DEF Age, AlertTime, MaybeAge
    <2>2. /\ service' = [overall_status  |-> status,
                         last_alert_sent |-> AlertTime(status),
                         alerts_enabled  |-> service.alerts_enabled]
          /\ service.alerts_enabled \in BOOLEAN
        BY <1>3 DEF UpdateNotifies, Observed, TypeOK, Service
    <2>3. notice' = [status |-> status, age |-> 0] /\ blind' = FALSE
        BY <1>3 DEF UpdateNotifies
    <2>4. TypeOK'
        BY <2>1, <2>2, <2>3 DEF TypeOK, Service, Notice
    <2>5. LastAlertIsLastNotice'
        BY <2>2, <2>3 DEF LastAlertIsLastNotice, AlertTime
    <2>6. Rank[status] <= Rank[status]
        BY RankValues DEF Status, Importance
    <2> QED
        BY <2>2, <2>3, <2>4, <2>5, <2>6 DEF UsersAreInformed
<1>4. CASE SetAlertsEnabled
    BY <1>4 DEF SetAlertsEnabled, TypeOK, Service, LastAlertIsLastNotice,
       UsersAreInformed
<1>5. CASE Tick
    <2>1. TypeOK'
        BY <1>5, OlderMaybeAge DEF Tick, TypeOK, Service, Notice
    <2>2. LastAlertIsLastNotice'
        BY <1>5, OlderMaybeAge DEF Tick, TypeOK, Service, Notice,
           LastAlertIsLastNotice
    <2>3. UsersAreInformed'
        BY <1>5 DEF Tick, TypeOK, Service, Notice, UsersAreInformed
    <2> QED
        BY <2>1, <2>2, <2>3
<1>6. CASE UNCHANGED vars
    BY <1>6 DEF vars, TypeOK, LastAlertIsLastNotice, UsersAreInformed
<1>7. CASE Update
    <2>1. PICK importances \in SUBSET Importance : CompleteUpdate(importances)
        BY <1>7 DEF Update
    <2>2. MostSevere(importances) \in Status
        BY <2>1, MostSevereIsMaximal
    <2> QED
        BY <2>1, <2>2, <1>1, <1>2, <1>3, <1>6 DEF CompleteUpdate, UpdateHealthy
<1> QED
    BY <1>1, <1>4, <1>5, <1>6, <1>7 DEF Next

THEOREM InvHolds == Spec => []Inv
BY InitInv, NextInv, PTL DEF Spec

(* The row and the notice always have their types. *)
THEOREM TypeCorrect == Spec => []TypeOK
<1>1. Inv => TypeOK
    BY DEF Inv
<1> QED
    BY <1>1, InvHolds, PTL

(* last_alert_sent, written at base.py:205 and 208, dates the last notice. *)
THEOREM LastAlertCorrect == Spec => []LastAlertIsLastNotice
<1>1. Inv => LastAlertIsLastNotice
    BY DEF Inv
<1> QED
    BY <1>1, InvHolds, PTL

(* Whatever the intervals, the suppression of base.py:195 to 204 never leaves
   the users believing that a service is better than it is. *)
THEOREM InformedCorrect == Spec => []UsersAreInformed
<1>1. Inv => UsersAreInformed
    BY DEF Inv
<1> QED
    BY <1>1, InvHolds, PTL

(* An alert repeats before its interval only for a service that got worse. *)
THEOREM ThrottleCorrect == Spec => RepeatsAreThrottled
<1>1. ASSUME Inv,
             NEW status \in Status \ {"PASSING"},
             UpdateNotifies(status), notice.status # "PASSING"
      PROVE  \/ notice.age >= Interval(status)
             \/ Rank[status] > Rank[service.overall_status]
    <2>1. /\ notice.age \in Nat
          /\ service.last_alert_sent = notice.age
          /\ Interval(status) \in Nat
        BY <1>1, IntervalAssumption DEF Inv, LastAlertIsLastNotice, TypeOK, Notice,
           Age, Interval
    <2>2. \/ ~ Within(service.last_alert_sent, Interval(status))
          \/ MoreImportant(service.overall_status, status) /\ status # "WARNING"
        <3>1. ~ Suppressed(service.overall_status, status, service.last_alert_sent)
            BY <1>1 DEF UpdateNotifies
        <3>2. status # "PASSING"
            OBVIOUS
        <3> QED
            BY <3>1, <3>2 DEF Suppressed
    <2>3. CASE ~ Within(service.last_alert_sent, Interval(status))
        BY <2>1, <2>3, NoneAssumption DEF Within
    <2>4. CASE MoreImportant(service.overall_status, status) /\ status # "WARNING"
        BY <1>1, <2>4, RankValues DEF MoreImportant, Status, Importance
    <2> QED
        BY <2>2, <2>3, <2>4
<1>2. Inv /\ [Next]_vars =>
         [\A status \in Status \ {"PASSING"} :
             UpdateNotifies(status) /\ notice.status # "PASSING" =>
                 \/ notice.age >= Interval(status)
                 \/ Rank[status] > Rank[service.overall_status]]_vars
    BY <1>1
<1> QED
    BY <1>2, InvHolds, PTL DEF Spec, RepeatsAreThrottled
=============================================================================

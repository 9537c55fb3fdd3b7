---------------------------- MODULE DutyRotaAudit -----------------------------
(***************************************************************************)
(* DutyRota with a history variable: whether anything disturbed the newest *)
(* update of the shifts.  It follows the steps and never restricts them.   *)
(***************************************************************************)
EXTENDS DutyRota

VARIABLE clean \* since the newest update began, alone, only it did anything to the rota

auditVars == <<vars, clean>>

CleanStep ==
    clean' = IF \E w \in Updaters : Fetch(w) THEN \A w \in Updaters : updater[w] = Idle
             ELSE clean /\ UNCHANGED <<listed, version, phase, active, crashes>>

AuditInit == Init /\ clean = FALSE
AuditNext == Next /\ CleanStep
AuditSpec == AuditInit /\ [][AuditNext]_auditVars /\ Fairness
-----------------------------------------------------------------------------
(* An update that nothing disturbed leaves the rota as the calendar has it: of
   each event it expects there is one row, of the newest version, and no shift to
   come is left of any other event, although every row it found to come was
   marked deleted at first (base.py:951).  If the newest version of an event had
   two rows, get_or_create() may have ended the update before. *)
RotaIsExact ==
    clean /\ (\A w \in Updaters : updater[w] = Idle) =>
        \/ \E e \in Events : shifts[e][version[e]] > 1
        \/ \A e \in Events, v \in Versions :
              /\ e \in Expected /\ v <= version[e] => shifts[e][v] = IF v = version[e] THEN 1 ELSE 0
              /\ phase[e] = "future" /\ e \notin Expected => shifts[e][v] = 0
=============================================================================

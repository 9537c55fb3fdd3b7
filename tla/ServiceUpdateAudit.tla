-------------------------- MODULE ServiceUpdateAudit -------------------------
(***************************************************************************)
(* ServiceUpdate with history variables: what was last raised with the     *)
(* users, and whether the updates were disturbed.  They follow the steps   *)
(* and never restrict them.  With them the safety of the service can be    *)
(* stated, and an update that nothing overlaps shown to be one action of   *)
(* AlertPolicy.                                                            *)
(***************************************************************************)
EXTENDS ServiceUpdate

VARIABLES
    notice,   \* the last thing alert() decided to tell the users
    blind,    \* since that notice an update could not raise one
    clean     \* nothing disturbed the last update of the row

auditVars == <<vars, notice, blind, clean>>

AuditTypeOK ==
    /\ TypeOK
    /\ notice \in Notice
    /\ {blind, clean} \subseteq BOOLEAN

AuditInit ==
    /\ Init
    /\ notice = [status |-> "PASSING", age |-> Horizon]
    /\ blind = FALSE
    /\ clean = TRUE

(* A worker holds a copy of the row that is still to be written back. *)
Writing == \E w \in Workers : task[w].pc \in {"loaded", "listed", "saved"}

Raising(w)  == AlertRaised(w)
Muting(w)   == AlertSkipped(w) /\ ~ task[w].svc.alerts_enabled
CutShort(w) == Crash(w) /\ task[w].pc = "saved"

NoticeStep ==
    notice' = IF \E w \in Workers : Raising(w)
              THEN [status |-> service'.overall_status, age |-> 0]
              ELSE IF Tick THEN [notice EXCEPT !.age = Older(@)]
              ELSE notice

BlindStep ==
    blind' = IF \E w \in Workers : Raising(w) THEN FALSE
             ELSE blind \/ \E w \in Workers : Muting(w) \/ CutShort(w)

(* An update that starts alone makes the row clean again; whatever may leave
   the row behind the checks makes it unclean. *)
CleanStep ==
    clean' = IF \E w \in Workers : Take(w) THEN ~ Writing
             ELSE /\ clean
                  /\ ~ ChecksRelinked /\ ~ UpdateLost
                  /\ \A w \in Workers : ~ Crash(w)
                  /\ \A e \in Editors : ~ EditSave(e) /\ ~ EditLinks(e)

AuditNext == Next /\ NoticeStep /\ BlindStep /\ CleanStep

AuditSpec == AuditInit /\ [][AuditNext]_auditVars

(* Updates that do not overlap: one is taken when no other holds a copy of the
   row, and a form is saved when none does, from a copy that is still the row and
   with the status it has. *)
Serial ==
    /\ (\E w \in Workers : Take(w)) => ~ Writing
    /\ \A e \in Editors : EditSave(e) =>
          /\ ~ Writing /\ edit[e].svc = service
          /\ service'.overall_status = service.overall_status

SerialSpec == AuditInit /\ [][AuditNext /\ Serial]_auditVars
-----------------------------------------------------------------------------
(* No save of a check is about to queue an update, and no update is waiting. *)
NothingPending == unsent = 0 /\ queue = 0

(* When nothing is pending and no update is at work, the status of the service is
   that of its checks: no change of a check slips between the queries of
   update_status().  That is, if the last update overlapped no other, and since it
   began no update was killed or never queued, no form or API call wrote the row,
   and no check was linked, unlinked or deleted: those queue no update. *)
SettledIsAccurate ==
    NothingPending /\ ~ Writing /\ clean => service.overall_status = MostSevere(failing)

(* Updates that do not overlap keep the promises of AlertPolicy.  The update
   takes effect when alert() is over: until then the policy's status is the
   one the task started from. *)
PolicyStatus ==
    IF \E w \in Workers : task[w].pc = "saved"
    THEN task[CHOOSE w \in Workers : task[w].pc = "saved"].old
    ELSE service.overall_status

Policy == INSTANCE AlertPolicy
    WITH service <- [service EXCEPT !.overall_status = PolicyStatus]

ImplementsPolicy == Policy!Spec
=============================================================================

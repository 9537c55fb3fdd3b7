---------------------------- MODULE CheckRunAudit ----------------------------
(***************************************************************************)
(* CheckRun with history variables: whether anything disturbed the newest  *)
(* save() of the check, and which runs another save() overtook.  They      *)
(* follow the steps and never restrict them.                               *)
(***************************************************************************)
EXTENDS CheckRun

VARIABLES
    clean,    \* nothing disturbed the newest save() or its results
    overtaken \* runners during whose run another process wrote the row

auditVars == <<vars, clean, overtaken>>

(* A result was stored or a form submitted, and the row is still to be written. *)
Saving(p) == proc[p].pc \in {"saving", "decided", "writing"}
Holding(p) == At(p, "running") \/ Saving(p)

Begins(p) == (p \in Runners /\ StoreResult(p)) \/ (p \in Editors /\ Edit(p))

(* A save() that begins alone makes the row clean again; one cut short or
   overtaken by another or by a deletion, and a purge, make it unclean. *)
CleanStep ==
    clean' = IF \E p \in Processes : Begins(p) THEN ~ \E p \in Processes : Saving(p)
             ELSE /\ clean
                  /\ ~ Purge
                  /\ \A p \in Processes : Saving(p) => ~ Delete /\ ~ Crash(p)

OvertakenStep ==
    overtaken' = {r \in Runners : /\ Holding(r)'
                                  /\ r \in overtaken \/ \E p \in Processes \ {r} : Write(p)}

AuditInit == Init /\ clean = TRUE /\ overtaken = {}
AuditNext == Next /\ CleanStep /\ OvertakenStep
AuditSpec == AuditInit /\ [][AuditNext]_auditVars /\ Fairness
-----------------------------------------------------------------------------
(* A status of the check that no overlap, kill or purge disturbed is what its own
   debounce makes of the results stored now: a run that saves the debounce it read
   before an edit takes the edit back and judges by what it took back; no new
   result slips between the queries of save(). *)
SettledVerdict ==
    clean /\ check # Gone /\ (\A p \in Processes : ~ Saving(p))
        => check.passing = (~ check.has_run \/ DebouncedPassing(results, check.debounce))

(* save() writes the whole row, yet a run that no other save() overtook changes
   nothing of it but last_run and calculated_status: what users submitted is lost
   to a run (base.py:418) only when it was saved in the middle of that run. *)
RunsKeepTheRow ==
    [][\A r \in Runners \ overtaken :
          Write(r) /\ check # Gone =>
              check' = [check EXCEPT !.has_run = TRUE, !.passing = check'.passing]]_auditVars
=============================================================================

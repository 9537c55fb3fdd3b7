----------------------------- MODULE StatusRules -----------------------------
(***************************************************************************)
(* The pure decisions of cabotapp/models/base.py: which status a service   *)
(* takes from its failing checks, and whether a check passes given its     *)
(* recent results.  No state; the state machines extend this module.       *)
(***************************************************************************)
EXTENDS Naturals, Sequences

(* The importances a check can have (CheckGroupMixin.IMPORTANCES). *)
Importance == {"WARNING", "ERROR", "CRITICAL"}

(* The statuses a service can have (CheckGroupMixin.PASSING_STATUS ... ). *)
Status == {"PASSING"} \cup Importance

(* How severe a status is.  The code has no such number: it is the reference
   against which most_severe() and alert() are judged. *)
Rank == [s \in Status |-> CASE s = "PASSING"  -> 0
                            [] s = "WARNING"  -> 1
                            [] s = "ERROR"    -> 2
                            [] s = "CRITICAL" -> 3]

(* Mutant: most_severe() without its last return. *)
MostSevereNoDefault(importances) ==
    IF "CRITICAL" \in importances THEN "CRITICAL"
    ELSE IF "ERROR" \in importances THEN "ERROR"
    ELSE IF "WARNING" \in importances THEN "WARNING"
    ELSE "NONE"

(* CheckGroupMixin.most_severe(), given the importances of the failing checks. *)
MostSevere(importances) ==
    IF "CRITICAL" \in importances THEN "CRITICAL"
    ELSE IF "ERROR" \in importances THEN "ERROR"
    ELSE IF "WARNING" \in importances THEN "WARNING"
    ELSE "PASSING"

(* default_calculate_debounced_passing(): a check with no result passes, any
   other passes when one of its newest debounce + 1 results succeeded.
   recent holds the outcomes, newest first. *)
DebouncedPassing(recent, debounce) ==
    \/ recent = <<>>
    \/ \E i \in DOMAIN recent : i <= debounce + 1 /\ recent[i]
=============================================================================

------------------------------ MODULE Instances -------------------------------
(***************************************************************************)
(* Instances and their checks: creation with a default ping check, edits,  *)
(* duplication, deletion with the ping checks, runs that queue updates,    *)
(* and the update of an instance query by query.  The row of an instance   *)
(* is its status; a run is one step here, CheckRun has its queries.        *)
(***************************************************************************)
EXTENDS StatusRules, FiniteSets, Integers

CONSTANTS
    Ids,            \* keys of instances
    Checks,         \* keys of checks
    Icmp,           \* those of ICMP checks
    MaxDisturbances \* bound: edits, deletions and kills

ASSUME InstanceAssumption ==
    IsFiniteSet(Checks) /\ Icmp \subseteq Checks /\ MaxDisturbances \in Nat

VARIABLES
    instances,  \* rows there are
    status,     \* their overall_status, "PASSING" for no row
    checks,     \* by key, the calculated_status, or "none"
    links,      \* status_checks, as pairs
    queued,     \* instances an update_instance message names
    worker,     \* the update under way
    copying,    \* the duplication under way
    deleting,   \* instances whose ping checks were deleted just now
    disturbed   \* edits, deletions and kills so far

vars == <<instances, status, checks, links, queued, worker, copying, deleting, disturbed>>

Idle == [pc |-> "idle"]
Numbers == 0 .. Cardinality(Checks)
Updating ==
    [pc : {"loaded", "counted", "listed", "active", "saving"}, id : Ids, failed : Numbers,
     overall : Status, active : Numbers, quiet : BOOLEAN]

TypeOK ==
    /\ instances \subseteq Ids /\ status \in [Ids -> Status]
    /\ checks \in [Checks -> {"none", "passing", "failing"}]
    /\ links \subseteq instances \X {c \in Checks : checks[c] # "none"}
    /\ queued \subseteq Ids
    /\ worker \in Updating \cup {Idle}
    /\ copying \in [to : Ids, todo : SUBSET Checks] \cup {Idle}
    /\ deleting \subseteq instances
    /\ disturbed \in 0 .. MaxDisturbances

Init ==
    /\ instances = {} /\ links = {}
    /\ status = [id \in Ids |-> "PASSING"]
    /\ checks \in [Checks -> {"none", "passing"}]
    /\ queued = {} /\ worker = Idle /\ copying = Idle /\ deleting = {}
    /\ disturbed = 0

Existing == {c \in Checks : checks[c] # "none"}
StatusChecks(id) == {c \in Checks : <<id, c>> \in links}
FailingChecks(id) == {c \in StatusChecks(id) : checks[c] = "failing"}

(* The update under way notices, or not, that the checks it counts change. *)
Unquiet == worker' = IF worker = Idle THEN Idle ELSE [worker EXCEPT !.quiet = FALSE]
Disturb == disturbed < MaxDisturbances /\ disturbed' = disturbed + 1
-----------------------------------------------------------------------------
(* Requests.                                                               *)

(* InstanceCreateView; an instance without a ping check gets one. *)
Create(id) ==
    /\ id \notin instances
    /\ \E chosen \in SUBSET Existing : \E ping \in Icmp :
          /\ chosen \cap Icmp = {} => checks[ping] = "none"
          /\ LET linked == IF chosen \cap Icmp = {} THEN chosen \cup {ping} ELSE chosen IN
             /\ links' = links \cup {<<id, c>> : c \in linked}
             /\ checks' = [c \in Checks |-> IF c \in linked \ chosen THEN "passing" ELSE checks[c]]
    /\ instances' = instances \cup {id}
    /\ status' = [status EXCEPT ![id] = "PASSING"]
    /\ Unquiet
    /\ UNCHANGED <<queued, copying, deleting, disturbed>>

(* InstanceUpdateView saves the row as it was loaded and sets the links. *)
Edit(id) ==
    /\ id \in instances /\ Disturb
    /\ status' \in {[status EXCEPT ![id] = old] : old \in {"PASSING", "ERROR"}}
    /\ \E chosen \in SUBSET Existing :
          links' = {l \in links : l[1] # id} \cup {<<id, c>> : c \in chosen}
    /\ Unquiet
    /\ UNCHANGED <<instances, checks, queued, copying, deleting>>

(* Instance.duplicate() saves a copy of the row, its status included, ... *)
DuplicateRow(id, new) ==
    /\ copying = Idle /\ id \in instances /\ new \notin instances
    /\ instances' = instances \cup {new}
    /\ status' = [status EXCEPT ![new] = status[id]]
    /\ copying' = [to |-> new, todo |-> StatusChecks(id)]
    /\ UNCHANGED <<checks, links, queued, worker, deleting, disturbed>>

(* ... and copies of the checks, which have not run, one by one; when the new
   instance is gone, the copy of the check stays without an instance. *)
DuplicateCheck(c, copy) ==
    /\ copying # Idle /\ c \in copying.todo
    /\ checks[copy] = "none" /\ (copy \in Icmp <=> c \in Icmp)
    /\ checks' = [checks EXCEPT ![copy] = "passing"]
    /\ IF copying.to \in instances
       THEN /\ links' = links \cup {<<copying.to, copy>>}
            /\ copying' = [copying EXCEPT !.todo = @ \ {c}]
       ELSE copying' = Idle /\ UNCHANGED links
    /\ Unquiet
    /\ UNCHANGED <<instances, status, queued, deleting, disturbed>>

DuplicateEnds ==
    /\ copying # Idle /\ copying.todo = {}
    /\ copying' = Idle
    /\ UNCHANGED <<instances, status, checks, links, queued, worker, deleting, disturbed>>

(* duplicate_icmp_check: a copy that no instance has. *)
DuplicateAlone(copy) ==
    /\ checks[copy] = "none" /\ \E c \in Existing : c \in Icmp <=> copy \in Icmp
    /\ checks' = [checks EXCEPT ![copy] = "passing"]
    /\ UNCHANGED <<instances, status, links, queued, worker, copying, deleting, disturbed>>

(* Mutant: the links of a ping check outlive it. *)
DeletePingsAlone(id) ==
    /\ id \in instances \ deleting /\ Disturb
    /\ deleting' = deleting \cup {id}
    /\ checks' = [c \in Checks |-> IF c \in StatusChecks(id) \cap Icmp THEN "none" ELSE checks[c]]
    /\ Unquiet
    /\ UNCHANGED <<instances, status, links, queued, copying>>

(* Instance.delete() deletes the ping checks, those of other instances too, ... *)
DeletePings(id) ==
    /\ id \in instances \ deleting /\ Disturb
    /\ deleting' = deleting \cup {id}
    /\ LET pings == StatusChecks(id) \cap Icmp IN
       /\ checks' = [c \in Checks |-> IF c \in pings THEN "none" ELSE checks[c]]
       /\ links' = {l \in links : l[2] \notin pings}
    /\ Unquiet
    /\ UNCHANGED <<instances, status, queued, copying>>

(* ... and then the row with its links. *)
DeleteRow(id) ==
    /\ id \in deleting
    /\ instances' = instances \ {id}
    /\ deleting' = deleting \ {id}
    /\ links' = {l \in links : l[1] # id}
    /\ status' = [status EXCEPT ![id] = "PASSING"]
    /\ Unquiet
    /\ UNCHANGED <<checks, queued, copying, disturbed>>
-----------------------------------------------------------------------------
(* Tasks.                                                                  *)

Owners(c) == {id \in Ids : <<id, c>> \in links}

(* A run; a ping check asks for "the" instance it is linked to, and gets a failed
   result, which its debounce may outweigh, when there is none or more than one. *)
Run(c) ==
    /\ checks[c] # "none"
    /\ \E outcome \in {"passing", "failing"} :
          /\ c \in Icmp /\ Cardinality(Owners(c)) # 1 => outcome \in {"failing", checks[c]}
          /\ checks' = [checks EXCEPT ![c] = outcome]
    /\ queued' = queued \cup Owners(c)
    /\ IF checks' = checks THEN UNCHANGED worker ELSE Unquiet
    /\ UNCHANGED <<instances, status, links, copying, deleting, disturbed>>

(* update_instance loads the row, if it is there. *)
Load(id) ==
    /\ worker = Idle /\ id \in queued
    /\ queued' = queued \ {id}
    /\ worker' = IF id \notin instances THEN Idle
                 ELSE [pc |-> "loaded", id |-> id, failed |-> 0, overall |-> "PASSING",
                       active |-> 0, quiet |-> TRUE]
    /\ UNCHANGED <<instances, status, checks, links, copying, deleting, disturbed>>

(* update_status() counts the failing checks, lists them, counts the active
   ones for the snapshot ... *)
Query ==
    /\ worker' = CASE worker.pc = "loaded"  ->
                        [worker EXCEPT !.pc = "counted",
                                       !.failed = Cardinality(FailingChecks(worker.id))]
                   [] worker.pc = "counted" ->
                        [worker EXCEPT !.pc = "listed",
                            !.overall = MostSevere({"ERROR" : c \in FailingChecks(worker.id)})]
                   [] worker.pc = "listed"  ->
                        [worker EXCEPT !.pc = "active",
                                       !.active = Cardinality(StatusChecks(worker.id))]
    /\ UNCHANGED <<instances, status, checks, links, queued, copying, deleting, disturbed>>

(* Mutant: the failing checks are counted as passing. *)
SnapshotOfAll ==
    [active |-> worker.active, passing |-> Cardinality(StatusChecks(worker.id)),
     failing |-> worker.failed, overall_status |-> worker.overall]

(* ... counts them again for the passing ones ... *)
Snapshot ==
    [active |-> worker.active, passing |-> Cardinality(StatusChecks(worker.id)) - worker.failed,
     failing |-> worker.failed, overall_status |-> worker.overall]

(* ... and stores it; a snapshot cannot refer to an instance that is gone. *)
SaveSnapshot ==
    /\ worker.pc = "active"
    /\ worker' = IF worker.id \in instances THEN [worker EXCEPT !.pc = "saving"] ELSE Idle
    /\ UNCHANGED <<instances, status, checks, links, queued, copying, deleting, disturbed>>

(* Mutant: an update that finds no failure writes the snapshot only. *)
SaveRowOnFailure ==
    /\ worker.pc = "saving"
    /\ instances' = instances \cup {worker.id}
    /\ status' = IF worker.failed = 0 THEN status ELSE [status EXCEPT ![worker.id] = worker.overall]
    /\ worker' = Idle
    /\ UNCHANGED <<checks, links, queued, copying, deleting, disturbed>>

(* The row is written, even when it was deleted just now. *)
SaveRow ==
    /\ worker.pc = "saving"
    /\ instances' = instances \cup {worker.id}
    /\ status' = [status EXCEPT ![worker.id] = worker.overall]
    /\ worker' = Idle
    /\ UNCHANGED <<checks, links, queued, copying, deleting, disturbed>>

Update == (worker.pc \in {"loaded", "counted", "listed"} /\ Query) \/ SaveSnapshot \/ SaveRow

(* The worker or the request is killed. *)
Killed ==
    /\ Disturb
    /\ \/ worker # Idle /\ worker' = Idle /\ UNCHANGED <<copying, deleting>>
       \/ copying # Idle /\ copying' = Idle /\ UNCHANGED <<worker, deleting>>
       \/ deleting # {} /\ deleting' = {} /\ UNCHANGED <<worker, copying>>
    /\ UNCHANGED <<instances, status, checks, links, queued>>

Next ==
    \/ \E id \in Ids : Create(id) \/ Edit(id) \/ DeletePings(id) \/ DeleteRow(id) \/ Load(id)
    \/ \E id, new \in Ids : DuplicateRow(id, new)
    \/ \E c, copy \in Checks : DuplicateCheck(c, copy)
    \/ \E c \in Checks : DuplicateAlone(c) \/ Run(c)
    \/ DuplicateEnds \/ Update \/ Killed

(* Every check is run again and again; messages are taken and tasks go on. *)
Spec ==
    /\ Init /\ [][Next]_vars
    /\ \A c \in Checks : WF_vars(Run(c))
    /\ \A id \in Ids : SF_vars(Load(id))
    /\ WF_vars(Update)
-----------------------------------------------------------------------------
(* The counts of a snapshot come from several queries, and passing checks are
   counted by subtraction (base.py:349): while no check and no link changes they
   fit each other and the status. *)
QuietSnapshotIsExact ==
    [][SaveSnapshot /\ worker.quiet =>
         /\ Snapshot.active = Snapshot.passing + Snapshot.failing
         /\ Snapshot.passing >= 0
         /\ Snapshot.failing = 0 <=> Snapshot.overall_status = "PASSING"]_vars

(* An instance that keeps a check gets the status its checks deserve, however
   it was created, copied with a status that is not its own, or edited. *)
InstanceConverges ==
    \A id \in Ids : \A deserved \in {"PASSING", "ERROR"} :
        <>[](/\ id \in instances /\ StatusChecks(id) # {}
             /\ MostSevere({"ERROR" : c \in FailingChecks(id)}) = deserved)
            => <>[](status[id] = deserved)
=============================================================================

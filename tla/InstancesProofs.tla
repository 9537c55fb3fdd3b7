--------------------------- MODULE InstancesProofs ----------------------------
(***************************************************************************)
(* Proofs about instances, for any number of instances, checks, edits,     *)
(* deletions and kills: links never lead nowhere, and the snapshot of an   *)
(* update that nothing disturbed is exact.                                 *)
(***************************************************************************)
EXTENDS Instances, FiniteSetTheorems, StatusRulesProofs

(* What the update has counted so far, unless it was disturbed. *)
CountsFit ==
    worker # Idle /\ worker.quiet =>
        /\ worker.pc \in {"counted", "listed", "active", "saving"} =>
              worker.failed = Cardinality(FailingChecks(worker.id))
        /\ worker.pc \in {"listed", "active", "saving"} =>
              worker.overall = MostSevere({"ERROR" : c \in FailingChecks(worker.id)})
        /\ worker.pc \in {"active", "saving"} =>
              worker.active = Cardinality(StatusChecks(worker.id))

InstancesInv == TypeOK /\ CountsFit

(* The same invariant in parts that the actions disturb one by one. *)
RowsOK == instances \subseteq Ids /\ status \in [Ids -> Status] /\ deleting \subseteq instances

LinksOK ==
    /\ checks \in [Checks -> {"none", "passing", "failing"}]
    /\ links \subseteq instances \X {c \in Checks : checks[c] # "none"}

TasksOK ==
    /\ queued \subseteq Ids
    /\ worker \in Updating \cup {Idle}
    /\ copying \in [to : Ids, todo : SUBSET Checks] \cup {Idle}
    /\ disturbed \in 0 .. MaxDisturbances

LEMMA Parts == TypeOK <=> RowsOK /\ LinksOK /\ TasksOK
BY DEF TypeOK, RowsOK, LinksOK, TasksOK

LEMMA Together ==
    ASSUME RowsOK', LinksOK', TasksOK', CountsFit'
    PROVE  InstancesInv'
BY DEF InstancesInv, TypeOK, RowsOK, LinksOK, TasksOK

LEMMA Counting ==
    ASSUME NEW S, S \subseteq Checks
    PROVE  IsFiniteSet(S) /\ Cardinality(S) \in Numbers /\ Cardinality(S) \in Nat
BY InstanceAssumption, FS_Subset, FS_CardinalityType DEF Numbers

LEMMA Statuses == {"PASSING", "ERROR"} \subseteq Status /\ \A S : MostSevere(S) \in Status
BY DEF MostSevere, Status, Importance

LEMMA WorkerPcs ==
    /\ Idle.pc = "idle" /\ Idle \notin Updating
    /\ \A u \in Updating : u.pc \in {"loaded", "counted", "listed", "active", "saving"}
BY DEF Idle, Updating

(* An update that was disturbed promises nothing more. *)
LEMMA Disturbed ==
    ASSUME TasksOK, Unquiet
    PROVE  worker' \in Updating \cup {Idle} /\ CountsFit'
<1>1. CASE worker = Idle
    BY <1>1 DEF Unquiet, CountsFit
<1>2. CASE worker # Idle
    <2>1. worker \in Updating /\ worker' = [worker EXCEPT !.quiet = FALSE]
        BY <1>2 DEF TasksOK, Unquiet
    <2>2. worker' \in Updating /\ ~ worker'.quiet
        BY <2>1 DEF Updating
    <2> QED
        BY <2>2 DEF CountsFit
<1> QED
    BY <1>1, <1>2

(* Steps that leave the links and the failing checks alone. *)
LEMMA SameCounts ==
    ASSUME CountsFit, UNCHANGED <<worker, links>>,
           \A c \in Checks : \A id : <<id, c>> \in links => checks'[c] = checks[c]
    PROVE  CountsFit'
<1>1. ASSUME NEW id
      PROVE  StatusChecks(id)' = StatusChecks(id) /\ FailingChecks(id)' = FailingChecks(id)
    BY DEF StatusChecks, FailingChecks
<1> QED
    BY <1>1 DEF CountsFit
-----------------------------------------------------------------------------
LEMMA InitInv == Init => InstancesInv
<1> SUFFICES ASSUME Init PROVE InstancesInv
    OBVIOUS
<1>1. 0 \in 0 .. MaxDisturbances
    BY InstanceAssumption
<1>2. RowsOK
    BY Statuses DEF Init, RowsOK
<1>3. LinksOK
    BY DEF Init, LinksOK
<1>4. TasksOK
    BY <1>1 DEF Init, TasksOK
<1>5. CountsFit
    BY DEF Init, CountsFit
<1> QED
    BY <1>2, <1>3, <1>4, <1>5, Parts DEF InstancesInv

LEMMA MoreDisturbed ==
    ASSUME TasksOK, Disturb
    PROVE  disturbed' \in 0 .. MaxDisturbances
BY InstanceAssumption DEF TasksOK, Disturb

LEMMA CreateInv == ASSUME InstancesInv, NEW id \in Ids, Create(id) PROVE InstancesInv'
<1>1. RowsOK /\ LinksOK /\ TasksOK
    BY Parts DEF InstancesInv
<1>2. PICK chosen \in SUBSET Existing, ping \in Icmp :
        /\ chosen \cap Icmp = {} => checks[ping] = "none"
        /\ LET linked == IF chosen \cap Icmp = {} THEN chosen \cup {ping} ELSE chosen IN
           /\ links' = links \cup {<<id, c>> : c \in linked}
           /\ checks' = [c \in Checks |-> IF c \in linked \ chosen THEN "passing" ELSE checks[c]]
    BY DEF Create
<1> DEFINE linked == IF chosen \cap Icmp = {} THEN chosen \cup {ping} ELSE chosen
<1>3. linked \subseteq Checks /\ chosen \subseteq {c \in Checks : checks[c] # "none"}
    BY InstanceAssumption DEF Existing
<1>4. /\ links' = links \cup {<<id, c>> : c \in linked}
      /\ checks' = [c \in Checks |-> IF c \in linked \ chosen THEN "passing" ELSE checks[c]]
    BY <1>2
<1> HIDE DEF linked
<1>5. /\ checks' \in [Checks -> {"none", "passing", "failing"}]
      /\ \A c \in Checks : checks[c] # "none" \/ c \in linked => checks'[c] # "none"
    BY <1>1, <1>3, <1>4 DEF LinksOK
<1>6. instances' = instances \cup {id}
    BY DEF Create
<1>7. LinksOK'
    BY <1>1, <1>3, <1>4, <1>5, <1>6 DEF LinksOK
<1>8. RowsOK'
    BY <1>1, <1>6, Statuses DEF Create, RowsOK
<1>9. TasksOK' /\ CountsFit'
    BY <1>1, Disturbed DEF Create, TasksOK
<1> QED
    BY <1>7, <1>8, <1>9, Together

LEMMA EditInv == ASSUME InstancesInv, NEW id \in Ids, Edit(id) PROVE InstancesInv'
<1>1. RowsOK /\ LinksOK /\ TasksOK
    BY Parts DEF InstancesInv
<1>2. PICK chosen \in SUBSET Existing :
        links' = {l \in links : l[1] # id} \cup {<<id, c>> : c \in chosen}
    BY DEF Edit
<1>3. LinksOK'
    BY <1>1, <1>2 DEF Edit, LinksOK, Existing
<1>4. RowsOK'
    BY <1>1, Statuses DEF Edit, RowsOK
<1>5. TasksOK' /\ CountsFit'
    BY <1>1, Disturbed, MoreDisturbed DEF Edit, TasksOK
<1> QED
    BY <1>3, <1>4, <1>5, Together

LEMMA DuplicateInv ==
    ASSUME InstancesInv,
           \/ \E id, new \in Ids : DuplicateRow(id, new)
           \/ \E c, copy \in Checks : DuplicateCheck(c, copy)
           \/ \E c \in Checks : DuplicateAlone(c)
           \/ DuplicateEnds
    PROVE  InstancesInv'
<1>1. RowsOK /\ LinksOK /\ TasksOK /\ CountsFit
    BY Parts DEF InstancesInv
<1>2. ASSUME NEW id \in Ids, NEW new \in Ids, DuplicateRow(id, new)
      PROVE  InstancesInv'
    <2>1. [to |-> new, todo |-> StatusChecks(id)] \in [to : Ids, todo : SUBSET Checks]
        BY DEF StatusChecks
    <2>2. RowsOK' /\ LinksOK' /\ TasksOK'
        BY <1>1, <1>2, <2>1 DEF DuplicateRow, RowsOK, LinksOK, TasksOK
    <2>3. CountsFit'
        BY <1>1, <1>2, SameCounts DEF DuplicateRow
    <2> QED
        BY <2>2, <2>3, Together
<1>3. ASSUME NEW c \in Checks, NEW copy \in Checks, DuplicateCheck(c, copy)
      PROVE  InstancesInv'
    <2>1. copying \in [to : Ids, todo : SUBSET Checks]
        BY <1>1, <1>3 DEF DuplicateCheck, TasksOK
    <2>2. copying' \in [to : Ids, todo : SUBSET Checks] \cup {Idle}
        BY <1>3, <2>1 DEF DuplicateCheck
    <2>3. LinksOK'
        BY <1>1, <1>3 DEF DuplicateCheck, LinksOK
    <2>4. RowsOK'
        BY <1>1, <1>3 DEF DuplicateCheck, RowsOK
    <2>5. TasksOK' /\ CountsFit'
        BY <1>1, <1>3, <2>2, Disturbed DEF DuplicateCheck, TasksOK
    <2> QED
        BY <2>3, <2>4, <2>5, Together
<1>4. ASSUME NEW c \in Checks, DuplicateAlone(c)
      PROVE  InstancesInv'
    <2>1. RowsOK' /\ LinksOK' /\ TasksOK'
        BY <1>1, <1>4 DEF DuplicateAlone, RowsOK, LinksOK, TasksOK
    <2>2. \A d \in Checks : \A id : <<id, d>> \in links => checks'[d] = checks[d]
        BY <1>1, <1>4 DEF DuplicateAlone, LinksOK
    <2>3. CountsFit'
        BY <1>1, <1>4, <2>2, SameCounts DEF DuplicateAlone
    <2> QED
        BY <2>1, <2>3, Together
<1>5. CASE DuplicateEnds
    <2>1. RowsOK' /\ LinksOK' /\ TasksOK'
        BY <1>1, <1>5 DEF DuplicateEnds, RowsOK, LinksOK, TasksOK
    <2>2. CountsFit'
        BY <1>1, <1>5, SameCounts DEF DuplicateEnds
    <2> QED
        BY <2>1, <2>2, Together
<1> QED
    BY <1>2, <1>3, <1>4, <1>5

LEMMA DeleteInv ==
    ASSUME InstancesInv, NEW id \in Ids, DeletePings(id) \/ DeleteRow(id)
    PROVE  InstancesInv'
<1>1. RowsOK /\ LinksOK /\ TasksOK
    BY Parts DEF InstancesInv
<1>2. CASE DeletePings(id)
    <2>1. LinksOK'
        BY <1>1, <1>2 DEF DeletePings, LinksOK
    <2>2. RowsOK'
        BY <1>1, <1>2 DEF DeletePings, RowsOK
    <2>3. TasksOK' /\ CountsFit'
        BY <1>1, <1>2, Disturbed, MoreDisturbed DEF DeletePings, TasksOK
    <2> QED
        BY <2>1, <2>2, <2>3, Together
<1>3. CASE DeleteRow(id)
    <2>1. LinksOK'
        BY <1>1, <1>3 DEF DeleteRow, LinksOK
    <2>2. RowsOK'
        BY <1>1, <1>3, Statuses DEF DeleteRow, RowsOK
    <2>3. TasksOK' /\ CountsFit'
        BY <1>1, <1>3, Disturbed DEF DeleteRow, TasksOK
    <2> QED
        BY <2>1, <2>2, <2>3, Together
<1> QED
    BY <1>2, <1>3

LEMMA RunInv == ASSUME InstancesInv, NEW c \in Checks, Run(c) PROVE InstancesInv'
<1>1. RowsOK /\ LinksOK /\ TasksOK /\ CountsFit
    BY Parts DEF InstancesInv
<1>2. RowsOK' /\ LinksOK'
    BY <1>1 DEF Run, RowsOK, LinksOK
<1>3. queued' \subseteq Ids /\ UNCHANGED <<copying, disturbed, links>>
    BY <1>1 DEF Run, TasksOK, Owners
<1>4. CASE checks' = checks
    <2>1. UNCHANGED worker
        BY <1>4 DEF Run
    <2>2. CountsFit'
        BY <1>1, <1>3, <1>4, <2>1, SameCounts
    <2> QED
        BY <1>1, <1>2, <1>3, <2>1, <2>2, Together DEF TasksOK
<1>5. CASE checks' # checks
    <2>1. Unquiet
        BY <1>5 DEF Run
    <2> QED
        BY <1>1, <1>2, <1>3, <2>1, Disturbed, Together DEF TasksOK
<1> QED
    BY <1>4, <1>5

LEMMA LoadInv == ASSUME InstancesInv, NEW id \in Ids, Load(id) PROVE InstancesInv'
<1>1. RowsOK /\ LinksOK /\ TasksOK
    BY Parts DEF InstancesInv
<1>2. RowsOK' /\ LinksOK'
    BY <1>1 DEF Load, RowsOK, LinksOK
<1> DEFINE u == [pc |-> "loaded", id |-> id, failed |-> 0, overall |-> "PASSING",
                 active |-> 0, quiet |-> TRUE]
<1>3. u \in Updating /\ u.pc = "loaded"
    <2>1. 0 \in Numbers
        BY InstanceAssumption, FS_CardinalityType DEF Numbers
    <2> QED
        BY <2>1, Statuses DEF Updating
<1>4. worker' \in {Idle, u}
    BY DEF Load
<1> HIDE DEF u
<1>5. TasksOK'
    BY <1>1, <1>3, <1>4 DEF Load, TasksOK
<1>6. CountsFit'
    BY <1>3, <1>4 DEF CountsFit
<1> QED
    BY <1>2, <1>5, <1>6, Together

LEMMA QueryInv ==
    ASSUME InstancesInv, worker.pc \in {"loaded", "counted", "listed"}, Query
    PROVE  InstancesInv'
<1>1. RowsOK /\ LinksOK /\ TasksOK /\ CountsFit
    BY Parts DEF InstancesInv
<1>2. worker \in Updating /\ worker # Idle
    BY <1>1, WorkerPcs DEF TasksOK
<1>3. UNCHANGED <<instances, status, checks, links, queued, copying, deleting, disturbed>>
    BY DEF Query
<1>4. RowsOK' /\ LinksOK'
    BY <1>1, <1>3 DEF RowsOK, LinksOK
<1>5. ASSUME NEW id
      PROVE  StatusChecks(id)' = StatusChecks(id) /\ FailingChecks(id)' = FailingChecks(id)
    BY <1>3 DEF StatusChecks, FailingChecks
<1> DEFINE failures == Cardinality(FailingChecks(worker.id))
           severity == MostSevere({"ERROR" : c \in FailingChecks(worker.id)})
           number == Cardinality(StatusChecks(worker.id))
<1>6. failures \in Numbers /\ number \in Numbers /\ severity \in Status
    BY Counting, Statuses DEF StatusChecks, FailingChecks
<1>7. CASE worker.pc = "loaded"
    <2>1. worker' = [worker EXCEPT !.pc = "counted", !.failed = failures]
        BY <1>7 DEF Query
    <2> HIDE DEF failures
    <2>2. /\ worker' \in Updating /\ worker'.pc = "counted" /\ worker'.id = worker.id
          /\ worker'.failed = failures
        BY <1>2, <1>6, <2>1 DEF Updating
    <2>3. CountsFit'
        BY <1>5, <2>2 DEF CountsFit, failures
    <2> QED
        BY <1>1, <1>3, <1>4, <2>2, <2>3, Together DEF TasksOK
<1>8. CASE worker.pc = "counted"
    <2>1. worker' = [worker EXCEPT !.pc = "listed", !.overall = severity]
        BY <1>8 DEF Query
    <2> HIDE DEF severity
    <2>2. /\ worker' \in Updating /\ worker'.pc = "listed" /\ worker'.id = worker.id
          /\ worker'.quiet = worker.quiet /\ worker'.failed = worker.failed
          /\ worker'.overall = severity
        BY <1>2, <1>6, <2>1 DEF Updating
    <2>3. CountsFit'
        BY <1>1, <1>2, <1>5, <1>8, <2>2 DEF CountsFit, severity
    <2> QED
        BY <1>1, <1>3, <1>4, <2>2, <2>3, Together DEF TasksOK
<1>9. CASE worker.pc = "listed"
    <2>1. worker' = [worker EXCEPT !.pc = "active", !.active = number]
        BY <1>9 DEF Query
    <2> HIDE DEF number
    <2>2. /\ worker' \in Updating /\ worker'.pc = "active" /\ worker'.id = worker.id
          /\ worker'.quiet = worker.quiet /\ worker'.failed = worker.failed
          /\ worker'.overall = worker.overall /\ worker'.active = number
        BY <1>2, <1>6, <2>1 DEF Updating
    <2>3. CountsFit'
        BY <1>1, <1>2, <1>5, <1>9, <2>2 DEF CountsFit, number
    <2> QED
        BY <1>1, <1>3, <1>4, <2>2, <2>3, Together DEF TasksOK
<1> QED
    BY <1>7, <1>8, <1>9

LEMMA SaveInv == ASSUME InstancesInv, SaveSnapshot \/ SaveRow PROVE InstancesInv'
<1>1. RowsOK /\ LinksOK /\ TasksOK /\ CountsFit
    BY Parts DEF InstancesInv
<1>2. worker \in Updating /\ worker # Idle
    BY <1>1, WorkerPcs DEF TasksOK, SaveSnapshot, SaveRow
<1>3. CASE SaveSnapshot
    <2>1. RowsOK' /\ LinksOK'
        BY <1>1, <1>3 DEF SaveSnapshot, RowsOK, LinksOK
    <2>2. ASSUME NEW id
          PROVE  StatusChecks(id)' = StatusChecks(id) /\ FailingChecks(id)' = FailingChecks(id)
        BY <1>3 DEF SaveSnapshot, StatusChecks, FailingChecks
    <2>3. CASE worker' = Idle
        BY <1>1, <1>3, <2>1, <2>3, Together DEF SaveSnapshot, TasksOK, CountsFit
    <2>4. CASE worker' = [worker EXCEPT !.pc = "saving"]
        <3>1. /\ worker' \in Updating /\ worker'.id = worker.id /\ worker'.quiet = worker.quiet
              /\ worker'.failed = worker.failed /\ worker'.overall = worker.overall
              /\ worker'.active = worker.active
            BY <1>2, <2>4 DEF Updating
        <3>2. CountsFit'
            BY <1>1, <1>2, <1>3, <2>2, <3>1 DEF CountsFit, SaveSnapshot
        <3> QED
            BY <1>1, <1>3, <2>1, <3>1, <3>2, Together DEF SaveSnapshot, TasksOK
    <2> QED
        BY <1>3, <2>3, <2>4 DEF SaveSnapshot
<1>4. CASE SaveRow
    <2>1. worker.id \in Ids /\ worker.overall \in Status
        BY <1>2 DEF Updating
    <2>2. RowsOK' /\ LinksOK'
        BY <1>1, <1>4, <2>1 DEF SaveRow, RowsOK, LinksOK
    <2>3. TasksOK' /\ CountsFit'
        BY <1>1, <1>4 DEF SaveRow, TasksOK, CountsFit
    <2> QED
        BY <2>2, <2>3, Together
<1> QED
    BY <1>3, <1>4

LEMMA KilledInv == ASSUME InstancesInv, Killed PROVE InstancesInv'
<1>1. RowsOK /\ LinksOK /\ TasksOK /\ CountsFit
    BY Parts DEF InstancesInv
<1>2. disturbed' \in 0 .. MaxDisturbances
    BY <1>1, MoreDisturbed DEF Killed
<1>3. RowsOK' /\ LinksOK'
    BY <1>1 DEF Killed, RowsOK, LinksOK
<1>4. TasksOK'
    BY <1>1, <1>2 DEF Killed, TasksOK
<1>5. CountsFit'
    <2>1. CASE worker' = Idle
        BY <2>1 DEF CountsFit
    <2>2. CASE worker' = worker
        BY <1>1, <2>2, SameCounts DEF Killed
    <2> QED
        BY <2>1, <2>2 DEF Killed
<1> QED
    BY <1>3, <1>4, <1>5, Together

LEMMA NextInv == ASSUME InstancesInv, [Next]_vars PROVE InstancesInv'
<1>1. CASE UNCHANGED vars
    <2>1. RowsOK /\ LinksOK /\ TasksOK /\ CountsFit
        BY Parts DEF InstancesInv
    <2>2. CountsFit'
        BY <1>1, <2>1, SameCounts DEF vars
    <2> QED
        BY <1>1, <2>1, <2>2, Together DEF vars, RowsOK, LinksOK, TasksOK
<1> QED
    BY <1>1, CreateInv, EditInv, DuplicateInv, DeleteInv, RunInv, LoadInv, QueryInv, SaveInv,
       KilledInv DEF Next, Update

LEMMA InvHolds == Spec => []InstancesInv
BY InitInv, NextInv, PTL DEF Spec

(* No link leads to an instance or a check that is gone, wherever requests and
   tasks are killed (Instance.delete(), base.py:372, deletes the ping checks of other
   instances, too), and the columns keep their types. *)
THEOREM InstancesTyped == Spec => []TypeOK
BY InvHolds, PTL DEF InstancesInv

(* The counts of a snapshot (base.py:341-354), made by four queries and a subtraction,
   fit each other and the status when no check changed meanwhile. *)
THEOREM SnapshotsFit == Spec => QuietSnapshotIsExact
<1>1. ASSUME InstancesInv, SaveSnapshot, worker.quiet
      PROVE  /\ Snapshot.active = Snapshot.passing + Snapshot.failing
             /\ Snapshot.passing >= 0
             /\ Snapshot.failing = 0 <=> Snapshot.overall_status = "PASSING"
    <2> DEFINE all == StatusChecks(worker.id)
               failures == FailingChecks(worker.id)
    <2>1. worker # Idle /\ worker.pc = "active"
        BY <1>1, WorkerPcs DEF SaveSnapshot
    <2>2. /\ worker.failed = Cardinality(failures) /\ worker.active = Cardinality(all)
          /\ worker.overall = MostSevere({"ERROR" : c \in failures})
        BY <1>1, <2>1 DEF InstancesInv, CountsFit
    <2>3. all \subseteq Checks /\ failures \subseteq all
        BY DEF StatusChecks, FailingChecks
    <2>4. /\ Snapshot.active = worker.active /\ Snapshot.failing = worker.failed
          /\ Snapshot.passing = Cardinality(all) - worker.failed
          /\ Snapshot.overall_status = worker.overall
        BY DEF Snapshot
    <2> HIDE DEF all, failures
    <2>5. /\ Cardinality(all) \in Nat /\ Cardinality(failures) \in Nat
          /\ Cardinality(failures) <= Cardinality(all)
          /\ IsFiniteSet(failures)
        BY <2>3, Counting, FS_Subset
    <2>6. Cardinality(failures) = 0 <=> failures = {}
        BY <2>5, FS_EmptySet
    <2>7. MostSevere({"ERROR" : c \in failures}) = "PASSING" <=> failures = {}
        BY DEF MostSevere
    <2> QED
        BY <2>2, <2>4, <2>5, <2>6, <2>7
<1>2. InstancesInv => [SaveSnapshot /\ worker.quiet =>
                         /\ Snapshot.active = Snapshot.passing + Snapshot.failing
                         /\ Snapshot.passing >= 0
                         /\ Snapshot.failing = 0 <=> Snapshot.overall_status = "PASSING"]_vars
    BY <1>1
<1> QED
    BY <1>2, InvHolds, PTL DEF QuietSnapshotIsExact
=============================================================================

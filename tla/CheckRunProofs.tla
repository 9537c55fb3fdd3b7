---------------------------- MODULE CheckRunProofs ----------------------------
(***************************************************************************)
(* Proofs about one check, for any number of runs and forms at once, every *)
(* debounce and every number of results read.                              *)
(***************************************************************************)
EXTENDS CheckRunAudit, SequenceTheorems, TLAPS

ResultsOK(s) == s \in Seq(BOOLEAN) /\ Len(s) <= RecentLimit

LinksOK == linked \in BOOLEAN /\ queued \in BOOLEAN /\ seen \in BOOLEAN

ProcOK == proc \in [Processes -> Busy \cup {Idle, Dispatching, Linking}]

LEMMA TypeParts ==
    TypeOK <=> /\ check \in Check \cup {Gone} /\ ResultsOK(results) /\ LinksOK
               /\ ProcOK /\ crashes \in 0 .. MaxCrashes
BY DEF TypeOK, ResultsOK, LinksOK, ProcOK

LEMMA Rows == Gone \notin Check
BY GoneAssumption, DebounceAssumption DEF Check

(* Every process but a busy one has nothing but its pc. *)
LEMMA Pcs ==
    /\ Idle.pc = "idle" /\ Dispatching.pc = "dispatching" /\ Linking.pc = "linking"
    /\ \A b \in Busy : b.pc \in {"running", "saving", "decided", "writing"} /\ b.copy \in Check
BY DEF Idle, Dispatching, Linking, Busy

LEMMA BusyByPc ==
    ASSUME TypeOK, NEW p \in Processes,
           proc[p].pc \in {"running", "saving", "decided", "writing"}
    PROVE  proc[p] \in Busy
BY Pcs DEF TypeOK

LEMMA RecordedOK ==
    ASSUME ResultsOK(results), NEW succeeded \in BOOLEAN
    PROVE  ResultsOK(Recorded(succeeded))
<1> DEFINE kept == IF Len(results) < RecentLimit THEN results
                   ELSE SubSeq(results, 1, RecentLimit - 1)
<1>1. Recorded(succeeded) = <<succeeded>> \o kept
    BY DEF Recorded
<1>2. kept \in Seq(BOOLEAN) /\ Len(kept) <= RecentLimit - 1
    <2>1. Len(results) \in Nat /\ RecentLimit \in Nat \ {0}
        BY LimitAssumption, LenProperties DEF ResultsOK
    <2>2. CASE Len(results) < RecentLimit
        BY <2>1, <2>2 DEF ResultsOK
    <2>3. CASE ~ (Len(results) < RecentLimit)
        <3>1. \A i \in 1 .. RecentLimit - 1 : results[i] \in BOOLEAN
            BY <2>1, <2>3, ElementOfSeq DEF ResultsOK
        <3>2. /\ SubSeq(results, 1, RecentLimit - 1) \in Seq(BOOLEAN)
              /\ Len(SubSeq(results, 1, RecentLimit - 1)) =
                    IF 1 <= RecentLimit - 1 THEN RecentLimit - 1 - 1 + 1 ELSE 0
            BY <3>1, <2>1, SubSeqProperties
        <3> QED
            BY <3>2, <2>1, <2>3
    <2> QED
        BY <2>2, <2>3
<1>3. <<succeeded>> \in Seq(BOOLEAN) /\ Len(<<succeeded>>) = 1
    OBVIOUS
<1> HIDE DEF kept
<1>4. /\ <<succeeded>> \o kept \in Seq(BOOLEAN)
      /\ Len(<<succeeded>> \o kept) = Len(<<succeeded>>) + Len(kept)
    BY <1>2, <1>3, ConcatProperties
<1> QED
    BY <1>1, <1>2, <1>3, <1>4, LimitAssumption, LenProperties DEF ResultsOK

LEMMA CountsOK == Counts \in BOOLEAN
BY DEF Counts

LEMMA VerdictOK == ASSUME NEW copy PROVE Verdict(copy) \in BOOLEAN
BY DEF Verdict
-----------------------------------------------------------------------------
LEMMA InitTyped == Init => TypeOK
<1> SUFFICES ASSUME Init PROVE TypeOK
    OBVIOUS
<1>1. check \in Check
    BY DEF Init, Check
<1>2. ResultsOK(results)
    BY LimitAssumption DEF Init, ResultsOK
<1>3. LinksOK
    BY DEF Init, LinksOK
<1>4. ProcOK
    BY DEF Init, ProcOK
<1>5. crashes \in 0 .. MaxCrashes
    BY LimitAssumption DEF Init
<1> QED
    BY <1>1, <1>2, <1>3, <1>4, <1>5, TypeParts

(* A run begins, stores its result or fails to, or is killed. *)
LEMMA RunTyped ==
    ASSUME TypeOK, NEW r \in Runners,
           Load(r) \/ StoreResult(r) \/ StoreFails(r) \/ Crash(r)
    PROVE  TypeOK'
<1>1. r \in Processes
    BY DEF Processes
<1>2. CASE Load(r)
    <2>1. [check EXCEPT !.passing = TRUE] \in Check
        BY <1>2 DEF Load, TypeOK, Check
    <2>2. [pc |-> "running", copy |-> [check EXCEPT !.passing = TRUE]] \in Busy
        BY <2>1 DEF Busy
    <2> QED
        BY <1>1, <1>2, <2>2 DEF Load, TypeOK
<1>3. CASE StoreResult(r)
    <2> DEFINE b == [proc[r] EXCEPT !.pc = "saving", !.copy.has_run = TRUE]
    <2>1. proc[r] \in Busy
        BY <1>1, <1>3, BusyByPc DEF StoreResult, At
    <2>2. b \in Busy
        BY <2>1 DEF Busy, Check
    <2>3. proc' = [proc EXCEPT ![r] = b]
        BY <1>1, <1>3 DEF StoreResult, TypeOK
    <2> HIDE DEF b
    <2>4. ProcOK'
        BY <2>2, <2>3 DEF TypeOK, ProcOK
    <2>5. ResultsOK(results')
        BY <1>3, RecordedOK, TypeParts DEF StoreResult
    <2> QED
        BY <1>3, <2>4, <2>5 DEF StoreResult, TypeOK, ProcOK, ResultsOK
<1>4. CASE StoreFails(r)
    BY <1>1, <1>4 DEF StoreFails, TypeOK
<1>5. CASE Crash(r)
    <2>1. crashes' \in 0 .. MaxCrashes
        BY <1>5, LimitAssumption DEF Crash, TypeOK
    <2> QED
        BY <1>1, <1>5, <2>1 DEF Crash, TypeOK
<1> QED
    BY <1>2, <1>3, <1>4, <1>5

LEMMA FormTyped ==
    ASSUME TypeOK, NEW e \in Editors, Edit(e) \/ Relink(e)
    PROVE  TypeOK'
<1>1. e \in Processes
    BY DEF Processes
<1>2. CASE Edit(e)
    <2>1. PICK active \in BOOLEAN, debounce \in Debounces :
            proc' = [proc EXCEPT ![e] =
                       [pc   |-> "saving",
                        copy |-> [check EXCEPT !.active = active, !.debounce = debounce,
                                       !.passing = TRUE]]]
        BY <1>2 DEF Edit
    <2>2. [check EXCEPT !.active = active, !.debounce = debounce, !.passing = TRUE] \in Check
        BY <1>2 DEF Edit, TypeOK, Check
    <2>3. [pc   |-> "saving",
           copy |-> [check EXCEPT !.active = active, !.debounce = debounce,
                          !.passing = TRUE]] \in Busy
        BY <2>2 DEF Busy
    <2>4. ProcOK'
        BY <1>1, <2>1, <2>3 DEF TypeOK, ProcOK
    <2> QED
        BY <1>2, <2>4 DEF Edit, TypeOK, ProcOK
<1>3. CASE Relink(e)
    BY <1>1, <1>3 DEF Relink, TypeOK
<1> QED
    BY <1>2, <1>3

LEMMA SaveTyped == ASSUME TypeOK, NEW p \in Processes, Save(p) PROVE TypeOK'
<1>1. Saved(p) \in {Idle, Linking}
    BY DEF Saved
<1>2. CASE Decide(p)
    <2> DEFINE verdict == Verdict(proc[p].copy)
               b == [proc[p] EXCEPT !.pc = IF proc[p].copy.has_run THEN "decided" ELSE "writing",
                                    !.copy.passing = verdict]
    <2>1. proc[p] \in Busy
        BY <1>2, BusyByPc DEF Decide, At
    <2>2. verdict \in BOOLEAN
        BY VerdictOK
    <2> HIDE DEF verdict
    <2>3. b \in Busy
        BY <2>1, <2>2 DEF Busy, Check
    <2>4. proc' = [proc EXCEPT ![p] = b]
        BY <1>2 DEF Decide, TypeOK, verdict
    <2> HIDE DEF b
    <2> QED
        BY <1>2, <2>3, <2>4 DEF Decide, TypeOK
<1>3. CASE FindSelf(p)
    <2>1. proc[p] \in Busy
        BY <1>3, BusyByPc DEF FindSelf, At
    <2>2. [proc[p] EXCEPT !.pc = "writing"] \in Busy
        BY <2>1 DEF Busy
    <2> QED
        BY <1>1, <1>3, <2>2 DEF FindSelf, TypeOK
<1>4. CASE Write(p)
    <2>1. proc[p] \in Busy
        BY <1>4, BusyByPc DEF Write, At
    <2>2. check' \in Check
        BY <1>4, <2>1, Pcs DEF Write
    <2> QED
        BY <1>4, <2>2 DEF Write, TypeOK
<1>5. CASE Dispatch(p)
    <2>1. queued' \in BOOLEAN
        BY <1>5, Zenon DEF Dispatch, TypeOK
    <2> QED
        BY <1>1, <1>5, <2>1 DEF Dispatch, TypeOK
<1> QED
    BY <1>2, <1>3, <1>4, <1>5 DEF Save

LEMMA OthersTyped ==
    ASSUME TypeOK, RelinkFromService \/ Delete \/ Purge \/ UpdateService
    PROVE  TypeOK'
<1>1. CASE RelinkFromService
    BY <1>1 DEF RelinkFromService, TypeOK
<1>2. CASE Delete
    <2>1. ResultsOK(results')
        BY <1>2, LimitAssumption DEF Delete, ResultsOK
    <2>2. {linked', queued', seen'} \subseteq BOOLEAN
        BY <1>2 DEF Delete, TypeOK
    <2> QED
        BY <1>2, <2>1, <2>2 DEF Delete, TypeOK, ResultsOK
<1>3. CASE Purge
    <2>1. PICK kept \in 0 .. Len(results) - 1 : results' = SubSeq(results, 1, kept)
        BY <1>3 DEF Purge
    <2>2. Len(results) \in Nat /\ \A i \in 1 .. kept : results[i] \in BOOLEAN
        BY <2>1, LenProperties, ElementOfSeq DEF TypeOK
    <2>3. /\ SubSeq(results, 1, kept) \in Seq(BOOLEAN)
          /\ Len(SubSeq(results, 1, kept)) = IF 1 <= kept THEN kept - 1 + 1 ELSE 0
        BY <2>2, SubSeqProperties
    <2>4. ResultsOK(results')
        BY <2>1, <2>2, <2>3, LimitAssumption DEF TypeOK, ResultsOK
    <2> QED
        BY <1>3, <2>4 DEF Purge, TypeOK, ResultsOK
<1>4. CASE UpdateService
    <2>1. queued' \in BOOLEAN /\ seen' \in BOOLEAN /\ linked' = linked
        BY <1>4, CountsOK, Zenon DEF UpdateService
    <2> QED
        BY <1>4, <2>1 DEF UpdateService, TypeOK
<1> QED
    BY <1>1, <1>2, <1>3, <1>4

(* A check's row, its results and the copies of it under way keep their types
   (base.py:428-441): a save() writes what it has recomputed. *)
THEOREM CheckTyped == Spec => []TypeOK
<1>1. TypeOK /\ [Next]_vars => TypeOK'
    <2>1. TypeOK /\ UNCHANGED vars => TypeOK'
        BY DEF vars, TypeOK
    <2> QED
        BY <2>1, RunTyped, FormTyped, SaveTyped, OthersTyped DEF Next
<1> QED
    BY <1>1, InitTyped, PTL DEF Spec
-----------------------------------------------------------------------------
LEMMA GoneProc ==
    ASSUME TypeOK, Abandoned, NEW p \in Processes, NEW q,
           proc' = [proc EXCEPT ![p] = q], UNCHANGED check,
           q.pc \notin {"writing", "saving"}
    PROVE  Abandoned'
BY DEF TypeOK, Abandoned, WillWrite, At

(* With the row gone and every save() still under way before its look for it
   (base.py:565), there is no row again: a look finds none, a run finds no check to
   store a result of, and nothing begins. *)
THEOREM GoneForGood == Spec => AbandonedStaysDeleted
<1>1. ASSUME TypeOK, [Next]_vars, Abandoned PROVE Abandoned'
    <2> USE <1>1
    <2>1. check = Gone /\ \A p \in Processes : ~ WillWrite(p)
        BY DEF Abandoned
    <2>2. CASE UNCHANGED <<check, proc>>
        BY <2>2 DEF Abandoned, WillWrite, At
    <2>3. ASSUME NEW p \in Processes, Decide(p)
          PROVE  Abandoned'
        <3> DEFINE b == [proc[p] EXCEPT !.pc = IF proc[p].copy.has_run THEN "decided" ELSE "writing",
                                        !.copy.passing = Verdict(proc[p].copy)]
        <3>1. proc[p].copy.has_run
            BY <2>1, <2>3 DEF WillWrite, Decide, At
        <3>2. proc[p] \in Busy
            BY <2>3, BusyByPc DEF Decide, At
        <3>3. b.pc = "decided"
            BY <3>1, <3>2 DEF Busy
        <3>4. proc' = [proc EXCEPT ![p] = b] /\ UNCHANGED check
            BY <2>3 DEF Decide, TypeOK
        <3> HIDE DEF b
        <3> QED
            BY <3>3, <3>4, GoneProc
    <2>4. ASSUME NEW p \in Processes, FindSelf(p) \/ Dispatch(p)
          PROVE  Abandoned'
        <3>1. proc' = [proc EXCEPT ![p] = Saved(p)] /\ UNCHANGED check
            BY <2>1, <2>4 DEF FindSelf, Dispatch
        <3>2. Saved(p).pc \notin {"writing", "saving"}
            BY Pcs DEF Saved
        <3> QED
            BY <3>1, <3>2, GoneProc
    <2>5. ASSUME NEW p \in Processes, Write(p)
          PROVE  FALSE
        BY <2>1, <2>5 DEF Write, WillWrite
    <2>6. ASSUME NEW r \in Runners, Load(r) \/ StoreResult(r) \/ StoreFails(r) \/ Crash(r)
          PROVE  Abandoned'
        <3>1. r \in Processes /\ proc' = [proc EXCEPT ![r] = Idle] /\ UNCHANGED check
            BY <2>1, <2>6 DEF Load, StoreResult, StoreFails, Crash, Processes
        <3> QED
            BY <3>1, Pcs, GoneProc
    <2>7. ASSUME NEW e \in Editors, Edit(e) \/ Relink(e)
          PROVE  Abandoned'
        <3>1. e \in Processes /\ proc' = [proc EXCEPT ![e] = Idle] /\ UNCHANGED check
            BY <2>1, <2>7 DEF Edit, Relink, Processes
        <3> QED
            BY <3>1, Pcs, GoneProc
    <2>8. RelinkFromService \/ Delete \/ Purge \/ UpdateService => UNCHANGED <<check, proc>>
        BY <2>1 DEF RelinkFromService, Delete, Purge, UpdateService
    <2> QED
        BY <2>2, <2>3, <2>4, <2>5, <2>6, <2>7, <2>8 DEF Next, Save, vars
<1>2. TypeOK /\ [Next]_vars => [Abandoned => Abandoned']_vars
    BY <1>1
<1> QED
    BY <1>2, CheckTyped, PTL DEF Spec, AbandonedStaysDeleted
-----------------------------------------------------------------------------
(* A step of the histories is a step of the check. *)
LEMMA AuditStep ==
    /\ AuditInit => Init
    /\ [AuditNext]_auditVars => [Next]_vars
BY DEF AuditInit, AuditNext, auditVars

LEMMA AuditInvariant == AuditSpec => []TypeOK
<1>1. AuditSpec => Spec
    BY AuditStep, PTL DEF AuditSpec, Spec
<1> QED
    BY <1>1, CheckTyped, PTL
-----------------------------------------------------------------------------
(* While the row is clean one process at most is in save(); what it has decided is
   what its copy deserves, and so, once written, is the row. *)
OneSaves == \A p, q \in Processes : Saving(p) /\ Saving(q) => p = q

Deserved(row) == ~ row.has_run \/ DebouncedPassing(results, row.debounce)

Decided ==
    \A p \in Processes :
        proc[p].pc \in {"decided", "writing"} => proc[p].copy.passing = Deserved(proc[p].copy)

Settled ==
    check # Gone /\ (\A p \in Processes : ~ Saving(p)) => check.passing = Deserved(check)

CleanInv == clean => OneSaves /\ Decided /\ Settled

(* One process leaves save() or is elsewhere, and neither the row nor the results
   change. *)
LEMMA OutsideKeeps ==
    ASSUME TypeOK, OneSaves, Decided, Settled, NEW p \in Processes, NEW q,
           proc' = [proc EXCEPT ![p] = q], UNCHANGED <<check, results>>,
           q.pc \notin {"saving", "decided", "writing"}, check # Gone => ~ Saving(p)
    PROVE  OneSaves' /\ Decided' /\ Settled'
<1>1. proc'[p] = q /\ \A other \in Processes : other # p => proc'[other] = proc[other]
    BY DEF TypeOK
<1>2. ~ Saving(p)' /\ \A other \in Processes : other # p => (Saving(other)' <=> Saving(other))
    BY <1>1 DEF Saving
<1>3. OneSaves'
    BY <1>2 DEF OneSaves
<1>4. Decided'
    BY <1>1 DEF Decided, Deserved
<1>5. Settled'
    BY <1>2 DEF Settled, Deserved
<1> QED
    BY <1>3, <1>4, <1>5

LEMMA SaveClean ==
    ASSUME TypeOK, OneSaves, Decided, Settled, NEW p \in Processes, Save(p)
    PROVE  OneSaves' /\ Decided' /\ Settled'
<1>1. CASE Decide(p)
    <2> DEFINE verdict == Verdict(proc[p].copy)
               b == [proc[p] EXCEPT !.pc = IF proc[p].copy.has_run THEN "decided" ELSE "writing",
                                    !.copy.passing = verdict]
    <2>1. proc[p] \in Busy /\ Saving(p)
        BY <1>1, BusyByPc DEF Decide, At, Saving
    <2>2. verdict = Deserved(proc[p].copy)
        BY DEF Verdict, Deserved
    <2> HIDE DEF verdict
    <2>3. /\ b.pc \in {"decided", "writing"} /\ b.copy.passing = verdict
          /\ b.copy.has_run = proc[p].copy.has_run /\ b.copy.debounce = proc[p].copy.debounce
        BY <2>1 DEF Busy, Check
    <2>4. proc' = [proc EXCEPT ![p] = b]
        BY <1>1 DEF Decide, TypeOK, verdict
    <2>5. UNCHANGED <<check, results>>
        BY <1>1 DEF Decide
    <2> HIDE DEF b
    <2>6. proc'[p] = b /\ \A other \in Processes : other # p => proc'[other] = proc[other]
        BY <2>4 DEF TypeOK
    <2>7. \A other \in Processes : Saving(other)' <=> Saving(other)
        BY <2>1, <2>3, <2>6 DEF Saving
    <2>8. OneSaves' /\ Settled'
        BY <2>1, <2>5, <2>7 DEF OneSaves, Settled
    <2>9. Decided'
        BY <2>1, <2>2, <2>3, <2>5, <2>6 DEF Decided, Deserved, OneSaves, Saving
    <2> QED
        BY <2>8, <2>9
<1>2. CASE FindSelf(p) /\ check # Gone
    <2> DEFINE b == [proc[p] EXCEPT !.pc = "writing"]
    <2>1. proc[p] \in Busy /\ proc[p].pc = "decided"
        BY <1>2, BusyByPc DEF FindSelf, At
    <2>2. b.pc = "writing" /\ b.copy = proc[p].copy
        BY <2>1 DEF Busy
    <2>3. proc' = [proc EXCEPT ![p] = b] /\ UNCHANGED <<check, results>>
        BY <1>2 DEF FindSelf
    <2> HIDE DEF b
    <2>4. proc'[p] = b /\ \A other \in Processes : other # p => proc'[other] = proc[other]
        BY <2>3 DEF TypeOK
    <2>5. \A other \in Processes : Saving(other)' <=> Saving(other)
        BY <2>1, <2>2, <2>4 DEF Saving
    <2> QED
        BY <2>1, <2>2, <2>3, <2>4, <2>5 DEF OneSaves, Decided, Settled, Deserved, Saving
<1>3. CASE (FindSelf(p) /\ check = Gone) \/ Dispatch(p)
    <2>1. proc' = [proc EXCEPT ![p] = Saved(p)] /\ UNCHANGED <<check, results>>
        BY <1>3 DEF FindSelf, Dispatch
    <2>2. Saved(p).pc \notin {"saving", "decided", "writing"}
        BY Pcs DEF Saved
    <2>3. check # Gone => ~ Saving(p)
        BY <1>3, Pcs DEF Dispatch, Saving
    <2> QED
        BY <2>1, <2>2, <2>3, OutsideKeeps
<1>4. CASE Write(p)
    <2>1. proc[p] \in Busy /\ proc[p].pc = "writing" /\ Saving(p)
        BY <1>4, BusyByPc DEF Write, At, Saving
    <2>2. /\ check' = proc[p].copy /\ results' = results
          /\ proc'[p] = Dispatching /\ \A other \in Processes : other # p => proc'[other] = proc[other]
        BY <1>4 DEF Write, TypeOK
    <2>3. \A other \in Processes : ~ Saving(other)'
        BY <2>1, <2>2, Pcs DEF OneSaves, Saving
    <2>4. check'.passing = Deserved(check)'
        BY <2>1, <2>2 DEF Decided, Deserved
    <2> QED
        BY <2>3, <2>4 DEF OneSaves, Decided, Settled, Saving
<1> QED
    BY <1>1, <1>2, <1>3, <1>4 DEF Save

LEMMA BeginClean ==
    ASSUME TypeOK, NEW p \in Processes, Begins(p), \A q \in Processes : ~ Saving(q)
    PROVE  OneSaves' /\ Decided' /\ Settled'
<1>1. proc'[p].pc = "saving" /\ \A other \in Processes : other # p => proc'[other] = proc[other]
    <2>1. CASE StoreResult(p)
        <3>1. proc[p] \in Busy
            BY <2>1, BusyByPc DEF StoreResult, At
        <3> QED
            BY <2>1, <3>1 DEF StoreResult, TypeOK, Busy
    <2>2. CASE Edit(p)
        BY <2>2 DEF Edit, TypeOK
    <2> QED
        BY <2>1, <2>2 DEF Begins
<1>2. Saving(p)' /\ \A other \in Processes : other # p => ~ Saving(other)'
    BY <1>1 DEF Saving
<1>3. \A other \in Processes : proc'[other].pc \notin {"decided", "writing"}
    BY <1>1, <1>2 DEF Saving
<1> QED
    BY <1>2, <1>3 DEF OneSaves, Decided, Settled

LEMMA NextClean ==
    ASSUME TypeOK, CleanInv, [AuditNext]_auditVars
    PROVE  CleanInv'
<1>1. CASE UNCHANGED auditVars
    BY <1>1 DEF auditVars, vars, CleanInv, OneSaves, Decided, Settled, Deserved, Saving
<1>2. CASE AuditNext /\ \E p \in Processes : Begins(p)
    <2>1. clean' = ~ \E p \in Processes : Saving(p)
        BY <1>2, Zenon DEF AuditNext, CleanStep
    <2> QED
        BY <1>2, <2>1, BeginClean DEF CleanInv
<1>3. CASE AuditNext /\ ~ \E p \in Processes : Begins(p)
    <2> SUFFICES ASSUME clean' PROVE OneSaves' /\ Decided' /\ Settled'
        BY DEF CleanInv
    <2>1. clean /\ ~ Purge /\ \A p \in Processes : Saving(p) => ~ Delete /\ ~ Crash(p)
        BY <1>3, Zenon DEF AuditNext, CleanStep
    <2>2. OneSaves /\ Decided /\ Settled
        BY <2>1 DEF CleanInv
    <2>3. ASSUME NEW r \in Runners, Load(r) \/ StoreFails(r) \/ Crash(r)
          PROVE  OneSaves' /\ Decided' /\ Settled'
        <3>1. r \in Processes
            BY DEF Processes
        <3>2. ~ Saving(r)
            BY <2>1, <2>3, <3>1, Pcs DEF Load, StoreFails, At, Saving
        <3>3. CASE Load(r)
            BY <2>2, <3>1, <3>2, <3>3, OutsideKeeps DEF Load
        <3>4. CASE StoreFails(r) \/ Crash(r)
            <4>1. proc' = [proc EXCEPT ![r] = Idle] /\ UNCHANGED <<check, results>>
                BY <3>4 DEF StoreFails, Crash
            <4>2. Idle.pc \notin {"saving", "decided", "writing"}
                BY Pcs
            <4> QED
                BY <2>2, <3>1, <3>2, <4>1, <4>2, OutsideKeeps
        <3> QED
            BY <2>3, <3>3, <3>4
    <2>4. ASSUME NEW e \in Editors, Relink(e)
          PROVE  OneSaves' /\ Decided' /\ Settled'
        <3>1. /\ e \in Processes /\ ~ Saving(e)
              /\ proc' = [proc EXCEPT ![e] = Idle] /\ UNCHANGED <<check, results>>
            BY <2>4, Pcs DEF Processes, Relink, Saving
        <3>2. Idle.pc \notin {"saving", "decided", "writing"}
            BY Pcs
        <3> QED
            BY <2>2, <3>1, <3>2, OutsideKeeps
    <2>5. CASE RelinkFromService \/ UpdateService
        BY <2>2, <2>5 DEF RelinkFromService, UpdateService, OneSaves, Decided, Settled, Deserved, Saving
    <2>6. CASE Delete
        BY <2>1, <2>2, <2>6 DEF Delete, OneSaves, Decided, Settled, Saving
    <2>7. /\ \A r \in Runners : ~ StoreResult(r)
          /\ \A e \in Editors : ~ Edit(e)
        BY <1>3 DEF Begins, Processes
    <2> QED
        BY <1>3, <2>1, <2>2, <2>3, <2>4, <2>5, <2>6, <2>7, SaveClean DEF AuditNext, Next
<1> QED
    BY <1>1, <1>2, <1>3

(* save() (base.py:558) leaves the status that the stored results deserve by the
   debounce it saves, although it judges them in one query and writes the row in
   another: only a run, a form or a deletion that overlaps it, a kill in the middle
   of it and a purge after it can part the two, and that only until the next one. *)
THEOREM VerdictIsSettled == AuditSpec => []SettledVerdict
<1>1. AuditInit => CleanInv
    <2> SUFFICES ASSUME AuditInit PROVE OneSaves /\ Decided /\ Settled
        BY DEF CleanInv
    <2>1. check.passing = TRUE /\ check.has_run = FALSE /\ \A p \in Processes : proc[p].pc = "idle"
        BY Pcs DEF AuditInit, Init
    <2> QED
        BY <2>1 DEF OneSaves, Decided, Settled, Deserved, Saving
<1>2. TypeOK /\ CleanInv /\ [AuditNext]_auditVars => CleanInv'
    BY NextClean
<1>3. CleanInv => SettledVerdict
    BY DEF CleanInv, Settled, SettledVerdict, Deserved
<1> QED
    BY <1>1, <1>2, <1>3, AuditInvariant, PTL DEF AuditSpec
-----------------------------------------------------------------------------
(* The copy of a run that no save() overtook has what the row has of a user, and
   a last_run once its result is stored. *)
Current(r) ==
    /\ Holding(r) /\ check # Gone => /\ proc[r].copy.active = check.active
                                     /\ proc[r].copy.debounce = check.debounce
KeptInv ==
    /\ \A r \in Runners : Saving(r) => proc[r].copy.has_run
    /\ \A r \in Runners \ overtaken : Current(r)

(* What a step of one process leaves of another. *)
LEMMA OneMoves ==
    ASSUME TypeOK, NEW p \in Processes, NEW r \in Processes, r # p,
           \/ p \in Runners /\ (Load(p) \/ StoreResult(p) \/ StoreFails(p) \/ Crash(p))
           \/ p \in Editors /\ (Edit(p) \/ Relink(p))
           \/ Save(p)
    PROVE  proc'[r] = proc[r] /\ (check' = check \/ Write(p))
BY DEF TypeOK, Load, StoreResult, StoreFails, Crash, Edit, Relink, Save, Decide, FindSelf,
       Write, Dispatch

(* A run's own step. *)
LEMMA RunMoves ==
    ASSUME TypeOK, NEW r \in Runners, Saving(r) => proc[r].copy.has_run,
           Load(r) \/ StoreResult(r) \/ StoreFails(r) \/ Crash(r) \/ Save(r)
    PROVE  /\ Saving(r)' => proc'[r].copy.has_run
           /\ Holding(r)' => check' = check /\ (Current(r) => Current(r)')
<1>1. r \in Processes
    BY DEF Processes
<1>2. CASE Load(r)
    <2>1. /\ proc'[r] = [pc |-> "running", copy |-> [check EXCEPT !.passing = TRUE]]
          /\ check' = check /\ check \in Check
        BY <1>1, <1>2 DEF Load, TypeOK
    <2>2. proc'[r].pc = "running" /\ proc'[r].copy = [check EXCEPT !.passing = TRUE]
        BY <2>1
    <2>3. proc'[r].copy.active = check.active /\ proc'[r].copy.debounce = check.debounce
        BY <2>1, <2>2 DEF Check
    <2> QED
        BY <2>1, <2>2, <2>3 DEF Saving, Current
<1>3. CASE StoreResult(r)
    <2>1. proc[r] \in Busy /\ Holding(r)
        BY <1>1, <1>3, BusyByPc DEF StoreResult, At, Holding
    <2>2. proc'[r] = [proc[r] EXCEPT !.pc = "saving", !.copy.has_run = TRUE] /\ check' = check
        BY <1>1, <1>3 DEF StoreResult, TypeOK
    <2>3. /\ proc'[r].copy.has_run /\ proc'[r].copy.active = proc[r].copy.active
          /\ proc'[r].copy.debounce = proc[r].copy.debounce
        BY <2>1, <2>2 DEF Busy, Check
    <2> QED
        BY <2>1, <2>2, <2>3 DEF Current
<1>4. CASE StoreFails(r) \/ Crash(r) \/ Write(r) \/ Dispatch(r) \/ (FindSelf(r) /\ check = Gone)
    <2>1. Saved(r) \in {Idle, Linking}
        BY DEF Saved
    <2>2. proc'[r] \in {Idle, Linking, Dispatching}
        BY <1>1, <1>4, <2>1 DEF StoreFails, Crash, Write, Dispatch, FindSelf, TypeOK
    <2> QED
        BY <2>2, Pcs DEF Holding, Saving, At
<1>5. CASE Decide(r)
    <2> DEFINE verdict == Verdict(proc[r].copy)
               b == [proc[r] EXCEPT !.pc = IF proc[r].copy.has_run THEN "decided" ELSE "writing",
                                    !.copy.passing = verdict]
    <2>1. proc[r] \in Busy /\ Saving(r) /\ Holding(r)
        BY <1>1, <1>5, BusyByPc DEF Decide, At, Saving, Holding
    <2>2. proc'[r] = b /\ check' = check
        BY <1>1, <1>5 DEF Decide, TypeOK
    <2> HIDE DEF verdict
    <2>3. /\ b.copy.has_run = proc[r].copy.has_run /\ b.copy.active = proc[r].copy.active
          /\ b.copy.debounce = proc[r].copy.debounce
        BY <2>1 DEF Busy, Check
    <2> HIDE DEF b
    <2> QED
        BY <2>1, <2>2, <2>3 DEF Current
<1>6. CASE FindSelf(r) /\ check # Gone
    <2>1. proc[r] \in Busy /\ Saving(r) /\ Holding(r)
        BY <1>1, <1>6, BusyByPc DEF FindSelf, At, Saving, Holding
    <2>2. proc'[r] = [proc[r] EXCEPT !.pc = "writing"] /\ check' = check
        BY <1>1, <1>6 DEF FindSelf, TypeOK
    <2>3. proc'[r].copy = proc[r].copy
        BY <2>1, <2>2 DEF Busy
    <2> QED
        BY <2>1, <2>2, <2>3 DEF Current
<1> QED
    BY <1>2, <1>3, <1>4, <1>5, <1>6 DEF Save

LEMMA KeptNext ==
    ASSUME TypeOK, KeptInv, [AuditNext]_auditVars
    PROVE  KeptInv'
<1>1. CASE UNCHANGED auditVars
    BY <1>1 DEF auditVars, vars, KeptInv, Current, Holding, Saving, At
<1>2. CASE AuditNext
    <2> SUFFICES ASSUME NEW r \in Runners
                 PROVE  /\ Saving(r)' => proc'[r].copy.has_run
                        /\ r \notin overtaken' => Current(r)'
        BY DEF KeptInv
    <2>1. r \in Processes /\ r \notin Editors /\ (Saving(r) => proc[r].copy.has_run)
        BY ProcessAssumption DEF Processes, KeptInv
    <2>2. r \notin overtaken' /\ Holding(r)'
             => Current(r) /\ \A p \in Processes : p # r => ~ Write(p)
        BY <1>2 DEF AuditNext, OvertakenStep, KeptInv
    <2>3. CASE Load(r) \/ StoreResult(r) \/ StoreFails(r) \/ Crash(r) \/ Save(r)
        <3>1. /\ Saving(r)' => proc'[r].copy.has_run
              /\ Holding(r)' => check' = check /\ (Current(r) => Current(r)')
            BY <2>1, <2>3, RunMoves
        <3>2. ~ Holding(r)' => Current(r)'
            BY DEF Current
        <3> QED
            BY <2>2, <3>1, <3>2
    <2>4. ASSUME proc'[r] = proc[r], Holding(r)' => (check' \in {check, Gone} \/ r \in overtaken')
          PROVE  /\ Saving(r)' => proc'[r].copy.has_run
                 /\ r \notin overtaken' => Current(r)'
        BY <2>1, <2>2, <2>4 DEF Current, Holding, Saving, At
    <2>5. ASSUME NEW p \in Processes, p # r,
                 \/ p \in Runners /\ (Load(p) \/ StoreResult(p) \/ StoreFails(p) \/ Crash(p))
                 \/ p \in Editors /\ (Edit(p) \/ Relink(p))
                 \/ Save(p)
          PROVE  proc'[r] = proc[r] /\ (Holding(r)' => (check' \in {check, Gone} \/ r \in overtaken'))
        BY <2>1, <2>2, <2>5, OneMoves
    <2>6. CASE RelinkFromService \/ Delete \/ Purge \/ UpdateService
        <3>1. proc' = proc /\ check' \in {check, Gone}
            BY <2>6 DEF RelinkFromService, Delete, Purge, UpdateService
        <3> QED
            BY <2>4, <3>1
    <2> QED
        BY <1>2, <2>1, <2>3, <2>4, <2>5, <2>6 DEF AuditNext, Next, Processes
<1> QED
    BY <1>1, <1>2

(* Although save() writes every column of a copy made before the check ran
   (tasks.py:24, base.py:527-558), a run changes what users submitted only when
   another save() came in the middle of it: for any number of runs and forms. *)
THEOREM RunsKeepUnlessOvertaken == AuditSpec => RunsKeepTheRow
<1>1. AuditInit => KeptInv
    BY Pcs DEF AuditInit, Init, KeptInv, Current, Holding, Saving, At, Processes
<1>2. TypeOK /\ KeptInv /\ [AuditNext]_auditVars => KeptInv'
    BY KeptNext
<1>3. ASSUME TypeOK, KeptInv, NEW r \in Runners \ overtaken, Write(r), check # Gone
      PROVE  check' = [check EXCEPT !.has_run = TRUE, !.passing = check'.passing]
    <2>1. /\ r \in Processes /\ proc[r] \in Busy /\ proc[r].copy \in Check /\ check \in Check
          /\ check' = proc[r].copy /\ Saving(r) /\ Holding(r)
        BY <1>3, BusyByPc, Pcs DEF Write, At, Saving, Holding, Processes, TypeOK
    <2>2. /\ check'.active = check.active /\ check'.debounce = check.debounce
          /\ check'.has_run = TRUE
        <3>1. proc[r].copy.has_run \in BOOLEAN
            BY <2>1 DEF Check
        <3> QED
            BY <1>3, <2>1, <3>1 DEF KeptInv, Current
    <2> QED
        BY <2>1, <2>2 DEF Check
<1>4. TypeOK /\ KeptInv
         => [\A r \in Runners \ overtaken :
                Write(r) /\ check # Gone =>
                    check' = [check EXCEPT !.has_run = TRUE, !.passing = check'.passing]]_auditVars
    BY <1>3
<1> QED
    BY <1>1, <1>2, <1>4, AuditInvariant, PTL DEF AuditSpec, RunsKeepTheRow
=============================================================================

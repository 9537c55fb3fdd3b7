-------------------------- MODULE ServiceUpdateProofs --------------------------
(***************************************************************************)
(* Proofs about the updates of one service: its types and the accuracy of  *)
(* its status for any number of workers, editors and sessions, and, for    *)
(* updates that cannot overlap, that they implement AlertPolicy.           *)
(***************************************************************************)
EXTENDS ServiceUpdateAudit, StatusRulesProofs

Loaded == [pc : {"loaded"}, svc : Service]

Holding(w) == task[w].pc \in {"loaded", "listed", "saved"}

LEMMA Moments ==
    /\ None \in MaybeAge /\ 0 \in MaybeAge /\ 0 \in Age /\ Horizon \in Age /\ None \notin Age
    /\ Older(None) = None
    /\ \A age \in Age : Older(age) \in Age
    /\ \A age \in MaybeAge : Older(age) \in MaybeAge
    /\ \A status : AlertTime(status) \in MaybeAge
BY IntervalAssumption, NoneAssumption DEF Older, Age, MaybeAge, AlertTime

(* What the steps make of a row is a row. *)
LEMMA Rows ==
    ASSUME NEW svc \in Service
    PROVE  /\ svc.overall_status \in Status /\ svc.last_alert_sent \in MaybeAge
           /\ svc.alerts_enabled \in BOOLEAN
           /\ Aged(svc) \in Service /\ Aged(svc).overall_status = svc.overall_status
           /\ \A status \in Status : [svc EXCEPT !.overall_status = status] \in Service
           /\ \A sent \in MaybeAge : [svc EXCEPT !.last_alert_sent = sent] \in Service
           /\ \A enabled \in BOOLEAN, status \in Status :
                 [svc EXCEPT !.alerts_enabled = enabled, !.overall_status = status] \in Service
BY Moments DEF Service, Aged

LEMMA Pcs ==
    /\ Idle.pc = "idle" /\ Sending.pc = "sending" /\ Linking.pc = "linking"
    /\ Idle \notin Task /\ Sending \notin Task /\ Idle # Sending
    /\ Idle \notin Loaded /\ Linking \notin Loaded
    /\ \A t \in Task : /\ t.pc \in {"loaded", "listed", "saved"}
                       /\ t.svc \in Service /\ t.old \in Status
    /\ \A l \in Loaded : l.pc = "loaded" /\ l.svc \in Service
BY DEF Idle, Sending, Linking, Task, Loaded

LEMMA Tasks ==
    ASSUME TypeOK, NEW w \in Workers
    PROVE  /\ task[w] \in Task <=> Holding(w)
           /\ task[w] \in Task \cup {Idle, Sending}
           /\ Holding(w) => task[w].svc \in Service /\ task[w].old \in Status
BY Pcs DEF TypeOK, Holding

LEMMA Severity == \A importances \in SUBSET Importances : MostSevere(importances) \in Status
BY ImportancesAssumption, MostSevereIsMaximal
-----------------------------------------------------------------------------
LEMMA InitTyped == Init => TypeOK
<1> SUFFICES ASSUME Init PROVE TypeOK
    OBVIOUS
<1>1. service \in Service
    BY Moments DEF Init, Service, Status
<1>2. 0 \in 0 .. MaxQueue /\ 0 \in 0 .. MaxCrashes
    BY BoundsAssumption
<1> QED
    BY <1>1, <1>2, Moments DEF Init, TypeOK

LEMMA ChecksTyped ==
    ASSUME TypeOK,
           \/ CheckSaved \/ UpdateQueued \/ UpdateLost
           \/ ChecksRelinked \/ \E e \in Editors : EditLinks(e)
    PROVE  TypeOK'
<1>1. CASE CheckSaved \/ UpdateQueued \/ UpdateLost
    BY <1>1, BoundsAssumption DEF CheckSaved, UpdateQueued, UpdateLost, TypeOK, people
<1>2. CASE ChecksRelinked
    BY <1>2 DEF ChecksRelinked, TypeOK, people
<1>3. ASSUME NEW e \in Editors, EditLinks(e)
      PROVE  TypeOK'
    BY <1>3 DEF EditLinks, TypeOK
<1> QED
    BY <1>1, <1>2, <1>3

LEMMA UpdateTyped ==
    ASSUME TypeOK, NEW w \in Workers, Take(w) \/ Step(w) \/ Crash(w)
    PROVE  TypeOK'
<1> USE DEF env, people
<1>1. CASE Take(w)
    <2>1. [pc |-> "loaded", svc |-> service, old |-> service.overall_status] \in Task
        BY Rows DEF TypeOK, Task
    <2>2. queue' \in 0 .. MaxQueue
        BY <1>1, BoundsAssumption DEF Take, TypeOK
    <2> QED
        BY <1>1, <2>1, <2>2 DEF Take, TypeOK
<1>2. CASE ListFailing(w)
    <2> DEFINE status == MostSevere(failing)
               t == [task[w] EXCEPT !.pc = "listed", !.svc.overall_status = status]
    <2>1. task[w] \in Task
        BY <1>2, Tasks DEF ListFailing, Holding
    <2>2. status \in Status
        BY Severity DEF TypeOK
    <2> HIDE DEF status
    <2>3. t \in Task
        BY <2>1, <2>2 DEF Task, Service
    <2>4. task' = [task EXCEPT ![w] = t]
        BY <1>2 DEF ListFailing, TypeOK, status
    <2> HIDE DEF t
    <2> QED
        BY <1>2, <2>3, <2>4 DEF ListFailing, TypeOK
<1>3. CASE SaveStatus(w)
    <2>1. task[w] \in Task /\ task[w].svc \in Service
        BY <1>3, Tasks DEF SaveStatus, Holding
    <2>2. [task[w] EXCEPT !.pc = "saved"] \in Task
        BY <2>1 DEF Task
    <2>3. task' \in [Workers -> Task \cup {Idle, Sending}]
        BY <1>3, <2>2 DEF SaveStatus, TypeOK
    <2> QED
        BY <1>3, <2>1, <2>3 DEF SaveStatus, TypeOK
<1>4. CASE AlertRaised(w)
    <2>1. task[w].svc \in Service
        BY <1>4, Tasks DEF AlertRaised, Holding
    <2>2. service' \in Service
        BY <1>4, <2>1, Rows, Moments DEF AlertRaised
    <2> QED
        BY <1>4, <2>2 DEF AlertRaised, TypeOK
<1>5. CASE AlertSkipped(w) \/ Page(w) \/ SendUpdate(w)
    BY <1>5 DEF AlertSkipped, Page, SendUpdate, Sent, TypeOK
<1>6. CASE Crash(w)
    BY <1>6, BoundsAssumption DEF Crash, TypeOK
<1> QED
    BY <1>1, <1>2, <1>3, <1>4, <1>5, <1>6 DEF Step

LEMMA RequestsTyped ==
    ASSUME TypeOK,
           \/ \E e \in Editors : EditLoad(e) \/ EditSave(e)
           \/ \E u \in Users : AckQuery(u) \/ AckCreate(u)
           \/ RemoveAck
    PROVE  TypeOK'
<1> USE DEF env
<1>1. ASSUME NEW e \in Editors, EditLoad(e)
      PROVE  TypeOK'
    BY <1>1 DEF EditLoad, TypeOK
<1>2. ASSUME NEW e \in Editors, EditSave(e)
      PROVE  TypeOK'
    <2>1. edit[e].svc \in Service
        BY <1>2, Pcs DEF EditSave, TypeOK, Loaded
    <2>2. PICK enabled \in BOOLEAN, status \in Status : service' =
              [edit[e].svc EXCEPT !.alerts_enabled = enabled, !.overall_status = status]
        BY <1>2 DEF EditSave
    <2>3. service' \in Service
        BY <2>1, <2>2, Rows
    <2> QED
        BY <1>2, <2>3 DEF EditSave, TypeOK
<1>3. ASSUME NEW u \in Users, AckQuery(u) \/ AckCreate(u)
      PROVE  TypeOK'
    BY <1>3, Moments DEF AckQuery, AckCreate, TypeOK
<1>4. CASE RemoveAck
    BY <1>4, Moments DEF RemoveAck, TypeOK
<1> QED
    BY <1>1, <1>2, <1>3, <1>4

LEMMA TickTyped == ASSUME TypeOK, Tick PROVE TypeOK'
<1>1. service' \in Service
    BY Rows DEF Tick, TypeOK
<1>2. ASSUME NEW w \in Workers
      PROVE  task'[w] \in Task \cup {Idle, Sending}
    <2>1. CASE task[w] \in {Idle, Sending}
        BY <2>1 DEF Tick
    <2>2. CASE task[w] \notin {Idle, Sending}
        <3>1. task[w] \in Task
            BY <2>2 DEF TypeOK
        <3>2. Aged(task[w].svc) \in Service
            BY <3>1, Pcs, Rows
        <3>3. task'[w] = [task[w] EXCEPT !.svc = Aged(task[w].svc)]
            BY <2>2 DEF Tick
        <3> QED
            BY <3>1, <3>2, <3>3 DEF Task
    <2> QED
        BY <2>1, <2>2
<1>3. ASSUME NEW e \in Editors
      PROVE  edit'[e] \in Loaded \cup {Idle, Linking}
    <2>1. CASE edit[e].pc # "loaded"
        BY <2>1 DEF Tick, TypeOK, Loaded
    <2>2. CASE edit[e].pc = "loaded"
        <3>1. edit[e] \in Loaded
            BY <2>2, Pcs DEF TypeOK, Loaded
        <3>2. Aged(edit[e].svc) \in Service
            BY <3>1, Pcs, Rows
        <3>3. edit'[e] = [edit[e] EXCEPT !.svc = Aged(edit[e].svc)]
            BY <2>2 DEF Tick
        <3> QED
            BY <3>1, <3>2, <3>3 DEF Loaded
    <2> QED
        BY <2>1, <2>2
<1>4. acks' \in [Users -> MaybeAge]
    BY Moments DEF Tick, TypeOK
<1>5. task' \in [Workers -> Task \cup {Idle, Sending}]
    BY <1>2 DEF Tick
<1>6. edit' \in [Editors -> Loaded \cup {Idle, Linking}]
    BY <1>3 DEF Tick
<1> QED
    BY <1>1, <1>4, <1>5, <1>6 DEF Tick, TypeOK, env, Loaded

LEMMA NextTyped == ASSUME TypeOK, [Next]_vars PROVE TypeOK'
<1>1. CASE UNCHANGED vars
    BY <1>1 DEF vars, env, people, TypeOK
<1> QED
    BY <1>1, ChecksTyped, UpdateTyped, RequestsTyped, TickTyped DEF Next

LEMMA HistoryTyped ==
    ASSUME TypeOK, TypeOK', notice \in Notice, NoticeStep, BlindStep, CleanStep,
           blind \in BOOLEAN, clean \in BOOLEAN
    PROVE  notice' \in Notice /\ blind' \in BOOLEAN /\ clean' \in BOOLEAN
<1>1. notice' \in Notice
    <2>1. [status |-> service'.overall_status, age |-> 0] \in Notice
        BY Moments DEF TypeOK, Service, Notice
    <2>2. [notice EXCEPT !.age = Older(@)] \in Notice
        BY Moments DEF Notice
    <2> QED
        BY <2>1, <2>2 DEF NoticeStep
<1>2. blind' \in BOOLEAN
    <2>1. CASE \E w \in Workers : Raising(w)
        BY <2>1 DEF BlindStep
    <2>2. CASE ~ \E w \in Workers : Raising(w)
        <3>1. blind' = (blind \/ \E w \in Workers : Muting(w) \/ CutShort(w))
            BY <2>2, Zenon DEF BlindStep
        <3> QED
            BY <3>1, Zenon
    <2> QED
        BY <2>1, <2>2
<1>3. clean' \in BOOLEAN
    <2>1. CASE \E w \in Workers : Take(w)
        <3>1. clean' = ~ Writing
            BY <2>1, Zenon DEF CleanStep
        <3> QED
            BY <3>1, Zenon
    <2>2. CASE ~ \E w \in Workers : Take(w)
        <3>1. clean' = (/\ clean
                        /\ ~ ChecksRelinked /\ ~ UpdateLost
                        /\ \A w \in Workers : ~ Crash(w)
                        /\ \A e \in Editors : ~ EditSave(e) /\ ~ EditLinks(e))
            BY <2>2, Zenon DEF CleanStep
        <3> QED
            BY <3>1, Zenon
    <2> QED
        BY <2>1, <2>2
<1> QED
    BY <1>1, <1>2, <1>3

(* The service, its updates and requests keep their state in its types, ages and
   histories included (CheckGroupMixin's columns, base.py:126-154). *)
THEOREM AuditTyped == AuditSpec => []AuditTypeOK
<1>1. AuditInit => AuditTypeOK
    <2> SUFFICES ASSUME AuditInit PROVE AuditTypeOK
        OBVIOUS
    <2>1. notice \in Notice /\ blind \in BOOLEAN /\ clean \in BOOLEAN
        BY Moments DEF AuditInit, Notice, Status
    <2> QED
        BY <2>1, InitTyped DEF AuditInit, AuditTypeOK
<1>2. AuditTypeOK /\ [AuditNext]_auditVars => AuditTypeOK'
    <2> SUFFICES ASSUME AuditTypeOK, [AuditNext]_auditVars PROVE AuditTypeOK'
        OBVIOUS
    <2>1. TypeOK /\ TypeOK' /\ notice \in Notice /\ blind \in BOOLEAN /\ clean \in BOOLEAN
        BY NextTyped DEF AuditTypeOK, AuditNext, auditVars
    <2>2. CASE UNCHANGED auditVars
        BY <2>1, <2>2 DEF AuditTypeOK, auditVars
    <2>3. CASE AuditNext
        <3>1. notice' \in Notice /\ blind' \in BOOLEAN /\ clean' \in BOOLEAN
            BY <2>1, <2>3, HistoryTyped DEF AuditNext
        <3> QED
            BY <2>1, <3>1 DEF AuditTypeOK
    <2> QED
        BY <2>2, <2>3
<1> QED
    BY <1>1, <1>2, PTL DEF AuditSpec
-----------------------------------------------------------------------------
(* While updates are clean, one at most is at work, and with nothing pending
   its copy of the status, once listed, and the row, once saved, are accurate. *)
AtMostOne ==
    \A w, other \in Workers : w = other \/ ~ Holding(w) \/ ~ Holding(other)

OnTrack ==
    /\ \A w \in Workers :
          /\ task[w].pc \in {"listed", "saved"} =>
                task[w].svc.overall_status = MostSevere(failing)
          /\ task[w].pc = "saved" => service.overall_status = MostSevere(failing)
    /\ ~ Writing => service.overall_status = MostSevere(failing)

CleanInv == clean => AtMostOne /\ (NothingPending => OnTrack)

LEMMA WritingIsHolding == Writing <=> \E w \in Workers : Holding(w)
BY DEF Writing, Holding

(* A step that leaves the checks, the row's status and every task alone. *)
LEMMA SameTasks ==
    ASSUME AtMostOne, NothingPending => OnTrack,
           UNCHANGED <<failing, unsent, queue>>,
           service'.overall_status = service.overall_status,
           \A w \in Workers : /\ task'[w].pc = task[w].pc
                              /\ Holding(w) => task'[w].svc.overall_status
                                                  = task[w].svc.overall_status
    PROVE  AtMostOne' /\ (NothingPending' => OnTrack')
BY DEF AtMostOne, NothingPending, OnTrack, Holding, Writing

LEMMA UpdateClean ==
    ASSUME TypeOK, AtMostOne, NothingPending => OnTrack, NEW w \in Workers, Step(w)
    PROVE  AtMostOne' /\ (NothingPending' => OnTrack')
<1> USE Pcs DEF Holding
<1>1. UNCHANGED <<failing, unsent, queue>> /\ \A other \in Workers \ {w} : task'[other] = task[other]
    BY DEF Step, ListFailing, SaveStatus, AlertSkipped, AlertRaised, Page, SendUpdate, Sent,
           env, TypeOK
<1>2. AtMostOne'
    BY <1>1 DEF AtMostOne, Step, ListFailing, SaveStatus, AlertSkipped, AlertRaised,
                Page, SendUpdate, Sent, TypeOK
<1>3. ASSUME NothingPending PROVE OnTrack'
    <2>1. CASE ListFailing(w)
        <3>1. task[w] \in Task
            BY <2>1, Tasks DEF ListFailing
        <3>2. task'[w].pc = "listed" /\ task'[w].svc.overall_status = MostSevere(failing)
            BY <2>1, <3>1 DEF ListFailing, TypeOK, Task, Service
        <3>3. \A other \in Workers \ {w} : ~ Holding(other)
            BY <2>1 DEF ListFailing, AtMostOne
        <3> QED
            BY <1>1, <1>3, <3>2, <3>3 DEF OnTrack, Writing
    <2>2. CASE SaveStatus(w)
        <3>1. \A other \in Workers \ {w} : ~ Holding(other)
            BY <2>2 DEF SaveStatus, AtMostOne
        <3>2. task[w] \in Task /\ task[w].svc.overall_status = MostSevere(failing)
            BY <1>3, <2>2, Tasks DEF SaveStatus, OnTrack
        <3>3. service'.overall_status = MostSevere(failing)
            BY <2>2, <3>2 DEF SaveStatus
        <3>4. task'[w].pc = "saved" => task'[w].svc = task[w].svc
            BY <2>2, <3>2 DEF SaveStatus, TypeOK, Task
        <3>5. task'[w].pc \in {"idle", "saved"}
            BY <2>2, <3>2 DEF SaveStatus, TypeOK, Task
        <3> QED
            BY <1>1, <3>1, <3>2, <3>3, <3>4, <3>5 DEF OnTrack
    <2>3. CASE AlertSkipped(w) \/ AlertRaised(w)
        <3>1. \A other \in Workers \ {w} : ~ Holding(other)
            BY <2>3 DEF AlertSkipped, AlertRaised, AtMostOne
        <3>2. /\ service.overall_status = MostSevere(failing)
              /\ task[w].svc.overall_status = MostSevere(failing)
            BY <1>3, <2>3 DEF AlertSkipped, AlertRaised, OnTrack
        <3>3. service'.overall_status = MostSevere(failing)
            <4>1. CASE AlertSkipped(w)
                BY <3>2, <4>1 DEF AlertSkipped
            <4>2. CASE AlertRaised(w)
                <5>1. task[w].svc \in Service
                    BY <4>2, Tasks DEF AlertRaised
                <5> QED
                    BY <3>2, <4>2, <5>1 DEF AlertRaised, Service
            <4> QED
                BY <2>3, <4>1, <4>2
        <3>4. ~ Holding(w)'
            BY <2>3 DEF AlertSkipped, AlertRaised, TypeOK
        <3> QED
            BY <1>1, <3>1, <3>3, <3>4 DEF OnTrack
    <2>4. CASE Page(w) \/ SendUpdate(w)
        <3>1. /\ task[w] = Sending /\ task' = [task EXCEPT ![w] = Idle]
              /\ UNCHANGED <<service, failing>>
            BY <2>4 DEF Page, SendUpdate, Sent, env
        <3>2. \A other \in Workers : ~ Holding(w) /\ ~ Holding(w)' /\
                 (other # w => task'[other] = task[other])
            BY <3>1 DEF TypeOK
        <3>3. Writing' <=> Writing
            BY <3>2 DEF Writing
        <3> QED
            BY <1>3, <3>1, <3>2, <3>3 DEF OnTrack
    <2> QED
        BY <2>1, <2>2, <2>3, <2>4 DEF Step
<1>4. NothingPending' <=> NothingPending
    BY <1>1 DEF NothingPending
<1> QED
    BY <1>2, <1>3, <1>4

LEMMA TakeClean ==
    ASSUME TypeOK, NEW w \in Workers, Take(w), ~ Writing
    PROVE  AtMostOne' /\ OnTrack'
<1>1. \A other \in Workers : ~ Holding(other)
    BY DEF Writing, Holding
<1>2. /\ task'[w].pc = "loaded"
      /\ \A other \in Workers \ {w} : task'[other] = task[other]
    BY DEF Take, TypeOK
<1> QED
    BY <1>1, <1>2 DEF AtMostOne, OnTrack, Writing, Holding

LEMMA TickClean ==
    ASSUME TypeOK, AtMostOne, NothingPending => OnTrack, Tick
    PROVE  AtMostOne' /\ (NothingPending' => OnTrack')
<1>1. UNCHANGED <<failing, unsent, queue>> /\ service'.overall_status = service.overall_status
    BY Rows DEF Tick, env, TypeOK
<1>2. ASSUME NEW w \in Workers
      PROVE  /\ task'[w].pc = task[w].pc
             /\ Holding(w) => task'[w].svc.overall_status = task[w].svc.overall_status
    <2>1. CASE task[w] \in {Idle, Sending}
        BY <2>1, Pcs DEF Tick, Holding
    <2>2. CASE task[w] \notin {Idle, Sending}
        <3>1. task[w] \in Task /\ task[w].svc \in Service
            BY <2>2, Pcs DEF TypeOK
        <3>2. task'[w] = [task[w] EXCEPT !.svc = Aged(task[w].svc)]
            BY <2>2 DEF Tick
        <3> QED
            BY <3>1, <3>2, Rows DEF Task
    <2> QED
        BY <2>1, <2>2
<1> QED
    BY <1>1, <1>2, SameTasks

LEMMA NextClean == ASSUME TypeOK, CleanInv, AuditNext PROVE CleanInv'
<1> SUFFICES ASSUME clean' PROVE AtMostOne' /\ (NothingPending' => OnTrack')
    BY DEF CleanInv
<1>1. CASE \E w \in Workers : Take(w)
    <2>1. ~ Writing
        BY <1>1, Zenon DEF AuditNext, CleanStep
    <2> QED
        BY <1>1, <2>1, TakeClean
<1>2. CASE ~ \E w \in Workers : Take(w)
    <2>1. /\ clean /\ ~ ChecksRelinked /\ ~ UpdateLost
          /\ \A w \in Workers : ~ Crash(w)
          /\ \A e \in Editors : ~ EditSave(e) /\ ~ EditLinks(e)
        BY <1>2, Zenon DEF AuditNext, CleanStep
    <2>2. AtMostOne /\ (NothingPending => OnTrack)
        BY <2>1 DEF CleanInv
    <2>3. CASE CheckSaved \/ UpdateQueued
        <3>1. task' = task /\ ~ NothingPending'
            BY <2>3, BoundsAssumption DEF CheckSaved, UpdateQueued, NothingPending, TypeOK
        <3> QED
            BY <2>2, <3>1 DEF AtMostOne, Holding
    <2>4. ASSUME UNCHANGED <<failing, unsent, queue, service, task>>
          PROVE  AtMostOne' /\ (NothingPending' => OnTrack')
        BY <2>2, <2>4, SameTasks
    <2>5. ASSUME NEW e \in Editors, EditLoad(e)
          PROVE  UNCHANGED <<failing, unsent, queue, service, task>>
        BY <2>5 DEF EditLoad, env
    <2>6. ASSUME NEW u \in Users, AckQuery(u) \/ AckCreate(u)
          PROVE  UNCHANGED <<failing, unsent, queue, service, task>>
        BY <2>6 DEF AckQuery, AckCreate, env
    <2>7. RemoveAck => UNCHANGED <<failing, unsent, queue, service, task>>
        BY DEF RemoveAck, env
    <2> QED
        BY <1>2, <2>1, <2>2, <2>3, <2>4, <2>5, <2>6, <2>7, UpdateClean, TickClean
        DEF AuditNext, Next
<1> QED
    BY <1>1, <1>2

(* update_status() (base.py:286-303) leaves the status that the checks deserve,
   although it lists them in one query and saves the row in another, and a check
   writes its row before it queues the update (572, 593): a check that changes in
   between is about to queue the next update or has, and only an overlap, a kill,
   an edit or a change of links can leave the row behind. *)
THEOREM StatusIsAccurate == AuditSpec => []SettledIsAccurate
<1>1. AuditInit => CleanInv
    <2> SUFFICES ASSUME AuditInit PROVE AtMostOne /\ OnTrack
        BY DEF CleanInv
    <2>1. failing = {} /\ service.overall_status = "PASSING" /\ \A w \in Workers : ~ Holding(w)
        BY Pcs DEF AuditInit, Init, Holding
    <2>2. MostSevere({}) = "PASSING"
        BY DEF MostSevere
    <2> QED
        BY <2>1, <2>2 DEF AtMostOne, OnTrack, Holding
<1>2. TypeOK /\ CleanInv /\ [AuditNext]_auditVars => CleanInv'
    <2>1. UNCHANGED auditVars => (CleanInv => CleanInv')
        BY DEF auditVars, vars, env, people, NothingPending, CleanInv, AtMostOne, OnTrack,
               Holding, Writing
    <2> QED
        BY <2>1, NextClean
<1>3. CleanInv => SettledIsAccurate
    BY DEF CleanInv, OnTrack, SettledIsAccurate
<1>4. AuditTypeOK => TypeOK
    BY DEF AuditTypeOK
<1> QED
    BY <1>1, <1>2, <1>3, <1>4, AuditTyped, PTL DEF AuditSpec
-----------------------------------------------------------------------------
(* While updates do not overlap the one copy in memory is the row, but for the
   status that was listed and is still to be saved. *)
CopyOf(w) ==
    /\ task[w].pc \in {"loaded", "listed"} => task[w].old = service.overall_status
    /\ task[w].pc = "loaded" => task[w].svc = service
    /\ task[w].pc = "listed" =>
          task[w].svc = [service EXCEPT !.overall_status = task[w].svc.overall_status]
    /\ task[w].pc = "saved" =>
          task[w].svc = service
          /\ ~ (task[w].old = "PASSING" /\ service.overall_status = "PASSING")

(* AlertPolicy's rules are those of the updates. *)
LEMMA PolicyRules ==
    /\ Policy!Importance = Importance /\ Policy!Status = Status
    /\ \A importances : Policy!MostSevere(importances) = MostSevere(importances)
    /\ \A status : Policy!AlertTime(status) = AlertTime(status)
    /\ \A age : Policy!Older(age) = Older(age)
    /\ \A old, new, sent : Policy!Suppressed(old, new, sent) <=> Suppressed(old, new, sent)
BY DEF Policy!Importance, Importance, Policy!Status, Status, Policy!MostSevere, MostSevere,
       Policy!AlertTime, AlertTime, Policy!Older, Older, Policy!Age, Age,
       Policy!Suppressed, Suppressed, Policy!MoreImportant, MoreImportant,
       Policy!Within, Within, Policy!Interval, Interval

(* The row of AlertPolicy. *)
Bar == [service EXCEPT !.overall_status = PolicyStatus]

LEMMA Statuses ==
    ASSUME NEW status \in Status
    PROVE  \E importances \in SUBSET Importance : MostSevere(importances) = status
<1>1. CASE status = "PASSING"
    <2>1. MostSevere({}) = status /\ {} \in SUBSET Importance
        BY <1>1 DEF MostSevere
    <2> QED
        BY <2>1
<1>2. CASE status # "PASSING"
    <2>1. MostSevere({status}) = status /\ {status} \in SUBSET Importance
        BY <1>2 DEF MostSevere, Status, Importance
    <2> QED
        BY <2>1
<1> QED
    BY <1>1, <1>2

SerialInv == AtMostOne /\ \A w \in Workers : CopyOf(w)

LEMMA NobodySaved ==
    /\ (\A w \in Workers : task[w].pc # "saved") => PolicyStatus = service.overall_status
    /\ (\A w \in Workers : task'[w].pc # "saved") => PolicyStatus' = service'.overall_status
BY DEF PolicyStatus

LEMMA OneSaved ==
    ASSUME AtMostOne, NEW w \in Workers, task[w].pc = "saved"
    PROVE  PolicyStatus = task[w].old
<1>1. \A other \in Workers : task[other].pc = "saved" => other = w
    BY DEF AtMostOne, Holding
<1> QED
    BY <1>1 DEF PolicyStatus

LEMMA OneSavedNext ==
    ASSUME AtMostOne', NEW w \in Workers, task'[w].pc = "saved"
    PROVE  PolicyStatus' = task'[w].old
<1>1. \A other \in Workers : task'[other].pc = "saved" => other = w
    BY DEF AtMostOne, Holding
<1> QED
    BY <1>1 DEF PolicyStatus

(* The worker that holds a copy is alone with it. *)
LEMMA Alone ==
    ASSUME AtMostOne, NEW w \in Workers, Holding(w)
    PROVE  \A other \in Workers \ {w} : ~ Holding(other)
BY DEF AtMostOne

LEMMA StepAlone ==
    ASSUME TypeOK, NEW w \in Workers, Take(w) \/ Step(w) \/ Crash(w)
    PROVE  \A other \in Workers \ {w} : task'[other] = task[other]
BY DEF Take, Step, ListFailing, SaveStatus, AlertSkipped, AlertRaised, Page, SendUpdate, Sent,
       Crash, TypeOK

LEMMA TickTask ==
    ASSUME TypeOK, Tick, NEW w \in Workers
    PROVE  /\ task'[w].pc = task[w].pc
           /\ Holding(w) => /\ task[w].svc \in Service
                            /\ task'[w].old = task[w].old
                            /\ task'[w].svc = Aged(task[w].svc)
<1>1. CASE task[w] \in {Idle, Sending}
    BY <1>1, Pcs DEF Tick, Holding
<1>2. CASE task[w] \notin {Idle, Sending}
    <2>1. task[w] \in Task /\ task[w].svc \in Service
        BY <1>2, Pcs DEF TypeOK
    <2>2. task'[w] = [task[w] EXCEPT !.svc = Aged(task[w].svc)]
        BY <1>2 DEF Tick
    <2> QED
        BY <2>1, <2>2 DEF Task
<1> QED
    BY <1>1, <1>2

(* What concerns neither the row nor a task. *)
Elsewhere ==
    \/ CheckSaved \/ UpdateQueued \/ UpdateLost \/ ChecksRelinked
    \/ RemoveAck
    \/ \E u \in Users : AckQuery(u) \/ AckCreate(u)
    \/ \E e \in Editors : EditLoad(e) \/ EditLinks(e)
    \/ UNCHANGED vars

LEMMA ElsewhereKeeps == Elsewhere => UNCHANGED <<task, service>>
BY DEF Elsewhere, CheckSaved, UpdateQueued, UpdateLost, ChecksRelinked, RemoveAck, AckQuery,
       AckCreate, EditLoad, EditLinks, vars

LEMMA AloneNext ==
    ASSUME TypeOK, AtMostOne, [Next /\ Serial]_vars
    PROVE  AtMostOne'
<1> USE Pcs
<1>1. CASE UNCHANGED task
    BY <1>1 DEF AtMostOne, Holding
<1>2. ASSUME NEW w \in Workers, Step(w) \/ Crash(w)
      PROVE  AtMostOne'
    <2>1. Holding(w)' => Holding(w)
        BY <1>2 DEF Holding, Step, ListFailing, SaveStatus, AlertSkipped, AlertRaised, Page,
                    SendUpdate, Sent, Crash, TypeOK
    <2> QED
        BY <1>2, <2>1, StepAlone DEF AtMostOne, Holding
<1>3. ASSUME NEW w \in Workers, Take(w), Serial
      PROVE  AtMostOne'
    <2>1. \A other \in Workers : ~ Holding(other)
        BY <1>3, WritingIsHolding DEF Serial
    <2> QED
        BY <1>3, <2>1, StepAlone DEF AtMostOne, Holding
<1>4. CASE Tick
    BY <1>4, TickTask DEF AtMostOne, Holding
<1>5. ASSUME NEW e \in Editors, EditSave(e)
      PROVE  UNCHANGED task
    BY <1>5 DEF EditSave
<1> QED
    BY <1>1, <1>2, <1>3, <1>4, <1>5, ElsewhereKeeps DEF Next, Elsewhere

LEMMA CopyNext ==
    ASSUME TypeOK, SerialInv, [Next /\ Serial]_vars, NEW w \in Workers
    PROVE  CopyOf(w)'
<1> USE Pcs
<1>1. CASE UNCHANGED <<task, service>>
    BY <1>1 DEF CopyOf, SerialInv
<1>2. CASE Take(w)
    BY <1>2 DEF Take, CopyOf, TypeOK
<1>3. CASE ListFailing(w)
    <2>1. task[w] \in Task /\ task[w].pc = "loaded" /\ task[w].svc \in Service
        BY <1>3, Tasks DEF ListFailing, Holding
    <2>2. /\ task'[w].pc = "listed" /\ task'[w].old = task[w].old
          /\ task'[w].svc = [task[w].svc EXCEPT !.overall_status = MostSevere(failing)]
          /\ service' = service
        BY <1>3, <2>1 DEF ListFailing, TypeOK, Task
    <2>3. task'[w].svc.overall_status = MostSevere(failing)
        BY <2>1, <2>2 DEF Service
    <2> QED
        BY <2>1, <2>2, <2>3 DEF CopyOf, SerialInv
<1>4. CASE SaveStatus(w)
    <2>1. task[w] \in Task /\ task[w].pc = "listed"
        BY <1>4, Tasks DEF SaveStatus, Holding
    <2> QED
        BY <1>4, <2>1 DEF SaveStatus, CopyOf, SerialInv, TypeOK, Task
<1>5. CASE AlertSkipped(w) \/ AlertRaised(w) \/ Page(w) \/ SendUpdate(w) \/ Crash(w)
    BY <1>5 DEF AlertSkipped, AlertRaised, Page, SendUpdate, Sent, Crash, CopyOf, TypeOK
<1>6. CASE Tick
    <2>1. service \in Service /\ service' = Aged(service)
        BY <1>6 DEF Tick, TypeOK
    <2>2. CASE ~ Holding(w)
        BY <1>6, <2>2, TickTask DEF Holding, CopyOf
    <2>3. CASE Holding(w)
        <3>1. /\ task'[w].pc = task[w].pc /\ task'[w].old = task[w].old
              /\ task'[w].svc = Aged(task[w].svc) /\ task[w].svc \in Service
            BY <1>6, <2>3, TickTask
        <3>2. task'[w].svc.overall_status = task[w].svc.overall_status
              /\ service'.overall_status = service.overall_status
            BY <2>1, <3>1, Rows
        <3>3. ASSUME task[w].pc = "listed"
              PROVE  Aged(task[w].svc) =
                        [Aged(service) EXCEPT !.overall_status = task[w].svc.overall_status]
            <4>1. CopyOf(w)
                BY DEF SerialInv
            <4> QED
                BY <2>1, <3>1, <3>3, <4>1 DEF CopyOf, Aged, Service
        <3> QED
            BY <2>1, <3>1, <3>2, <3>3 DEF CopyOf, SerialInv
    <2> QED
        BY <2>2, <2>3
<1>7. ASSUME NEW other \in Workers \ {w}, Take(other) \/ Step(other) \/ Crash(other)
      PROVE  CopyOf(w)'
    <2>1. task'[w] = task[w]
        BY <1>7, StepAlone
    <2>2. Holding(other) => ~ Holding(w)
        BY Alone DEF SerialInv
    <2>3. service' = service \/ Holding(other)
        BY <1>7 DEF Holding, Take, Step, ListFailing, SaveStatus, AlertSkipped, AlertRaised, Page,
                    SendUpdate, Sent, Crash
    <2> QED
        BY <2>1, <2>2, <2>3 DEF CopyOf, SerialInv, Holding
<1>8. ASSUME NEW e \in Editors, EditSave(e), Serial
      PROVE  CopyOf(w)'
    <2>1. ~ Holding(w) /\ task'[w] = task[w]
        BY <1>8, WritingIsHolding DEF Serial, EditSave
    <2> QED
        BY <2>1 DEF Holding, CopyOf
<1> QED
    BY <1>1, <1>2, <1>3, <1>4, <1>5, <1>6, <1>7, <1>8, ElsewhereKeeps DEF Next, Step, Elsewhere

(* A worker in alert(), and the update that alert() completes. *)
LEMMA Completing ==
    ASSUME NEW w \in Workers, TypeOK, SerialInv, task[w].pc = "saved"
    PROVE  /\ service \in Service /\ task[w].old \in Status /\ task[w].svc = service
           /\ Bar = [service EXCEPT !.overall_status = task[w].old]
           /\ Bar.overall_status = task[w].old /\ Bar.alerts_enabled = service.alerts_enabled
           /\ Bar.last_alert_sent = service.last_alert_sent
           /\ [Bar EXCEPT !.overall_status = service.overall_status] = service
           /\ service.overall_status \in Status
           /\ ~ (task[w].old = "PASSING" /\ service.overall_status = "PASSING")
<1>1. CopyOf(w)
    BY DEF SerialInv
<1>2. service \in Service /\ task[w].old \in Status /\ task[w].svc = service
    BY <1>1, Tasks DEF CopyOf, Holding, TypeOK
<1>3. Bar = [service EXCEPT !.overall_status = task[w].old]
    BY OneSaved DEF Bar, SerialInv
<1> QED
    BY <1>1, <1>2, <1>3, Rows DEF CopyOf, Service

LEMMA BarNext ==
    ASSUME \A w \in Workers : task'[w].pc # "saved", service' \in Service
    PROVE  Bar' = service'
<1>1. PolicyStatus' = service'.overall_status
    BY NobodySaved
<1>2. [service' EXCEPT !.overall_status = service'.overall_status] = service'
    BY DEF Service
<1> QED
    BY <1>1, <1>2 DEF Bar

(* A worker that is done with its copy leaves none behind. *)
LEMMA NoneLeft ==
    ASSUME TypeOK, SerialInv, NEW w \in Workers, Holding(w), Step(w) \/ Crash(w),
           task'[w] \in {Idle, Sending}
    PROVE  \A other \in Workers : task'[other].pc # "saved"
BY StepAlone, Alone, Pcs DEF SerialInv, Holding

LEMMA RaisedImplements ==
    ASSUME NEW w \in Workers, TypeOK, SerialInv, AlertRaised(w), NoticeStep, BlindStep
    PROVE  Policy!Next
<1> DEFINE status == service.overall_status
<1>1. /\ task[w].pc = "saved" /\ task'[w] = Sending
      /\ ~ Quiet(task[w].svc, task[w].old)
      /\ service' = [task[w].svc EXCEPT
                        !.last_alert_sent = AlertTime(task[w].svc.overall_status)]
    BY DEF AlertRaised, TypeOK
<1>2. service' = [service EXCEPT !.last_alert_sent = AlertTime(status)]
      /\ service' \in Service /\ service'.overall_status = status
    <2>1. service' = [service EXCEPT !.last_alert_sent = AlertTime(status)]
        BY <1>1, Completing
    <2>2. service \in Service /\ AlertTime(status) \in MaybeAge
        BY <1>1, Completing, Moments
    <2>3. [service EXCEPT !.last_alert_sent = AlertTime(status)] \in Service
        BY <2>2, Rows
    <2>4. [service EXCEPT !.last_alert_sent = AlertTime(status)].overall_status = status
        BY <2>2 DEF Service
    <2> QED
        BY <2>1, <2>3, <2>4
<1>3. Bar' = service'
    BY <1>1, <1>2, BarNext, NoneLeft DEF Step, Holding
<1>4. Bar' = [[Bar EXCEPT !.overall_status = status] EXCEPT !.last_alert_sent = AlertTime(status)]
    BY <1>1, <1>2, <1>3, Completing
<1>5. notice' = [status |-> status, age |-> 0] /\ blind' = FALSE
    <2>1. Raising(w)
        BY DEF Raising
    <2> QED
        BY <1>2, <2>1 DEF NoticeStep, BlindStep
<1>6. Bar.alerts_enabled /\ ~ Suppressed(Bar.overall_status, status, Bar.last_alert_sent)
    BY <1>1, Completing DEF Quiet
<1>7. ~ (Bar.overall_status = "PASSING" /\ status = "PASSING")
    BY <1>1, Completing
<1>8. Policy!UpdateNotifies(status)
    BY <1>4, <1>5, <1>6, <1>7, PolicyRules
    DEF Policy!UpdateNotifies, Policy!Troubled, Policy!Observed, Bar
<1>9. PICK importances \in SUBSET Importance : MostSevere(importances) = status
    BY <1>1, Completing, Statuses
<1> QED
    BY <1>8, <1>9, PolicyRules DEF Policy!Next, Policy!Update, Policy!CompleteUpdate

LEMMA SkippedImplements ==
    ASSUME NEW w \in Workers, TypeOK, SerialInv, AlertSkipped(w), notice' = notice,
           Muting(w) => blind' = TRUE, ~ Muting(w) => blind' = blind
    PROVE  Policy!Next
<1> DEFINE status == service.overall_status
<1>1. /\ task[w].pc = "saved" /\ task'[w] = Idle /\ service' = service
      /\ Quiet(task[w].svc, task[w].old)
    BY DEF AlertSkipped, TypeOK
<1>2. Bar' = service
    BY <1>1, BarNext, NoneLeft, Completing DEF Step, Holding
<1>3. Bar' = [Bar EXCEPT !.overall_status = status]
    BY <1>1, <1>2, Completing
<1>4. ~ (Bar.overall_status = "PASSING" /\ status = "PASSING")
    BY <1>1, Completing
<1>5. Policy!UpdateMuted(status) \/ Policy!UpdateSuppressed(status)
    <2>1. CASE service.alerts_enabled
        <3>1. Bar.alerts_enabled /\ Suppressed(Bar.overall_status, status, Bar.last_alert_sent)
            BY <1>1, <2>1, Completing DEF Quiet
        <3>2. ~ Muting(w)
            BY <1>1, <2>1, Completing DEF Muting
        <3> QED
            BY <1>3, <3>1, <3>2, PolicyRules DEF Policy!UpdateSuppressed, Policy!Observed, Bar
    <2>2. CASE ~ service.alerts_enabled
        <3>1. Muting(w)
            BY <1>1, <2>2, Completing DEF Muting
        <3>2. blind' = TRUE
            BY <3>1, Zenon
        <3>3. ~ Bar.alerts_enabled
            BY <1>1, <2>2, Completing
        <3> QED
            BY <1>3, <1>4, <3>2, <3>3 DEF Policy!UpdateMuted, Policy!Troubled, Policy!Observed, Bar
    <2> QED
        BY <2>1, <2>2
<1>6. PICK importances \in SUBSET Importance : MostSevere(importances) = status
    BY <1>1, Completing, Statuses
<1> QED
    BY <1>5, <1>6, PolicyRules DEF Policy!Next, Policy!Update, Policy!CompleteUpdate

LEMMA CrashImplements ==
    ASSUME NEW w \in Workers, TypeOK, SerialInv, Crash(w), task[w].pc = "saved",
           notice' = notice, blind' = TRUE
    PROVE  Policy!Next
<1> DEFINE status == service.overall_status
<1>1. task'[w] = Idle /\ service' = service
    BY DEF Crash, TypeOK
<1>2. Bar' = [Bar EXCEPT !.overall_status = status]
    BY <1>1, BarNext, NoneLeft, Completing DEF Holding
<1>3. Policy!UpdateInterrupted(status)
    BY <1>2, Completing DEF Policy!UpdateInterrupted, Policy!Troubled, Policy!Observed, Bar
<1>4. status \in Status
    BY Completing
<1> QED
    BY <1>3, <1>4, PolicyRules DEF Policy!Next

LEMMA TickImplements ==
    ASSUME TypeOK, SerialInv, Tick, blind' = blind,
           notice' = [notice EXCEPT !.age = Older(@)]
    PROVE  Policy!Next
<1>1. /\ service \in Service /\ service' = Aged(service) /\ service' \in Service
      /\ service'.overall_status = service.overall_status
    BY Rows DEF Tick, TypeOK
<1>2. PolicyStatus' = PolicyStatus
    <2>1. \A w \in Workers : task'[w].pc = task[w].pc /\ (Holding(w) => task'[w].old = task[w].old)
        BY TickTask
    <2>2. CASE \E w \in Workers : task[w].pc = "saved"
        <3>1. PICK w \in Workers : task[w].pc = "saved"
            BY <2>2
        <3>2. AtMostOne /\ AtMostOne'
            BY <2>1 DEF SerialInv, AtMostOne, Holding
        <3> QED
            BY <2>1, <3>1, <3>2, OneSaved, OneSavedNext DEF Holding
    <2>3. CASE ~ \E w \in Workers : task[w].pc = "saved"
        BY <1>1, <2>1, <2>3, NobodySaved
    <2> QED
        BY <2>2, <2>3
<1>3. Bar' = [Bar EXCEPT !.last_alert_sent = Older(@)]
    BY <1>1, <1>2 DEF Bar, Aged, Service
<1> QED
    BY <1>3, PolicyRules DEF Policy!Next, Policy!Tick, Bar

(* A form that is saved alone switches the alerts on or off, or changes nothing. *)
LEMMA EditImplements ==
    ASSUME TypeOK, NEW e \in Editors, EditSave(e), Serial, UNCHANGED <<notice, blind>>
    PROVE  Bar' = Bar \/ Policy!SetAlertsEnabled
<1>1. /\ ~ Writing /\ edit[e].svc = service /\ service \in Service /\ task' = task
      /\ service'.overall_status = service.overall_status
    BY DEF Serial, EditSave, TypeOK
<1>2. PICK enabled \in BOOLEAN, status \in Status :
         service' = [service EXCEPT !.alerts_enabled = enabled, !.overall_status = status]
    BY <1>1 DEF EditSave
<1>3. status = service.overall_status
    BY <1>1, <1>2 DEF Service
<1>4. /\ service' \in Service
      /\ enabled = service.alerts_enabled => service' = service
      /\ enabled # service.alerts_enabled =>
            service' = [service EXCEPT !.alerts_enabled = ~ service.alerts_enabled]
    BY <1>1, <1>2, <1>3 DEF Service
<1>5. \A w \in Workers : task[w].pc # "saved" /\ task'[w].pc # "saved"
    BY <1>1 DEF Writing
<1>6. Bar' = service'
    BY <1>4, <1>5, BarNext
<1>7. Bar = service
    <2>1. PolicyStatus = service.overall_status
        BY <1>5, NobodySaved
    <2> QED
        BY <1>1, <2>1 DEF Bar, Service
<1> QED
    BY <1>4, <1>6, <1>7 DEF Policy!SetAlertsEnabled, Bar

(* The steps AlertPolicy does not see. *)
LEMMA QuietStep ==
    ASSUME TypeOK, SerialInv,
           \/ Elsewhere
           \/ \E w \in Workers : \/ Take(w) \/ ListFailing(w) \/ SaveStatus(w)
                                 \/ Page(w) \/ SendUpdate(w)
                                 \/ Crash(w) /\ task[w].pc # "saved",
           AtMostOne'
    PROVE  Bar' = Bar
<1> USE Pcs
<1>1. CASE Elsewhere
    BY <1>1, ElsewhereKeeps DEF Bar, PolicyStatus
<1>2. ASSUME NEW w \in Workers, service' = service, task[w].pc # "saved", task'[w].pc # "saved",
             Take(w) \/ Step(w) \/ Crash(w)
      PROVE  Bar' = Bar
    <2>1. \A other \in Workers : other # w => task'[other] = task[other]
        BY <1>2, StepAlone
    <2>2. CASE \E other \in Workers : task[other].pc = "saved"
        <3>1. PICK other \in Workers : task[other].pc = "saved"
            BY <2>2
        <3>2. task'[other] = task[other]
            BY <1>2, <2>1, <3>1
        <3>3. PolicyStatus' = PolicyStatus
            BY <3>1, <3>2, OneSaved, OneSavedNext DEF SerialInv
        <3> QED
            BY <1>2, <3>3 DEF Bar
    <2>3. CASE ~ \E other \in Workers : task[other].pc = "saved"
        BY <1>2, <2>1, <2>3, NobodySaved DEF Bar
    <2> QED
        BY <2>2, <2>3
<1>3. ASSUME NEW w \in Workers,
             Take(w) \/ ListFailing(w) \/ Page(w) \/ SendUpdate(w) \/ (Crash(w) /\ task[w].pc # "saved")
      PROVE  Bar' = Bar
    <2>1. ListFailing(w) => task'[w].pc = "listed"
        <3> SUFFICES ASSUME ListFailing(w) PROVE task'[w].pc = "listed"
            OBVIOUS
        <3>1. task[w] \in Task
            BY Tasks DEF ListFailing, Holding
        <3> QED
            BY <3>1 DEF ListFailing, TypeOK, Task
    <2>2. service' = service /\ task[w].pc # "saved" /\ task'[w].pc # "saved"
        BY <1>3, <2>1 DEF Take, ListFailing, Page, SendUpdate, Sent, Crash, TypeOK
    <2> QED
        BY <1>2, <1>3, <2>2 DEF Step
<1>4. ASSUME NEW w \in Workers, SaveStatus(w)
      PROVE  Bar' = Bar
    <2>1. /\ task[w] \in Task /\ task[w].pc = "listed" /\ service \in Service
          /\ task[w].old = service.overall_status
          /\ task[w].svc = [service EXCEPT !.overall_status = task[w].svc.overall_status]
        BY <1>4, Tasks DEF SaveStatus, Holding, CopyOf, SerialInv, TypeOK
    <2>2. service' = task[w].svc
        BY <1>4 DEF SaveStatus
    <2>3. CASE task[w].old = "PASSING" /\ task[w].svc.overall_status = "PASSING"
        <3>1. service' = service
            <4>1. service' = [service EXCEPT !.overall_status = "PASSING"]
                BY <2>1, <2>2, <2>3
            <4>2. service.overall_status = "PASSING"
                BY <2>1, <2>3
            <4>3. [service EXCEPT !.overall_status = service.overall_status] = service
                BY <2>1 DEF Service
            <4> QED
                BY <4>1, <4>2, <4>3
        <3>2. task'[w].pc = "idle"
            BY <1>4, <2>3 DEF SaveStatus, TypeOK
        <3> QED
            BY <1>2, <1>4, <2>1, <3>1, <3>2 DEF Step
    <2>4. CASE ~ (task[w].old = "PASSING" /\ task[w].svc.overall_status = "PASSING")
        <3>1. task'[w].pc = "saved" /\ task'[w].old = task[w].old
            BY <1>4, <2>1, <2>4 DEF SaveStatus, TypeOK, Task
        <3>2. \A other \in Workers : task[other].pc # "saved"
            BY <2>1, Alone DEF SerialInv, Holding
        <3>3. PolicyStatus' = service.overall_status /\ PolicyStatus = service.overall_status
            BY <2>1, <3>1, <3>2, OneSavedNext, NobodySaved
        <3>4. [service' EXCEPT !.overall_status = service.overall_status] = service
            BY <2>1, <2>2 DEF Service
        <3>5. [service EXCEPT !.overall_status = service.overall_status] = service
            BY <2>1 DEF Service
        <3> QED
            BY <3>3, <3>4, <3>5 DEF Bar
    <2> QED
        BY <2>3, <2>4
<1> QED
    BY <1>1, <1>3, <1>4

(* Only alert() and the death of a worker in it touch the histories, and time. *)
LEMMA HistoryKept ==
    ASSUME TypeOK, blind \in BOOLEAN, AuditNext, ~ Tick,
           \A w \in Workers : ~ AlertRaised(w) /\ ~ Muting(w) /\ ~ CutShort(w)
    PROVE  UNCHANGED <<notice, blind>>
<1>1. notice' = notice
    BY DEF AuditNext, NoticeStep, Raising
<1>2. blind' = (blind \/ \E w \in Workers : Muting(w) \/ CutShort(w))
    BY Zenon DEF AuditNext, BlindStep, Raising
<1>3. blind' = (blind \/ FALSE)
    BY <1>2
<1> QED
    BY <1>1, <1>3

LEMMA StepImplements ==
    ASSUME AuditTypeOK, SerialInv, SerialInv', [AuditNext /\ Serial]_auditVars
    PROVE  Policy!Next \/ UNCHANGED Policy!vars
<1>1. TypeOK /\ blind \in BOOLEAN /\ AtMostOne /\ AtMostOne'
    BY DEF AuditTypeOK, SerialInv
<1>2. ASSUME Bar' = Bar, UNCHANGED <<notice, blind>>
      PROVE  UNCHANGED Policy!vars
    BY <1>2 DEF Policy!vars, Bar
<1>3. CASE UNCHANGED auditVars
    <2>1. UNCHANGED vars /\ UNCHANGED <<notice, blind>>
        BY <1>3 DEF auditVars
    <2> QED
        BY <1>1, <1>2, <2>1, QuietStep DEF Elsewhere
<1>4. CASE AuditNext /\ \E w \in Workers : AlertRaised(w)
    BY <1>1, <1>4, RaisedImplements DEF AuditNext
<1>5. CASE AuditNext /\ Serial /\ ~ \E w \in Workers : AlertRaised(w)
    <2>1. notice' = IF Tick THEN [notice EXCEPT !.age = Older(@)] ELSE notice
        BY <1>5 DEF AuditNext, NoticeStep, Raising
    <2>2. blind' = (blind \/ \E w \in Workers : Muting(w) \/ CutShort(w))
        <3>1. ~ \E w \in Workers : Raising(w)
            BY <1>5 DEF Raising
        <3> QED
            BY <1>5, <3>1, Zenon DEF AuditNext, BlindStep
    <2>3. CASE Tick
        <3>1. \A w \in Workers : ~ Muting(w) /\ ~ CutShort(w)
            BY <1>1, <2>3, TickTask, Pcs DEF Muting, CutShort, AlertSkipped, Crash, TypeOK
        <3>2. blind' = (blind \/ FALSE)
            BY <2>2, <3>1
        <3> QED
            BY <1>1, <2>1, <2>3, <3>2, TickImplements
    <2>4. ASSUME ~ Tick, NEW w \in Workers, AlertSkipped(w)
          PROVE  Policy!Next
        <3>1. \A other \in Workers : ~ CutShort(other)
            BY <1>1, <2>4, BoundsAssumption DEF AlertSkipped, CutShort, Crash, TypeOK
        <3>2. \A other \in Workers : other # w => ~ Muting(other)
            BY <1>1, <2>4 DEF AtMostOne, Holding, Muting, AlertSkipped
        <3>3. Muting(w) => blind' = TRUE
            BY <2>2, Zenon
        <3>4. ~ Muting(w) => blind' = blind
            <4> SUFFICES ASSUME ~ Muting(w) PROVE blind' = blind
                OBVIOUS
            <4>1. blind' = (blind \/ FALSE)
                BY <2>2, <3>1, <3>2
            <4> QED
                BY <4>1, <1>1
        <3> QED
            BY <1>1, <2>1, <2>4, <3>3, <3>4, SkippedImplements
    <2>5. ASSUME ~ Tick, NEW w \in Workers, Crash(w), task[w].pc = "saved"
          PROVE  Policy!Next
        <3>1. blind' = TRUE
            BY <2>2, <2>5, Zenon DEF CutShort
        <3> QED
            BY <1>1, <2>1, <2>5, <3>1, CrashImplements
    <2>6. CASE /\ ~ Tick
               /\ \A w \in Workers : ~ AlertSkipped(w) /\ ~ (Crash(w) /\ task[w].pc = "saved")
        <3>1. UNCHANGED <<notice, blind>>
            BY <1>1, <1>5, <2>6, HistoryKept DEF Muting, CutShort
        <3>2. ASSUME NEW e \in Editors, EditSave(e)
              PROVE  Policy!Next \/ UNCHANGED Policy!vars
            BY <1>1, <1>2, <1>5, <3>1, <3>2, EditImplements DEF Policy!Next
        <3>3. \/ Elsewhere
              \/ \E e \in Editors : EditSave(e)
              \/ \E w \in Workers : \/ Take(w) \/ ListFailing(w) \/ SaveStatus(w)
                                    \/ Page(w) \/ SendUpdate(w)
                                    \/ Crash(w) /\ task[w].pc # "saved"
            BY <1>5, <2>6 DEF AuditNext, Next, Step, Elsewhere
        <3>4. CASE ~ \E e \in Editors : EditSave(e)
            <4>1. Bar' = Bar
                BY <1>1, <3>3, <3>4, QuietStep
            <4> QED
                BY <1>2, <3>1, <4>1
        <3> QED
            BY <3>2, <3>4
    <2> QED
        BY <2>3, <2>4, <2>5, <2>6
<1> QED
    BY <1>3, <1>4, <1>5

LEMMA SerialStart == AuditInit => Policy!Init /\ SerialInv
<1> SUFFICES ASSUME AuditInit PROVE Policy!Init /\ SerialInv
    OBVIOUS
<1>1. \A w \in Workers : task[w].pc = "idle"
    BY Pcs DEF AuditInit, Init
<1>2. service \in Service /\ PolicyStatus = service.overall_status
    BY <1>1, NobodySaved, InitTyped DEF AuditInit, TypeOK
<1>3. [service EXCEPT !.overall_status = PolicyStatus] = service
    BY <1>2 DEF Service
<1>4. service \in [overall_status : {"PASSING"}, last_alert_sent : {None},
                   alerts_enabled : BOOLEAN]
    BY DEF AuditInit, Init
<1> QED
    BY <1>1, <1>3, <1>4 DEF AuditInit, Policy!Init, SerialInv, AtMostOne, Holding, CopyOf

LEMMA SerialKept ==
    ASSUME AuditTypeOK, SerialInv, [AuditNext /\ Serial]_auditVars
    PROVE  SerialInv'
<1>1. [Next /\ Serial]_vars
    BY DEF AuditNext, auditVars
<1>2. TypeOK
    BY DEF AuditTypeOK
<1> QED
    BY <1>1, <1>2, AloneNext, CopyNext DEF SerialInv

LEMMA SerialInvariant == SerialSpec => [](AuditTypeOK /\ SerialInv)
<1>1. SerialSpec => AuditSpec
    BY PTL DEF SerialSpec, AuditSpec
<1> QED
    BY <1>1, AuditTyped, SerialStart, SerialKept, PTL DEF SerialSpec

(* As long as updates do not overlap, what any number of workers and forms do in
   many queries, between which checks change and workers die (update_status() and
   alert(), base.py:286-303 and 190-215), is what AlertPolicy does in one action. *)
THEOREM PolicyImplemented == SerialSpec => ImplementsPolicy
<1>1. AuditTypeOK /\ SerialInv /\ (AuditTypeOK /\ SerialInv)' /\ [AuditNext /\ Serial]_auditVars
         => [Policy!Next]_Policy!vars
    BY StepImplements
<1> QED
    BY <1>1, SerialInvariant, SerialStart, PTL DEF SerialSpec, ImplementsPolicy, Policy!Spec
-----------------------------------------------------------------------------
(* What is proved of AlertPolicy, of the row it sees here. *)
Promised == INSTANCE AlertPolicyProofs
    WITH service <- [service EXCEPT !.overall_status = PolicyStatus]

LEMMA SamePolicy == ImplementsPolicy => Promised!Spec
<1>1. Policy!Init => Promised!Init
    BY Zenon DEF Policy!Init, Promised!Init
<1>2. [Policy!Next]_Policy!vars => [Promised!Next]_Promised!vars
    BY Zenon
    DEF Policy!Next, Promised!Next, Policy!Update, Promised!Update, Policy!CompleteUpdate,
        Promised!CompleteUpdate, Policy!SetAlertsEnabled, Promised!SetAlertsEnabled,
        Policy!Tick, Promised!Tick, Policy!UpdateHealthy, Promised!UpdateHealthy,
        Policy!UpdateMuted, Promised!UpdateMuted, Policy!UpdateSuppressed,
        Promised!UpdateSuppressed, Policy!UpdateNotifies, Promised!UpdateNotifies,
        Policy!UpdateInterrupted, Promised!UpdateInterrupted, Policy!Observed,
        Promised!Observed, Policy!Troubled, Promised!Troubled, Policy!vars, Promised!vars,
        Policy!AlertTime, Promised!AlertTime, Policy!Older, Promised!Older, Policy!Age,
        Promised!Age, Policy!Suppressed, Promised!Suppressed, Policy!MoreImportant,
        Promised!MoreImportant, Policy!Within, Promised!Within, Policy!Interval,
        Promised!Interval, Policy!MostSevere, Promised!MostSevere, Policy!Importance,
        Promised!Importance, Policy!Status, Promised!Status
<1> QED
    BY <1>1, <1>2, PTL DEF ImplementsPolicy, Policy!Spec, Promised!Spec

(* Updates that do not overlap, of any number of workers and with any number of
   forms, keep the promises of the policy (base.py:190-215): last_alert_sent dates
   the last notice, users know of every failure that an update could raise with
   them and of its severity, and repeats wait for their interval. *)
THEOREM PromisesKept ==
    SerialSpec => /\ []Policy!LastAlertIsLastNotice
                  /\ []Policy!UsersAreInformed
                  /\ Policy!RepeatsAreThrottled
<1>1. Promised!Spec => []Promised!LastAlertIsLastNotice
    BY Promised!LastAlertCorrect, IntervalAssumption, NoneAssumption
<1>2. Promised!Spec => []Promised!UsersAreInformed
    BY Promised!InformedCorrect, IntervalAssumption, NoneAssumption
<1>3. Promised!Spec => Promised!RepeatsAreThrottled
    BY Promised!ThrottleCorrect, IntervalAssumption, NoneAssumption
<1>4. Promised!LastAlertIsLastNotice => Policy!LastAlertIsLastNotice
    BY Zenon DEF Policy!LastAlertIsLastNotice, Promised!LastAlertIsLastNotice
<1>5. Promised!UsersAreInformed => Policy!UsersAreInformed
    BY Zenon
    DEF Policy!UsersAreInformed, Promised!UsersAreInformed, Policy!Rank, Promised!Rank,
        Policy!Status, Promised!Status, Policy!Importance, Promised!Importance
<1>6. Promised!RepeatsAreThrottled => Policy!RepeatsAreThrottled
    <2>1. Promised!Status = Policy!Status
        BY DEF Policy!Status, Promised!Status, Policy!Importance, Promised!Importance
    <2>2. \A status : Policy!UpdateNotifies(status) => Promised!UpdateNotifies(status)
        BY Zenon
        DEF Policy!UpdateNotifies, Promised!UpdateNotifies, Policy!Observed, Promised!Observed,
            Policy!Troubled, Promised!Troubled, Policy!AlertTime, Promised!AlertTime,
            Policy!Suppressed, Promised!Suppressed, Policy!MoreImportant,
            Promised!MoreImportant, Policy!Within, Promised!Within, Policy!Interval,
            Promised!Interval
    <2>3. Promised!Rank = Policy!Rank /\ \A status : Promised!Interval(status) = Policy!Interval(status)
        BY Zenon
        DEF Policy!Rank, Promised!Rank, Policy!Status, Promised!Status, Policy!Importance,
            Promised!Importance, Policy!Interval, Promised!Interval
    <2>4. [\A status \in Promised!Status \ {"PASSING"} :
              Promised!UpdateNotifies(status) /\ notice.status # "PASSING" =>
                  \/ notice.age >= Promised!Interval(status)
                  \/ Promised!Rank[status] > Promised!Rank[Bar.overall_status]]_Promised!vars
       => [\A status \in Policy!Status \ {"PASSING"} :
              Policy!UpdateNotifies(status) /\ notice.status # "PASSING" =>
                  \/ notice.age >= Policy!Interval(status)
                  \/ Policy!Rank[status] > Policy!Rank[Bar.overall_status]]_Policy!vars
        BY <2>1, <2>2, <2>3 DEF Policy!vars, Promised!vars
    <2> QED
        BY <2>4, PTL DEF Policy!RepeatsAreThrottled, Promised!RepeatsAreThrottled, Bar
<1> QED
    BY <1>1, <1>2, <1>3, <1>4, <1>5, <1>6, SamePolicy, PolicyImplemented, PTL
=============================================================================

---------------------------- MODULE DutyRotaProofs ----------------------------
(***************************************************************************)
(* Proofs about the rota, for every calendar, every number of updates,     *)
(* requests and kills.                                                     *)
(***************************************************************************)
EXTENDS DutyRotaAudit, FiniteSetTheorems, TLAPS

(* What the types leave is all that the steps need. *)
RotaTyped ==
    /\ listed \subseteq Events
    /\ version \in [Events -> Versions]
    /\ phase \in [Events -> {"future", "now", "past"}]
    /\ shifts \in [Events -> [Versions -> Nat]]
    /\ updater \in [Updaters -> Updating \cup {Idle}]
    /\ overlapped \in BOOLEAN

ProfilesTyped ==
    /\ fallback \subseteq Users
    /\ session \in [Sessions -> {{}} \cup {{u} : u \in Users}]
    /\ clash \in BOOLEAN

(* A task's copy of the calendar is never ahead of the calendar. *)
CopiesAreOld ==
    \A w \in Updaters : \A e \in Events, v \in Versions :
        updater[w] # Idle /\ <<e, v>> \in updater[w].todo => v <= version[e]

(* Tasks that never overlapped: one is at work at most, and it creates a row
   only where there is none. *)
Alone ==
    /\ \A w, other \in Updaters : w = other \/ updater[w] = Idle \/ updater[other] = Idle
    /\ \A w \in Updaters : updater[w].pc = "create" =>
          shifts[updater[w].event][updater[w].version] = 0
    /\ \A e \in Events, v \in Versions : shifts[e][v] <= 1

RotaInv == RotaTyped /\ CopiesAreOld /\ (~ overlapped => Alone)

(* Saves that do not overlap: a user about to become the fallback is the only
   one there is. *)
OneFallback ==
    /\ \A s \in Sessions : session[s] # {} =>
          fallback \subseteq session[s] /\ \A other \in Sessions \ {s} : session[other] = {}
    /\ \A u1, u2 \in fallback : u1 = u2

ProfilesInv == ProfilesTyped /\ (~ clash => OneFallback)
-----------------------------------------------------------------------------
LEMMA VersionsAreNat == Versions \subseteq Nat /\ 0 \in Versions
BY RotaAssumption DEF Versions

(* What a task at work is, and what it becomes after an event. *)
LEMMA UpdaterFields ==
    ASSUME NEW u \in Updating \cup {Idle}
    PROVE  /\ u # Idle => /\ u \in Updating
                          /\ u.pc \in {"fetched", "next", "get", "create"}
                          /\ u.todo \subseteq Events \X Versions
           /\ u.pc \in {"get", "create"} => /\ u \in Updating
                                            /\ u.event \in Events /\ u.version \in Versions
           /\ u.pc \in {"fetched", "next", "get", "create"} => u # Idle
BY DEF Updating, Idle

LEMMA LoopOK ==
    ASSUME NEW todo \in SUBSET (Events \X Versions)
    PROVE  /\ Loop(todo) \in Updating \cup {Idle}
           /\ Loop(todo).pc # "create"
           /\ Loop(todo) # Idle => Loop(todo).todo = todo
BY DEF Loop, Updating, Idle

LEMMA RotaInitInv == Init => RotaInv
<1> SUFFICES ASSUME Init PROVE RotaInv
    OBVIOUS
<1>1. RotaTyped
    BY VersionsAreNat DEF Init, RotaTyped
<1>2. \A w \in Updaters : updater[w] = Idle /\ updater[w].pc = "idle"
    BY DEF Init, Idle
<1>3. CopiesAreOld
    BY <1>2 DEF CopiesAreOld
<1>4. \A e \in Events, v \in Versions : shifts[e][v] = 0
    BY DEF Init
<1>5. Alone
    BY <1>2, <1>4 DEF Alone
<1> QED
    BY <1>1, <1>3, <1>5 DEF RotaInv

LEMMA CalendarInv ==
    ASSUME RotaInv, NEW e \in Events, Modify(e) \/ Unlist(e) \/ Pass(e)
    PROVE  RotaInv'
<1> USE DEF RotaInv, RotaTyped
<1>1. CASE Modify(e)
    <2>1. version[e] + 1 \in Versions
        BY <1>1, RotaAssumption DEF Modify, Versions
    <2>2. \A f \in Events : version[f] \in Nat /\ version'[f] \in Nat /\ version[f] <= version'[f]
        BY <1>1, RotaAssumption DEF Modify, Versions
    <2>3. RotaTyped'
        BY <1>1, <2>1 DEF Modify
    <2>4. ASSUME NEW w \in Updaters, NEW f \in Events, NEW v \in Versions,
                 updater[w] # Idle, <<f, v>> \in updater[w].todo
          PROVE  v <= version'[f]
        BY <2>2, <2>4, VersionsAreNat DEF CopiesAreOld
    <2> QED
        BY <1>1, <2>3, <2>4 DEF Modify, Alone, CopiesAreOld
<1>2. CASE Unlist(e)
    BY <1>2 DEF Unlist, CopiesAreOld, Alone
<1>3. CASE Pass(e)
    BY <1>3 DEF Pass, CopiesAreOld, Alone
<1> QED
    BY <1>1, <1>2, <1>3

LEMMA FetchInv == ASSUME RotaInv, NEW w \in Updaters, Fetch(w) PROVE RotaInv'
<1> USE DEF RotaInv
<1> DEFINE todo == {<<e, version[e]>> : e \in Expected}
           u == [pc |-> "fetched", todo |-> todo]
<1>1. /\ updater[w] = Idle
      /\ updater' = [updater EXCEPT ![w] = u]
      /\ overlapped' = (overlapped \/ \E other \in Updaters : updater[other] # Idle)
      /\ UNCHANGED <<listed, version, phase, shifts>>
    BY DEF Fetch
<1>2. todo \subseteq Events \X Versions
    BY DEF RotaTyped, Fetched, Expected
<1>3. \A e \in Events, v \in Versions : <<e, v>> \in todo => v <= version[e]
    BY VersionsAreNat DEF RotaTyped, Fetched, Expected
<1>4. u \in Updating /\ u.pc = "fetched" /\ u.todo = todo
    BY <1>2 DEF Updating
<1> HIDE DEF todo, u
<1>5. overlapped' \in BOOLEAN
    <2>1. CASE overlapped \/ \E other \in Updaters : updater[other] # Idle
        BY <1>1, <2>1, Zenon
    <2>2. CASE ~ (overlapped \/ \E other \in Updaters : updater[other] # Idle)
        BY <1>1, <2>2, Zenon
    <2> QED
        BY <2>1, <2>2
<1>6. RotaTyped'
    BY <1>1, <1>4, <1>5 DEF RotaTyped
<1>7. CopiesAreOld'
    BY <1>1, <1>3, <1>4 DEF CopiesAreOld, RotaTyped
<1>8. ~ overlapped' => Alone'
    <2>1. ~ overlapped' => ~ overlapped /\ \A other \in Updaters : updater[other] = Idle
        BY <1>1, Zenon
    <2> QED
        BY <2>1, <1>1, <1>4 DEF Alone, RotaTyped
<1> QED
    BY <1>6, <1>7, <1>8

(* A task goes on, or ends, with no more of its copy than it had. *)
LEMMA StepInv ==
    ASSUME RotaInv, NEW w \in Updaters, NEW u \in Updating \cup {Idle},
           updater[w] # Idle, updater' = [updater EXCEPT ![w] = u],
           u # Idle => u.todo \subseteq updater[w].todo,
           u.pc = "create" => shifts'[u.event][u.version] = 0,
           shifts' \in [Events -> [Versions -> Nat]],
           ~ overlapped => \A e \in Events, v \in Versions : shifts'[e][v] <= 1,
           UNCHANGED <<listed, version, phase, overlapped>>
    PROVE  RotaInv'
<1> USE DEF RotaInv
<1>1. RotaTyped'
    BY DEF RotaTyped
<1>2. CopiesAreOld'
    BY DEF RotaTyped, CopiesAreOld
<1>3. ASSUME ~ overlapped PROVE Alone'
    <2>1. \A other \in Updaters \ {w} : updater'[other] = Idle
        BY <1>3 DEF Alone, RotaTyped
    <2>2. updater'[w] = u
        BY DEF RotaTyped
    <2>3. \A other \in Updaters \ {w} : updater'[other].pc # "create"
        BY <2>1 DEF Idle
    <2> QED
        BY <1>3, <2>1, <2>2, <2>3 DEF Alone
<1> QED
    BY <1>1, <1>2, <1>3

LEMMA MarkFutureInv == ASSUME RotaInv, NEW w \in Updaters, MarkFuture(w) PROVE RotaInv'
<1>1. /\ updater[w] \in Updating \cup {Idle} /\ updater[w].pc = "fetched"
      /\ updater[w] # Idle /\ updater[w].todo \in SUBSET (Events \X Versions)
    BY UpdaterFields DEF MarkFuture, RotaInv, RotaTyped
<1>2. shifts' \in [Events -> [Versions -> Nat]]
    BY DEF MarkFuture, RotaInv, RotaTyped
<1>3. ~ overlapped => \A e \in Events, v \in Versions : shifts'[e][v] <= 1
    BY DEF MarkFuture, RotaInv, RotaTyped, Alone
<1> DEFINE u == Loop(updater[w].todo)
<1>4. u \in Updating \cup {Idle} /\ u.pc # "create" /\ (u # Idle => u.todo = updater[w].todo)
    BY <1>1, LoopOK
<1>5. updater' = [updater EXCEPT ![w] = u] /\ UNCHANGED <<listed, version, phase, overlapped>>
    BY DEF MarkFuture
<1> HIDE DEF u
<1> QED
    BY <1>1, <1>2, <1>3, <1>4, <1>5, StepInv

LEMMA DeleteOldInv == ASSUME RotaInv, NEW w \in Updaters, DeleteOld(w) PROVE RotaInv'
<1>1. PICK e \in Events, current \in Versions :
        /\ <<e, current>> \in updater[w].todo
        /\ shifts' = [shifts EXCEPT ![e] = [v \in Versions |-> IF v < current THEN 0 ELSE @[v]]]
        /\ updater' = [updater EXCEPT ![w] = [pc |-> "get", event |-> e, version |-> current,
                                              todo |-> updater[w].todo \ {<<e, current>>}]]
    BY DEF DeleteOld
<1>2. /\ updater[w] \in Updating \cup {Idle} /\ updater[w].pc = "next"
      /\ updater[w] # Idle /\ updater[w].todo \subseteq Events \X Versions
    BY UpdaterFields DEF DeleteOld, RotaInv, RotaTyped
<1>3. shifts' \in [Events -> [Versions -> Nat]]
    BY <1>1 DEF RotaInv, RotaTyped
<1>4. ~ overlapped => \A f \in Events, v \in Versions : shifts'[f][v] <= 1
    BY <1>1 DEF RotaInv, RotaTyped, Alone
<1> DEFINE u == [pc |-> "get", event |-> e, version |-> current,
                 todo |-> updater[w].todo \ {<<e, current>>}]
<1>5. u \in Updating /\ u.pc # "create" /\ u.todo \subseteq updater[w].todo
    BY <1>2 DEF Updating
<1>6. updater' = [updater EXCEPT ![w] = u] /\ UNCHANGED <<listed, version, phase, overlapped>>
    BY <1>1 DEF DeleteOld
<1> HIDE DEF u
<1> QED
    BY <1>2, <1>3, <1>4, <1>5, <1>6, StepInv

LEMMA GetInv == ASSUME RotaInv, NEW w \in Updaters, Get(w) PROVE RotaInv'
<1> DEFINE old == updater[w]
           rows == shifts[old.event][old.version]
           u == CASE rows = 0 -> [old EXCEPT !.pc = "create"]
                  [] rows = 1 -> Loop(old.todo)
                  [] OTHER -> Idle
<1>1. /\ old \in Updating /\ old.pc = "get" /\ old # Idle
      /\ old.todo \in SUBSET (Events \X Versions)
      /\ old.event \in Events /\ old.version \in Versions
    BY UpdaterFields DEF Get, RotaInv, RotaTyped
<1>2. updater' = [updater EXCEPT ![w] = u] /\ UNCHANGED <<listed, version, phase, shifts, overlapped>>
    BY DEF Get, RotaInv, RotaTyped
<1>3. /\ u \in Updating \cup {Idle}
      /\ u # Idle => u.todo \subseteq old.todo
      /\ u.pc = "create" => shifts[u.event][u.version] = 0
    <2> HIDE DEF old
    <2>1. CASE rows = 0
        <3>1. u = [old EXCEPT !.pc = "create"]
            BY <2>1
        <3>2. [old EXCEPT !.pc = "create"] \in Updating
            BY <1>1 DEF Updating
        <3>3. u.event = old.event /\ u.version = old.version /\ u.todo = old.todo
            BY <1>1, <3>1 DEF Updating
        <3> QED
            BY <2>1, <3>1, <3>2, <3>3
    <2>2. CASE rows = 1
        <3>1. u = Loop(old.todo)
            BY <2>2
        <3> QED
            BY <1>1, <3>1, LoopOK
    <2>3. CASE rows # 0 /\ rows # 1
        <3>1. u = Idle
            BY <2>3
        <3> QED
            BY <3>1 DEF Idle
    <2> QED
        BY <2>1, <2>2, <2>3
<1>4. /\ shifts' \in [Events -> [Versions -> Nat]]
      /\ ~ overlapped => \A e \in Events, v \in Versions : shifts'[e][v] <= 1
    BY <1>2 DEF RotaInv, RotaTyped, Alone
<1>5. old = updater[w]
    OBVIOUS
<1> HIDE DEF u, old
<1> QED
    BY <1>1, <1>2, <1>3, <1>4, <1>5, StepInv

LEMMA CreateInv == ASSUME RotaInv, NEW w \in Updaters, Create(w) PROVE RotaInv'
<1>1. /\ updater[w] \in Updating /\ updater[w].pc = "create" /\ updater[w] # Idle
      /\ updater[w].todo \in SUBSET (Events \X Versions)
      /\ updater[w].event \in Events /\ updater[w].version \in Versions
    BY UpdaterFields DEF Create, RotaInv, RotaTyped
<1> DEFINE u == Loop(updater[w].todo)
<1>2. u \in Updating \cup {Idle} /\ u.pc # "create" /\ (u # Idle => u.todo = updater[w].todo)
    BY <1>1, LoopOK
<1>3. updater' = [updater EXCEPT ![w] = u] /\ UNCHANGED <<listed, version, phase, overlapped>>
    BY DEF Create
<1>4. shifts' \in [Events -> [Versions -> Nat]]
    BY <1>1 DEF Create, RotaInv, RotaTyped
<1>5. ~ overlapped => \A e \in Events, v \in Versions : shifts'[e][v] <= 1
    BY <1>1 DEF Create, RotaInv, RotaTyped, Alone
<1> HIDE DEF u
<1> QED
    BY <1>1, <1>2, <1>3, <1>4, <1>5, StepInv

LEMMA RotaNextInv == ASSUME RotaInv, [Next]_vars PROVE RotaInv'
<1>1. CASE UNCHANGED rota
    BY <1>1 DEF rota, RotaInv, RotaTyped, CopiesAreOld, Alone
<1>2. ASSUME NEW w \in Updaters, UpdateShifts(w)
      PROVE  RotaInv'
    BY <1>2, FetchInv, MarkFutureInv, DeleteOldInv, GetInv, CreateInv DEF UpdateShifts
<1>3. ASSUME NEW u \in Users, Disable(u)
      PROVE  RotaInv'
    BY <1>3 DEF Disable, RotaInv, RotaTyped, CopiesAreOld, Alone
<1>4. ASSUME NEW w \in Updaters, updater[w] # Idle, updater' = [updater EXCEPT ![w] = Idle],
             UNCHANGED <<listed, version, phase, active, shifts, overlapped, profiles>>
      PROVE  RotaInv'
    <2>1. Idle.pc # "create"
        BY DEF Idle
    <2>2. /\ shifts' \in [Events -> [Versions -> Nat]]
          /\ ~ overlapped => \A e \in Events, v \in Versions : shifts'[e][v] <= 1
        BY <1>4 DEF RotaInv, RotaTyped, Alone
    <2> QED
        BY <1>4, <2>1, <2>2, StepInv
<1>5. CASE Crash
    <2>1. \/ UNCHANGED rota
          \/ \E w \in Updaters : /\ updater[w] # Idle /\ updater' = [updater EXCEPT ![w] = Idle]
                                 /\ UNCHANGED <<listed, version, phase, active, shifts,
                                                overlapped, profiles>>
        BY <1>5 DEF Crash
    <2> QED
        BY <2>1, <1>1, <1>4
<1>6. ASSUME NEW s \in Sessions, SaveFallback(s) \/ \E u \in Users : SaveOther(s, u) \/ ClearOthers(s, u)
      PROVE  UNCHANGED rota
    BY <1>6 DEF SaveFallback, SaveOther, ClearOthers
<1>7. CASE UNCHANGED vars
    BY <1>7, <1>1 DEF vars
<1> QED
    BY <1>1, <1>2, <1>3, <1>5, <1>6, <1>7, CalendarInv DEF Next
-----------------------------------------------------------------------------
LEMMA ProfilesInitInv == Init => ProfilesInv
BY DEF Init, ProfilesInv, ProfilesTyped, OneFallback

LEMMA ProfilesNextInv == ASSUME ProfilesInv, [Next]_vars PROVE ProfilesInv'
<1> USE DEF ProfilesInv
<1>1. CASE UNCHANGED profiles
    BY <1>1 DEF profiles, ProfilesTyped, OneFallback
<1>2. ASSUME NEW s \in Sessions, NEW u \in Users, SaveOther(s, u)
      PROVE  ProfilesInv'
    BY <1>2 DEF SaveOther, ProfilesTyped, OneFallback
<1>3. ASSUME NEW s \in Sessions, NEW u \in Users, ClearOthers(s, u)
      PROVE  ProfilesInv'
    <2>1. /\ session' = [session EXCEPT ![s] = {u}]
          /\ fallback' = fallback \cap {u}
          /\ clash' = \E other \in Sessions : session[other] # {}
        BY <1>3 DEF ClearOthers
    <2>2. clash' \in BOOLEAN
        <3>1. CASE \E other \in Sessions : session[other] # {}
            BY <2>1, <3>1, Zenon
        <3>2. CASE ~ \E other \in Sessions : session[other] # {}
            BY <2>1, <3>2, Zenon
        <3> QED
            BY <3>1, <3>2
    <2>3. ~ clash' => \A other \in Sessions : session[other] = {}
        BY <2>1, Zenon
    <2>4. ProfilesTyped'
        BY <2>1, <2>2 DEF ProfilesTyped
    <2> QED
        BY <2>1, <2>3, <2>4 DEF ProfilesTyped, OneFallback
<1>4. ASSUME NEW s \in Sessions, SaveFallback(s)
      PROVE  ProfilesInv'
    <2>1. PICK u \in Users : session[s] = {u}
        BY <1>4 DEF SaveFallback, ProfilesTyped
    <2>2. ProfilesTyped'
        BY <1>4, <2>1 DEF SaveFallback, ProfilesTyped
    <2>3. ASSUME ~ clash PROVE OneFallback'
        <3>1. fallback' = {u} /\ \A other \in Sessions : session'[other] = {}
            BY <1>4, <2>1, <2>3 DEF SaveFallback, ProfilesTyped, OneFallback
        <3> QED
            BY <3>1 DEF OneFallback
    <2> QED
        BY <1>4, <2>2, <2>3 DEF SaveFallback
<1>5. CASE Crash
    <2>1. CASE UNCHANGED profiles
        BY <2>1, <1>1
    <2>2. ASSUME NEW s \in Sessions, session' = [session EXCEPT ![s] = {}],
                 UNCHANGED <<fallback, clash>>
          PROVE  ProfilesInv'
        BY <2>2 DEF ProfilesTyped, OneFallback
    <2> QED
        BY <1>5, <2>1, <2>2 DEF Crash
<1>6. ASSUME \/ \E e \in Events : Modify(e) \/ Unlist(e) \/ Pass(e)
             \/ \E u \in Users : Disable(u)
             \/ \E w \in Updaters : UpdateShifts(w)
             \/ UNCHANGED vars
      PROVE  UNCHANGED profiles
    BY <1>6 DEF Modify, Unlist, Pass, Disable, UpdateShifts, Fetch, MarkFuture, DeleteOld,
                Get, Create, vars
<1> QED
    BY <1>1, <1>2, <1>3, <1>4, <1>5, <1>6 DEF Next
-----------------------------------------------------------------------------
LEMMA BothInv == Spec => [](RotaInv /\ ProfilesInv)
<1>1. RotaInv /\ ProfilesInv /\ [Next]_vars => (RotaInv /\ ProfilesInv)'
    BY RotaNextInv, ProfilesNextInv
<1> QED
    BY <1>1, RotaInitInv, ProfilesInitInv, PTL DEF Spec

(* The rota keeps its state in its types (the Shift and UserProfile columns of
   base.py:875 and base.py:908). *)
THEOREM RotaTypes == Spec => []TypeOK
<1> DEFINE Rest == active \subseteq Users /\ crashes \in 0 .. MaxCrashes
<1>1. Init => Rest
    BY RotaAssumption DEF Init
<1>2. Rest /\ [Next]_vars => Rest'
    <2> SUFFICES ASSUME Rest, [Next]_vars PROVE Rest'
        OBVIOUS
    <2>1. active' \subseteq Users
        BY DEF Next, Modify, Unlist, Pass, Disable, UpdateShifts, Fetch, MarkFuture, DeleteOld,
               Get, Create, SaveFallback, SaveOther, ClearOthers, Crash, vars, rota
    <2>2. crashes' = crashes \/ (crashes < MaxCrashes /\ crashes' = crashes + 1)
        BY DEF Next, Modify, Unlist, Pass, Disable, UpdateShifts, Fetch, MarkFuture, DeleteOld,
               Get, Create, SaveFallback, SaveOther, ClearOthers, Crash, vars
    <2> QED
        BY <2>1, <2>2, RotaAssumption
<1>3. RotaInv /\ ProfilesInv /\ Rest => TypeOK
    BY DEF RotaInv, RotaTyped, ProfilesInv, ProfilesTyped, TypeOK
<1> QED
    BY <1>1, <1>2, <1>3, BothInv, PTL DEF Spec

(* An officer in the middle of a shift loses it only to a newer version of the
   event: update_shifts() marks future shifts (base.py:945), and deletes those
   under way that are older than its copy of the event (base.py:957), which is
   itself no newer than the event. *)
THEOREM CurrentShifts == Spec => CurrentShiftIsKept
<1>1. ASSUME RotaInv, [Next]_vars, NEW e \in Events, NEW v \in Versions,
             phase[e] = "now", shifts[e][v] > 0, shifts'[e][v] = 0
      PROVE  v < version[e]
    <2> USE <1>1
    <2>1. CASE UNCHANGED shifts
        BY <2>1
    <2>2. ASSUME NEW w \in Updaters, UpdateShifts(w), shifts' # shifts
          PROVE  v < version[e]
        <3>1. CASE MarkFuture(w)
            BY <3>1 DEF MarkFuture, RotaInv, RotaTyped
        <3>2. CASE DeleteOld(w)
            <4>1. PICK f \in Events, current \in Versions :
                    /\ <<f, current>> \in updater[w].todo
                    /\ shifts' = [shifts EXCEPT ![f] =
                                    [u \in Versions |-> IF u < current THEN 0 ELSE @[u]]]
                BY <3>2 DEF DeleteOld
            <4>2. f = e /\ v < current
                BY <4>1 DEF RotaInv, RotaTyped
            <4>3. updater[w] # Idle
                BY <3>2 DEF DeleteOld, Idle
            <4>4. current <= version[e]
                BY <4>1, <4>2, <4>3 DEF RotaInv, CopiesAreOld
            <4>5. {v, current, version[e]} \subseteq Nat
                BY VersionsAreNat DEF RotaInv, RotaTyped
            <4> QED
                BY <4>2, <4>4, <4>5
        <3>3. CASE Create(w)
            BY <3>3 DEF Create, RotaInv, RotaTyped
        <3> QED
            BY <2>2, <3>1, <3>2, <3>3 DEF UpdateShifts, Fetch, Get
    <2> QED
        BY <2>1, <2>2 DEF Next, Modify, Unlist, Pass, Disable, SaveFallback, SaveOther,
                          ClearOthers, Crash, vars, rota
<1>2. RotaInv /\ [Next]_vars =>
        [\A e \in Events, v \in Versions :
           phase[e] = "now" /\ shifts[e][v] > 0 /\ shifts'[e][v] = 0 => v < version[e]]_vars
    BY <1>1
<1> QED
    BY <1>2, BothInv, PTL DEF Spec, CurrentShiftIsKept

(* Updates that never overlap leave get_or_create() (base.py:960) one row at most
   to find. *)
THEOREM DuplicatesOverlapped == Spec => []DuplicatesNeedOverlap
<1>1. RotaInv => DuplicatesNeedOverlap
    <2> SUFFICES ASSUME RotaInv, ~ overlapped, NEW e \in Events, NEW v \in Versions
                 PROVE  ~ (shifts[e][v] > 1)
        BY DEF DuplicatesNeedOverlap
    <2> QED
        BY DEF RotaInv, RotaTyped, Alone
<1> QED
    BY <1>1, BothInv, PTL

(* With one fallback user at most, get_duty_officers() does not raise: saves of
   the fallback (base.py:887) that do not overlap see to it. *)
THEOREM OfficersFound == Spec => []AlertsHaveOfficers
<1>1. ProfilesInv /\ ~ clash => ~ (Cardinality(fallback) > 1)
    <2> SUFFICES ASSUME ProfilesInv, ~ clash PROVE ~ (Cardinality(fallback) > 1)
        OBVIOUS
    <2>1. CASE fallback = {}
        BY <2>1, FS_EmptySet
    <2>2. CASE fallback # {}
        <3>1. PICK u : fallback = {u}
            BY <2>2 DEF ProfilesInv, OneFallback
        <3>2. Cardinality({u}) = 1
            BY FS_Singleton, Zenon
        <3> QED
            BY <3>1, <3>2
    <2> QED
        BY <2>1, <2>2
<1>2. ProfilesInv => AlertsHaveOfficers
    BY <1>1 DEF AlertsHaveOfficers, DutyOfficersRaises
<1> QED
    BY <1>2, BothInv, PTL
-----------------------------------------------------------------------------
(* What an update that nothing has disturbed has done to the rows: an event it
   expects is still to be seen to, or has one row; a shift to come of any other
   event is gone once the shifts have been marked. *)
Done(rows, e) ==
    \A v \in Versions : v <= version[e] => rows[e][v] = IF v = version[e] THEN 1 ELSE 0

Absent(rows, e) == \A v \in Versions : rows[e][v] = 0

Pending(u, e) == <<e, version[e]>> \in u.todo \/ (u.pc \in {"get", "create"} /\ u.event = e)

ToDo(todo) == \A e \in Events, v \in Versions : <<e, v>> \in todo => e \in Expected /\ v = version[e]

OthersGone(rows) == \A e \in Events \ Expected : phase[e] = "future" => Absent(rows, e)

(* The event in hand has no row of an older version, and none at all when one is
   about to be created. *)
InHand(u, rows) ==
    /\ u.event \in Expected /\ u.version = version[u.event]
    /\ \A v \in Versions : v < u.version => rows[u.event][v] = 0
    /\ u.pc = "create" => rows[u.event][u.version] = 0

TaskFits(u, rows) ==
    /\ ToDo(u.todo)
    /\ u.pc = "fetched" => \A e \in Expected : <<e, version[e]>> \in u.todo
    /\ u.pc # "fetched" => OthersGone(rows) /\ \A e \in Expected : Pending(u, e) \/ Done(rows, e)
    /\ u.pc \in {"get", "create"} => InHand(u, rows)

RowsFit(rows) ==
    \/ \E e \in Events : rows[e][version[e]] > 1
    \/ OthersGone(rows) /\ \A e \in Expected : Done(rows, e)

OneAtWork == \A w, other \in Updaters : w = other \/ updater[w] = Idle \/ updater[other] = Idle

UpdateFits ==
    /\ OneAtWork
    /\ \A w \in Updaters : updater[w] # Idle => TaskFits(updater[w], shifts)
    /\ (\A w \in Updaters : updater[w] = Idle) => RowsFit(shifts)

ExactInv == clean => UpdateFits

LEMMA ExpectedEvents == RotaTyped => Expected \subseteq Events
BY DEF Expected, Fetched, RotaTyped

(* The newest version has one row and, as all that is in hand, no older one has. *)
LEMMA DoneWith ==
    ASSUME NEW e \in Events, version[e] \in Versions, NEW rows, rows[e][version[e]] = 1,
           \A v \in Versions : v < version[e] => rows[e][v] = 0
    PROVE  Done(rows, e)
<1>1. ASSUME NEW v \in Versions, v <= version[e] PROVE v = version[e] \/ v < version[e]
    <2>1. v \in Nat /\ version[e] \in Nat
        BY VersionsAreNat
    <2> QED
        BY <1>1, <2>1
<1> QED
    BY <1>1 DEF Done

(* While calendar, clock and users stay as they are, so does what is expected. *)
LEMMA FitsNext ==
    ASSUME UNCHANGED <<listed, version, phase, active>>, OneAtWork',
           \A w \in Updaters : updater'[w] # Idle => TaskFits(updater'[w], shifts'),
           (\A w \in Updaters : updater'[w] = Idle) => RowsFit(shifts')
    PROVE  UpdateFits'
<1>1. Expected' = Expected
    BY DEF Expected, Fetched
<1>2. ASSUME NEW w \in Updaters, updater'[w] # Idle
      PROVE  TaskFits(updater[w], shifts)'
    <2>1. TaskFits(updater'[w], shifts')
        BY <1>2
    <2> QED
        BY <1>1, <2>1 DEF TaskFits, ToDo, OthersGone, Absent, Done, Pending, InHand
<1>3. (\A w \in Updaters : updater'[w] = Idle) => RowsFit(shifts)'
    <2> SUFFICES ASSUME RowsFit(shifts') PROVE RowsFit(shifts)'
        OBVIOUS
    <2> QED
        BY <1>1 DEF RowsFit, OthersGone, Absent, Done
<1> QED
    BY <1>2, <1>3 DEF UpdateFits

(* The one task at work goes on as u. *)
LEMMA TaskMoves ==
    ASSUME UpdateFits, UNCHANGED <<listed, version, phase, active>>,
           updater \in [Updaters -> Updating \cup {Idle}],
           NEW w \in Updaters, updater[w] # Idle, NEW u, updater' = [updater EXCEPT ![w] = u],
           u # Idle => TaskFits(u, shifts'),
           u = Idle => RowsFit(shifts')
    PROVE  UpdateFits'
<1>1. updater'[w] = u /\ \A other \in Updaters \ {w} : updater'[other] = Idle
    BY DEF UpdateFits, OneAtWork
<1>2. OneAtWork'
    BY <1>1 DEF OneAtWork
<1>3. \A other \in Updaters : updater'[other] # Idle => TaskFits(updater'[other], shifts')
    BY <1>1
<1> QED
    BY <1>1, <1>2, <1>3, FitsNext

(* The loop goes on with what is to do, or has seen to every event. *)
LEMMA LoopFits ==
    ASSUME NEW todo \in SUBSET (Events \X Versions), ToDo(todo), NEW rows, OthersGone(rows),
           \A e \in Expected : <<e, version[e]>> \in todo \/ Done(rows, e)
    PROVE  /\ Loop(todo) # Idle => TaskFits(Loop(todo), rows)
           /\ Loop(todo) = Idle => RowsFit(rows)
<1>1. CASE todo = {}
    BY <1>1 DEF Loop, RowsFit
<1>2. CASE todo # {}
    <2>1. Loop(todo) = [pc |-> "next", todo |-> todo]
        BY <1>2 DEF Loop
    <2> QED
        BY <2>1 DEF TaskFits, Pending, Idle
<1> QED
    BY <1>1, <1>2

LEMMA FetchFits ==
    ASSUME RotaTyped, NEW w \in Updaters, Fetch(w), \A other \in Updaters : updater[other] = Idle
    PROVE  UpdateFits'
<1> DEFINE u == [pc |-> "fetched", todo |-> {<<e, version[e]>> : e \in Expected}]
<1>1. updater' = [updater EXCEPT ![w] = u] /\ UNCHANGED <<listed, version, phase, active, shifts>>
    BY DEF Fetch
<1>2. TaskFits(u, shifts)
    BY DEF TaskFits, ToDo
<1> HIDE DEF u
<1>3. updater'[w] = u /\ \A other \in Updaters \ {w} : updater'[other] = Idle
    BY <1>1 DEF RotaTyped
<1>4. OneAtWork'
    BY <1>3 DEF OneAtWork
<1>5. updater'[w] # Idle
    BY <1>3 DEF u, Idle
<1> QED
    BY <1>1, <1>2, <1>3, <1>4, <1>5, FitsNext

LEMMA MarkFutureFits ==
    ASSUME RotaTyped, UpdateFits, NEW w \in Updaters, MarkFuture(w)
    PROVE  UpdateFits'
<1>1. /\ updater[w] # Idle /\ updater[w].pc = "fetched"
      /\ updater[w].todo \in SUBSET (Events \X Versions) /\ TaskFits(updater[w], shifts)
    BY UpdaterFields DEF MarkFuture, RotaTyped, UpdateFits
<1>2. /\ UNCHANGED <<listed, version, phase, active>>
      /\ updater' = [updater EXCEPT ![w] = Loop(updater[w].todo)]
      /\ shifts' = [e \in Events |-> IF phase[e] = "future" THEN [v \in Versions |-> 0]
                                     ELSE shifts[e]]
    BY DEF MarkFuture
<1>3. OthersGone(shifts')
    BY <1>2 DEF OthersGone, Absent
<1>4. ToDo(updater[w].todo) /\ \A e \in Expected : <<e, version[e]>> \in updater[w].todo
    BY <1>1 DEF TaskFits
<1> QED
    BY <1>1, <1>2, <1>3, <1>4, LoopFits, TaskMoves DEF RotaTyped

LEMMA DeleteOldFits ==
    ASSUME RotaTyped, UpdateFits, NEW w \in Updaters, DeleteOld(w),
           UNCHANGED <<listed, version, phase, active>>
    PROVE  UpdateFits'
<1>1. PICK e \in Events, current \in Versions :
        /\ <<e, current>> \in updater[w].todo
        /\ shifts' = [shifts EXCEPT ![e] = [v \in Versions |-> IF v < current THEN 0 ELSE @[v]]]
        /\ updater' = [updater EXCEPT ![w] = [pc |-> "get", event |-> e, version |-> current,
                                              todo |-> updater[w].todo \ {<<e, current>>}]]
    BY DEF DeleteOld
<1>2. updater[w] # Idle /\ updater[w].pc = "next" /\ TaskFits(updater[w], shifts)
    BY UpdaterFields DEF DeleteOld, RotaTyped, UpdateFits
<1> DEFINE u == [pc |-> "get", event |-> e, version |-> current,
                 todo |-> updater[w].todo \ {<<e, current>>}]
<1>3. e \in Expected /\ current = version[e]
    BY <1>1, <1>2 DEF TaskFits, ToDo
<1>4. ToDo(u.todo)
    BY <1>2 DEF TaskFits, ToDo
<1>5. InHand(u, shifts')
    BY <1>1, <1>3 DEF InHand, RotaTyped
<1>6. OthersGone(shifts')
    BY <1>1, <1>2, <1>3 DEF TaskFits, OthersGone, Absent, RotaTyped
<1>7. ASSUME NEW f \in Expected PROVE Pending(u, f) \/ Done(shifts', f)
    <2>1. CASE f = e
        BY <2>1 DEF Pending
    <2>2. CASE f # e
        <3>1. shifts'[f] = shifts[f] /\ (Pending(updater[w], f) => Pending(u, f))
            BY <1>1, <1>2, <2>2, ExpectedEvents DEF Pending, RotaTyped
        <3> QED
            BY <1>2, <3>1 DEF TaskFits, Done
    <2> QED
        BY <2>1, <2>2
<1>8. TaskFits(u, shifts') /\ u # Idle
    BY <1>4, <1>5, <1>6, <1>7 DEF TaskFits, Idle
<1> HIDE DEF u
<1>9. updater' = [updater EXCEPT ![w] = u]
    BY <1>1 DEF u
<1> QED
    BY <1>2, <1>8, <1>9, TaskMoves DEF RotaTyped

LEMMA GetFits ==
    ASSUME RotaTyped, UpdateFits, NEW w \in Updaters, Get(w),
           UNCHANGED <<listed, version, phase, active>>
    PROVE  UpdateFits'
<1> DEFINE old == updater[w]
           rows == shifts[old.event][old.version]
           u == CASE rows = 0 -> [old EXCEPT !.pc = "create"]
                  [] rows = 1 -> Loop(old.todo)
                  [] OTHER -> Idle
<1>1. /\ old \in Updating /\ old.pc = "get" /\ old # Idle
      /\ old.todo \in SUBSET (Events \X Versions)
      /\ old.event \in Events /\ old.version \in Versions /\ TaskFits(old, shifts)
    BY UpdaterFields DEF Get, RotaTyped, UpdateFits
<1>2. updater' = [updater EXCEPT ![w] = u] /\ shifts' = shifts
    BY DEF Get, RotaTyped
<1>3. /\ InHand(old, shifts) /\ ToDo(old.todo) /\ OthersGone(shifts)
      /\ \A e \in Expected : Pending(old, e) \/ Done(shifts, e)
    BY <1>1 DEF TaskFits
<1>4. rows \in Nat
    BY <1>1 DEF RotaTyped
<1>5. /\ u # Idle => TaskFits(u, shifts)
      /\ u = Idle => RowsFit(shifts)
    <2> HIDE DEF old
    <2>1. CASE rows = 0
        <3>1. /\ u = [old EXCEPT !.pc = "create"]
              /\ u.pc = "create" /\ u.event = old.event /\ u.version = old.version
              /\ u.todo = old.todo /\ u # Idle
            BY <1>1, <2>1 DEF Updating, Idle
        <3>2. InHand(u, shifts) /\ ToDo(u.todo)
            BY <1>3, <2>1, <3>1 DEF InHand
        <3>3. \A e \in Expected : Pending(u, e) \/ Done(shifts, e)
            BY <1>3, <3>1 DEF Pending
        <3> QED
            BY <1>3, <3>1, <3>2, <3>3 DEF TaskFits
    <2>2. CASE rows = 1
        <3>1. Done(shifts, old.event)
            BY <1>1, <1>3, <2>2, DoneWith DEF InHand
        <3>2. \A e \in Expected : <<e, version[e]>> \in old.todo \/ Done(shifts, e)
            BY <1>3, <3>1 DEF Pending
        <3>3. u = Loop(old.todo)
            BY <2>2
        <3> QED
            BY <1>1, <1>3, <3>2, <3>3, LoopFits
    <2>3. CASE rows # 0 /\ rows # 1
        BY <1>1, <1>3, <1>4, <2>3 DEF InHand, RowsFit
    <2> QED
        BY <2>1, <2>2, <2>3
<1>6. old = updater[w]
    OBVIOUS
<1> HIDE DEF u, old
<1> QED
    BY <1>1, <1>2, <1>5, <1>6, TaskMoves DEF RotaTyped

LEMMA CreateFits ==
    ASSUME RotaTyped, UpdateFits, NEW w \in Updaters, Create(w),
           UNCHANGED <<listed, version, phase, active>>
    PROVE  UpdateFits'
<1> DEFINE old == updater[w]
<1>1. /\ old \in Updating /\ old.pc = "create" /\ old # Idle
      /\ old.todo \in SUBSET (Events \X Versions)
      /\ old.event \in Events /\ old.version \in Versions /\ TaskFits(old, shifts)
    BY UpdaterFields DEF Create, RotaTyped, UpdateFits
<1>2. /\ updater' = [updater EXCEPT ![w] = Loop(old.todo)]
      /\ shifts' = [shifts EXCEPT ![old.event][old.version] = @ + 1]
    BY DEF Create, RotaTyped
<1>3. /\ InHand(old, shifts) /\ ToDo(old.todo) /\ OthersGone(shifts)
      /\ \A e \in Expected : Pending(old, e) \/ Done(shifts, e)
    BY <1>1 DEF TaskFits
<1> HIDE DEF old
<1>4. Done(shifts', old.event)
    <2>1. shifts'[old.event][old.version] = 1
        BY <1>1, <1>2, <1>3 DEF InHand, RotaTyped
    <2>2. \A v \in Versions : v < old.version => shifts'[old.event][v] = 0
        BY <1>1, <1>2, <1>3, VersionsAreNat DEF InHand, RotaTyped
    <2> QED
        BY <1>1, <1>3, <2>1, <2>2, DoneWith DEF InHand
<1>5. \A e \in Events \ {old.event} : shifts'[e] = shifts[e]
    BY <1>1, <1>2 DEF RotaTyped
<1>6. \A e \in Expected : <<e, version[e]>> \in old.todo \/ Done(shifts', e)
    BY <1>3, <1>4, <1>5, ExpectedEvents DEF Pending, Done
<1>7. OthersGone(shifts')
    BY <1>3, <1>5 DEF InHand, OthersGone, Absent
<1>8. old = updater[w]
    BY DEF old
<1> QED
    BY <1>1, <1>2, <1>3, <1>6, <1>7, <1>8, LoopFits, TaskMoves DEF RotaTyped

(* What leaves the history clean: a first query made alone, or a step of an
   update that does nothing but go on. *)
LEMMA CleanMoves ==
    ASSUME AuditNext, clean'
    PROVE  \/ \E w \in Updaters : Fetch(w) /\ \A other \in Updaters : updater[other] = Idle
           \/ /\ clean /\ UNCHANGED <<listed, version, phase, active, crashes>>
              /\ ~ \E w \in Updaters : Fetch(w)
<1>1. CASE \E w \in Updaters : Fetch(w)
    <2>1. clean' = \A w \in Updaters : updater[w] = Idle
        BY <1>1, Zenon DEF AuditNext, CleanStep
    <2> QED
        BY <1>1, <2>1
<1>2. CASE ~ \E w \in Updaters : Fetch(w)
    <2>1. clean' = (clean /\ UNCHANGED <<listed, version, phase, active, crashes>>)
        BY <1>2, Zenon DEF AuditNext, CleanStep
    <2> QED
        BY <1>2, <2>1
<1> QED
    BY <1>1, <1>2

LEMMA ExactNext == ASSUME RotaTyped, crashes \in Nat, ExactInv, [AuditNext]_auditVars PROVE ExactInv'
<1> SUFFICES ASSUME clean' PROVE UpdateFits'
    BY DEF ExactInv
<1>1. ASSUME UpdateFits, UNCHANGED <<listed, version, phase, active, shifts, updater>>
      PROVE  UpdateFits'
    BY <1>1, FitsNext DEF UpdateFits, OneAtWork
<1>2. CASE UNCHANGED auditVars
    BY <1>1, <1>2 DEF auditVars, vars, rota, ExactInv
<1>3. CASE AuditNext
    <2>1. ASSUME NEW w \in Updaters, Fetch(w), \A other \in Updaters : updater[other] = Idle
          PROVE  UpdateFits'
        BY <2>1, FetchFits
    <2>2. CASE /\ clean /\ UNCHANGED <<listed, version, phase, active, crashes>>
               /\ ~ \E w \in Updaters : Fetch(w)
        <3>1. UpdateFits
            BY <2>2 DEF ExactInv
        <3>2. ASSUME NEW w \in Updaters, UpdateShifts(w) PROVE UpdateFits'
            BY <2>2, <3>1, <3>2, MarkFutureFits, DeleteOldFits, GetFits, CreateFits DEF UpdateShifts
        <3>3. ~ Crash
            BY <2>2 DEF Crash
        <3>4. ASSUME \/ \E e \in Events : Modify(e) \/ Unlist(e) \/ Pass(e)
                     \/ \E u \in Users : Disable(u)
                     \/ \E s \in Sessions : SaveFallback(s)
                            \/ \E u \in Users : SaveOther(s, u) \/ ClearOthers(s, u)
              PROVE  UNCHANGED <<shifts, updater>>
            BY <3>4 DEF Modify, Unlist, Pass, Disable, SaveFallback, SaveOther, ClearOthers, rota
        <3> QED
            BY <1>1, <1>3, <2>2, <3>1, <3>2, <3>3, <3>4 DEF AuditNext, Next
    <2> QED
        BY <1>3, <2>1, <2>2, CleanMoves
<1> QED
    BY <1>2, <1>3

(* An update of the shifts that nothing disturbed leaves the rota as the calendar
   has it (base.py:944), for any number of events, users and workers, and whatever
   earlier updates that overlapped or were killed had left behind. *)
THEOREM RotaExact == AuditSpec => []RotaIsExact
<1>1. /\ AuditInit => Init
      /\ [AuditNext]_auditVars => [Next]_vars
    BY DEF AuditInit, AuditNext, auditVars
<1>2. AuditSpec => Spec
    BY <1>1, PTL DEF AuditSpec, Spec
<1>3. TypeOK => RotaTyped /\ crashes \in Nat
    BY RotaAssumption DEF TypeOK, RotaTyped
<1>4. AuditInit => ExactInv
    BY DEF AuditInit, ExactInv
<1>5. TypeOK /\ ExactInv /\ [AuditNext]_auditVars => ExactInv'
    BY <1>3, ExactNext
<1>6. TypeOK /\ ExactInv => RotaIsExact
    <2> SUFFICES ASSUME TypeOK, RowsFit(shifts),
                        ~ \E e \in Events : shifts[e][version[e]] > 1,
                        NEW e \in Events, NEW v \in Versions
                 PROVE  /\ e \in Expected /\ v <= version[e] =>
                              shifts[e][v] = IF v = version[e] THEN 1 ELSE 0
                        /\ phase[e] = "future" /\ e \notin Expected => shifts[e][v] = 0
        BY DEF ExactInv, UpdateFits, RotaIsExact
    <2> QED
        BY DEF RowsFit, OthersGone, Absent, Done
<1> QED
    BY <1>2, <1>4, <1>5, <1>6, RotaTypes, PTL DEF AuditSpec
=============================================================================

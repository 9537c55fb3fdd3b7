------------------------------- MODULE DutyRota -------------------------------
(***************************************************************************)
(* Who is on duty: the shifts that update_shifts() copies from a calendar, *)
(* event by event and on any worker, and the fallback user of the          *)
(* profiles.  alert() asks get_duty_officers() at any moment.              *)
(***************************************************************************)
EXTENDS Integers, FiniteSets

CONSTANTS
    Events,     \* events of the calendar, one occurrence each
    Recurring,  \* those that come from a component with an RRULE
    MaxVersion, \* bound: times an event is modified
    Users,
    Officer,    \* by event and version, the user the event names
    Updaters,   \* workers that may run update_shifts
    Sessions,   \* requests that save profiles
    MaxCrashes  \* bound: tasks and requests killed

ASSUME RotaAssumption ==
    /\ Recurring \subseteq Events /\ {MaxVersion, MaxCrashes} \subseteq Nat
    /\ Officer \in [Events -> [0 .. MaxVersion -> Users]]

VARIABLES
    listed,     \* events the calendar has
    version,    \* by event, its last-modified
    phase,      \* by event, whether its shift is to come, under way or over
    active,     \* users with is_active
    shifts,     \* by event and version, the rows that are not deleted
    updater,    \* what each update_shifts() does
    overlapped, \* two of them have overlapped
    fallback,   \* users whose profile has fallback_alert_user
    session,    \* the profile each request is about to save as the fallback
    clash,      \* the last two of those saves overlapped
    crashes

rota == <<listed, version, phase, active, shifts, updater, overlapped>>
profiles == <<fallback, session, clash>>
vars == <<rota, profiles, crashes>>

Versions == 0 .. MaxVersion
Idle == [pc |-> "idle"]

Updating ==
    [pc : {"fetched", "next"}, todo : SUBSET (Events \X Versions)]
        \cup [pc : {"get", "create"}, todo : SUBSET (Events \X Versions),
              event : Events, version : Versions]

TypeOK ==
    /\ listed \subseteq Events /\ version \in [Events -> Versions]
    /\ phase \in [Events -> {"future", "now", "past"}]
    /\ active \subseteq Users
    /\ shifts \in [Events -> [Versions -> Nat]]
    /\ updater \in [Updaters -> Updating \cup {Idle}]
    /\ fallback \subseteq Users
    /\ session \in [Sessions -> {{}} \cup {{u} : u \in Users}]
    /\ {overlapped, clash} \subseteq BOOLEAN
    /\ crashes \in 0 .. MaxCrashes

Init ==
    /\ listed = Events /\ version = [e \in Events |-> 0]
    /\ phase = [e \in Events |-> "future"]
    /\ active = Users
    /\ shifts = [e \in Events |-> [v \in Versions |-> 0]]
    /\ updater = [w \in Updaters |-> Idle]
    /\ overlapped = FALSE
    /\ fallback = {} /\ session = [s \in Sessions |-> {}] /\ clash = FALSE
    /\ crashes = 0
-----------------------------------------------------------------------------
(* The calendar, the clock and the users.                                  *)

Modify(e) ==
    /\ version[e] < MaxVersion
    /\ version' = [version EXCEPT ![e] = @ + 1]
    /\ UNCHANGED <<listed, phase, active, shifts, updater, overlapped, profiles, crashes>>

Unlist(e) ==
    /\ listed' = listed \ {e} /\ listed' # listed
    /\ UNCHANGED <<version, phase, active, shifts, updater, overlapped, profiles, crashes>>

Pass(e) ==
    /\ phase[e] # "past"
    /\ phase' = [phase EXCEPT ![e] = IF @ = "future" THEN "now" ELSE "past"]
    /\ UNCHANGED <<listed, version, active, shifts, updater, overlapped, profiles, crashes>>

(* The "enabled" switch of the profile page. *)
Disable(u) ==
    /\ active' = active \ {u} /\ active' # active
    /\ UNCHANGED <<listed, version, phase, shifts, updater, overlapped, profiles, crashes>>
-----------------------------------------------------------------------------
(* update_shifts().                                                        *)

(* get_events(): a recurring event that has begun is not among its start times. *)
Fetched == {e \in listed : e \in Recurring => phase[e] = "future"}

(* Events that name an active user. *)
Expected == {e \in Fetched : Officer[e][version[e]] \in active}

(* The events are read, and the expected ones are kept. *)
Fetch(w) ==
    /\ updater[w] = Idle
    /\ updater' = [updater EXCEPT ![w] =
                     [pc |-> "fetched", todo |-> {<<e, version[e]>> : e \in Expected}]]
    /\ overlapped' = (overlapped \/ \E other \in Updaters : updater[other] # Idle)
    /\ UNCHANGED <<listed, version, phase, active, shifts, profiles, crashes>>

(* The loop over the events goes on, or the task ends. *)
Loop(todo) == IF todo = {} THEN Idle ELSE [pc |-> "next", todo |-> todo]

(* Mutants: no shift is marked; the shifts that have begun are marked, too. *)
MarkNone(w) ==
    /\ updater[w].pc = "fetched"
    /\ updater' = [updater EXCEPT ![w] = Loop(updater[w].todo)]
    /\ UNCHANGED <<listed, version, phase, active, shifts, overlapped, profiles, crashes>>
MarkAll(w) ==
    /\ updater[w].pc = "fetched"
    /\ shifts' = [e \in Events |-> [v \in Versions |-> 0]]
    /\ updater' = [updater EXCEPT ![w] = Loop(updater[w].todo)]
    /\ UNCHANGED <<listed, version, phase, active, overlapped, profiles, crashes>>

(* Every future shift is marked deleted. *)
MarkFuture(w) ==
    /\ updater[w].pc = "fetched"
    /\ shifts' = [e \in Events |-> IF phase[e] = "future" THEN [v \in Versions |-> 0]
                                   ELSE shifts[e]]
    /\ updater' = [updater EXCEPT ![w] = Loop(updater[w].todo)]
    /\ UNCHANGED <<listed, version, phase, active, overlapped, profiles, crashes>>

(* "Delete any events that have been updated in ical" *)
DeleteOld(w) ==
    /\ updater[w].pc = "next"
    /\ \E e \in Events, current \in Versions :
          /\ <<e, current>> \in updater[w].todo
          /\ shifts' = [shifts EXCEPT ![e] = [v \in Versions |-> IF v < current THEN 0 ELSE @[v]]]
          /\ updater' = [updater EXCEPT ![w] = [pc |-> "get", event |-> e, version |-> current,
                                                todo |-> updater[w].todo \ {<<e, current>>}]]
    /\ UNCHANGED <<listed, version, phase, active, overlapped, profiles, crashes>>

(* Mutants: the rows are not looked for; the task outlives the exception. *)
GetNothing(w) ==
    /\ updater[w].pc = "get"
    /\ updater' = [updater EXCEPT ![w].pc = "create"]
    /\ UNCHANGED <<listed, version, phase, active, shifts, overlapped, profiles, crashes>>
GetFails(w) ==
    /\ updater[w].pc = "get"
    /\ LET rows == shifts[updater[w].event][updater[w].version] IN
       updater' = [updater EXCEPT ![w] = CASE rows = 0 -> [@ EXCEPT !.pc = "create"]
                                           [] rows = 1 -> Loop(@.todo)
                                           [] OTHER -> [@ EXCEPT !.pc = "failed"]]
    /\ UNCHANGED <<listed, version, phase, active, shifts, overlapped, profiles, crashes>>

(* get_or_create(): two rows raise MultipleObjectsReturned, which ends the task ... *)
Get(w) ==
    /\ updater[w].pc = "get"
    /\ LET rows == shifts[updater[w].event][updater[w].version] IN
       updater' = [updater EXCEPT ![w] = CASE rows = 0 -> [@ EXCEPT !.pc = "create"]
                                           [] rows = 1 -> Loop(@.todo)
                                           [] OTHER -> Idle]
    /\ UNCHANGED <<listed, version, phase, active, shifts, overlapped, profiles, crashes>>

(* ... and no row is created in a query of its own. *)
Create(w) ==
    /\ updater[w].pc = "create"
    /\ shifts' = [shifts EXCEPT ![updater[w].event][updater[w].version] = @ + 1]
    /\ updater' = [updater EXCEPT ![w] = Loop(@.todo)]
    /\ UNCHANGED <<listed, version, phase, active, overlapped, profiles, crashes>>

UpdateShifts(w) == Fetch(w) \/ MarkFuture(w) \/ DeleteOld(w) \/ Get(w) \/ Create(w)
-----------------------------------------------------------------------------
(* UserProfile.save().                                                     *)

(* A profile that is not the fallback is just written. *)
SaveOther(s, u) ==
    /\ session[s] = {}
    /\ fallback' = fallback \ {u}
    /\ UNCHANGED <<rota, session, clash, crashes>>

(* Mutant: the others are not cleared. *)
ClearNone(s, u) ==
    /\ session[s] = {}
    /\ session' = [session EXCEPT ![s] = {u}]
    /\ clash' = \E other \in Sessions : session[other] # {}
    /\ UNCHANGED <<rota, fallback, crashes>>

(* "Enforce uniqueness": the other profiles are cleared ... *)
ClearOthers(s, u) ==
    /\ session[s] = {}
    /\ session' = [session EXCEPT ![s] = {u}]
    /\ fallback' = fallback \cap {u}
    /\ clash' = \E other \in Sessions : session[other] # {}
    /\ UNCHANGED <<rota, crashes>>

(* ... and the fallback is written. *)
SaveFallback(s) ==
    /\ session[s] # {}
    /\ fallback' = fallback \cup session[s]
    /\ session' = [session EXCEPT ![s] = {}]
    /\ UNCHANGED <<rota, clash, crashes>>

Crash ==
    /\ crashes < MaxCrashes
    /\ crashes' = crashes + 1
    /\ \/ \E w \in Updaters : /\ updater[w] # Idle
                              /\ updater' = [updater EXCEPT ![w] = Idle]
                              /\ UNCHANGED <<listed, version, phase, active, shifts, overlapped, profiles>>
       \/ \E s \in Sessions : /\ session[s] # {}
                              /\ session' = [session EXCEPT ![s] = {}]
                              /\ UNCHANGED <<rota, fallback, clash>>

Next ==
    \/ \E e \in Events : Modify(e) \/ Unlist(e) \/ Pass(e)
    \/ \E u \in Users : Disable(u)
    \/ \E w \in Updaters : UpdateShifts(w)
    \/ \E s \in Sessions : SaveFallback(s) \/ \E u \in Users : SaveOther(s, u) \/ ClearOthers(s, u)
    \/ Crash

(* Beat queues update_shifts every half hour, and workers go on. *)
Fairness == \A w \in Updaters : WF_vars(UpdateShifts(w))

Spec == Init /\ [][Next]_vars /\ Fairness
-----------------------------------------------------------------------------
OnDuty == {s \in Events \X Versions : phase[s[1]] = "now" /\ shifts[s[1]][s[2]] > 0}

(* UserProfile.objects.get() raises for two fallback users. *)
DutyOfficersRaises == OnDuty = {} /\ Cardinality(fallback) > 1

(* What get_duty_officers() returns. *)
DutyOfficers == IF OnDuty # {} THEN {Officer[s[1]][s[2]] : s \in OnDuty} ELSE fallback

(* An officer in the middle of a shift loses it only to a newer version of the
   event (base.py:957), whatever updates overlap with stale copies of the
   calendar, and wherever they are killed. *)
CurrentShiftIsKept ==
    [][\A e \in Events, v \in Versions :
          phase[e] = "now" /\ shifts[e][v] > 0 /\ shifts'[e][v] = 0 => v < version[e]]_vars

(* A shift under way whose event stays as it is puts its officer on duty for
   good, unless this event or another that updates expect keeps two rows: then
   get_or_create() raises in every update, perhaps before it comes to this event
   (base.py:960).  (A recurring event that is modified while its shift is under
   way takes the officer off duty, so it is not among these.) *)
RotaConverges ==
    \A e \in Events \ Recurring : \A v \in Versions :
        <>[](/\ phase[e] = "now" /\ e \in listed /\ version[e] = v
             /\ Officer[e][v] \in active
             /\ \A other \in Expected : shifts[other][version[other]] <= 1)
            => <>[](Officer[e][v] \in DutyOfficers)

(* Updates one at a time never give an event two rows, even if they are killed
   between the query and the insert of get_or_create(). *)
DuplicatesNeedOverlap ==
    (\E e \in Events, v \in Versions : shifts[e][v] > 1) => overlapped

(* "Enforce uniqueness" (base.py:887): alert() gets its officers, with at most
   one fallback user, unless two saves of a fallback user have overlapped; the
   next such save alone repairs that. *)
AlertsHaveOfficers == ~ clash => ~ DutyOfficersRaises
=============================================================================

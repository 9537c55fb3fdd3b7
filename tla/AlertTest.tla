------------------------------ MODULE AlertTest -------------------------------
(***************************************************************************)
(* The alert test of a service, or of a plugin: a transaction that updates *)
(* the service, hides its users and every shift, puts the tester on duty,  *)
(* raises an alert and is rolled back.  Other sessions go on meanwhile;    *)
(* what they insert after the rows were hidden is seen by the alert.       *)
(***************************************************************************)
EXTENDS DutyRota

CONSTANTS
    Tester,      \* the user of Users who asks for the test
    Subscribers  \* those of Users in the service's users_to_notify

VARIABLES
    test,     \* how far the test is
    inserted, \* shifts committed since the test hid the others
    alerted   \* users alerted by tests

testing == <<test, inserted, alerted>>

TestTypeOK ==
    /\ TypeOK
    /\ test \in {"idle", "updated", "hidden", "alerted"}
    /\ inserted \subseteq Events \X Versions
    /\ alerted \subseteq Users

TestInit == Init /\ test = "idle" /\ inserted = {} /\ alerted = {}

(* A new service without checks is made for a plugin: it has nothing to tell. *)
StartPluginTest ==
    /\ test = "idle"
    /\ test' = "updated"
    /\ UNCHANGED <<vars, inserted, alerted>>

(* update_status() of the service alerts as ever, when an alert is due. *)
StartServiceTest ==
    /\ test = "idle"
    /\ test' = "updated"
    /\ \E due \in BOOLEAN :
          /\ due => ~ DutyOfficersRaises
          /\ alerted' = IF due THEN alerted \cup (Subscribers \cap active) \cup DutyOfficers
                        ELSE alerted
    /\ UNCHANGED <<vars, inserted>>

(* Users, acknowledgements, shifts and fallback users are hidden, and a shift of
   the tester is inserted. *)
Hide ==
    /\ test = "updated"
    /\ test' = "hidden"
    /\ inserted' = {}
    /\ UNCHANGED <<vars, alerted>>

(* service.alert(): its officers are the tester and those of the new shifts. *)
RaiseTestAlert ==
    /\ test = "hidden"
    /\ test' = "alerted"
    /\ alerted' = alerted \cup {Tester}
                    \cup {Officer[s[1]][s[2]] : s \in {t \in inserted : phase[t[1]] = "now"}}
    /\ UNCHANGED <<vars, inserted>>

Rollback ==
    /\ test = "alerted"
    /\ test' = "idle"
    /\ UNCHANGED <<vars, inserted, alerted>>

(* The rows the test has hidden are locked; rows inserted since then are not. *)
Others ==
    /\ Next
    /\ test = "hidden" =>
          /\ \A e \in Events, v \in Versions : shifts'[e][v] >= shifts[e][v]
          /\ fallback' = fallback
    /\ inserted' = inserted \cup
          {s \in Events \X Versions : test = "hidden" /\ shifts'[s[1]][s[2]] > shifts[s[1]][s[2]]}
    /\ UNCHANGED <<test, alerted>>

TestNext ==
    StartPluginTest \/ StartServiceTest \/ Hide \/ RaiseTestAlert \/ Rollback \/ Others

TestSpec == TestInit /\ [][TestNext]_<<vars, testing>>

(* "This should ensure we never alert anyone except the user triggering the alert
   test." (views.py:716) *)
OnlyTesterIsAlerted == alerted \subseteq {Tester}
=============================================================================

------------------------------ MODULE CheckKinds ------------------------------
(***************************************************************************)
(* One check of any kind that asks a server.  The class of the check is    *)
(* chosen when it is created and decides whose _run() its runs call.       *)
(***************************************************************************)
EXTENDS GraphiteCheck, WebChecks

VARIABLE polymorphic_ctype \* the class of the check, fixed for good

vars == <<polymorphic_ctype, graphite, web>>

(* A check of one class leaves the state of the other as it was created. *)
Init ==
    \/ /\ polymorphic_ctype = "graphitestatuscheck"
       /\ GraphiteInit
       /\ settings = CHOOSE s \in Settings : s.kind = "jenkins"
       /\ site = CHOOSE s \in Sites(settings.kind) : TRUE
       /\ results = <<>> /\ has_run = FALSE /\ passing = TRUE
    \/ /\ polymorphic_ctype = "webcheck"
       /\ WebInit
       /\ check_type = CHOOSE type \in CheckTypes : TRUE
       /\ points = [host \in Hosts |-> [age \in Ages |-> None]]
       /\ last = None /\ fetch = NoFetch /\ succeeded = TRUE

GraphiteStep ==
    polymorphic_ctype = "graphitestatuscheck" /\ GraphiteNext /\ UNCHANGED <<polymorphic_ctype, web>>
WebStep ==
    polymorphic_ctype = "webcheck" /\ WebNext /\ UNCHANGED <<polymorphic_ctype, graphite>>

Next == GraphiteStep \/ WebStep

Spec ==
    /\ Init /\ [][Next]_vars
    /\ WF_vars(polymorphic_ctype = "webcheck" /\ WebRun /\ UNCHANGED <<polymorphic_ctype, graphite>>)

TypeOK == GraphiteTypeOK /\ WebTypeOK
=============================================================================

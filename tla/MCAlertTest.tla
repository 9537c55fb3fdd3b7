------------------------------ MODULE MCAlertTest -----------------------------
(* Each event is handed from one user to the next when it is modified. *)
EXTENDS AlertTest

CONSTANTS e1, e2, u1, u2

Handover ==
    [e \in Events |-> [v \in Versions |-> IF (e = e1) = (v % 2 = 0) THEN u1 ELSE u2]]
=============================================================================

---------------------------- MODULE GraphiteCheck -----------------------------
(***************************************************************************)
(* A Graphite check: the points Graphite holds, the run that asks for the  *)
(* points of a window and judges them, and the result that dates the next  *)
(* window.  Time is counted in half minutes: the window is computed in     *)
(* fractions of a minute and asked for in whole minutes, so half minutes   *)
(* show what is cut off.                                                   *)
(***************************************************************************)
EXTENDS Integers, FiniteSetsExt

CONSTANTS
    Hosts,           \* series that match the metric
    Values,          \* values a point can have
    Threshold,       \* the check's value
    CheckTypes,      \* check types users choose
    Frequency,       \* minutes between runs
    AllowedFailures, \* allowed_num_failures
    ExpectedHosts,   \* expected_num_hosts
    MaxGap,          \* bound: half minutes between the starts of two results
    MaxDelay,        \* bound: half minutes a fetch takes
    MaxLag,          \* bound: half minutes a point takes to reach Graphite
    None             \* no point, no result yet

ASSUME GraphiteNumbers ==
    /\ Frequency \in Nat \ {0} /\ {AllowedFailures, ExpectedHosts} \subseteq Nat
    /\ {MaxGap, MaxDelay, MaxLag} \subseteq Nat /\ 2 * Frequency <= MaxGap + 2
    /\ MaxDelay <= MaxGap
ASSUME GraphiteValues ==
    Values \subseteq Nat /\ Threshold \in Nat /\ IsFiniteSet(Hosts) /\ CheckTypes # {}
ASSUME GraphiteNone == None \notin Nat

VARIABLES
    check_type, \* how values are compared with the threshold
    points,     \* by host and age, the value of the point, or None
    last,       \* age of the start of the newest result, or None
    fetch,      \* the request to Graphite: window asked for, age of the request
    succeeded   \* outcome of the newest result

graphite == <<check_type, points, last, fetch, succeeded>>

Ages == 0 .. MaxGap + 1
NoFetch == [window |-> None, age |-> 0]

GraphiteTypeOK ==
    /\ check_type \in CheckTypes
    /\ points \in [Hosts -> [Ages -> Values \cup {None}]]
    /\ last \in 0 .. MaxGap \cup {None}
    /\ fetch \in [window : 2 * Frequency .. MaxGap + 2, age : 0 .. MaxDelay] \cup {NoFetch}
    /\ succeeded \in BOOLEAN

GraphiteInit ==
    /\ check_type \in CheckTypes
    /\ points = [host \in Hosts |-> [age \in Ages |-> None]]
    /\ last = None
    /\ fetch = NoFetch
    /\ succeeded = TRUE
-----------------------------------------------------------------------------
(* Half a minute passes. *)
GraphiteTick ==
    /\ last # None => last < MaxGap
    /\ fetch # NoFetch => fetch.age < MaxDelay
    /\ points' = [host \in Hosts |->
                    [age \in Ages |-> IF age = 0 THEN None ELSE points[host][age - 1]]]
    /\ last' = IF last = None THEN None ELSE last + 1
    /\ fetch' = IF fetch = NoFetch THEN NoFetch ELSE [fetch EXCEPT !.age = @ + 1]
    /\ UNCHANGED <<check_type, succeeded>>

(* A point reaches Graphite, perhaps some time after its timestamp. *)
Receive(host) ==
    /\ \E age \in 0 .. MaxLag, value \in Values :
          /\ points[host][age] = None
          /\ points' = [points EXCEPT ![host][age] = value]
    /\ UNCHANGED <<check_type, last, fetch, succeeded>>

(* Mutants: no minute is added for the fraction; the frequency is no minimum. *)
WindowExact == IF last = None THEN 2 * Frequency ELSE Max({2 * Frequency, last})
WindowSinceLast == IF last = None THEN 2 * Frequency ELSE last

(* time_to_check: back to the start of the newest result and a minute more. *)
Window == IF last = None THEN 2 * Frequency ELSE Max({2 * Frequency, last + 2})

(* _run() asks Graphite for the window. *)
Ask ==
    /\ fetch = NoFetch
    /\ fetch' = [window |-> Window, age |-> 0]
    /\ UNCHANGED <<check_type, points, last, succeeded>>

(* What get_data() and validate_datapoint() leave of a series: "%d" asks for
   whole minutes before the answer, and points from before the window that
   ended with the request are dropped. *)
Datapoints(host) ==
    {points[host][age] : age \in {a \in Ages : /\ a < 2 * (fetch.window \div 2)
                                               /\ a - fetch.age < fetch.window}} \ {None}

(* A series fails when its extreme value does. *)
Crosses(type, values) ==
    \/ type = "<"  /\ Min(values) < Threshold
    \/ type = "<=" /\ Min(values) <= Threshold
    \/ type = ">"  /\ Max(values) > Threshold
    \/ type = ">=" /\ Max(values) >= Threshold
    \/ type = "==" /\ Threshold \in values

WithData == {host \in Hosts : Datapoints(host) # {}}
Failures == {host \in WithData : Crosses(check_type, Datapoints(host))}

(* The result is stored with the start of the run as its time. *)
Stored(outcome) ==
    /\ fetch # NoFetch
    /\ succeeded' = outcome
    /\ last' = fetch.age
    /\ fetch' = NoFetch
    /\ UNCHANGED <<check_type, points>>

Answer ==
    Stored(Cardinality(Failures) <= AllowedFailures /\ Cardinality(WithData) >= ExpectedHosts)

(* Graphite cannot be reached, or the run exceeds its time limit. *)
AnswerError == Stored(FALSE)

(* The worker is killed before it stores a result. *)
Killed ==
    /\ fetch # NoFetch
    /\ fetch' = NoFetch
    /\ UNCHANGED <<check_type, points, last, succeeded>>

GraphiteNext ==
    \/ GraphiteTick \/ Ask \/ Answer \/ AnswerError \/ Killed
    \/ \E host \in Hosts : Receive(host)
-----------------------------------------------------------------------------
(* One point alone is beyond the threshold. *)
Breaks(value) ==
    \/ check_type = "<"  /\ value < Threshold
    \/ check_type = "<=" /\ value <= Threshold
    \/ check_type = ">"  /\ value > Threshold
    \/ check_type = ">=" /\ value >= Threshold
    \/ check_type = "==" /\ value = Threshold

Spiking ==
    {host \in Hosts : \E age \in 0 .. last - fetch.age :
                         points[host][age] # None /\ Breaks(points[host][age])}

(* "If this expression evaluates to true, the check will fail" (base.py:457),
   whatever delays runs and loses them: no point stamped since the start of the
   previous result escapes the next run, except in as much time after that start
   as the answer took to come.  The window is cut to whole minutes before the
   answer, and the minute the code adds is what makes up for the cut. *)
SpikesAreSeen ==
    [][Answer /\ last # None /\ Cardinality(Spiking) > AllowedFailures => ~ succeeded']_graphite
=============================================================================

--------------------------- MODULE CheckKindsProofs ---------------------------
(***************************************************************************)
(* Proofs about the kinds of checks: a Graphite check misses no spike, the *)
(* report of any check's results is exact, a Jenkins check never fails;    *)
(* for every number of hosts and results and every threshold, frequency,   *)
(* delay and debounce.                                                     *)
(***************************************************************************)
EXTENDS CheckKinds, SequenceTheorems, FiniteSetTheorems, WellFoundedInduction, TLAPS

(* Sets of naturals have a least element ... *)
LEMMA Least ==
    ASSUME NEW S \in SUBSET Nat, S # {}
    PROVE  \E x \in S : \A y \in S : x <= y
<1>1. \E x \in S : \A y \in S : ~ (<<y, x>> \in OpToRel(<, Nat))
    BY NatLessThanWellFounded, WFMin
<1>2. PICK x \in S : \A y \in S : ~ (<<y, x>> \in OpToRel(<, Nat))
    BY <1>1
<1>3. \A y \in S : ~ (y < x)
    BY <1>2 DEF OpToRel
<1>4. x \in Nat /\ \A y \in S : y \in Nat
    OBVIOUS
<1> QED
    BY <1>3, <1>4

(* ... and a greatest one, if they are bounded. *)
LEMMA Greatest ==
    ASSUME NEW S \in SUBSET Nat, S # {}, NEW bound \in Nat, \A y \in S : y <= bound
    PROVE  \E x \in S : \A y \in S : x >= y
<1> DEFINE bounds == {b \in Nat : \A y \in S : y <= b}
<1>1. PICK b \in bounds : \A other \in bounds : b <= other
    <2>1. bounds \in SUBSET Nat /\ bound \in bounds
        OBVIOUS
    <2> HIDE DEF bounds
    <2> QED
        BY <2>1, Least
<1>2. ASSUME b \notin S PROVE FALSE
    <2>1. b \in Nat /\ \A y \in S : y \in Nat /\ y < b
        BY <1>1, <1>2
    <2>2. b - 1 \in Nat /\ \A y \in S : y <= b - 1
        <3>1. PICK y \in S : y \in Nat /\ y < b
            BY <2>1
        <3> QED
            BY <2>1, <3>1
    <2> QED
        BY <1>1, <2>2
<1> QED
    BY <1>1, <1>2

LEMMA MinMax ==
    ASSUME NEW S \in SUBSET Nat, NEW v \in S, NEW bound \in Nat, \A y \in S : y <= bound
    PROVE  Min(S) \in Nat /\ Max(S) \in Nat /\ Min(S) <= v /\ v <= Max(S)
<1>1. \E x \in S : \A y \in S : x <= y
    BY Least
<1>2. \E x \in S : \A y \in S : x >= y
    BY Greatest
<1>3. Min(S) \in S /\ Min(S) <= v
    BY <1>1 DEF Min
<1>4. Max(S) \in S /\ Max(S) >= v
    BY <1>2 DEF Max
<1> QED
    BY <1>3, <1>4
-----------------------------------------------------------------------------
(* The points of a series are bounded, in whatever order they came. *)
LEMMA Bounded ==
    ASSUME GraphiteTypeOK, NEW host \in Hosts
    PROVE  \E bound \in Nat : \A age \in Ages : points[host][age] # None => points[host][age] <= bound
<1> DEFINE Bound(n) == \E bound \in Nat : \A age \in Ages :
                          age <= n /\ points[host][age] # None => points[host][age] <= bound
           unbounded == {n \in Ages : ~ Bound(n)}
<1>1. /\ MaxGap + 1 \in Ages /\ \A age \in Ages : age \in Nat
      /\ \A age \in Ages : points[host][age] # None => points[host][age] \in Nat
    <2>1. MaxGap \in Nat
        BY GraphiteNumbers
    <2>2. MaxGap + 1 \in Ages /\ \A age \in Ages : age \in Nat
        BY <2>1 DEF Ages
    <2>3. \A age \in Ages : points[host][age] \in Values \cup {None}
        BY DEF GraphiteTypeOK
    <2> QED
        BY <2>2, <2>3, GraphiteValues
<1>2. ASSUME NEW n \in unbounded, \A m \in unbounded : n <= m PROVE FALSE
    <2>1. CASE n = 0
        <3> DEFINE b == IF points[host][0] = None THEN 0 ELSE points[host][0]
        <3>1. b \in Nat /\ (points[host][0] # None => points[host][0] <= b)
            BY <1>1, <2>1
        <3>2. \A age \in Ages : age <= n => age = 0
            BY <1>1, <2>1
        <3> QED
            BY <1>2, <3>1, <3>2
    <2>2. CASE n # 0
        <3>1. n - 1 \in Ages /\ n - 1 \notin unbounded
            <4>1. n \in Nat /\ n \in 0 .. MaxGap + 1 /\ MaxGap \in Nat
                BY <1>1, <1>2, GraphiteNumbers DEF Ages
            <4>2. n - 1 \in Ages
                BY <4>1, <2>2 DEF Ages
            <4>3. ~ (n <= n - 1)
                BY <4>1
            <4> HIDE DEF unbounded
            <4> QED
                BY <4>2, <4>3, <1>2
        <3>2. PICK old \in Nat : \A age \in Ages :
                 age <= n - 1 /\ points[host][age] # None => points[host][age] <= old
            BY <3>1
        <3> DEFINE b == IF points[host][n] = None THEN old ELSE old + points[host][n]
        <3>3. b \in Nat /\ old <= b /\ (points[host][n] # None => points[host][n] <= b)
            BY <1>1, <1>2
        <3>4. \A age \in Ages : age <= n => age = n \/ age <= n - 1
            <4>1. n \in Nat /\ \A age \in Ages : age \in Nat
                BY <1>1, <1>2
            <4> QED
                BY <4>1
        <3> HIDE DEF b
        <3>5. \A age \in Ages : age <= n /\ points[host][age] # None => points[host][age] <= b
            BY <1>1, <3>2, <3>3, <3>4
        <3> QED
            BY <1>2, <3>3, <3>5
    <2> QED
        BY <2>1, <2>2
<1>3. unbounded = {}
    <2>1. unbounded \in SUBSET Nat
        BY <1>1
    <2> HIDE DEF unbounded
    <2> QED
        BY <1>2, <2>1, Least
<1>4. Bound(MaxGap + 1)
    BY <1>1, <1>3
<1> QED
    BY <1>4 DEF Ages
-----------------------------------------------------------------------------
(* A request under way covers the time since the newest result began, and a
   minute more: what time_to_check computed, both having aged since. *)
WindowCovers ==
    fetch # NoFetch /\ last # None => fetch.window >= last - fetch.age + 2

GraphiteInv == GraphiteTypeOK /\ WindowCovers

LEMMA Numbers ==
    /\ Frequency \in Nat \ {0} /\ AllowedFailures \in Nat /\ ExpectedHosts \in Nat
    /\ MaxGap \in Nat /\ MaxDelay \in Nat /\ MaxLag \in Nat /\ MaxDelay <= MaxGap
    /\ 2 * Frequency <= MaxGap + 2 /\ None \notin Nat
BY GraphiteNumbers, GraphiteNone

LEMMA Fetching ==
    ASSUME GraphiteTypeOK, fetch # NoFetch
    PROVE  /\ fetch \in [window : 2 * Frequency .. MaxGap + 2, age : 0 .. MaxDelay]
           /\ fetch.window \in Nat /\ fetch.window <= MaxGap + 2
           /\ fetch.age \in Nat /\ fetch.age <= MaxDelay
<1>1. fetch \in [window : 2 * Frequency .. MaxGap + 2, age : 0 .. MaxDelay]
    BY DEF GraphiteTypeOK
<1> QED
    BY <1>1, Numbers

LEMMA WindowBounds ==
    ASSUME GraphiteTypeOK
    PROVE  /\ Window \in 2 * Frequency .. MaxGap + 2
           /\ last # None => Window >= last + 2
<1>1. CASE last = None
    BY <1>1, Numbers DEF Window
<1>2. CASE last # None
    <2>1. last \in Nat /\ last <= MaxGap
        BY <1>2, Numbers DEF GraphiteTypeOK
    <2> DEFINE S == {2 * Frequency, last + 2}
    <2>2. S \in SUBSET Nat /\ 2 * Frequency \in S /\ last + 2 \in S /\ MaxGap + 2 \in Nat
          /\ \A y \in S : y <= MaxGap + 2
        BY <2>1, Numbers
    <2>3. \E x \in S : \A y \in S : x >= y
        <3> HIDE DEF S
        <3> QED
            BY <2>2, Greatest
    <2>4. Max(S) \in S /\ \A y \in S : Max(S) >= y
        BY <2>3 DEF Max
    <2>5. Window = Max(S)
        BY <1>2 DEF Window
    <2> HIDE DEF S
    <2>6. /\ Window \in Nat /\ Window <= MaxGap + 2
          /\ Window >= 2 * Frequency /\ Window >= last + 2
        BY <2>2, <2>4, <2>5
    <2> QED
        BY <2>6, Numbers
<1> QED
    BY <1>1, <1>2

LEMMA GraphiteInitInv == GraphiteInit => GraphiteInv
<1> SUFFICES ASSUME GraphiteInit PROVE GraphiteInv
    OBVIOUS
<1>1. GraphiteTypeOK
    BY DEF GraphiteInit, GraphiteTypeOK
<1>2. WindowCovers
    BY DEF GraphiteInit, WindowCovers
<1> QED
    BY <1>1, <1>2 DEF GraphiteInv

LEMMA TickInv == ASSUME GraphiteInv, GraphiteTick PROVE GraphiteInv'
<1> USE Numbers
<1>1. points' \in [Hosts -> [Ages -> Values \cup {None}]]
    <2>1. \A age \in Ages : age # 0 => age - 1 \in Ages
        BY DEF Ages
    <2> QED
        BY <2>1 DEF GraphiteTick, GraphiteInv, GraphiteTypeOK
<1>2. last' \in 0 .. MaxGap \cup {None}
    BY DEF GraphiteTick, GraphiteInv, GraphiteTypeOK
<1>3. CASE fetch = NoFetch
    BY <1>1, <1>2, <1>3 DEF GraphiteTick, GraphiteInv, GraphiteTypeOK, WindowCovers
<1>4. CASE fetch # NoFetch
    <2>1. /\ fetch \in [window : 2 * Frequency .. MaxGap + 2, age : 0 .. MaxDelay]
          /\ fetch.window \in Nat /\ fetch.age \in Nat /\ fetch.age < MaxDelay
        BY <1>4, Fetching DEF GraphiteTick, GraphiteInv
    <2>2. /\ fetch' = [fetch EXCEPT !.age = @ + 1]
          /\ fetch'.window = fetch.window /\ fetch'.age = fetch.age + 1
          /\ fetch' \in [window : 2 * Frequency .. MaxGap + 2, age : 0 .. MaxDelay]
        BY <1>4, <2>1 DEF GraphiteTick
    <2>3. GraphiteTypeOK'
        BY <1>1, <1>2, <2>2 DEF GraphiteTick, GraphiteInv, GraphiteTypeOK
    <2>4. last' # None => last # None /\ last' = last + 1 /\ last \in Nat
        BY DEF GraphiteTick, GraphiteInv, GraphiteTypeOK
    <2>5. WindowCovers'
        BY <1>4, <2>1, <2>2, <2>4 DEF GraphiteInv, WindowCovers
    <2> QED
        BY <2>3, <2>5 DEF GraphiteInv
<1> QED
    BY <1>3, <1>4

LEMMA GraphiteNextInv == ASSUME GraphiteInv, [GraphiteNext]_graphite PROVE GraphiteInv'
<1> USE DEF GraphiteInv
<1>1. CASE UNCHANGED graphite
    BY <1>1 DEF graphite, GraphiteTypeOK, WindowCovers
<1>2. CASE Ask
    <2>1. fetch' = [window |-> Window, age |-> 0] /\ fetch'.window = Window /\ fetch'.age = 0
        BY <1>2 DEF Ask
    <2>2. fetch' \in [window : 2 * Frequency .. MaxGap + 2, age : 0 .. MaxDelay]
        BY <2>1, WindowBounds, Numbers
    <2>3. GraphiteTypeOK'
        BY <1>2, <2>2 DEF Ask, GraphiteTypeOK
    <2>4. WindowCovers'
        BY <1>2, <2>1, WindowBounds, Numbers DEF Ask, WindowCovers, GraphiteTypeOK
    <2> QED
        BY <2>3, <2>4
<1>3. ASSUME NEW outcome \in BOOLEAN, Stored(outcome)
      PROVE  GraphiteInv'
    <2>1. last' \in 0 .. MaxGap
        BY <1>3, Fetching, Numbers DEF Stored
    <2>2. fetch' = NoFetch
        BY <1>3 DEF Stored
    <2>3. GraphiteTypeOK'
        BY <1>3, <2>1, <2>2 DEF Stored, GraphiteTypeOK
    <2> QED
        BY <2>2, <2>3 DEF WindowCovers
<1>4. CASE Answer \/ AnswerError
    BY <1>3, <1>4 DEF Answer, AnswerError
<1>5. CASE Killed
    BY <1>5 DEF Killed, GraphiteTypeOK, WindowCovers
<1>6. ASSUME NEW host \in Hosts, Receive(host)
      PROVE  GraphiteInv'
    <2>1. PICK age \in 0 .. MaxLag, value \in Values :
             points' = [points EXCEPT ![host][age] = value]
        BY <1>6 DEF Receive
    <2>2. [points[host] EXCEPT ![age] = value] \in [Ages -> Values \cup {None}]
        BY DEF GraphiteTypeOK
    <2>3. points' \in [Hosts -> [Ages -> Values \cup {None}]]
        BY <2>1, <2>2 DEF GraphiteTypeOK
    <2> QED
        BY <1>6, <2>3 DEF Receive, GraphiteTypeOK, WindowCovers
<1> QED
    BY <1>1, <1>2, <1>4, <1>5, <1>6, TickInv DEF GraphiteNext
-----------------------------------------------------------------------------
(* A point stamped since the newest result began is among those judged, but
   for as much time after that start as the answer took. *)
LEMMA PointIsJudged ==
    ASSUME GraphiteInv, fetch # NoFetch, last # None,
           NEW host \in Hosts, NEW age \in 0 .. last - fetch.age, points[host][age] # None
    PROVE  points[host][age] \in Datapoints(host)
<1>1. /\ fetch.window \in Nat /\ fetch.age \in Nat /\ fetch.window >= last - fetch.age + 2
      /\ last \in Nat /\ last <= MaxGap /\ age \in Nat /\ age <= last - fetch.age
    BY Fetching, Numbers DEF GraphiteInv, WindowCovers, GraphiteTypeOK
<1>2. 2 * (fetch.window \div 2) >= fetch.window - 1
    BY <1>1
<1>3. 2 * (fetch.window \div 2) \in Int
    BY <1>1
<1>4. age \in Ages /\ age < 2 * (fetch.window \div 2) /\ age - fetch.age < fetch.window
    BY <1>1, <1>2, <1>3, Numbers DEF Ages
<1> QED
    BY <1>4 DEF Datapoints

(* One point beyond the threshold takes the series' extreme value beyond it. *)
LEMMA SeriesCrosses ==
    ASSUME GraphiteInv, NEW host \in Hosts, NEW value \in Datapoints(host), Breaks(value)
    PROVE  host \in Failures
<1> DEFINE S == Datapoints(host)
<1>1. PICK bound \in Nat :
         \A age \in Ages : points[host][age] # None => points[host][age] <= bound
    BY Bounded DEF GraphiteInv
<1>2. S \in SUBSET Nat /\ \A y \in S : y <= bound
    BY <1>1, GraphiteValues DEF Datapoints, GraphiteInv, GraphiteTypeOK
<1>3. value \in Nat /\ Min(S) \in Nat /\ Max(S) \in Nat /\ Min(S) <= value /\ value <= Max(S)
    <2> HIDE DEF S
    <2> QED
        BY <1>2, MinMax DEF S
<1>4. Crosses(check_type, S)
    <2> HIDE DEF S
    <2>1. value \in S /\ Threshold \in Nat
        BY GraphiteValues DEF S
    <2> QED
        BY <1>3, <2>1 DEF Breaks, Crosses
<1> QED
    BY <1>4 DEF Failures, WithData

(* A host with a point beyond the threshold counts among the failures. *)
LEMMA AnswerSeesSpikes ==
    ASSUME GraphiteInv, Answer, last # None, Cardinality(Spiking) > AllowedFailures
    PROVE  ~ succeeded'
<1>1. fetch # NoFetch
    BY DEF Answer, Stored
<1>2. Spiking \subseteq Failures
    <2> SUFFICES ASSUME NEW host \in Spiking PROVE host \in Failures
        OBVIOUS
    <2>1. PICK age \in 0 .. last - fetch.age : points[host][age] # None /\ Breaks(points[host][age])
        BY DEF Spiking
    <2>2. host \in Hosts
        BY DEF Spiking
    <2> QED
        BY <1>1, <2>1, <2>2, PointIsJudged, SeriesCrosses
<1>3. IsFiniteSet(Failures)
    BY GraphiteValues, FS_Subset DEF Failures, WithData
<1>4. /\ Cardinality(Spiking) <= Cardinality(Failures)
      /\ Cardinality(Failures) \in Nat /\ Cardinality(Spiking) \in Nat
    BY <1>2, <1>3, FS_Subset, FS_CardinalityType
<1>5. ~ (Cardinality(Failures) <= AllowedFailures)
    BY <1>4, Numbers
<1>6. succeeded' = (/\ Cardinality(Failures) <= AllowedFailures
                    /\ Cardinality(WithData) >= ExpectedHosts)
    BY Zenon DEF Answer, Stored
<1> QED
    BY <1>5, <1>6, Zenon
-----------------------------------------------------------------------------
(* The report of a period.  Its results are a sequence of outcomes; a start is
   the place where a group of like outcomes begins, from the first failed group
   on. *)
Outcomes == Seq(BOOLEAN)
Before(outcomes, time) == {t \in GroupStarts(outcomes) : t < time}
After(outcomes, time) == {t \in GroupStarts(outcomes) : t > time}
Problem(outcomes, time) ==
    [start |-> time,
     end |-> IF After(outcomes, time) = {} THEN Null ELSE Min(After(outcomes, time))]

LEMMA ProblemsAre ==
    ASSUME NEW outcomes
    PROVE  Problems(outcomes) =
              {Problem(outcomes, time) : time \in {t \in GroupStarts(outcomes) :
                                            Cardinality(Before(outcomes, t)) % 2 = 0}}
BY Zenon DEF Problems, Problem, Before, After

LEMMA Places ==
    ASSUME NEW outcomes \in Outcomes
    PROVE  /\ Len(outcomes) \in Nat /\ DOMAIN outcomes = 1 .. Len(outcomes)
           /\ \A i \in DOMAIN outcomes : i \in Nat /\ outcomes[i] \in BOOLEAN
           /\ GroupStarts(outcomes) \in SUBSET Nat
           /\ GroupStarts(outcomes) \subseteq DOMAIN outcomes
           /\ \A t : Before(outcomes, t) \in SUBSET Nat /\ IsFiniteSet(Before(outcomes, t))
           /\ \A t : After(outcomes, t) \in SUBSET Nat
<1>1. /\ Len(outcomes) \in Nat /\ DOMAIN outcomes = 1 .. Len(outcomes)
      /\ \A i \in DOMAIN outcomes : i \in Nat /\ outcomes[i] \in BOOLEAN
    BY LenProperties, ElementOfSeq DEF Outcomes
<1>2. GroupStarts(outcomes) \subseteq DOMAIN outcomes
    BY DEF GroupStarts
<1>3. IsFiniteSet(1 .. Len(outcomes))
    BY <1>1, FS_Interval
<1>4. \A t : Before(outcomes, t) \in SUBSET (1 .. Len(outcomes))
    BY <1>1, <1>2 DEF Before
<1>5. \A t : IsFiniteSet(Before(outcomes, t))
    BY <1>3, <1>4, FS_Subset
<1> QED
    BY <1>1, <1>2, <1>4, <1>5 DEF Before, After

(* Between two starts the outcomes stay what they were. *)
LEMMA Constant ==
    ASSUME NEW outcomes \in Outcomes, NEW i \in DOMAIN outcomes, NEW j \in DOMAIN outcomes,
           i <= j, \A t \in GroupStarts(outcomes) : ~ (i < t /\ t <= j),
           \E k \in 1 .. i : ~ outcomes[k]
    PROVE  outcomes[j] = outcomes[i]
<1> DEFINE wrong == {n \in DOMAIN outcomes : i <= n /\ n <= j /\ outcomes[n] # outcomes[i]}
<1>1. ASSUME NEW n \in wrong, \A m \in wrong : n <= m PROVE FALSE
    <2>1. n \in Nat /\ i \in Nat /\ j \in Nat /\ i < n /\ n <= j
        BY Places
    <2>2. n - 1 \in DOMAIN outcomes /\ i <= n - 1 /\ n - 1 <= j /\ ~ (n <= n - 1)
        BY <2>1, Places
    <2>3. n - 1 \notin wrong
        <3> HIDE DEF wrong
        <3> QED
            BY <1>1, <2>2
    <2>4. outcomes[n] # outcomes[n - 1]
        BY <2>2, <2>3
    <2>5. \E k \in 1 .. n : ~ outcomes[k]
        BY <2>1
    <2>6. n \in GroupStarts(outcomes)
        BY <2>4, <2>5 DEF GroupStarts
    <2> QED
        BY <2>1, <2>6
<1>2. wrong = {}
    <2>1. wrong \in SUBSET Nat
        BY Places
    <2> HIDE DEF wrong
    <2> QED
        BY <1>1, <2>1, Least
<1> QED
    BY <1>2, Places

(* A start lies at or before every failed outcome, and the first start is one. *)
LEMMA FirstFailure ==
    ASSUME NEW outcomes \in Outcomes, NEW i \in DOMAIN outcomes,
           \E k \in 1 .. i : ~ outcomes[k]
    PROVE  \E t \in GroupStarts(outcomes) : t <= i /\ ~ outcomes[t]
<1> DEFINE failed == {k \in DOMAIN outcomes : k <= i /\ ~ outcomes[k]}
<1>1. failed \in SUBSET Nat /\ failed # {}
    BY Places
<1>2. PICK t \in failed : \A k \in failed : t <= k
    <2> HIDE DEF failed
    <2> QED
        BY <1>1, Least
<1>3. t = 1 \/ outcomes[t] # outcomes[t - 1]
    <2>1. CASE t # 1
        <3>1. t - 1 \in DOMAIN outcomes /\ t - 1 <= i /\ ~ (t <= t - 1)
            BY <2>1, Places
        <3>2. t - 1 \notin failed
            <4> HIDE DEF failed
            <4> QED
                BY <1>2, <3>1
        <3> QED
            BY <3>1, <3>2, Places
    <2> QED
        BY <2>1
<1>4. t \in 1 .. t
    BY Places
<1>5. t \in GroupStarts(outcomes)
    BY <1>3, <1>4 DEF GroupStarts
<1> QED
    BY <1>5

(* Failed and successful groups take turns: a start with an even number of
   starts before it begins a failed group, one with an odd number a successful
   one. *)
LEMMA Alternate ==
    ASSUME NEW outcomes \in Outcomes, NEW time \in GroupStarts(outcomes)
    PROVE  outcomes[time] <=> Cardinality(Before(outcomes, time)) % 2 = 1
<1> DEFINE Odd(t) == Cardinality(Before(outcomes, t)) % 2 = 1
           wrong == {t \in GroupStarts(outcomes) : ~ (outcomes[t] <=> Odd(t))}
<1>1. ASSUME NEW t \in wrong, \A u \in wrong : t <= u PROVE FALSE
    <2>1. t \in DOMAIN outcomes /\ t \in Nat /\ t \in GroupStarts(outcomes)
        BY Places
    <2>2. CASE Before(outcomes, t) = {}
        <3>1. Cardinality(Before(outcomes, t)) = 0
            BY <2>2, FS_EmptySet
        <3>2. PICK u \in GroupStarts(outcomes) : u <= t /\ ~ outcomes[u]
            BY <2>1, FirstFailure DEF GroupStarts
        <3>3. u = t
            BY <2>1, <2>2, <3>2, Places DEF Before
        <3> QED
            BY <3>1, <3>2, <3>3
    <2>3. CASE Before(outcomes, t) # {}
        <3>1. PICK p \in Before(outcomes, t) : \A u \in Before(outcomes, t) : p >= u
            <4>1. \A u \in Before(outcomes, t) : u <= t
                BY <2>1, Places DEF Before
            <4> QED
                BY <2>1, <2>3, <4>1, Places, Greatest
        <3>2. p \in GroupStarts(outcomes) /\ p \in DOMAIN outcomes /\ p \in Nat /\ p < t
            BY Places DEF Before
        <3>3. p \notin wrong
            BY <1>1, <2>1, <3>2
        <3>4. Before(outcomes, t) = Before(outcomes, p) \cup {p} /\ p \notin Before(outcomes, p)
            BY <2>1, <3>1, <3>2, Places DEF Before
        <3>5. Cardinality(Before(outcomes, t)) = Cardinality(Before(outcomes, p)) + 1
            BY <3>4, Places, FS_AddElement
        <3>6. Odd(t) <=> ~ Odd(p)
            <4>1. Cardinality(Before(outcomes, p)) \in Nat
                BY Places, FS_CardinalityType
            <4> QED
                BY <3>5, <4>1
        <3>7. t - 1 \in DOMAIN outcomes /\ p <= t - 1
            BY <2>1, <3>2, Places
        <3>8. \A u \in GroupStarts(outcomes) : ~ (p < u /\ u <= t - 1)
            BY <2>1, <3>1, <3>2, Places DEF Before
        <3>9. outcomes[t - 1] = outcomes[p]
            BY <3>2, <3>7, <3>8, Constant DEF GroupStarts
        <3>10. outcomes[t] # outcomes[t - 1]
            BY <2>1, <3>2, Places DEF GroupStarts
        <3>11. outcomes[t] \in BOOLEAN /\ outcomes[p] \in BOOLEAN
            BY <2>1, <3>2, Places
        <3>12. outcomes[p] <=> Odd(p)
            BY <3>2, <3>3
        <3>13. ~ (outcomes[t] <=> Odd(t))
            OBVIOUS
        <3> QED
            BY <3>6, <3>9, <3>10, <3>11, <3>12, <3>13
    <2> QED
        BY <2>2, <2>3
<1>2. wrong = {}
    <2>1. wrong \in SUBSET Nat
        BY Places
    <2> HIDE DEF wrong
    <2> QED
        BY <1>1, <2>1, Least
<1> QED
    BY <1>2

(* A problem that covers i begins with the last start at or before i. *)
LEMMA OnlyTheLastCovers ==
    ASSUME NEW outcomes \in Outcomes, NEW i \in DOMAIN outcomes,
           NEW last_start \in GroupStarts(outcomes), last_start <= i,
           \A t \in GroupStarts(outcomes) : t <= i => t <= last_start,
           NEW time \in GroupStarts(outcomes)
    PROVE  Covers(Problem(outcomes, time), i) <=> time = last_start
<1> DEFINE later == After(outcomes, time)
<1>1. i \in Nat /\ time \in Nat /\ last_start \in Nat /\ later \in SUBSET Nat
    BY Places
<1>2. Covers(Problem(outcomes, time), i)
        <=> time <= i /\ (later = {} \/ (IF later = {} THEN Null ELSE Min(later)) = Null \/ i < Min(later))
    BY DEF Covers, Problem
<1>3. later # {} => Min(later) \in later /\ \A t \in later : Min(later) <= t
    <2> HIDE DEF later
    <2>1. ASSUME later # {} PROVE \E x \in later : \A t \in later : x <= t
        BY <1>1, <2>1, Least
    <2> QED
        BY <2>1 DEF Min
<1>4. Covers(Problem(outcomes, time), i) <=> time <= i /\ (later = {} \/ i < Min(later))
    <2> HIDE DEF later
    <2> QED
        BY <1>1, <1>2, <1>3, NullAssumption
<1>5. CASE time = last_start
    <2>1. \A t \in later : ~ (t <= i)
        BY <1>1, <1>5, Places DEF After
    <2>2. ASSUME later # {} PROVE i < Min(later)
        <3>1. Min(later) \in later
            BY <1>3, <2>2
        <3> QED
            BY <1>1, <2>1, <3>1
    <2> QED
        BY <1>4, <1>5, <2>2
<1>6. CASE time # last_start
    <2>1. time <= i => last_start \in later
        BY <1>1, <1>6 DEF After
    <2>2. ASSUME time <= i PROVE later # {} /\ ~ (i < Min(later))
        <3>1. later # {} /\ Min(later) \in later /\ Min(later) <= last_start
            BY <1>3, <2>1, <2>2
        <3> QED
            BY <1>1, <3>1
    <2> QED
        BY <1>4, <1>6, <2>2
<1> QED
    BY <1>5, <1>6

(* The report of any sequence of results: each failed one lies in exactly one
   problem, a successful one in none. *)
LEMMA ReportOfAPeriod ==
    ASSUME NEW outcomes \in Outcomes, NEW i \in DOMAIN outcomes
    PROVE  Cardinality({problem \in Problems(outcomes) : Covers(problem, i)})
              = IF outcomes[i] THEN 0 ELSE 1
<1> DEFINE Even(t) == Cardinality(Before(outcomes, t)) % 2 = 0
           begun == {t \in GroupStarts(outcomes) : t <= i}
           covering == {problem \in Problems(outcomes) : Covers(problem, i)}
<1>1. covering = {Problem(outcomes, t) : t \in
                    {u \in GroupStarts(outcomes) : Even(u) /\ Covers(Problem(outcomes, u), i)}}
    <2>1. Problems(outcomes) = {Problem(outcomes, t) : t \in {u \in GroupStarts(outcomes) : Even(u)}}
        BY ProblemsAre
    <2> HIDE DEF Even
    <2> QED
        BY <2>1
<1>2. CASE begun = {}
    <2>1. \A t \in GroupStarts(outcomes) : ~ Covers(Problem(outcomes, t), i)
        BY <1>2 DEF Covers, Problem
    <2>2. covering = {}
        <3> HIDE DEF covering, Even
        <3> QED
            BY <1>1, <2>1
    <2>3. ~ \E k \in 1 .. i : ~ outcomes[k]
        BY <1>2, FirstFailure
    <2>4. outcomes[i]
        <3>1. i \in 1 .. i
            BY Places
        <3> QED
            BY <2>3, <3>1
    <2> QED
        BY <2>2, <2>4, FS_EmptySet
<1>3. CASE begun # {}
    <2>1. i \in Nat /\ begun \in SUBSET Nat /\ \A t \in begun : t <= i
        BY Places
    <2>2. PICK s \in begun : \A t \in begun : s >= t
        <3> HIDE DEF begun
        <3> QED
            BY <1>3, <2>1, Greatest
    <2>3. /\ s \in GroupStarts(outcomes) /\ s \in DOMAIN outcomes /\ s \in Nat /\ s <= i
          /\ \A t \in GroupStarts(outcomes) : t <= i => t <= s
          /\ \A t \in GroupStarts(outcomes) : ~ (s < t /\ t <= i)
        BY <2>1, <2>2, Places
    <2>4. outcomes[i] = outcomes[s]
        BY <2>1, <2>3, Constant DEF GroupStarts
    <2>5. \A t \in GroupStarts(outcomes) : Covers(Problem(outcomes, t), i) <=> t = s
        BY <2>3, OnlyTheLastCovers
    <2>6. outcomes[s] <=> ~ Even(s)
        <3>1. Cardinality(Before(outcomes, s)) \in Nat
            BY Places, FS_CardinalityType
        <3>2. outcomes[s] <=> Cardinality(Before(outcomes, s)) % 2 = 1
            BY <2>3, Alternate
        <3> QED
            BY <3>1, <3>2
    <2>7. covering = IF Even(s) THEN {Problem(outcomes, s)} ELSE {}
        <3> HIDE DEF covering, Even
        <3> QED
            BY <1>1, <2>3, <2>5
    <2>8. Cardinality(covering) = IF outcomes[i] THEN 0 ELSE 1
        <3> HIDE DEF covering, Even
        <3> QED
            BY <2>4, <2>6, <2>7, FS_EmptySet, FS_Singleton
    <2> QED
        BY <2>8
<1> QED
    BY <1>2, <1>3
-----------------------------------------------------------------------------
(* The invariant of a web check: its types, and that nothing makes the status of
   a Jenkins check other than passing. *)
JenkinsPasses == settings.kind = "jenkins" => passing

WebInv == WebTypeOK /\ JenkinsPasses

LEMMA WebNumbers ==
    /\ RecentLimit \in Nat \ {0} /\ MaxResults \in Nat \ {0} /\ RecentLimit <= MaxResults
BY WebAssumption

LEMMA JudgementOK ==
    ASSUME NEW recent
    PROVE  /\ CalculatedPassing(recent) \in BOOLEAN
           /\ settings.kind = "jenkins" => CalculatedPassing(recent)
BY DEF CalculatedPassing, StoredFailures, DebouncedPassing

LEMMA SucceedsOK == Succeeds \in BOOLEAN
BY DEF Succeeds, HttpSucceeds, JenkinsSucceeds

(* The oldest result makes room for a new one. *)
LEMMA RunKeeps ==
    ASSUME NEW old \in Seq(BOOLEAN), Len(old) <= MaxResults, NEW outcome \in BOOLEAN
    PROVE  LET kept == IF Len(old) < MaxResults THEN old ELSE Tail(old)
           IN  /\ Append(kept, outcome) \in Seq(BOOLEAN)
               /\ Len(Append(kept, outcome)) <= MaxResults
<1> DEFINE kept == IF Len(old) < MaxResults THEN old ELSE Tail(old)
<1>1. kept \in Seq(BOOLEAN) /\ Len(kept) \in Nat /\ Len(kept) < MaxResults
    <2>1. Len(old) \in Nat /\ MaxResults \in Nat
        BY WebNumbers, LenProperties
    <2>2. CASE Len(old) < MaxResults
        BY <2>1, <2>2
    <2>3. CASE ~ (Len(old) < MaxResults)
        <3>1. old # <<>>
            BY <2>1, <2>3, WebNumbers
        <3> QED
            BY <2>1, <2>3, <3>1, HeadTailProperties
    <2> QED
        BY <2>2, <2>3
<1> HIDE DEF kept
<1>2. Append(kept, outcome) \in Seq(BOOLEAN) /\ Len(Append(kept, outcome)) = Len(kept) + 1
    BY <1>1, AppendProperties
<1>3. Len(Append(kept, outcome)) <= MaxResults
    BY <1>1, <1>2, WebNumbers
<1> QED
    BY <1>2, <1>3 DEF kept

LEMMA WebInitInv == WebInit => WebInv
<1>1. <<>> \in Seq(BOOLEAN) /\ Len(<<>>) <= MaxResults
    BY WebNumbers
<1> QED
    BY <1>1 DEF WebInit, WebInv, WebTypeOK, JenkinsPasses

LEMMA WebNextInv == ASSUME WebInv, [WebNext]_web PROVE WebInv'
<1> USE DEF WebInv
<1>1. CASE UNCHANGED web
    BY <1>1 DEF web, WebTypeOK, JenkinsPasses, Sites, Pages, Jobs, PossibleJob, Settings
<1>2. CASE WebRun
    <2>1. results' \in Seq(BOOLEAN) /\ Len(results') <= MaxResults
        BY <1>2, RunKeeps, SucceedsOK, Zenon DEF WebRun, WebTypeOK
    <2>2. passing' \in BOOLEAN /\ (settings.kind = "jenkins" => passing')
        BY <1>2, JudgementOK DEF WebRun
    <2>3. has_run' \in BOOLEAN /\ settings' = settings /\ site' = site
        BY <1>2 DEF WebRun
    <2> QED
        BY <2>1, <2>2, <2>3 DEF WebTypeOK, JenkinsPasses
<1>3. CASE SiteChanges
    BY <1>3 DEF SiteChanges, WebTypeOK, JenkinsPasses
<1>4. CASE WebEdit
    <2>1. settings' \in Settings /\ settings'.kind = settings.kind
        BY <1>4 DEF WebEdit
    <2>2. /\ CalculatedPassing(RecentResults(results))' \in BOOLEAN
          /\ settings'.kind = "jenkins" => CalculatedPassing(RecentResults(results))'
        BY DEF CalculatedPassing, StoredFailures, DebouncedPassing
    <2>3. passing' = (~ has_run \/ CalculatedPassing(RecentResults(results))')
        BY <1>4 DEF WebEdit
    <2>4. passing' \in BOOLEAN /\ (settings'.kind = "jenkins" => passing')
        BY <2>2, <2>3, Zenon
    <2>5. UNCHANGED <<site, results, has_run>>
        BY <1>4 DEF WebEdit
    <2> QED
        BY <2>1, <2>4, <2>5 DEF WebTypeOK, JenkinsPasses
<1>5. CASE WebPurge
    <2>1. PICK first \in 2 .. Len(results) + 1 : results' = SubSeq(results, first, Len(results))
        BY <1>5 DEF WebPurge
    <2>2. Len(results) \in Nat /\ \A i \in first .. Len(results) : results[i] \in BOOLEAN
        BY LenProperties, ElementOfSeq DEF WebTypeOK
    <2>3. /\ results' \in Seq(BOOLEAN)
          /\ Len(results') = IF first <= Len(results) THEN Len(results) - first + 1 ELSE 0
        BY <2>1, <2>2, SubSeqProperties
    <2>4. Len(results') <= MaxResults
        BY <2>1, <2>2, <2>3, WebNumbers DEF WebTypeOK
    <2> QED
        BY <1>5, <2>3, <2>4 DEF WebPurge, WebTypeOK, JenkinsPasses
<1> QED
    BY <1>1, <1>2, <1>3, <1>4, <1>5 DEF WebNext
-----------------------------------------------------------------------------
(* Both kinds together, one of them at rest. *)
KindsInv == GraphiteInv /\ WebInv

LEMMA JenkinsExists ==
    /\ \E s \in Settings : s.kind = "jenkins"
    /\ \E s \in Sites("jenkins") : TRUE
<1>1. PICK d \in WebDebounces : TRUE
    BY WebAssumption
<1> DEFINE s == [kind |-> "jenkins", debounce |-> d, looks_at |-> {}]
           job == [up |-> TRUE, found |-> TRUE, disabled |-> FALSE,
                   build |-> "none", failures |-> 0, queued |-> "no"]
<1>2. s \in Settings /\ s.kind = "jenkins"
    BY DEF Settings
<1>3. job \in Jobs /\ PossibleJob(job)
    BY DEF Jobs, PossibleJob
<1>4. job \in Sites("jenkins")
    BY <1>3 DEF Sites
<1> QED
    BY <1>2, <1>4

LEMMA InitInv == Init => KindsInv
<1>1. ASSUME Init, polymorphic_ctype = "graphitestatuscheck", GraphiteInit,
             settings = CHOOSE s \in Settings : s.kind = "jenkins",
             site = CHOOSE s \in Sites(settings.kind) : TRUE,
             results = <<>>, has_run = FALSE, passing = TRUE
      PROVE  KindsInv
    <2>1. settings \in Settings /\ settings.kind = "jenkins"
        BY <1>1, JenkinsExists
    <2>2. site \in Sites(settings.kind)
        BY <1>1, <2>1, JenkinsExists
    <2>3. <<>> \in Seq(BOOLEAN) /\ Len(<<>>) <= MaxResults
        BY WebNumbers
    <2> QED
        BY <1>1, <2>1, <2>2, <2>3, GraphiteInitInv
        DEF KindsInv, WebInv, WebTypeOK, JenkinsPasses
<1>2. ASSUME WebInit, check_type = CHOOSE type \in CheckTypes : TRUE,
             points = [host \in Hosts |-> [age \in Ages |-> None]],
             last = None, fetch = NoFetch, succeeded = TRUE
      PROVE  KindsInv
    <2>1. check_type \in CheckTypes
        BY <1>2, GraphiteValues
    <2>2. GraphiteInit
        BY <1>2, <2>1 DEF GraphiteInit
    <2> QED
        BY <1>2, <2>2, GraphiteInitInv, WebInitInv DEF KindsInv
<1> QED
    BY <1>1, <1>2 DEF Init

LEMMA NextInv == KindsInv /\ [Next]_vars => KindsInv'
<1> SUFFICES ASSUME KindsInv, [Next]_vars PROVE KindsInv'
    OBVIOUS
<1>1. [GraphiteNext]_graphite /\ [WebNext]_web
    BY DEF Next, GraphiteStep, WebStep, vars, graphite, web
<1> QED
    BY <1>1, GraphiteNextInv, WebNextInv DEF KindsInv

LEMMA Invariant == Spec => []KindsInv
BY InitInv, NextInv, PTL DEF Spec

(* Every variable of a check of any kind keeps its type, the bounds on the age
   of a request and on the results kept among them. *)
THEOREM TypesCorrect == Spec => []TypeOK
<1>1. KindsInv => TypeOK
    BY DEF KindsInv, GraphiteInv, WebInv, TypeOK
<1> QED
    BY <1>1, Invariant, PTL

(* Points beyond the threshold (graphite.py, base.py:457) stamped since the
   previous result began are in the window of the next run (time_to_check), so
   that its hosts count among the failures, whatever runs are late or lost. *)
THEOREM SpikesFound == Spec => SpikesAreSeen
<1>1. KindsInv /\ [Next]_vars
        => [Answer /\ last # None /\ Cardinality(Spiking) > AllowedFailures => ~ succeeded']_graphite
    BY AnswerSeesSpikes DEF KindsInv
<1> QED
    BY <1>1, Invariant, PTL DEF SpikesAreSeen, Spec

(* get_report() (views.py:399) for any number of results and any period: each
   failed result lies in exactly one problem, no successful one lies in any. *)
THEOREM ReportsExact == Spec => []ReportIsExact
<1>1. KindsInv => ReportIsExact
    <2> SUFFICES ASSUME KindsInv, NEW from \in DOMAIN results, NEW to \in DOMAIN results,
                        NEW i \in DOMAIN SubSeq(results, from, to)
                 PROVE  Cardinality({problem \in Problems(SubSeq(results, from, to)) : Covers(problem, i)})
                           = IF SubSeq(results, from, to)[i] THEN 0 ELSE 1
        BY DEF ReportIsExact
    <2>1. results \in Seq(BOOLEAN) /\ Len(results) \in Nat
        BY LenProperties DEF KindsInv, WebInv, WebTypeOK
    <2>2. from \in Int /\ to \in Int /\ \A j \in from .. to : results[j] \in BOOLEAN
        BY <2>1, ElementOfSeq
    <2>3. SubSeq(results, from, to) \in Outcomes
        BY <2>2, SubSeqProperties DEF Outcomes
    <2> QED
        BY <2>3, ReportOfAPeriod
<1> QED
    BY <1>1, Invariant, PTL

(* A Jenkins check passes, whatever its job does and however it is edited
   (jenkins_check_plugin.py: _run() stores no consecutive_failures): the reason
   why JenkinsFails does not hold. *)
THEOREM JenkinsNeverFails == Spec => [](settings.kind = "jenkins" => passing)
<1>1. KindsInv => (settings.kind = "jenkins" => passing)
    BY DEF KindsInv, WebInv, JenkinsPasses
<1> QED
    BY <1>1, Invariant, PTL

(* What a run reads after it has stored a result (recent_results(), base.py) is
   the new outcome and then what it would have read before, up to the limit: no
   more need be kept of the results, which is how CheckRun keeps them. *)
THEOREM RecentResultsGrow ==
    ASSUME NEW stored \in Seq(BOOLEAN), NEW outcome \in BOOLEAN
    PROVE  LET recent == RecentResults(stored) IN
           RecentResults(Append(stored, outcome)) =
              <<outcome>> \o (IF Len(recent) < RecentLimit THEN recent
                              ELSE SubSeq(recent, 1, RecentLimit - 1))
<1> DEFINE n == Len(stored)
           recent == RecentResults(stored)
           grown == Append(stored, outcome)
           kept == IF Len(recent) < RecentLimit THEN recent ELSE SubSeq(recent, 1, RecentLimit - 1)
           Lesser(a) == IF a < RecentLimit THEN a ELSE RecentLimit
<1>1. n \in Nat /\ RecentLimit \in Nat /\ RecentLimit > 0
    BY LenProperties, WebNumbers
<1>2. ASSUME NEW a \in Nat PROVE Min({a, RecentLimit}) = Lesser(a)
    BY <1>1 DEF Min
<1>3. /\ grown \in Seq(BOOLEAN) /\ Len(grown) = n + 1
      /\ \A i \in 1 .. n : grown[i] = stored[i]
      /\ grown[n + 1] = outcome
    BY AppendProperties
<1>4. recent = [i \in 1 .. Lesser(n) |-> stored[n + 1 - i]]
    BY <1>1, <1>2 DEF RecentResults
<1>5. RecentResults(grown) = [i \in 1 .. Lesser(n + 1) |-> grown[n + 1 + 1 - i]]
    <2>1. RecentResults(grown) = [i \in 1 .. Min({n + 1, RecentLimit}) |-> grown[n + 1 + 1 - i]]
        BY <1>3 DEF RecentResults
    <2>2. Min({n + 1, RecentLimit}) = Lesser(n + 1)
        BY <1>1, <1>2
    <2> QED
        BY <2>1, <2>2
<1>6. recent \in Seq(BOOLEAN) /\ Len(recent) = Lesser(n)
    <2>1. \A i \in 1 .. Lesser(n) : stored[n + 1 - i] \in BOOLEAN
        BY <1>1, ElementOfSeq
    <2>2. Lesser(n) \in Nat
        BY <1>1
    <2> QED
        BY <1>4, <2>1, <2>2, IsASeq, LenProperties
<1>7. /\ kept \in Seq(BOOLEAN) /\ Len(kept) = Lesser(n + 1) - 1
      /\ \A i \in 1 .. Lesser(n + 1) - 1 : kept[i] = stored[n + 1 - i]
    <2>1. CASE Len(recent) < RecentLimit
        BY <1>1, <1>4, <1>6, <2>1
    <2>2. CASE ~ (Len(recent) < RecentLimit)
        <3>1. RecentLimit - 1 \in Int /\ \A i \in 1 .. RecentLimit - 1 : recent[i] \in BOOLEAN
            BY <1>1, <1>6, <2>2, ElementOfSeq
        <3>2. /\ SubSeq(recent, 1, RecentLimit - 1) \in Seq(BOOLEAN)
              /\ Len(SubSeq(recent, 1, RecentLimit - 1)) =
                    IF 1 <= RecentLimit - 1 THEN RecentLimit - 1 - 1 + 1 ELSE 0
              /\ \A i \in 1 .. RecentLimit - 1 - 1 + 1 :
                    SubSeq(recent, 1, RecentLimit - 1)[i] = recent[1 + i - 1]
            BY <3>1, SubSeqProperties
        <3>3. Lesser(n) = RecentLimit /\ Lesser(n + 1) = RecentLimit
            BY <1>1, <1>6, <2>2
        <3>4. kept = SubSeq(recent, 1, RecentLimit - 1)
            BY <2>2
        <3>5. \A i \in 1 .. RecentLimit - 1 :
                 /\ 1 + i - 1 = i /\ i \in 1 .. RecentLimit - 1 - 1 + 1 /\ i \in 1 .. Lesser(n)
            BY <1>1, <3>3
        <3>6. \A i \in 1 .. RecentLimit - 1 : kept[i] = stored[n + 1 - i]
            <4> SUFFICES ASSUME NEW i \in 1 .. RecentLimit - 1 PROVE kept[i] = stored[n + 1 - i]
                OBVIOUS
            <4>1. kept[i] = recent[i]
                BY <3>2, <3>4, <3>5
            <4>2. recent[i] = stored[n + 1 - i]
                BY <1>4, <3>5
            <4> QED
                BY <4>1, <4>2
        <3>7. Len(kept) = RecentLimit - 1
            BY <1>1, <3>2, <3>4
        <3> QED
            BY <3>2, <3>3, <3>4, <3>6, <3>7
    <2> QED
        BY <2>1, <2>2
<1> HIDE DEF kept, recent, grown
<1>8. /\ <<outcome>> \o kept \in Seq(BOOLEAN)
      /\ Len(<<outcome>> \o kept) = Lesser(n + 1)
      /\ \A i \in 1 .. Lesser(n + 1) : (<<outcome>> \o kept)[i] = grown[n + 2 - i]
    <2>1. <<outcome>> \in Seq(BOOLEAN) /\ Len(<<outcome>>) = 1 /\ <<outcome>>[1] = outcome
        OBVIOUS
    <2>2. /\ <<outcome>> \o kept \in Seq(BOOLEAN)
          /\ Len(<<outcome>> \o kept) = 1 + (Lesser(n + 1) - 1)
          /\ \A i \in 1 .. 1 + (Lesser(n + 1) - 1) :
                (<<outcome>> \o kept)[i] = IF i <= 1 THEN <<outcome>>[i] ELSE kept[i - 1]
        BY <1>7, <2>1, ConcatProperties
    <2>3. Lesser(n + 1) \in Nat /\ Lesser(n + 1) >= 1 /\ Lesser(n + 1) <= n + 1
        BY <1>1
    <2>4. ASSUME NEW i \in 1 .. Lesser(n + 1)
          PROVE  (<<outcome>> \o kept)[i] = grown[n + 2 - i]
        <3>1. CASE i = 1
            <4>1. n + 2 - i = n + 1
                BY <1>1, <3>1
            <4> QED
                BY <1>3, <2>1, <2>2, <2>3, <3>1, <4>1
        <3>2. CASE i # 1
            <4>1. /\ i - 1 \in 1 .. Lesser(n + 1) - 1 /\ n + 2 - i \in 1 .. n
                  /\ n + 1 - (i - 1) = n + 2 - i /\ ~ (i <= 1)
                  /\ i \in 1 .. 1 + (Lesser(n + 1) - 1)
                BY <1>1, <2>3, <3>2
            <4>2. (<<outcome>> \o kept)[i] = kept[i - 1]
                BY <2>2, <4>1
            <4>3. kept[i - 1] = stored[n + 2 - i]
                BY <1>7, <4>1
            <4> QED
                BY <1>3, <4>1, <4>2, <4>3
        <3> QED
            BY <3>1, <3>2
    <2> QED
        BY <2>2, <2>3, <2>4
<1>9. /\ RecentResults(grown) \in Seq(BOOLEAN)
      /\ Len(RecentResults(grown)) = Lesser(n + 1)
      /\ \A i \in 1 .. Lesser(n + 1) : RecentResults(grown)[i] = grown[n + 2 - i]
    <2>1. Lesser(n + 1) \in Nat /\ Lesser(n + 1) <= n + 1
        BY <1>1
    <2>2. \A i \in 1 .. Lesser(n + 1) : n + 1 + 1 - i = n + 2 - i /\ n + 2 - i \in 1 .. n + 1
        BY <1>1, <2>1
    <2>3. \A i \in 1 .. Lesser(n + 1) : grown[n + 1 + 1 - i] \in BOOLEAN
        BY <1>3, <2>2, ElementOfSeq
    <2>4. RecentResults(grown) \in Seq(BOOLEAN) /\ Len(RecentResults(grown)) = Lesser(n + 1)
        BY <1>5, <2>1, <2>3, IsASeq, LenProperties
    <2> QED
        BY <1>5, <2>2, <2>4
<1>10. RecentResults(grown) = <<outcome>> \o kept
    BY <1>8, <1>9, SeqEqual
<1> QED
    BY <1>10 DEF kept, recent, grown
=============================================================================

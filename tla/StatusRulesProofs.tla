-------------------------- MODULE StatusRulesProofs --------------------------
(* Facts about the operators of StatusRules, proved for every argument. *)
EXTENDS StatusRules, TLAPS

(* The rank of each status. *)
LEMMA RankValues ==
    /\ Rank["PASSING"] = 0
    /\ Rank["WARNING"] = 1
    /\ Rank["ERROR"] = 2
    /\ Rank["CRITICAL"] = 3
BY DEF Rank, Status, Importance

(* most_severe() (base.py:170) returns PASSING exactly when nothing fails, and
   otherwise an importance of a failing check that none of them exceeds. *)
THEOREM MostSevereIsMaximal ==
    ASSUME NEW importances \in SUBSET Importance
    PROVE  /\ MostSevere(importances) \in Status
           /\ MostSevere(importances) = "PASSING" <=> importances = {}
           /\ importances # {} => MostSevere(importances) \in importances
           /\ \A i \in importances : Rank[i] <= Rank[MostSevere(importances)]
<1>1. CASE "CRITICAL" \in importances
    BY <1>1, RankValues DEF MostSevere, Status, Importance
<1>2. CASE "CRITICAL" \notin importances /\ "ERROR" \in importances
    BY <1>2, RankValues DEF MostSevere, Status, Importance
<1>3. CASE importances = {"WARNING"}
    BY <1>3, RankValues DEF MostSevere, Status, Importance
<1>4. CASE importances = {}
    BY <1>4 DEF MostSevere, Status
<1> QED
    BY <1>1, <1>2, <1>3, <1>4 DEF Importance

(* default_calculate_debounced_passing() (base.py:52): a failure in front of
   some results counts as one of the failures debounce permits, and with a
   debounce of 0 it fails the check. *)
THEOREM FailureUsesUpDebounce ==
    ASSUME NEW recent \in Seq(BOOLEAN), NEW debounce \in Nat
    PROVE  /\ ~ DebouncedPassing(<<FALSE>> \o recent, 0)
           /\ recent # <<>> =>
                 DebouncedPassing(<<FALSE>> \o recent, debounce + 1)
                     = DebouncedPassing(recent, debounce)
<1> DEFINE longer == <<FALSE>> \o recent
<1>1. /\ Len(longer) = Len(recent) + 1
      /\ longer[1] = FALSE
      /\ \A i \in 1 .. Len(recent) : longer[i + 1] = recent[i]
      /\ DOMAIN longer = 1 .. Len(recent) + 1
      /\ DOMAIN recent = 1 .. Len(recent)
      /\ Len(recent) \in Nat
    OBVIOUS
<1>2. longer # <<>>
    OBVIOUS
<1> HIDE DEF longer
<1>3. ~ DebouncedPassing(longer, 0)
    BY <1>1, <1>2 DEF DebouncedPassing
<1>4. ASSUME recent # <<>>, DebouncedPassing(longer, debounce + 1)
      PROVE  DebouncedPassing(recent, debounce)
    <2>1. PICK i \in 1 .. Len(recent) + 1 : i <= debounce + 2 /\ longer[i]
        BY <1>1, <1>2, <1>4 DEF DebouncedPassing
    <2>2. i # 1 /\ i - 1 \in 1 .. Len(recent)
        BY <1>1, <2>1
    <2>3. i - 1 <= debounce + 1 /\ recent[i - 1]
        BY <1>1, <2>1, <2>2
    <2> QED
        BY <1>1, <2>2, <2>3 DEF DebouncedPassing
<1>5. ASSUME recent # <<>>, DebouncedPassing(recent, debounce)
      PROVE  DebouncedPassing(longer, debounce + 1)
    <2>1. PICK i \in 1 .. Len(recent) : i <= debounce + 1 /\ recent[i]
        BY <1>1, <1>5 DEF DebouncedPassing
    <2>2. i + 1 \in 1 .. Len(recent) + 1 /\ i + 1 <= debounce + 2 /\ longer[i + 1]
        BY <1>1, <2>1
    <2> QED
        BY <1>1, <2>2 DEF DebouncedPassing
<1>6. DebouncedPassing(recent, debounce) \in BOOLEAN
      /\ DebouncedPassing(longer, debounce + 1) \in BOOLEAN
    BY DEF DebouncedPassing
<1> QED
    BY <1>3, <1>4, <1>5, <1>6 DEF longer
=============================================================================

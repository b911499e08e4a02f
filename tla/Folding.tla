------------------------------ MODULE Folding ------------------------------
(***************************************************************************)
(* Induction for data, and with it what FoldLeft of the community modules  *)
(* does to a sequence.  Induction is over sets of numbers: the principle   *)
(* for operators cannot be instantiated by the provers, that every set of   *)
(* numbers has a least member can.                                         *)
(***************************************************************************)
EXTENDS Integers, Sequences, SequencesExt, FiniteSetsExt, WellFoundedInduction, TLAPS

Below == {pair \in Nat \X Nat : pair[1] < pair[2]}

\* The well-founded order of the numbers.
LEMMA BelowIsWellFounded == IsWellFoundedOn(Below, Nat)
<1>1. OpToRel(<, Nat) = Below
  BY Zenon DEF OpToRel, Below
<1> QED
  BY <1>1, NatLessThanWellFounded

\* Every set of numbers that is not empty has a least member.
LEMMA LeastNumber ==
    ASSUME NEW T \in SUBSET Nat, T # {}
    PROVE  \E n \in T : \A m \in T : n <= m
<1>1. \E n \in T : \A m \in T : <<m, n>> \notin Below
  BY BelowIsWellFounded, WFMin
<1>2. \A m, n \in Nat : m < n => <<m, n>> \in Below
  BY DEF Below
<1>3. PICK n \in T : \A m \in T : <<m, n>> \notin Below
  BY <1>1
<1>4. ASSUME NEW m \in T
      PROVE  n <= m
  <2>1. m \in Nat /\ n \in Nat /\ <<m, n>> \notin Below
    BY <1>3
  <2>2. ~(m < n)
    BY <1>2, <2>1
  <2> QED
    BY <2>1, <2>2
<1> QED
  BY <1>4

\* Induction up to n, for the numbers of a set.
LEMMA Induction ==
    ASSUME NEW n \in Nat, NEW S, 0 \in S, \A k \in 0..(n - 1) : k \in S => k + 1 \in S
    PROVE  \A k \in 0..n : k \in S
<1> DEFINE T == {k \in 0..n : k \notin S}
<1> SUFFICES ASSUME T # {} PROVE FALSE
  OBVIOUS
<1>1. PICK k \in T : \A m \in T : k <= m
  <2>1. T \in SUBSET Nat
    OBVIOUS
  <2> HIDE DEF T
  <2> QED
    BY <2>1, LeastNumber
<1>2. k # 0 /\ k - 1 \in 0..(n - 1) /\ k - 1 \notin T
  BY <1>1
<1> QED
  BY <1>1, <1>2

\* A set of the numbers up to n has a greatest and a least member.
LEMMA Greatest ==
    ASSUME NEW n \in Nat, NEW s \in SUBSET (1..n), s # {}
    PROVE  Max(s) \in s /\ \A k \in s : k <= Max(s)
<1> DEFINE T == {b \in Nat : \A k \in s : k <= b}
<1>1. PICK b \in T : \A c \in T : b <= c
  <2>1. n \in T
    OBVIOUS
  <2> QED
    BY <2>1, LeastNumber
<1>2. b \in s
  <2> SUFFICES ASSUME b \notin s PROVE FALSE
    OBVIOUS
  <2>1. \A k \in s : k <= b - 1 /\ k \in Nat
    BY <1>1
  <2>2. b - 1 \in Nat
    <3>1. PICK k \in s : TRUE
      OBVIOUS
    <3> QED
      BY <2>1, <3>1
  <2>3. b - 1 \in T
    BY <2>1, <2>2
  <2> QED
    BY <1>1, <2>3
<1>3. \E x \in s : \A y \in s : x >= y
  BY <1>1, <1>2
<1> QED
  BY <1>3 DEF Max

LEMMA Least ==
    ASSUME NEW s \in SUBSET Nat, s # {}
    PROVE  Min(s) \in s /\ \A k \in s : Min(s) <= k
<1>1. \E x \in s : \A y \in s : x =< y
  BY LeastNumber
<1> QED
  BY <1>1 DEF Min

\* The iteration by which a fold from the left is defined.  A step is a function of
\* what was folded so far and the index of the next element.
Iterates(iter, n, base, step) ==
    \A s \in SUBSET (1..n) :
        iter[s] = IF s = {} THEN base ELSE step[<<iter[s \ {Max(s)}], Max(s)>>]

\* It exists for every sequence.
LEMMA FoldExists ==
    ASSUME NEW X, NEW base \in X, NEW n \in Nat, NEW step \in [X \X (1..n) -> X]
    PROVE  \E iter \in [SUBSET (1..n) -> X] : Iterates(iter, n, base, step)
<1> DEFINE Folds(iter, m) == Iterates(iter, m, base, step)
           S == {m \in 0..n : \E iter \in [SUBSET (1..m) -> X] : Folds(iter, m)}
<1> USE DEF Iterates
<1>1. 0 \in S
  <2> DEFINE iter == [s \in SUBSET (1..0) |-> base]
  <2>1. iter \in [SUBSET (1..0) -> X]
    OBVIOUS
  <2>2. \A s \in SUBSET (1..0) : s = {}
    OBVIOUS
  <2>3. Folds(iter, 0)
    BY <2>2
  <2> HIDE DEF iter, Folds
  <2>4. \E i \in [SUBSET (1..0) -> X] : Folds(i, 0)
    BY <2>1, <2>3
  <2>5. 0 \in 0..n
    OBVIOUS
  <2> QED
    BY <2>4, <2>5
<1>2. ASSUME NEW m \in 0..(n - 1), m \in S
      PROVE  m + 1 \in S
  <2>1. PICK iter \in [SUBSET (1..m) -> X] : Folds(iter, m)
    BY <1>2
  <2> DEFINE k == m + 1
             next == [s \in SUBSET (1..k) |-> IF k \in s THEN step[<<iter[s \ {k}], k>>] ELSE iter[s]]
  <2>2. k \in 1..n /\ m = k - 1
    OBVIOUS
  <2>3. \A s \in SUBSET (1..k) : IF k \in s THEN s \ {k} \in SUBSET (1..m) ELSE s \in SUBSET (1..m)
    OBVIOUS
  <2>4. next \in [SUBSET (1..k) -> X]
    <3> SUFFICES ASSUME NEW s \in SUBSET (1..k)
                 PROVE  (IF k \in s THEN step[<<iter[s \ {k}], k>>] ELSE iter[s]) \in X
      OBVIOUS
    <3> QED
      BY <2>2, <2>3
  <2>5. ASSUME NEW s \in SUBSET (1..k), s # {}
        PROVE  next[s] = step[<<next[s \ {Max(s)}], Max(s)>>]
    <3>1. Max(s) \in s /\ \A j \in s : j <= Max(s)
      <4>1. k \in Nat
        BY <2>2
      <4> HIDE DEF k, next
      <4> QED
        BY <2>5, <4>1, Greatest
    <3>2. CASE k \in s
      <4>1. Max(s) = k
        <5>1. Max(s) \in 1..k /\ k <= Max(s)
          BY <3>1, <3>2
        <5> QED
          BY <2>2, <5>1
      <4>2. next[s \ {k}] = iter[s \ {k}]
        BY <2>3, <3>2
      <4> QED
        BY <3>2, <4>1, <4>2
    <3>3. CASE k \notin s
      <4>1. s \in SUBSET (1..m) /\ s \ {Max(s)} \in SUBSET (1..k) /\ k \notin s \ {Max(s)}
        BY <2>3, <3>3
      <4>2. next[s] = iter[s] /\ next[s \ {Max(s)}] = iter[s \ {Max(s)}]
        BY <3>3, <4>1
      <4>3. iter[s] = step[<<iter[s \ {Max(s)}], Max(s)>>]
        BY <2>1, <2>5, <4>1
      <4> QED
        BY <4>2, <4>3
    <3> QED
      BY <3>2, <3>3
  <2>6. next[{}] = base
    <3>1. iter[{}] = base
      BY <2>1
    <3> QED
      BY <3>1
  <2>7. Folds(next, k)
    BY <2>5, <2>6
  <2>8. k \in 0..n
    BY <2>2
  <2> HIDE DEF next, k, Folds
  <2> QED
    BY <2>4, <2>7, <2>8 DEF k
<1>3. n \in S
  <2> HIDE DEF S
  <2> QED
    BY <1>1, <1>2, Induction
<1> HIDE DEF Iterates
<1> QED
  BY <1>3

\* The folds over the first k elements come one from the other.
LEMMA InitialSegments ==
    /\ 1..0 = {}
    /\ \A k \in Nat \ {0} : /\ 1..k # {} /\ Max(1..k) = k
                            /\ (1..k) \ {Max(1..k)} = 1..(k - 1)
<1> SUFFICES ASSUME NEW k \in Nat \ {0}
             PROVE  1..k # {} /\ Max(1..k) = k /\ (1..k) \ {k} = 1..(k - 1)
  OBVIOUS
<1>1. k \in 1..k /\ 1..k \in SUBSET (1..k)
  OBVIOUS
<1>2. Max(1..k) \in 1..k /\ \A j \in 1..k : j <= Max(1..k)
  BY <1>1, Greatest
<1> QED
  BY <1>1, <1>2
=============================================================================

------------------------------ MODULE FoldLaws ------------------------------
(***************************************************************************)
(* The loops of the code that go over an array with an accumulator are     *)
(* folds from the left: FoldLeft is defined by a recursive function on     *)
(* sets of places, and here it is shown to be a loop, for any operator     *)
(* Op.  A module that proves something of a loop takes an instance of this *)
(* one with the operator of a turn for Op.                                 *)
(***************************************************************************)
EXTENDS SequencesExt, Integers, WellFoundedInduction, TLAPS

CONSTANT Op(_, _)   \* a turn of the loop: the accumulator and an element

\* A set of numbers that is not empty has a least one.
LEMMA Least ==
  ASSUME NEW S, S \subseteq Nat, S # {}
  PROVE  \E n \in S : \A m \in S : n <= m
<1> DEFINE less == {ss \in Nat \X Nat : ss[1] < ss[2]}
<1>1. IsWellFoundedOn(less, Nat)
  BY NatLessThanWellFounded, Zenon DEF OpToRel
<1>2. \E x \in S : \A y \in S : ~(<<y, x>> \in less)
  <2> HIDE DEF less
  <2> QED
    BY <1>1, WFMin
<1>3. PICK n \in S : \A y \in S : ~(<<y, n>> \in less)
  BY <1>2
<1>4. ASSUME NEW m \in S PROVE n <= m
  <2>1. <<m, n>> \in Nat \X Nat /\ <<m, n>>[1] = m /\ <<m, n>>[2] = n
    OBVIOUS
  <2> QED
    BY <1>3, <2>1
<1> QED
  BY <1>4

\* A property of 0 that passes from each number to the next one, given as the set of the
\* numbers that have it.
LEMMA Induction ==
  ASSUME NEW S, 0 \in S, \A n \in Nat : n \in S => n + 1 \in S
  PROVE  Nat \subseteq S
<1> SUFFICES ASSUME ~(Nat \subseteq S) PROVE FALSE
  OBVIOUS
<1>1. PICK n \in Nat \ S : \A m \in Nat \ S : n <= m
  BY Least
<1> QED
  BY <1>1

\* A set of numbers up to n that is not empty has its maximum.
LEMMA MaxOfInterval ==
  ASSUME NEW n \in Nat, NEW s \in SUBSET (1..n), s # {}
  PROVE  /\ Max(s) \in s
         /\ \A x \in s : x <= Max(s)
<1> DEFINE above == {m \in Nat : \A x \in s : x <= m}
<1>1. n \in above
  OBVIOUS
<1>2. PICK m \in above : \A e \in above : m <= e
  BY <1>1, Least
<1>3. \A x \in s : x \in Nat /\ x >= 1 /\ x <= m
  OBVIOUS
<1>4. m \in s
  <2>1. ASSUME m \notin s PROVE FALSE
    <3>1. \A x \in s : x <= m - 1
      BY <1>3, <2>1
    <3>2. m - 1 \in Nat
      <4>1. PICK x \in s : TRUE
        OBVIOUS
      <4>2. m \in Nat /\ x \in Nat /\ 1 <= x /\ x <= m
        BY <1>3
      <4> QED
        BY <4>2
    <3>3. m - 1 \in above
      BY <3>1, <3>2
    <3> QED
      BY <1>2, <3>3
  <2> QED
    BY <2>1
<1>5. \A x \in s : m >= x
  BY <1>3
<1> QED
  BY <1>4, <1>5 DEF Max

\* The value at a set of places: a turn with the last of them after those before it.
Turn(base, seq, g, s) == IF s = {} THEN base ELSE Op(g[s \ {Max(s)}], seq[Max(s)])

\* The function on sets of places that FoldLeft is defined by exists.
LEMMA IterExists ==
  ASSUME NEW base, NEW seq, NEW n \in Nat
  PROVE  \E g : g = [s \in SUBSET (1..n) |-> Turn(base, seq, g, s)]
<1> DEFINE E(k) == \E g : g = [s \in SUBSET (1..k) |-> Turn(base, seq, g, s)]
           K == {k \in Nat : E(k)}
<1>1. E(0)
  <2> DEFINE g == [s \in SUBSET (1..0) |-> base]
  <2>1. \A s \in SUBSET (1..0) : s = {}
    OBVIOUS
  <2>2. g = [s \in SUBSET (1..0) |-> Turn(base, seq, g, s)]
    BY <2>1 DEF Turn
  <2> QED
    BY <2>2
<1>2. ASSUME NEW k \in Nat, E(k) PROVE E(k + 1)
  <2>1. PICK g : g = [s \in SUBSET (1..k) |-> Turn(base, seq, g, s)]
    BY <1>2
  <2> DEFINE h == [s \in SUBSET (1..k + 1) |-> Turn(base, seq, g, s)]
  <2>2. ASSUME NEW s \in SUBSET (1..k) PROVE h[s] = g[s]
    <3>1. s \in SUBSET (1..k + 1)
      OBVIOUS
    <3>2. h[s] = Turn(base, seq, g, s)
      BY <3>1
    <3> QED
      BY <3>2, <2>1
  <2>3. ASSUME NEW s \in SUBSET (1..k + 1) PROVE h[s] = Turn(base, seq, h, s)
    <3>1. CASE s = {}
      BY <3>1 DEF Turn
    <3>2. CASE s # {}
      <4>1. Max(s) \in s /\ \A x \in s : x <= Max(s)
        <5>1. k + 1 \in Nat
          OBVIOUS
        <5> QED
          BY <3>2, <5>1, MaxOfInterval
      <4>2. s \ {Max(s)} \in SUBSET (1..k)
        <5>1. \A x \in s : x \in Nat /\ x >= 1 /\ x <= k + 1
          OBVIOUS
        <5>2. ASSUME NEW x \in s \ {Max(s)} PROVE x \in 1..k
          <6>1. x \in Nat /\ Max(s) \in Nat /\ 1 <= x /\ x <= Max(s) /\ Max(s) <= k + 1
            BY <4>1, <5>1
          <6>2. x # Max(s)
            OBVIOUS
          <6> QED
            BY <6>1, <6>2
        <5> QED
          BY <5>2
      <4>3. h[s \ {Max(s)}] = g[s \ {Max(s)}]
        BY <2>2, <4>2
      <4>4. h[s] = Turn(base, seq, g, s)
        OBVIOUS
      <4> QED
        BY <4>3, <4>4 DEF Turn
    <3> QED
      BY <3>1, <3>2
  <2>4. h = [s \in SUBSET (1..k + 1) |-> Turn(base, seq, h, s)]
    BY <2>3
  <2> QED
    BY <2>4
<1> HIDE DEF E
<1>3. 0 \in K /\ \A k \in Nat : k \in K => k + 1 \in K
  BY <1>1, <1>2
<1> HIDE DEF K
<1>4. Nat \subseteq K
  BY <1>3, Induction
<1>5. E(n)
  BY <1>4 DEF K
<1> QED
  BY <1>5 DEF E

\* The loop from a base over a sequence.
Fold(base, seq) == FoldLeft(Op, base, seq)

\* The function of FoldLeft.
Iter(base, seq) == CHOOSE iter : iter = [s \in SUBSET (DOMAIN seq) |-> Turn(base, seq, iter, s)]

\* FoldLeft is that function at the set of all places.
LEMMA FoldIsIter == \A base, seq : Fold(base, seq) = Iter(base, seq)[DOMAIN seq]
BY Zenon DEF Fold, FoldLeft, MapThenFoldSet, Iter, Turn

\* FoldLeft is a loop over the sequence: there is a value for each turn, the first is the
\* base, each follows from the one before and the next element, and the last is the fold.
LEMMA FoldSteps ==
  ASSUME NEW base, NEW seq, NEW n \in Nat, DOMAIN seq = 1..n
  PROVE  \E h : /\ h[0] = base
                /\ \A k \in 1..n : h[k] = Op(h[k - 1], seq[k])
                /\ Fold(base, seq) = h[n]
<1> DEFINE g == Iter(base, seq)
           h == [k \in 0..n |-> g[1..k]]
<1>1. g = [s \in SUBSET (1..n) |-> Turn(base, seq, g, s)]
  BY IterExists DEF Iter
<1> HIDE DEF g
<1>2. h[0] = base
  BY <1>1 DEF Turn
<1>3. ASSUME NEW k \in 1..n PROVE h[k] = Op(h[k - 1], seq[k])
  <2>1. 1..k \in SUBSET (1..n) /\ k \in 1..k
    OBVIOUS
  <2>2. Max(1..k) \in 1..k /\ k <= Max(1..k)
    BY <2>1, MaxOfInterval
  <2>4. Max(1..k) = k
    BY <2>2
  <2>3. (1..k) \ {k} = 1..(k - 1)
    OBVIOUS
  <2>5. h[k] = g[1..k] /\ h[k - 1] = g[1..(k - 1)]
    OBVIOUS
  <2>6. g[1..k] = Turn(base, seq, g, 1..k)
    BY <1>1, <2>1
  <2>7. 1..k # {}
    BY <2>1
  <2> HIDE DEF h
  <2> QED
    BY <2>3, <2>4, <2>5, <2>6, <2>7 DEF Turn
<1>4. Fold(base, seq) = h[n]
  BY FoldIsIter DEF g
<1> QED
  BY <1>2, <1>3, <1>4
=============================================================================

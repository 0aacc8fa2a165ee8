--------------------------- MODULE InductionLemmas ----------------------------
(* Natural induction and recursive definitions, for sets and functions: what    *)
(* the other modules of proofs know about numbers.                              *)
EXTENDS Integers, WellFoundedInduction, TLAPS

(* Of some numbers, one is the lowest *)
LEMMA LowestExists ==
  ASSUME NEW ids \in SUBSET Nat, ids # {}
  PROVE  \E id \in ids : \A other \in ids : id <= other
<1> DEFINE R == OpToRel(<, Nat)
<1>1. IsWellFoundedOn(R, Nat)
  BY NatLessThanWellFounded
<1>2. \A x, y \in Nat : <<x, y>> \in R <=> x < y
  BY DEF OpToRel
<1> HIDE DEF R
<1>3. PICK x \in ids : \A y \in ids : ~(<<y, x>> \in R)
  BY <1>1, WFMin
<1>4. ASSUME NEW y \in ids
      PROVE  x <= y
  <2>1. x \in Nat /\ y \in Nat /\ ~(y < x)
    BY <1>2, <1>3
  <2> QED
    BY <2>1
<1> QED
  BY <1>4

(* What holds of 0 and passes from each number to the next holds of all *)
LEMMA Induction ==
  ASSUME NEW holds, 0 \in holds, \A n \in Nat : n \in holds => n + 1 \in holds
  PROVE  \A n \in Nat : n \in holds
<1> DEFINE fails == {n \in Nat : n \notin holds}
<1>1. SUFFICES ASSUME fails # {}
               PROVE  FALSE
  OBVIOUS
<1>2. PICK least \in fails : \A other \in fails : least <= other
  BY <1>1, LowestExists
<1>3. least \in Nat /\ least \notin holds /\ least # 0
  BY <1>2
<1>4. least - 1 \in Nat /\ ~(least <= least - 1) /\ (least - 1) + 1 = least
  BY <1>3
<1>5. least - 1 \notin fails
  BY <1>2, <1>4
<1> QED
  BY <1>3, <1>4, <1>5

(* The same up to a bound *)
LEMMA InductionUpTo ==
  ASSUME NEW n \in Nat, NEW holds, 0 \in holds,
         \A k \in 0 .. n - 1 : k \in holds => k + 1 \in holds
  PROVE  \A k \in 0 .. n : k \in holds
<1> DEFINE all == holds \cup {k \in Nat : k > n}
<1>1. ASSUME NEW k \in Nat, k \in all
      PROVE  k + 1 \in all
  <2>1. CASE k > n
    BY <2>1
  <2>2. CASE k = n
    BY <2>2
  <2>3. CASE k < n
    <3>1. k \in 0 .. n - 1 /\ k \in holds
      BY <1>1, <2>3
    <3> QED
      BY <3>1
  <2> QED
    BY <2>1, <2>2, <2>3
<1>2. 0 \in all
  OBVIOUS
<1>3. \A k \in Nat : k \in all
  <2> HIDE DEF all
  <2> QED
    BY <1>1, <1>2, Induction
<1> QED
  BY <1>3

(* A recursive definition over 0 .. n, each value from the one before: what     *)
(* step[k] makes of the value of k - 1 is the value of k.                       *)
IsStep(step, n, Values) == \A k \in 1 .. n : \A v \in Values : step[k][v] \in Values

IsRun(f, first, step, n, Values) ==
  /\ f \in [0 .. n -> Values] /\ f[0] = first
  /\ \A k \in 1 .. n : f[k] = step[k][f[k - 1]]

(* There is a function that satisfies it *)
LEMMA Recursion ==
  ASSUME NEW n \in Nat, NEW Values, NEW first \in Values, NEW step, IsStep(step, n, Values)
  PROVE  \E f : IsRun(f, first, step, n, Values)
<1> DEFINE Good(m, f) ==
             /\ f \in [0 .. m -> Values]
             /\ f[0] = first
             /\ \A k \in 1 .. m : f[k] = step[k][f[k - 1]]
           has == {m \in 0 .. n : \E f : Good(m, f)}
<1>1. 0 \in has
  <2> DEFINE f == [k \in 0 .. 0 |-> first]
  <2>1. Good(0, f)
    OBVIOUS
  <2>2. 0 \in 0 .. n
    OBVIOUS
  <2> HIDE DEF f
  <2> QED
    BY <2>1, <2>2
<1>2. ASSUME NEW m \in 0 .. n - 1, m \in has
      PROVE  m + 1 \in has
  <2>1. PICK f : Good(m, f)
    BY <1>2
  <2> DEFINE g == [k \in 0 .. m + 1 |-> IF k = m + 1 THEN step[m + 1][f[m]] ELSE f[k]]
  <2>2. m \in Nat /\ m + 1 \in 1 .. n /\ f[m] \in Values
    BY <2>1
  <2>3. g \in [0 .. m + 1 -> Values]
    <3>1. step[m + 1][f[m]] \in Values
      BY <2>2 DEF IsStep
    <3> QED
      BY <2>1, <3>1
  <2>4. g[0] = first
    BY <2>1, <2>2
  <2>5. ASSUME NEW k \in 1 .. m + 1
        PROVE  g[k] = step[k][g[k - 1]]
    <3>1. k - 1 \in 0 .. m /\ g[k - 1] = f[k - 1]
      BY <2>2
    <3>2. CASE k = m + 1
      <4>1. g[k] = step[m + 1][f[m]] /\ k - 1 = m
        BY <2>2, <3>2
      <4> QED
        BY <3>1, <3>2, <4>1
    <3>3. CASE k # m + 1
      <4>1. k \in 1 .. m
        BY <2>2, <3>3
      <4> QED
        BY <2>1, <3>1, <3>3, <4>1
    <3> QED
      BY <3>2, <3>3
  <2> HIDE DEF g
  <2>6. Good(m + 1, g)
    BY <2>3, <2>4, <2>5
  <2> QED
    BY <2>2, <2>6
<1>3. n \in has
  <2> HIDE DEF has
  <2>1. \A k \in 0 .. n : k \in has
    BY <1>1, <1>2, InductionUpTo
  <2> QED
    BY <2>1
<1>4. PICK f : Good(n, f)
  BY <1>3
<1> QED
  BY <1>4 DEF IsRun
=============================================================================

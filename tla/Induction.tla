----------------------------- MODULE Induction ------------------------------
(***************************************************************************)
(* What stands in for induction in the proofs: a set of numbers that has 0 *)
(* and with each number the next one has them all, since otherwise there   *)
(* would be a least one it has not; and likewise for finite sets.          *)
(***************************************************************************)
EXTENDS Integers, FiniteSets, FiniteSetTheorems, WellFoundedInduction, TLAPS

\* A set of numbers has a least one.
LEMMA LeastElement ==
  ASSUME NEW T, T \subseteq Nat, T # {}
  PROVE  \E x \in T : \A y \in T : x <= y
<1>1. PICK x \in T : \A y \in T : ~(<<y, x>> \in OpToRel(<, Nat))
  BY NatLessThanWellFounded, WFMin
<1>2. \A y \in T : ~(y < x)
  BY <1>1 DEF OpToRel
<1>3. \A y \in T : x <= y
  <2>1. \A a, b \in Nat : ~(b < a) => a <= b
    OBVIOUS
  <2>2. QED
    BY <1>2, <2>1
<1>4. QED
  BY <1>3

\* A set of numbers that holds 0, and each number up to n if it holds the one before.
LEMMA Reaches ==
  ASSUME NEW n \in Nat, NEW T, 0 \in T, \A i \in 1..n : i - 1 \in T => i \in T
  PROVE  0..n \subseteq T
<1> SUFFICES ASSUME 0..n \ T # {} PROVE FALSE
  OBVIOUS
<1>1. PICK x \in 0..n \ T : \A y \in 0..n \ T : x <= y
  <2> DEFINE U == 0..n \ T
  <2>1. U \subseteq Nat /\ U # {}
    OBVIOUS
  <2> HIDE DEF U
  <2>2. \E x \in U : \A y \in U : x <= y
    BY <2>1, LeastElement
  <2>3. QED
    BY <2>2 DEF U
<1>2. x \in 1..n /\ x - 1 \in 0..n /\ ~(x <= x - 1)
  BY <1>1
<1>3. x - 1 \in T
  BY <1>1, <1>2
<1>4. QED
  BY <1>1, <1>2, <1>3

\* A function defined by recursion on 0..n, whose value at each i is in P[i].
Unrolled(f, n, v, g) ==
    /\ f = [i \in 0..n |-> f[i]]
    /\ \A i \in 0..n : f[i] = IF i = 0 THEN v ELSE g[i][f[i - 1]]

LEMMA Recursion ==
  ASSUME NEW n \in Nat, NEW P, NEW v \in P[0], NEW g,
         \A i \in 1..n : \A x \in P[i - 1] : g[i][x] \in P[i]
  PROVE  \E f : Unrolled(f, n, v, g) /\ \A i \in 0..n : f[i] \in P[i]
<1> DEFINE Upto(m) == \E f : Unrolled(f, m, v, g) /\ \A i \in 0..m : f[i] \in P[i]
           T == {m \in 0..n : Upto(m)}
<1>1. 0 \in T
  <2> DEFINE f == [i \in 0..0 |-> v]
  <2>1. Unrolled(f, 0, v, g)
    BY DEF Unrolled
  <2>2. \A i \in 0..0 : f[i] \in P[i]
    OBVIOUS
  <2> HIDE DEF f
  <2>3. Upto(0)
    BY <2>1, <2>2, Zenon
  <2>4. QED
    BY <2>3
<1>2. ASSUME NEW m \in 1..n, m - 1 \in T PROVE m \in T
  <2>1. PICK f : Unrolled(f, m - 1, v, g) /\ \A i \in 0..m - 1 : f[i] \in P[i]
    BY <1>2
  <2> DEFINE h == [i \in 0..m |-> IF i = m THEN g[m][f[m - 1]] ELSE f[i]]
  <2>2. \A i \in 0..m - 1 : h[i] = f[i]
    OBVIOUS
  <2>3. \A i \in 0..m : h[i] = IF i = 0 THEN v ELSE g[i][h[i - 1]]
    <3>1. ASSUME NEW i \in 0..m PROVE h[i] = IF i = 0 THEN v ELSE g[i][h[i - 1]]
      <4>1. CASE i = m
        <5>1. i # 0 /\ i - 1 \in 0..m - 1
          BY <4>1
        <5>2. QED
          BY <2>2, <4>1, <5>1
      <4>2. CASE i # m
        <5>1. i \in 0..m - 1
          BY <4>2
        <5>2. h[i] = f[i] /\ f[i] = IF i = 0 THEN v ELSE g[i][f[i - 1]]
          BY <2>1, <2>2, <5>1 DEF Unrolled
        <5>3. i # 0 => i - 1 \in 0..m - 1
          BY <5>1
        <5>4. QED
          BY <2>2, <5>2, <5>3
      <4>3. QED
        BY <4>1, <4>2
    <3>2. QED
      BY <3>1
  <2>4. Unrolled(h, m, v, g)
    <3>1. h = [i \in 0..m |-> h[i]]
      OBVIOUS
    <3> HIDE DEF h
    <3>2. QED
      BY <2>3, <3>1 DEF Unrolled
  <2>5. \A i \in 0..m : h[i] \in P[i]
    <3>1. h[m] \in P[m]
      <4>1. m - 1 \in 0..m - 1 /\ f[m - 1] \in P[m - 1]
        BY <2>1
      <4>2. QED
        BY <4>1
    <3>2. QED
      BY <2>1, <2>2, <3>1
  <2> HIDE DEF h
  <2>6. Upto(m)
    BY <2>4, <2>5, Zenon
  <2> HIDE DEF Upto
  <2>7. QED
    BY <2>6
<1>3. 0..n \subseteq T
  BY <1>1, <1>2, Reaches
<1>4. Upto(n)
  <2> HIDE DEF Upto
  <2>1. n \in T
    BY <1>3
  <2>2. QED
    BY <2>1
<1>5. QED
  BY <1>4

\* A set of sets that holds every subset of S of which it holds all that have one
\* element less.
LEMMA Shrinks ==
  ASSUME NEW S, IsFiniteSet(S), NEW U,
         \A T \in SUBSET S : (\A x \in T : T \ {x} \in U) => T \in U
  PROVE  SUBSET S \subseteq U
<1> DEFINE n == Cardinality(S)
           V == {i \in 0..n : \A T \in SUBSET S : Cardinality(T) = i => T \in U}
<1>1. n \in Nat
  BY FS_CardinalityType
<1>2. 0 \in V
  <2>1. ASSUME NEW T \in SUBSET S, Cardinality(T) = 0 PROVE T \in U
    <3>1. IsFiniteSet(T)
      BY FS_Subset
    <3>2. T = {}
      BY <2>1, <3>1, FS_EmptySet
    <3>3. QED
      BY <3>2
  <2>2. QED
    BY <1>1, <2>1
<1>3. ASSUME NEW i \in 1..n, i - 1 \in V PROVE i \in V
  <2>1. ASSUME NEW T \in SUBSET S, Cardinality(T) = i PROVE T \in U
    <3>1. IsFiniteSet(T)
      BY FS_Subset
    <3>2. ASSUME NEW x \in T PROVE T \ {x} \in U
      <4>1. Cardinality(T \ {x}) = i - 1
        BY <2>1, <3>1, FS_RemoveElement
      <4>2. QED
        BY <1>3, <4>1
    <3>3. QED
      BY <3>2
  <2>2. QED
    BY <1>1, <2>1
<1>4. 0..n \subseteq V
  <2> HIDE DEF V, n
  <2>1. QED
    BY <1>1, <1>2, <1>3, Reaches
<1>5. ASSUME NEW T \in SUBSET S PROVE T \in U
  <2>1. IsFiniteSet(T) /\ Cardinality(T) <= n
    BY FS_Subset
  <2>2. Cardinality(T) \in 0..n
    BY <1>1, <2>1, FS_CardinalityType
  <2>3. QED
    BY <1>4, <2>2
<1>6. QED
  BY <1>5

\* A set of sets that holds the empty set, and a subset of S with one element more if
\* it holds the subset.
LEMMA Grows ==
  ASSUME NEW S, IsFiniteSet(S), NEW U, {} \in U,
         \A T \in SUBSET S : \A x \in S \ T : T \in U => T \cup {x} \in U
  PROVE  S \in U
<1>1. ASSUME NEW T \in SUBSET S, \A x \in T : T \ {x} \in U PROVE T \in U
  <2>1. CASE T = {}
    BY <2>1
  <2>2. CASE T # {}
    <3>1. PICK x \in T : TRUE
      BY <2>2
    <3>2. (T \ {x}) \cup {x} \in U
      BY <1>1, <3>1
    <3>3. (T \ {x}) \cup {x} = T
      BY <3>1
    <3>4. QED
      BY <3>2, <3>3
  <2>3. QED
    BY <2>1, <2>2
<1>2. SUBSET S \subseteq U
  BY <1>1, Shrinks
<1>3. QED
  BY <1>2
=============================================================================

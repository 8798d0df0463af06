--------------------------- MODULE ReportingProofs ---------------------------
(***************************************************************************)
(* Proofs about Reporting, for any processes, applications and rates: the  *)
(* totals shown are those of what is not hidden but for rounding, and the  *)
(* application named is the busiest.                                       *)
(***************************************************************************)
EXTENDS Reporting, SequenceTheorems, Induction

-----------------------------------------------------------------------------
(* Sums. *)

NatOn(f, S) == \A x \in S : f[x] \in Nat

Picked(S) == CHOOSE x \in S : TRUE

\* h has the sums of f over the sets in D, each without the element picked of it.
Sums(h, f, D) ==
    /\ h = [T \in D |-> h[T]]
    /\ \A T \in D : h[T] \in Nat
    /\ \A T \in D : h[T] = IF T = {} THEN 0 ELSE f[Picked(T)] + h[T \ {Picked(T)}]

LEMMA SumsExist ==
  ASSUME NEW S, IsFiniteSet(S), NEW f, NatOn(f, S)
  PROVE  \E h : Sums(h, f, SUBSET S)
<1> DEFINE n == Cardinality(S)
           Upto(i) == {T \in SUBSET S : Cardinality(T) <= i}
           V == {i \in 0..n : \E h : Sums(h, f, Upto(i))}
<1>1. n \in Nat
  BY FS_CardinalityType
<1>2. \A T \in SUBSET S : IsFiniteSet(T) /\ Cardinality(T) \in Nat /\ Cardinality(T) <= n
  BY FS_Subset, FS_CardinalityType
<1>3. Cardinality({}) = 0 /\ \A T \in SUBSET S : Cardinality(T) = 0 => T = {}
  BY <1>2, FS_EmptySet
<1>4. \A T \in SUBSET S : T # {} =>
        /\ Picked(T) \in T /\ Cardinality(T \ {Picked(T)}) = Cardinality(T) - 1
        /\ f[Picked(T)] \in Nat
  <2>1. \A T : T # {} => Picked(T) \in T
    BY DEF Picked
  <2>2. QED
    BY <1>2, <2>1, FS_RemoveElement DEF NatOn
<1> HIDE DEF n
<1>5. 0 \in V
  <2> DEFINE h == [T \in Upto(0) |-> 0]
  <2>1. \A T \in Upto(0) : T = {}
    BY <1>2, <1>3
  <2>2. \A T \in Upto(0) : h[T] = 0
    OBVIOUS
  <2>3. h = [T \in Upto(0) |-> h[T]]
    OBVIOUS
  <2> HIDE DEF h, Upto
  <2>4. Sums(h, f, Upto(0))
    BY <2>1, <2>2, <2>3 DEF Sums
  <2>5. \E k : Sums(k, f, Upto(0))
    BY <2>4, Zenon
  <2>6. 0 \in 0..n
    BY <1>1
  <2>7. QED
    BY <2>5, <2>6
<1>6. ASSUME NEW i \in 1..n, i - 1 \in V PROVE i \in V
  <2>1. PICK h : Sums(h, f, Upto(i - 1))
    BY <1>6
  <2> DEFINE k == [T \in Upto(i) |-> IF Cardinality(T) <= i - 1 THEN h[T]
                                     ELSE f[Picked(T)] + h[T \ {Picked(T)}]]
  <2>2. \A T \in Upto(i) : k[T] = IF Cardinality(T) <= i - 1 THEN h[T]
                                     ELSE f[Picked(T)] + h[T \ {Picked(T)}]
    OBVIOUS
  <2>3. k = [T \in Upto(i) |-> k[T]]
    OBVIOUS
  <2> HIDE DEF k
  <2>4. i \in Nat /\ i - 1 \in Nat
    BY <1>1
  <2>5. \A T \in Upto(i - 1) : T \in Upto(i) /\ k[T] = h[T]
    <3>1. \A c \in Nat : c <= i - 1 => c <= i
      BY <2>4
    <3>2. \A T \in Upto(i - 1) : T \in Upto(i) /\ Cardinality(T) <= i - 1
      BY <1>2, <3>1
    <3> HIDE DEF Upto
    <3>3. QED
      BY <2>2, <3>2
  <2>6. \A T \in Upto(i) : T # {} =>
          /\ T \ {Picked(T)} \in Upto(i - 1)
          /\ f[Picked(T)] \in Nat
    BY <1>2, <1>4, <2>4
  <2>7. \A T \in Upto(i) : ~(Cardinality(T) <= i - 1) => T # {}
    BY <1>2, <1>3, <2>4
  <2>8. \A T \in Upto(i) : Cardinality(T) <= i - 1 => T \in Upto(i - 1)
    OBVIOUS
  <2> HIDE DEF Upto
  <2>9. \A T \in Upto(i) : k[T] \in Nat
    <3>1. ASSUME NEW T \in Upto(i) PROVE k[T] \in Nat
      <4>1. CASE Cardinality(T) <= i - 1
        BY <2>1, <2>2, <2>8, <4>1 DEF Sums
      <4>2. CASE ~(Cardinality(T) <= i - 1)
        <5>1. h[T \ {Picked(T)}] \in Nat /\ f[Picked(T)] \in Nat
          BY <2>1, <2>6, <2>7, <4>2 DEF Sums
        <5>2. k[T] = f[Picked(T)] + h[T \ {Picked(T)}]
          BY <2>2, <4>2
        <5>3. \A a, b \in Nat : a + b \in Nat
          OBVIOUS
        <5>4. QED
          BY <5>1, <5>2, <5>3
      <4>3. QED
        BY <4>1, <4>2
    <3>2. QED
      BY <3>1
  <2>10. \A T \in Upto(i) : k[T] = IF T = {} THEN 0 ELSE f[Picked(T)] + k[T \ {Picked(T)}]
    <3>1. ASSUME NEW T \in Upto(i)
          PROVE  k[T] = IF T = {} THEN 0 ELSE f[Picked(T)] + k[T \ {Picked(T)}]
      <4>1. CASE Cardinality(T) <= i - 1
        <5>1. k[T] = h[T] /\ h[T] = IF T = {} THEN 0 ELSE f[Picked(T)] + h[T \ {Picked(T)}]
          BY <2>1, <2>2, <2>8, <4>1 DEF Sums
        <5>2. T # {} => k[T \ {Picked(T)}] = h[T \ {Picked(T)}]
          BY <2>5, <2>6
        <5>3. QED
          BY <5>1, <5>2
      <4>2. CASE ~(Cardinality(T) <= i - 1)
        <5>1. T # {} /\ k[T] = f[Picked(T)] + h[T \ {Picked(T)}]
          BY <2>2, <2>7, <4>2
        <5>2. k[T \ {Picked(T)}] = h[T \ {Picked(T)}]
          BY <2>5, <2>6, <5>1
        <5>3. QED
          BY <5>1, <5>2
      <4>3. QED
        BY <4>1, <4>2
    <3>2. QED
      BY <3>1
  <2>11. Sums(k, f, Upto(i))
    BY <2>3, <2>9, <2>10, Zenon DEF Sums
  <2>12. \E g : Sums(g, f, Upto(i))
    BY <2>11, Zenon
  <2>13. i \in 0..n
    BY <1>1
  <2>14. QED
    BY <2>12, <2>13
<1>7. 0..n \subseteq V
  <2> HIDE DEF V
  <2>1. QED
    BY <1>1, <1>5, <1>6, Reaches
<1>8. \E h : Sums(h, f, Upto(n))
  <2>1. n \in V
    <3>1. n \in 0..n
      BY <1>1
    <3> HIDE DEF V
    <3>2. QED
      BY <1>7, <3>1
  <2>2. QED
    BY <2>1
<1>9. Upto(n) = SUBSET S
  BY <1>2
<1> HIDE DEF Upto
<1>10. QED
  BY <1>8, <1>9

LEMMA SumIsSums ==
  ASSUME NEW S, IsFiniteSet(S), NEW f, NatOn(f, S), NEW h, Sums(h, f, SUBSET S)
  PROVE  SumOf(f, S) = h[S]
<1> DEFINE iter[T \in SUBSET S] ==
             IF T = {} THEN 0
             ELSE LET x == CHOOSE x \in T : TRUE IN f[x] + iter[T \ {x}]
<1>1. SumOf(f, S) = iter[S]
  BY DEF SumOf, MapThenSumSet, MapThenFoldSet
<1>2. h = [T \in SUBSET S |-> IF T = {} THEN 0
             ELSE LET x == CHOOSE x \in T : TRUE IN f[x] + h[T \ {x}]]
  <2>1. \A T \in SUBSET S : h[T] = IF T = {} THEN 0
             ELSE LET x == CHOOSE x \in T : TRUE IN f[x] + h[T \ {x}]
    BY DEF Sums, Picked
  <2>2. h = [T \in SUBSET S |-> h[T]]
    BY DEF Sums
  <2>3. QED
    BY <2>1, <2>2
<1>3. iter = [T \in SUBSET S |-> IF T = {} THEN 0
             ELSE LET x == CHOOSE x \in T : TRUE IN f[x] + iter[T \ {x}]]
  BY <1>2
<1>4. \A T \in SUBSET S : iter[T] = IF T = {} THEN 0 ELSE f[Picked(T)] + iter[T \ {Picked(T)}]
  BY <1>3 DEF Picked
<1> HIDE DEF iter
<1> DEFINE U == {T \in SUBSET S : iter[T] = h[T]}
<1>5. ASSUME NEW T \in SUBSET S, \A x \in T : T \ {x} \in U PROVE T \in U
  <2>1. T # {} => Picked(T) \in T
    BY DEF Picked
  <2>2. T # {} => iter[T \ {Picked(T)}] = h[T \ {Picked(T)}]
    BY <1>5, <2>1
  <2>3. QED
    BY <1>4, <2>2 DEF Sums
<1> HIDE DEF U
<1>6. SUBSET S \subseteq U
  BY <1>5, Shrinks
<1>7. QED
  BY <1>1, <1>6 DEF U

LEMMA SumOfPicked ==
  ASSUME NEW S, IsFiniteSet(S), NEW f, NatOn(f, S)
  PROVE  /\ SumOf(f, S) \in Nat
         /\ SumOf(f, S) = IF S = {} THEN 0 ELSE f[Picked(S)] + SumOf(f, S \ {Picked(S)})
<1>1. PICK h : Sums(h, f, SUBSET S)
  BY SumsExist
<1>2. ASSUME NEW T \in SUBSET S PROVE SumOf(f, T) = h[T]
  <2> DEFINE k == [R \in SUBSET T |-> h[R]]
  <2>1. IsFiniteSet(T) /\ NatOn(f, T)
    BY FS_Subset DEF NatOn
  <2>2. \A R \in SUBSET T : k[R] = h[R] /\ R \in SUBSET S
    OBVIOUS
  <2>3. k = [R \in SUBSET T |-> k[R]]
    OBVIOUS
  <2> HIDE DEF k
  <2>4. \A R \in SUBSET T : k[R] \in Nat
    BY <1>1, <2>2 DEF Sums
  <2>5. \A R \in SUBSET T : k[R] = IF R = {} THEN 0 ELSE f[Picked(R)] + k[R \ {Picked(R)}]
    <3>1. ASSUME NEW R \in SUBSET T
          PROVE  k[R] = IF R = {} THEN 0 ELSE f[Picked(R)] + k[R \ {Picked(R)}]
      <4>1. k[R] = h[R] /\ h[R] = IF R = {} THEN 0 ELSE f[Picked(R)] + h[R \ {Picked(R)}]
        BY <1>1, <2>2 DEF Sums
      <4>2. k[R \ {Picked(R)}] = h[R \ {Picked(R)}]
        BY <2>2
      <4>3. QED
        BY <4>1, <4>2
    <3>2. QED
      BY <3>1
  <2>6. Sums(k, f, SUBSET T)
    BY <2>3, <2>4, <2>5, Zenon DEF Sums
  <2>7. SumOf(f, T) = k[T]
    BY <2>1, <2>6, SumIsSums
  <2>8. QED
    BY <2>2, <2>7
<1>3. SumOf(f, S) = h[S] /\ SumOf(f, S \ {Picked(S)}) = h[S \ {Picked(S)}]
  BY <1>2
<1>4. QED
  BY <1>1, <1>3 DEF Sums

LEMMA SumType ==
  ASSUME NEW S, IsFiniteSet(S), NEW f, NatOn(f, S)
  PROVE  SumOf(f, S) \in Nat
BY SumOfPicked

LEMMA SumOfNone == \A f : SumOf(f, {}) = 0
<1> TAKE f
<1>1. NatOn(f, {})
  BY DEF NatOn
<1>2. IsFiniteSet({})
  BY FS_EmptySet
<1>3. QED
  BY <1>1, <1>2, SumOfPicked

\* Whichever element is taken first.
LEMMA SumOfRest ==
  ASSUME NEW S, IsFiniteSet(S), NEW f, NatOn(f, S), NEW x \in S
  PROVE  SumOf(f, S) = f[x] + SumOf(f, S \ {x})
<1> DEFINE U == {T \in SUBSET S : \A y \in T : SumOf(f, T) = f[y] + SumOf(f, T \ {y})}
<1>1. \A T \in SUBSET S : IsFiniteSet(T) /\ NatOn(f, T)
  BY FS_Subset DEF NatOn
<1>2. ASSUME NEW T \in SUBSET S, \A y \in T : T \ {y} \in U PROVE T \in U
  <2>1. ASSUME NEW y \in T PROVE SumOf(f, T) = f[y] + SumOf(f, T \ {y})
    <3> DEFINE c == Picked(T)
               R == T \ {c, y}
    <3>1. c \in T
      BY <2>1 DEF Picked
    <3> HIDE DEF c
    <3>2. SumOf(f, T) = f[c] + SumOf(f, T \ {c})
      BY <1>1, <2>1, SumOfPicked DEF c
    <3>3. CASE c = y
      BY <3>2, <3>3
    <3>4. CASE c # y
      <4>1. y \in T \ {c} /\ c \in T \ {y}
        BY <3>1, <3>4
      <4>2. (T \ {c}) \ {y} = R /\ (T \ {y}) \ {c} = R
        OBVIOUS
      <4>3. SumOf(f, T \ {c}) = f[y] + SumOf(f, R)
        <5>1. T \ {c} \in U
          BY <1>2, <3>1
        <5>2. SumOf(f, T \ {c}) = f[y] + SumOf(f, (T \ {c}) \ {y})
          BY <4>1, <5>1
        <5>3. QED
          BY <4>2, <5>2
      <4>4. SumOf(f, T \ {y}) = f[c] + SumOf(f, R)
        <5>1. T \ {y} \in U
          BY <1>2
        <5>2. SumOf(f, T \ {y}) = f[c] + SumOf(f, (T \ {y}) \ {c})
          BY <4>1, <5>1
        <5>3. QED
          BY <4>2, <5>2
      <4>5. f[c] \in Nat /\ f[y] \in Nat /\ SumOf(f, R) \in Nat
        <5>1. R \in SUBSET S
          OBVIOUS
        <5>2. SumOf(f, R) \in Nat
          BY <1>1, <5>1, SumType
        <5>3. QED
          BY <3>1, <5>2 DEF NatOn
      <4> HIDE DEF R
      <4>6. \A a, b, r \in Nat : a + (b + r) = b + (a + r)
        OBVIOUS
      <4>7. QED
        BY <3>2, <4>3, <4>4, <4>5, <4>6
    <3>5. QED
      BY <3>3, <3>4
  <2>2. QED
    BY <2>1
<1> HIDE DEF U
<1>3. SUBSET S \subseteq U
  BY <1>2, Shrinks
<1>4. QED
  BY <1>3 DEF U

\* One element more.
LEMMA SumOfMore ==
  ASSUME NEW S, IsFiniteSet(S), NEW f, NatOn(f, S), NEW x, x \notin S, f[x] \in Nat
  PROVE  SumOf(f, S \cup {x}) = SumOf(f, S) + f[x]
<1>1. IsFiniteSet(S \cup {x}) /\ NatOn(f, S \cup {x}) /\ x \in S \cup {x}
  BY FS_AddElement DEF NatOn
<1>2. (S \cup {x}) \ {x} = S
  OBVIOUS
<1>3. SumOf(f, S \cup {x}) = f[x] + SumOf(f, (S \cup {x}) \ {x})
  BY <1>1, SumOfRest
<1>4. SumOf(f, S \cup {x}) = f[x] + SumOf(f, S)
  BY <1>2, <1>3
<1>5. SumOf(f, S) \in Nat
  BY SumType
<1>6. QED
  BY <1>4, <1>5

\* Sets without a common element.
LEMMA SumOfBoth ==
  ASSUME NEW S, IsFiniteSet(S), NEW R, IsFiniteSet(R), S \cap R = {},
         NEW f, NatOn(f, S), NatOn(f, R)
  PROVE  SumOf(f, R \cup S) = SumOf(f, R) + SumOf(f, S)
<1> DEFINE U == {T \in SUBSET S : SumOf(f, R \cup T) = SumOf(f, R) + SumOf(f, T)}
<1>1. SumOf(f, R) \in Nat
  BY SumType
<1>2. {} \in U
  <2>1. R \cup {} = R /\ {} \in SUBSET S
    OBVIOUS
  <2>2. SumOf(f, R \cup {}) = SumOf(f, R) + SumOf(f, {})
    BY <1>1, <2>1, SumOfNone
  <2>3. QED
    BY <2>1, <2>2
<1>3. ASSUME NEW T \in SUBSET S, NEW x \in S \ T, T \in U PROVE T \cup {x} \in U
  <2>1. /\ IsFiniteSet(T) /\ NatOn(f, T) /\ x \notin T /\ f[x] \in Nat
        /\ x \notin R \cup T /\ NatOn(f, R \cup T)
    BY <1>3, FS_Subset DEF NatOn
  <2>2. IsFiniteSet(R \cup T)
    BY <2>1, FS_Union
  <2>3. SumOf(f, T \cup {x}) = SumOf(f, T) + f[x]
    BY <2>1, SumOfMore
  <2>4. SumOf(f, (R \cup T) \cup {x}) = SumOf(f, R \cup T) + f[x]
    BY <2>1, <2>2, SumOfMore
  <2>5. (R \cup T) \cup {x} = R \cup (T \cup {x})
    OBVIOUS
  <2>6. SumOf(f, R \cup T) = SumOf(f, R) + SumOf(f, T)
    BY <1>3
  <2>7. SumOf(f, T) \in Nat
    BY <2>1, SumType
  <2>8. \A a, b, c \in Nat : (a + b) + c = a + (b + c)
    OBVIOUS
  <2>9. SumOf(f, R \cup (T \cup {x})) = SumOf(f, R) + SumOf(f, T \cup {x})
    BY <1>1, <2>1, <2>3, <2>4, <2>5, <2>6, <2>7, <2>8
  <2>10. QED
    BY <1>3, <2>9
<1> HIDE DEF U
<1>4. S \in U
  BY <1>2, <1>3, Grows
<1>5. QED
  BY <1>4 DEF U

\* What is left when part of a set is taken away.
LEMMA SumOfPart ==
  ASSUME NEW S, IsFiniteSet(S), NEW R \in SUBSET S, NEW f, NatOn(f, S)
  PROVE  /\ SumOf(f, R) \in Nat /\ SumOf(f, S \ R) \in Nat
         /\ SumOf(f, S) = SumOf(f, R) + SumOf(f, S \ R)
<1>1. /\ IsFiniteSet(R) /\ IsFiniteSet(S \ R) /\ NatOn(f, R) /\ NatOn(f, S \ R)
      /\ (S \ R) \cap R = {} /\ R \cup (S \ R) = S
  BY FS_Subset DEF NatOn
<1>2. SumOf(f, R \cup (S \ R)) = SumOf(f, R) + SumOf(f, S \ R)
  BY <1>1, SumOfBoth
<1>3. QED
  BY <1>1, <1>2, SumType

LEMMA SumOfZeroes ==
  ASSUME NEW S, IsFiniteSet(S), NEW f, \A x \in S : f[x] = 0
  PROVE  SumOf(f, S) = 0
<1> DEFINE U == {T \in SUBSET S : SumOf(f, T) = 0}
<1>1. {} \in U
  BY SumOfNone
<1>2. ASSUME NEW T \in SUBSET S, NEW x \in S \ T, T \in U PROVE T \cup {x} \in U
  <2>1. IsFiniteSet(T) /\ NatOn(f, T) /\ x \notin T /\ f[x] \in Nat /\ f[x] = 0
    BY <1>2, FS_Subset DEF NatOn
  <2>2. SumOf(f, T \cup {x}) = SumOf(f, T) + f[x]
    BY <2>1, SumOfMore
  <2>3. SumOf(f, T) = 0
    BY <1>2
  <2>4. QED
    BY <1>2, <2>1, <2>2, <2>3
<1> HIDE DEF U
<1>3. S \in U
  BY <1>1, <1>2, Grows
<1>4. QED
  BY <1>3 DEF U

\* The sum over all groups of the sums within each.
LEMMA SumOfGroups ==
  ASSUME NEW A, IsFiniteSet(A), NEW M,
         \A a \in A : IsFiniteSet(M[a]),
         \A a, b \in A : a # b => M[a] \cap M[b] = {},
         NEW f, \A a \in A : NatOn(f, M[a]),
         NEW g, \A a \in A : g[a] = SumOf(f, M[a])
  PROVE  IsFiniteSet(UNION {M[a] : a \in A}) /\ SumOf(g, A) = SumOf(f, UNION {M[a] : a \in A})
<1> DEFINE All(B) == UNION {M[a] : a \in B}
           U == {B \in SUBSET A : IsFiniteSet(All(B)) /\ SumOf(g, B) = SumOf(f, All(B))}
<1>1. {} \in U
  <2>1. All({}) = {}
    OBVIOUS
  <2>2. QED
    BY <2>1, SumOfNone, FS_EmptySet
<1>2. \A a \in A : g[a] \in Nat
  BY SumType
<1>3. \A B \in SUBSET A : NatOn(f, All(B))
  BY DEF NatOn
<1>4. ASSUME NEW B \in SUBSET A, NEW x \in A \ B, B \in U PROVE B \cup {x} \in U
  <2>1. All(B \cup {x}) = All(B) \cup M[x]
    OBVIOUS
  <2>2. All(B) \cap M[x] = {} /\ M[x] \cap All(B) = {}
    <3>1. ASSUME NEW b \in B PROVE M[b] \cap M[x] = {}
      BY <1>4
    <3>2. QED
      BY <3>1
  <2>3. IsFiniteSet(All(B)) /\ SumOf(g, B) = SumOf(f, All(B)) /\ NatOn(f, All(B))
    BY <1>3, <1>4
  <2> HIDE DEF All
  <2>4. SumOf(f, All(B) \cup M[x]) = SumOf(f, All(B)) + SumOf(f, M[x])
    BY <2>2, <2>3, SumOfBoth
  <2>5. IsFiniteSet(B) /\ NatOn(g, B) /\ x \notin B
    BY <1>2, <1>4, FS_Subset DEF NatOn
  <2>6. SumOf(g, B \cup {x}) = SumOf(g, B) + g[x]
    BY <1>2, <2>5, SumOfMore
  <2>7. SumOf(g, B \cup {x}) = SumOf(f, All(B \cup {x}))
    BY <2>1, <2>3, <2>4, <2>6
  <2>8. IsFiniteSet(All(B \cup {x}))
    <3>1. IsFiniteSet(M[x])
      OBVIOUS
    <3>2. IsFiniteSet(All(B) \cup M[x])
      BY <2>3, <3>1, FS_Union
    <3>3. QED
      BY <2>1, <3>2
  <2>9. QED
    BY <1>4, <2>7, <2>8
<1> HIDE DEF U
<1>5. A \in U
  BY <1>1, <1>4, Grows
<1>6. QED
  BY <1>5 DEF U

-----------------------------------------------------------------------------
(* Rounding. *)

\* A rate and what it is rounded to lie no more than half a byte apart.
LEMMA RoundedIsNear ==
  ASSUME NEW r \in Nat
  PROVE  /\ Rounded(r) \in Nat
         /\ 2 * r - Parts <= 2 * (Parts * Rounded(r))
         /\ 2 * (Parts * Rounded(r)) <= 2 * r + Parts
<1> DEFINE q == Rounded(r)
           b == 2 * Parts
           n == 2 * r + Parts
<1>1. Parts \in Nat \ {0} /\ b \in Nat \ {0} /\ n \in Nat
  BY PartsAssumption
<1>2. q = n \div b
  BY DEF Rounded
<1> HIDE DEF q, n, b
<1>3. q \in Nat /\ b * q <= n /\ n < b * q + b
  BY <1>1, <1>2, Z3
<1>4. b * q = 2 * (Parts * q)
  BY <1>1, <1>3, Z3 DEF b
<1>5. 2 * (Parts * q) <= 2 * r + Parts /\ 2 * r + Parts < 2 * (Parts * q) + 2 * Parts
  BY <1>3, <1>4 DEF b, n
<1>6. Parts * q \in Nat
  BY <1>1, <1>3
<1> DEFINE y == Parts * q
<1> HIDE DEF y
<1>7. 2 * r - Parts <= 2 * y /\ 2 * y <= 2 * r + Parts
  BY <1>1, <1>5, <1>6 DEF y
<1>8. QED
  BY <1>3, <1>7 DEF y, q

\* The sum of rounded rates and the rounded sum: half a byte for each that is added.
LEMMA SumOfRounded ==
  ASSUME NEW S, IsFiniteSet(S), NEW f, NatOn(f, S),
         NEW g, \A x \in S : g[x] = Rounded(f[x])
  PROVE  /\ SumOf(g, S) \in Nat
         /\ 2 * SumOf(f, S) - Parts * Cardinality(S) <= 2 * (Parts * SumOf(g, S))
         /\ 2 * (Parts * SumOf(g, S)) <= 2 * SumOf(f, S) + Parts * Cardinality(S)
<1> DEFINE Near(T) ==
             /\ 2 * SumOf(f, T) - Parts * Cardinality(T) <= 2 * (Parts * SumOf(g, T))
             /\ 2 * (Parts * SumOf(g, T)) <= 2 * SumOf(f, T) + Parts * Cardinality(T)
           U == {T \in SUBSET S : Near(T)}
<1>1. Parts \in Nat
  BY PartsAssumption
<1>2. NatOn(g, S)
  BY RoundedIsNear DEF NatOn
<1>3. {} \in U
  <2>1. SumOf(f, {}) = 0 /\ SumOf(g, {}) = 0 /\ Cardinality({}) = 0
    BY SumOfNone, FS_EmptySet
  <2>2. Near({})
    BY <1>1, <2>1
  <2>3. QED
    BY <2>2
<1>4. ASSUME NEW T \in SUBSET S, NEW x \in S \ T, T \in U PROVE T \cup {x} \in U
  <2>1. /\ IsFiniteSet(T) /\ NatOn(f, T) /\ NatOn(g, T) /\ x \notin T
        /\ f[x] \in Nat /\ g[x] \in Nat /\ g[x] = Rounded(f[x])
    BY <1>2, <1>4, FS_Subset DEF NatOn
  <2> DEFINE a == SumOf(f, T)
             b == SumOf(g, T)
             c == Cardinality(T)
             u == f[x]
             v == g[x]
  <2>2. a \in Nat /\ b \in Nat /\ c \in Nat /\ u \in Nat /\ v \in Nat
    BY <2>1, SumType, FS_CardinalityType
  <2>3. /\ SumOf(f, T \cup {x}) = a + u
        /\ SumOf(g, T \cup {x}) = b + v
        /\ Cardinality(T \cup {x}) = c + 1
    BY <2>1, SumOfMore, FS_AddElement
  <2>4. 2 * a - Parts * c <= 2 * (Parts * b) /\ 2 * (Parts * b) <= 2 * a + Parts * c
    BY <1>4
  <2>5. 2 * u - Parts <= 2 * (Parts * v) /\ 2 * (Parts * v) <= 2 * u + Parts
    BY <2>1, RoundedIsNear
  <2> HIDE DEF a, b, c, u, v, Near
  <2>6. Parts * (b + v) = Parts * b + Parts * v /\ Parts * (c + 1) = Parts * c + Parts
    BY <1>1, <2>2, Z3
  <2>7. Parts * b \in Nat /\ Parts * v \in Nat /\ Parts * c \in Nat
    BY <1>1, <2>2
  <2> DEFINE pb == Parts * b
             pv == Parts * v
             pc == Parts * c
  <2>8. /\ 2 * (a + u) - (pc + Parts) <= 2 * (pb + pv)
        /\ 2 * (pb + pv) <= 2 * (a + u) + (pc + Parts)
    <3> HIDE DEF pb, pv, pc
    <3>1. /\ pb \in Nat /\ pv \in Nat /\ pc \in Nat
          /\ 2 * a - pc <= 2 * pb /\ 2 * pb <= 2 * a + pc
          /\ 2 * u - Parts <= 2 * pv /\ 2 * pv <= 2 * u + Parts
      BY <2>4, <2>5, <2>7 DEF pb, pv, pc
    <3>2. QED
      BY <1>1, <2>2, <3>1
  <2>9. Near(T \cup {x})
    BY <2>3, <2>6, <2>8 DEF Near
  <2>10. QED
    BY <1>4, <2>9
<1> HIDE DEF U
<1>5. S \in U
  BY <1>3, <1>4, Grows
<1>6. QED
  BY <1>2, <1>5, SumType DEF U

-----------------------------------------------------------------------------
(* What holds of the snapshot at each step. *)

\* What is listed is busy, is listed once, the busiest first, and no application that
\* is left out is busier.
InOrder(l) ==
    LET all == {l[i] : i \in 1..Len(l)} IN
    /\ l \in Seq(Apps) /\ Len(l) <= topCount
    /\ all \subseteq Groups
    /\ \A i, j \in 1..Len(l) : l[i] = l[j] => i = j
    /\ \A i, j \in 1..Len(l) : i <= j => Total(Members(l[i])) >= Total(Members(l[j]))
    /\ \A a \in Groups \ all, b \in all : Total(Members(a)) <= Total(Members(b))

\* Only what there is no room for is left out.
IsFull(l) == Groups \subseteq {l[i] : i \in 1..Len(l)} \/ Len(l) = topCount

Order == InOrder(listed)

Filled == step \in {"updated", "written", "shown"} => IsFull(listed)

\* Nothing is left of the snapshot before.
Fresh ==
    /\ step \in {"idle", "sampled"} => listed = <<>>
    /\ step \in {"idle", "sampled", "updated"} => DOMAIN doc.rows = {}

\* The document says what the processes did.
Documented ==
    step \in {"written", "shown"} =>
        /\ DOMAIN doc.rows = Listed
        /\ \A d \in Directions : doc.total[d] = Rounded(RateOf(Pids, d))
        /\ \A d \in Directions : \A a \in Listed : doc.rows[a][d] = Row(Members(a), d)

\* What is shown is worked out from the document.
Displayed ==
    step = "shown" =>
        /\ shown.rx = Remainder(hidden, "rx") /\ shown.tx = Remainder(hidden, "tx")
        /\ shown.top = FirstActive(hidden)

RepInv == TypeOK /\ Order /\ Filled /\ Fresh /\ Documented /\ Displayed

-----------------------------------------------------------------------------
(* The processes and their groups. *)

LEMMA RatesAreNumbers ==
  ASSUME TypeOK
  PROVE  /\ \A d \in Directions : NatOn(rate[d], Pids)
         /\ \A S \in SUBSET Pids, d \in Directions : RateOf(S, d) \in Nat
         /\ \A S \in SUBSET Pids : Total(S) \in Nat
<1>1. ASSUME NEW d \in Directions PROVE NatOn(rate[d], Pids)
  <2>1. rate[d] \in [Pids -> Rates \cup {0}]
    BY DEF TypeOK
  <2>2. Rates \cup {0} \subseteq Nat
    BY PartsAssumption
  <2>3. QED
    BY <2>1, <2>2 DEF NatOn
<1>2. ASSUME NEW S \in SUBSET Pids, NEW d \in Directions PROVE RateOf(S, d) \in Nat
  <2>1. IsFiniteSet(S) /\ NatOn(rate[d], S)
    BY <1>1, PidsAssumption, FS_Subset DEF NatOn
  <2>2. SumOf(rate[d], S) \in Nat
    BY <2>1, SumType
  <2>3. QED
    BY <2>2 DEF RateOf
<1>3. QED
  BY <1>1, <1>2 DEF Total, Directions

LEMMA GroupsAreFinite ==
  /\ \A a : Members(a) \in SUBSET Pids /\ IsFiniteSet(Members(a))
  /\ IsFiniteSet(Groups)
<1>1. \A a : Members(a) \in SUBSET Pids
  BY DEF Members, Active
<1>2. Active \in SUBSET Pids
  BY DEF Active
<1>3. IsFiniteSet(Active) /\ \A a : IsFiniteSet(Members(a))
  BY <1>1, <1>2, PidsAssumption, FS_Subset
<1>4. [p \in Active |-> appOf[p]] \in Surjection(Active, Groups)
  BY DEF Surjection, Groups
<1>5. IsFiniteSet(Groups)
  BY <1>3, <1>4, FS_Surjection
<1>6. QED
  BY <1>1, <1>3, <1>5

\* A sequence of numbers none of which is less than the next is sorted.
LEMMA Descending ==
  ASSUME NEW n \in Nat, NEW v, \A i \in 1..n : v[i] \in Nat,
         \A i \in 1..n - 1 : v[i] >= v[i + 1]
  PROVE  \A i, j \in 1..n : i <= j => v[i] >= v[j]
<1> SUFFICES ASSUME NEW i \in 1..n, NEW j \in 1..n, i <= j
             PROVE  v[i] >= v[j]
  OBVIOUS
<1> DEFINE T == {k \in 0..n - i : v[i] >= v[i + k]}
<1>1. n - i \in Nat /\ j - i \in 0..n - i /\ 0 \in 0..n - i /\ i + 0 = i /\ i + (j - i) = j
  OBVIOUS
<1>2. 0 \in T
  BY <1>1
<1>3. ASSUME NEW k \in 1..n - i, k - 1 \in T PROVE k \in T
  <2>1. /\ i + (k - 1) \in 1..n - 1 /\ i + (k - 1) \in 1..n /\ i + k \in 1..n
        /\ (i + (k - 1)) + 1 = i + k /\ k \in 0..n - i
    OBVIOUS
  <2>2. v[i] >= v[i + (k - 1)]
    BY <1>3
  <2>3. v[i + (k - 1)] >= v[i + k]
    BY <2>1
  <2>4. v[i] \in Nat /\ v[i + (k - 1)] \in Nat /\ v[i + k] \in Nat
    BY <2>1
  <2>5. \A a, b, c \in Nat : a >= b /\ b >= c => a >= c
    OBVIOUS
  <2>6. v[i] >= v[i + k]
    BY <2>2, <2>3, <2>4, <2>5
  <2>7. QED
    BY <2>1, <2>6
<1>4. 0..n - i \subseteq T
  <2> HIDE DEF T
  <2>1. QED
    BY <1>1, <1>2, <1>3, Reaches
<1>5. QED
  BY <1>1, <1>4

\* The first application in the list that is not hidden.
LEMMA FirstActiveIs ==
  ASSUME TypeOK, Order, NEW H
  PROVE  IF Listed \subseteq H THEN FirstActive(H) = NoApp
         ELSE \E i \in 1..Len(listed) :
                /\ FirstActive(H) = listed[i] /\ listed[i] \notin H
                /\ \A j \in 1..i - 1 : listed[j] \in H
<1>1. CASE Listed \subseteq H
  BY <1>1 DEF FirstActive
<1>2. CASE ~(Listed \subseteq H)
  <2> DEFINE N == {i \in 1..Len(listed) : listed[i] \notin H}
             First(i) == listed[i] \notin H /\ \A j \in 1..i - 1 : listed[j] \in H
  <2>1. Len(listed) \in Nat
    BY DEF Order, InOrder
  <2>2. N \subseteq Nat /\ N # {}
    BY <1>2, <2>1 DEF Listed
  <2>3. PICK i \in N : \A j \in N : i <= j
    <3> HIDE DEF N
    <3>1. QED
      BY <2>2, LeastElement
  <2>4. i \in 1..Len(listed) /\ First(i)
    <3>1. ASSUME NEW j \in 1..i - 1 PROVE listed[j] \in H
      <4>1. j \in 1..Len(listed) /\ ~(i <= j)
        BY <2>1, <2>3
      <4>2. QED
        BY <2>3, <4>1
    <3>2. QED
      BY <2>3, <3>1
  <2> DEFINE k == CHOOSE h \in 1..Len(listed) : First(h)
  <2>5. FirstActive(H) = listed[k]
    BY <1>2 DEF FirstActive
  <2>6. k \in 1..Len(listed) /\ First(k)
    <3> HIDE DEF First
    <3>1. QED
      BY <2>4
  <2> HIDE DEF k
  <2>7. QED
    BY <1>2, <2>5, <2>6
<1>3. QED
  BY <1>1, <1>2

LEMMA RowsAreNumbers ==
  ASSUME TypeOK
  PROVE  \A a : \A d \in Directions : Row(Members(a), d) \in Nat
<1> SUFFICES ASSUME NEW a, NEW d \in Directions PROVE Row(Members(a), d) \in Nat
  OBVIOUS
<1> DEFINE g == [p \in Pids |-> Rounded(rate[d][p])]
<1>1. NatOn(g, Members(a))
  <2>1. \A p \in Pids : rate[d][p] \in Nat
    BY RatesAreNumbers DEF NatOn
  <2>2. \A p \in Pids : g[p] \in Nat
    BY <2>1, RoundedIsNear
  <2> HIDE DEF g
  <2>3. QED
    BY <2>2, GroupsAreFinite DEF NatOn
<1> HIDE DEF g
<1>2. SumOf(g, Members(a)) \in Nat
  BY <1>1, GroupsAreFinite, SumType
<1>3. QED
  BY <1>2 DEF Row, g

LEMMA ListIsFinite ==
  ASSUME Order
  PROVE  IsFiniteSet(Listed)
<1>1. Listed \subseteq Groups
  BY DEF Order, InOrder, Listed
<1>2. QED
  BY <1>1, GroupsAreFinite, FS_Subset

\* What is left of the total is a number, and is not less than what is taken.
LEMMA RemainderIs ==
  ASSUME RepInv, step \in {"written", "shown"}, NEW H, NEW d \in Directions
  PROVE  /\ RateOf(Pids, d) \in Nat /\ doc.total[d] = Rounded(RateOf(Pids, d))
         /\ doc.total[d] \in Nat
         /\ \A S \in SUBSET Listed : RowsOf(S, d) \in Nat
         /\ Remainder(H, d) \in Nat
<1>1. RateOf(Pids, d) \in Nat /\ doc.total[d] = Rounded(RateOf(Pids, d))
  BY RatesAreNumbers DEF RepInv, Documented
<1>2. doc.total[d] \in Nat
  BY <1>1, RoundedIsNear
<1>3. ASSUME NEW S \in SUBSET Listed PROVE RowsOf(S, d) \in Nat
  <2> DEFINE g == [a \in Listed |-> doc.rows[a][d]]
  <2>1. \A a \in Listed : g[a] \in Nat
    <3>1. \A a \in Listed : doc.rows[a][d] = Row(Members(a), d)
      BY DEF RepInv, Documented
    <3>2. QED
      BY <3>1, RowsAreNumbers DEF RepInv
  <2> HIDE DEF g
  <2>2. NatOn(g, S) /\ IsFiniteSet(S)
    BY <2>1, ListIsFinite, FS_Subset DEF RepInv, NatOn
  <2>3. SumOf(g, S) \in Nat
    BY <2>2, SumType
  <2>4. QED
    BY <2>3 DEF RowsOf, g
<1>4. Remainder(H, d) \in Nat
  <2>1. H \cap Listed \in SUBSET Listed
    OBVIOUS
  <2>2. RowsOf(H \cap Listed, d) \in Nat
    BY <1>3, <2>1
  <2>3. \A x, y \in Nat : (IF x - y < 0 THEN 0 ELSE x - y) \in Nat
    OBVIOUS
  <2>4. QED
    BY <1>2, <2>2, <2>3 DEF Remainder
<1>5. QED
  BY <1>1, <1>2, <1>3, <1>4

-----------------------------------------------------------------------------
(* Each step keeps this. *)

LEMMA CutIsInOrder ==
  ASSUME TypeOK, NEW s \in [1..Cardinality(Groups) -> Groups],
         {s[i] : i \in DOMAIN s} = Groups, Ranked(s)
  PROVE  InOrder(Cut(s)) /\ IsFull(Cut(s))
<1> DEFINE n == Cardinality(Groups)
           m == IF n > topCount THEN topCount ELSE n
           l == Cut(s)
           v == [i \in 1..n |-> Total(Members(s[i]))]
<1>1. n \in Nat /\ topCount \in Nat /\ m \in Nat /\ m <= n /\ m <= topCount
  <2>1. n \in Nat
    BY GroupsAreFinite, FS_CardinalityType
  <2>2. topCount \in Nat
    BY TopAssumption DEF TypeOK
  <2> HIDE DEF n
  <2>3. QED
    BY <2>1, <2>2
<1>2. Groups \subseteq Apps
  BY DEF Groups, Active, TypeOK
<1>3. \A i, j \in 1..n : s[i] = s[j] => i = j
  <2>1. s \in Surjection(1..n, Groups)
    <3>1. \A a \in Groups : \E i \in 1..n : s[i] = a
      OBVIOUS
    <3>2. QED
      BY <3>1 DEF Surjection
  <2>2. IsFiniteSet(1..n) /\ Cardinality(1..n) = n
    <3>1. 1 \in Int /\ n \in Int
      BY <1>1
    <3>2. \A k \in Nat : (IF 1 > k THEN 0 ELSE k - 1 + 1) = k
      OBVIOUS
    <3> HIDE DEF n
    <3>3. QED
      BY <1>1, <3>1, <3>2, FS_Interval
  <2>3. s \in Injection(1..n, Groups)
    BY <2>1, <2>2, FS_Surjection
  <2>4. QED
    BY <2>3 DEF Injection, IsInjective
<1>4. \A i \in 1..n : s[i] \in Groups
  OBVIOUS
<1> HIDE DEF n
<1>5. s \in Seq(Groups) /\ Len(s) = n
  BY <1>1 DEF n
<1>6. l = SubSeq(s, 1, m)
  BY <1>5 DEF Cut
<1>7. Len(l) = m /\ \A i \in 1..m : l[i] = s[i]
  BY <1>1, <1>5, <1>6
<1>8. l \in Seq(Apps)
  <2>1. \A i \in 1..m : s[i] \in Apps
    <3>1. \A i \in 1..m : i \in 1..n
      BY <1>1
    <3>2. QED
      BY <1>2, <1>4, <3>1
  <2>2. 1 \in Int /\ m \in Int
    BY <1>1
  <2> HIDE DEF m, l
  <2>3. SubSeq(s, 1, m) \in Seq(Apps)
    BY <2>1, <2>2, SubSeqProperties
  <2>4. QED
    BY <1>6, <2>3
<1> HIDE DEF l
<1>9. \A i \in 1..m : i \in 1..n
  BY <1>1
<1>10. \A i \in 1..n : v[i] = Total(Members(s[i])) /\ v[i] \in Nat
  BY RatesAreNumbers, GroupsAreFinite
<1> HIDE DEF v, m
<1>11. \A i, j \in 1..n : i <= j => v[i] >= v[j]
  <2>1. \A i \in 1..n - 1 : i \in 1..n /\ i + 1 \in 1..n
    BY <1>1
  <2>2. \A i \in 1..n - 1 : v[i] >= v[i + 1]
    BY <1>5, <1>10, <2>1 DEF Ranked
  <2>3. QED
    BY <1>1, <1>10, <2>2, Descending
<1>12. \A i, j \in 1..m : i <= j => Total(Members(l[i])) >= Total(Members(l[j]))
  BY <1>7, <1>9, <1>10, <1>11
<1> DEFINE all == {l[i] : i \in 1..Len(l)}
<1>13. all \subseteq Groups
  BY <1>4, <1>7, <1>9
<1>14. ASSUME NEW a \in Groups \ all, NEW b \in all
       PROVE  Total(Members(a)) <= Total(Members(b))
  <2>1. PICK j \in 1..n : a = s[j]
    <3>1. DOMAIN s = 1..n /\ a \in {s[i] : i \in DOMAIN s}
      BY <1>5
    <3>2. QED
      BY <3>1
  <2>2. PICK i \in 1..m : b = s[i]
    BY <1>7
  <2>3. ~(j \in 1..m)
    <3>1. j \in 1..m => s[j] \in all
      BY <1>7
    <3>2. QED
      BY <1>14, <2>1, <3>1
  <2>4. i <= j /\ i \in 1..n
    BY <1>1, <2>3
  <2>5. v[i] >= v[j] /\ v[i] \in Nat /\ v[j] \in Nat
    BY <1>10, <1>11, <2>4
  <2>6. v[i] = Total(Members(b)) /\ v[j] = Total(Members(a))
    BY <1>10, <2>1, <2>2, <2>4
  <2>7. \A x, y \in Nat : x >= y => y <= x
    OBVIOUS
  <2>8. QED
    BY <2>5, <2>6, <2>7
<1>15. \A i, j \in 1..m : l[i] = l[j] => i = j
  BY <1>3, <1>7, <1>9
<1>16. Groups \subseteq all \/ Len(l) = topCount
  <2>1. CASE n > topCount
    BY <1>7, <2>1 DEF m
  <2>2. CASE ~(n > topCount)
    <3>1. m = n
      BY <2>2 DEF m
    <3>2. DOMAIN s = 1..n
      BY <1>5
    <3>3. \A a \in Groups : \E i \in 1..n : a = s[i]
      BY <3>2
    <3>4. \A i \in 1..n : s[i] \in all
      BY <1>7, <3>1
    <3> HIDE DEF all
    <3>5. QED
      BY <3>3, <3>4
  <2>3. QED
    BY <2>1, <2>2
<1> HIDE DEF all
<1>17. InOrder(Cut(s))
  BY <1>1, <1>7, <1>8, <1>12, <1>13, <1>14, <1>15 DEF InOrder, all, l
<1>18. IsFull(Cut(s))
  BY <1>16 DEF IsFull, all, l
<1>19. QED
  BY <1>17, <1>18

\* An application is listed once.
LEMMA ListedOnce ==
  ASSUME NEW l, l \in Seq(Apps), \A i, j \in 1..Len(l) : l[i] = l[j] => i = j
  PROVE  Len(l) = Cardinality({l[i] : i \in 1..Len(l)})
<1> DEFINE n == Len(l)
           all == {l[i] : i \in 1..n}
           f == [i \in 1..n |-> l[i]]
<1>1. n \in Nat
  OBVIOUS
<1>2. f \in Injection(1..n, all) /\ f \in Surjection(1..n, all)
  <2>1. \A i, j \in 1..n : f[i] = f[j] => i = j
    OBVIOUS
  <2>2. f \in [1..n -> all] /\ \A a \in all : \E i \in 1..n : f[i] = a
    OBVIOUS
  <2> HIDE DEF f, all
  <2>3. QED
    BY <2>1, <2>2 DEF Injection, Surjection, IsInjective
<1>3. IsFiniteSet(1..n) /\ Cardinality(1..n) = n
  <2>1. 1 \in Int /\ n \in Int
    BY <1>1
  <2>2. \A k \in Nat : (IF 1 > k THEN 0 ELSE k - 1 + 1) = k
    OBVIOUS
  <2> HIDE DEF n
  <2>3. QED
    BY <1>1, <2>1, <2>2, FS_Interval
<1> HIDE DEF f, all
<1>4. Cardinality(all) = Cardinality(1..n)
  BY <1>2, <1>3, FS_Surjection
<1>5. QED
  BY <1>3, <1>4 DEF all

\* Nothing is listed yet: there is nothing to order.
LEMMA NothingListed ==
  ASSUME NEW l, l = <<>>
  PROVE  Len(l) = 0 /\ {l[i] : i \in 1..Len(l)} = {} /\ Cardinality({}) = 0 /\ l \in Seq(Apps)
BY FS_EmptySet

LEMMA InitEstablishes == Init => RepInv
<1> SUFFICES ASSUME Init PROVE RepInv
  OBVIOUS
<1>1. listed = <<>> /\ Len(listed) = 0 /\ Listed = {} /\ Cardinality({}) = 0 /\ listed \in Seq(Apps)
  <2>1. listed = <<>>
    BY DEF Init
  <2>2. QED
    BY <2>1, NothingListed DEF Listed
<1>2. topCount \in TopCounts /\ topCount \in Nat
  BY TopAssumption DEF Init
<1>3. DOMAIN doc.rows = {}
  BY DEF Init, NoDoc
<1>4. shown \in [rx : Nat, tx : Nat, top : Apps \cup {NoApp}]
  BY DEF Init, NothingShown
<1>5. rate \in [Directions -> [Pids -> Rates \cup {0}]]
  BY DEF Init, Quiet
<1>6. TypeOK
  BY <1>1, <1>2, <1>3, <1>4, <1>5 DEF Init, TypeOK
<1>7. Order
  BY <1>1, <1>2 DEF Order, InOrder, Listed
<1>8. Filled /\ Fresh /\ Documented /\ Displayed
  BY <1>1, <1>3 DEF Init, Filled, Fresh, Documented, Displayed
<1>9. QED
  BY <1>6, <1>7, <1>8 DEF RepInv

LEMMA SampleKeeps ==
  ASSUME RepInv, Sample
  PROVE  RepInv'
<1>1. listed' = <<>> /\ Len(listed') = 0 /\ Listed' = {} /\ Cardinality({}) = 0 /\ listed' \in Seq(Apps)
  <2>1. listed' = <<>>
    BY DEF Sample, RepInv, Fresh
  <2>2. QED
    BY <2>1, NothingListed DEF Listed
<1>2. topCount' \in Nat
  BY TopAssumption DEF Sample, RepInv, TypeOK
<1>3. DOMAIN doc'.rows = {}
  BY DEF Sample, RepInv, Fresh
<1>4. rate' \in [Directions -> [Pids -> Rates \cup {0}]]
  BY DEF Sample
<1>5. TypeOK'
  BY <1>1, <1>2, <1>3, <1>4 DEF Sample, RepInv, TypeOK
<1>6. Order'
  BY <1>1, <1>2 DEF Order, InOrder, Listed
<1>7. Filled' /\ Fresh' /\ Documented' /\ Displayed'
  BY <1>1, <1>3 DEF Sample, Filled, Fresh, Documented, Displayed
<1>8. QED
  BY <1>5, <1>6, <1>7 DEF RepInv

LEMMA SameRates ==
  ASSUME UNCHANGED <<rate, appOf>>
  PROVE  Groups' = Groups /\ \A a : Total(Members(a))' = Total(Members(a))
BY DEF Groups, Members, Active, Total, RateOf

LEMMA UpdateKeeps ==
  ASSUME RepInv, Update
  PROVE  RepInv'
<1>1. InOrder(listed') /\ IsFull(listed')
  <2>1. PICK s \in [1..Cardinality(Groups) -> Groups] :
          {s[i] : i \in DOMAIN s} = Groups /\ Ranked(s) /\ listed' = Cut(s)
    BY DEF Update
  <2>2. QED
    BY <2>1, CutIsInOrder DEF RepInv
<1>2. Order' /\ Filled'
  <2>1. UNCHANGED <<topCount, rate, appOf>>
    BY DEF Update
  <2>2. Order'
    BY <1>1, <2>1, SameRates DEF Order, InOrder
  <2>3. Filled'
    BY <1>1, <2>1, SameRates DEF Filled, IsFull
  <2>4. QED
    BY <2>2, <2>3
<1>3. Listed' \subseteq Apps
  <2>1. \A i \in 1..Len(listed') : listed'[i] \in Apps
    BY <1>1 DEF InOrder
  <2>2. QED
    BY <2>1 DEF Listed
<1>4. Len(listed') = Cardinality(Listed')
  <2>1. \A l : InOrder(l) => Len(l) = Cardinality({l[i] : i \in 1..Len(l)})
    BY ListedOnce DEF InOrder
  <2>2. Len(listed') = Cardinality({listed'[i] : i \in 1..Len(listed')})
    BY <1>1, <2>1
  <2>3. QED
    BY <2>2 DEF Listed
<1>5. Len(listed') <= topCount'
  BY <1>1 DEF InOrder, Update
<1>6. DOMAIN doc'.rows = {}
  BY DEF Update, RepInv, Fresh
<1>7. TypeOK'
  BY <1>3, <1>4, <1>5, <1>6 DEF Update, RepInv, TypeOK
<1>8. Fresh' /\ Documented' /\ Displayed'
  BY <1>6 DEF Update, Fresh, Documented, Displayed
<1>9. QED
  BY <1>2, <1>7, <1>8 DEF RepInv

\* Later steps leave the list and what it was made from alone.
LEMMA OrderStays ==
  ASSUME Order, UNCHANGED <<topCount, rate, appOf, listed>>
  PROVE  /\ Order' /\ Listed' = Listed
         /\ IsFull(listed) => IsFull(listed)'
BY SameRates DEF Order, InOrder, IsFull, Listed

LEMMA WriteKeeps ==
  ASSUME RepInv, Write
  PROVE  RepInv'
<1>1. /\ UNCHANGED <<topCount, rate, appOf, listed, hidden, shown>>
      /\ step = "updated" /\ step' = "written"
  BY DEF Write
<1>2. Order' /\ Filled' /\ Listed' = Listed
  BY <1>1, OrderStays DEF RepInv, Filled
<1>3. /\ DOMAIN doc'.rows = Listed
      /\ \A d \in Directions : doc'.total[d] = Rounded(RateOf(Pids, d))
      /\ \A d \in Directions : \A a \in Listed : doc'.rows[a][d] = Row(Members(a), d)
  BY DEF Write
<1>4. Documented'
  <2>1. \A d : RateOf(Pids, d)' = RateOf(Pids, d)
    BY <1>1 DEF RateOf
  <2>2. \A a : \A d : Row(Members(a), d)' = Row(Members(a), d)
    BY <1>1 DEF Row, Members, Active, Total, RateOf
  <2>3. QED
    BY <1>2, <1>3, <2>1, <2>2 DEF Documented
<1>5. TypeOK'
  BY <1>1, <1>2, <1>3 DEF RepInv, TypeOK
<1>6. Fresh' /\ Displayed'
  BY <1>1 DEF Fresh, Displayed
<1>7. QED
  BY <1>2, <1>4, <1>5, <1>6 DEF RepInv

\* What stays true of a document that is kept.
LEMMA DocumentStays ==
  ASSUME RepInv, step \in {"written", "shown"}, UNCHANGED <<topCount, rate, appOf, listed, doc>>
  PROVE  Order' /\ Filled' /\ Documented' /\ Listed' = Listed
<1>1. Order' /\ Filled' /\ Listed' = Listed
  BY OrderStays DEF RepInv, Filled
<1>2. \A d : RateOf(Pids, d)' = RateOf(Pids, d)
  BY DEF RateOf
<1>3. \A a : \A d : Row(Members(a), d)' = Row(Members(a), d)
  BY DEF Row, Members, Active, Total, RateOf
<1>4. Documented'
  BY <1>1, <1>2, <1>3 DEF RepInv, Documented
<1>5. QED
  BY <1>1, <1>4

LEMMA IngestKeeps ==
  ASSUME RepInv, Ingest
  PROVE  RepInv'
<1>1. step = "written" /\ step' = "shown" /\ UNCHANGED <<topCount, rate, appOf, listed, doc>>
  BY DEF Ingest
<1>2. Order' /\ Filled' /\ Documented' /\ Listed' = Listed
  BY <1>1, DocumentStays
<1>3. shown' = [rx |-> Remainder(hidden', "rx"), tx |-> Remainder(hidden', "tx"),
                top |-> FirstActive(hidden')]
  BY DEF Ingest
<1>4. Remainder(hidden', "rx") \in Nat /\ Remainder(hidden', "tx") \in Nat
  BY <1>1, RemainderIs DEF Directions
<1>5. FirstActive(hidden') \in Apps \cup {NoApp}
  <2>1. \A i \in 1..Len(listed) : listed[i] \in Apps
    BY DEF RepInv, Order, InOrder
  <2>2. QED
    BY <2>1, FirstActiveIs DEF RepInv
<1>6. shown' \in [rx : Nat, tx : Nat, top : Apps \cup {NoApp}]
  BY <1>3, <1>4, <1>5
<1>7. TypeOK'
  BY <1>1, <1>2, <1>6 DEF Ingest, RepInv, TypeOK
<1>8. Fresh'
  BY <1>1 DEF Fresh
<1>9. Displayed'
  <2>1. \A H, d : Remainder(H, d)' = Remainder(H, d)
    BY <1>1, <1>2 DEF Remainder, RowsOf
  <2>2. \A H : FirstActive(H)' = FirstActive(H)
    BY <1>1, <1>2 DEF FirstActive
  <2>3. QED
    BY <1>1, <1>3, <2>1, <2>2 DEF Displayed
<1>10. QED
  BY <1>2, <1>7, <1>8, <1>9 DEF RepInv

LEMMA StatusLostKeeps ==
  ASSUME RepInv, StatusLost
  PROVE  RepInv'
<1>1. /\ step' = "lost" /\ shown' = NothingShown
      /\ UNCHANGED <<topCount, rate, appOf, listed, doc, hidden>>
  BY DEF StatusLost
<1>2. Order' /\ Listed' = Listed
  BY <1>1, OrderStays DEF RepInv
<1>3. shown' \in [rx : Nat, tx : Nat, top : Apps \cup {NoApp}]
  BY <1>1 DEF NothingShown
<1>4. TypeOK'
  BY <1>1, <1>2, <1>3 DEF RepInv, TypeOK
<1>5. Filled' /\ Fresh' /\ Documented' /\ Displayed'
  BY <1>1 DEF Filled, Fresh, Documented, Displayed
<1>6. QED
  BY <1>2, <1>4, <1>5 DEF RepInv

LEMMA TickEndsKeeps ==
  ASSUME RepInv, TickEnds
  PROVE  RepInv'
<1>1. listed' = <<>> /\ Len(listed') = 0 /\ Listed' = {} /\ Cardinality({}) = 0 /\ listed' \in Seq(Apps)
  <2>1. listed' = <<>>
    BY DEF TickEnds
  <2>2. QED
    BY <2>1, NothingListed DEF Listed
<1>2. topCount' \in Nat /\ topCount' \in TopCounts
  BY TopAssumption DEF TickEnds, RepInv, TypeOK
<1>3. DOMAIN doc'.rows = {}
  BY DEF TickEnds, NoDoc
<1>4. rate' \in [Directions -> [Pids -> Rates \cup {0}]]
  BY DEF TickEnds, Quiet
<1>5. shown' \in [rx : Nat, tx : Nat, top : Apps \cup {NoApp}]
  BY DEF TickEnds, RepInv, TypeOK
<1>6. TypeOK'
  BY <1>1, <1>2, <1>3, <1>4, <1>5 DEF TickEnds, RepInv, TypeOK
<1>7. Order'
  BY <1>1, <1>2 DEF Order, InOrder, Listed
<1>8. Filled' /\ Fresh' /\ Documented' /\ Displayed'
  BY <1>1, <1>3 DEF TickEnds, Filled, Fresh, Documented, Displayed
<1>9. QED
  BY <1>6, <1>7, <1>8 DEF RepInv

LEMMA Invariant == Spec => []RepInv
<1>1. Init => RepInv
  BY InitEstablishes
<1>2. RepInv /\ [Next]_vars => RepInv'
  <2> SUFFICES ASSUME RepInv, [Next]_vars PROVE RepInv'
    OBVIOUS
  <2>1. CASE Sample
    BY <2>1, SampleKeeps
  <2>2. CASE Update
    BY <2>2, UpdateKeeps
  <2>3. CASE Write
    BY <2>3, WriteKeeps
  <2>4. CASE Ingest
    BY <2>4, IngestKeeps
  <2>5. CASE StatusLost
    BY <2>5, StatusLostKeeps
  <2>6. CASE TickEnds
    BY <2>6, TickEndsKeeps
  <2>7. CASE UNCHANGED vars
    <3>1. UNCHANGED <<topCount, step, rate, appOf, listed, doc, hidden, shown>>
      BY <2>7 DEF vars
    <3>2. Order' /\ Filled' /\ Listed' = Listed
      BY <3>1, OrderStays DEF RepInv, Filled
    <3>3. TypeOK'
      BY <3>1, <3>2 DEF RepInv, TypeOK
    <3>4. Fresh'
      BY <3>1 DEF RepInv, Fresh
    <3>5. Documented'
      <4>1. CASE step \in {"written", "shown"}
        BY <3>1, <4>1, DocumentStays
      <4>2. CASE ~(step \in {"written", "shown"})
        BY <3>1, <4>2 DEF Documented
      <4>3. QED
        BY <4>1, <4>2
    <3>6. Displayed'
      <4>1. \A H, d : Remainder(H, d)' = Remainder(H, d)
        BY <3>1, <3>2 DEF Remainder, RowsOf
      <4>2. \A H : FirstActive(H)' = FirstActive(H)
        BY <3>1, <3>2 DEF FirstActive
      <4>3. QED
        BY <3>1, <4>1, <4>2 DEF RepInv, Displayed
    <3>7. QED
      BY <3>2, <3>3, <3>4, <3>5, <3>6 DEF RepInv
  <2>8. QED
    BY <2>1, <2>2, <2>3, <2>4, <2>5, <2>6, <2>7 DEF Next
<1>3. QED
  BY <1>1, <1>2, PTL DEF Spec

-----------------------------------------------------------------------------
(* What the numbers add up to. *)

Busy(S) == UNION {Members(a) : a \in S}

\* The rows of some of the applications listed, and what their processes transfer.
LEMMA RowsAreNear ==
  ASSUME RepInv, step = "shown", NEW S \in SUBSET Listed, NEW d \in Directions
  PROVE  /\ Busy(S) \in SUBSET Pids /\ Cardinality(Busy(S)) \in Nat
         /\ RateOf(Busy(S), d) \in Nat /\ RowsOf(S, d) \in Nat
         /\ 2 * RateOf(Busy(S), d) - Parts * Cardinality(Busy(S)) <= 2 * (Parts * RowsOf(S, d))
         /\ 2 * (Parts * RowsOf(S, d)) <= 2 * RateOf(Busy(S), d) + Parts * Cardinality(Busy(S))
<1> DEFINE M == [a \in S |-> Members(a)]
           f == [p \in Pids |-> Rounded(rate[d][p])]
           g == [a \in Listed |-> doc.rows[a][d]]
<1>1. \A a \in S : M[a] = Members(a) /\ IsFiniteSet(M[a]) /\ M[a] \subseteq Pids
  BY GroupsAreFinite
<1>2. Busy(S) = UNION {M[a] : a \in S}
  BY DEF Busy
<1>3. Busy(S) \in SUBSET Pids
  BY GroupsAreFinite DEF Busy
<1>4. \A p \in Pids : rate[d][p] \in Nat
  BY RatesAreNumbers DEF RepInv, NatOn
<1>5. \A p \in Pids : f[p] = Rounded(rate[d][p]) /\ f[p] \in Nat
  BY <1>4, RoundedIsNear
<1>6. \A a, b \in S : a # b => M[a] \cap M[b] = {}
  <2>1. ASSUME NEW a \in S, NEW b \in S, a # b PROVE M[a] \cap M[b] = {}
    <3>1. \A p \in M[a] : appOf[p] = a
      BY DEF Members
    <3>2. \A p \in M[b] : appOf[p] = b
      BY DEF Members
    <3> HIDE DEF M
    <3>3. QED
      BY <2>1, <3>1, <3>2
  <2>2. QED
    BY <2>1
<1>7. \A a \in S : g[a] = SumOf(f, M[a])
  <2>1. \A a \in Listed : doc.rows[a][d] = Row(Members(a), d)
    BY DEF RepInv, Documented
  <2>2. \A a \in S : g[a] = Row(Members(a), d)
    BY <2>1
  <2>3. \A a : Row(Members(a), d) = SumOf(f, Members(a))
    BY DEF Row
  <2> HIDE DEF f, g
  <2>4. QED
    BY <2>2, <2>3
<1> HIDE DEF M, f
<1>8. \A a \in S : NatOn(f, M[a])
  BY <1>1, <1>5 DEF NatOn
<1>9. IsFiniteSet(S)
  BY ListIsFinite, FS_Subset DEF RepInv
<1> HIDE DEF g
<1>10. IsFiniteSet(Busy(S)) /\ SumOf(g, S) = SumOf(f, Busy(S))
  <2>1. \A a \in S : IsFiniteSet(M[a])
    BY <1>1
  <2>2. IsFiniteSet(UNION {M[a] : a \in S}) /\ SumOf(g, S) = SumOf(f, UNION {M[a] : a \in S})
    BY <1>6, <1>7, <1>8, <1>9, <2>1, SumOfGroups
  <2>3. QED
    BY <1>2, <2>2
<1>11. RowsOf(S, d) = SumOf(f, Busy(S))
  BY <1>10 DEF RowsOf, g
<1>12. NatOn(rate[d], Busy(S)) /\ \A p \in Busy(S) : f[p] = Rounded(rate[d][p])
  BY <1>3, <1>4, <1>5 DEF NatOn
<1> DEFINE r == rate[d]
           B == Busy(S)
<1>13. /\ SumOf(f, B) \in Nat
       /\ 2 * SumOf(r, B) - Parts * Cardinality(B) <= 2 * (Parts * SumOf(f, B))
       /\ 2 * (Parts * SumOf(f, B)) <= 2 * SumOf(r, B) + Parts * Cardinality(B)
  <2>1. IsFiniteSet(B) /\ NatOn(r, B) /\ \A x \in B : f[x] = Rounded(r[x])
    BY <1>10, <1>12
  <2> HIDE DEF r, B
  <2>2. QED
    BY <2>1, SumOfRounded
<1>14. RateOf(B, d) = SumOf(r, B)
  BY DEF RateOf
<1>15. RateOf(B, d) \in Nat /\ Cardinality(B) \in Nat
  BY <1>3, <1>10, RatesAreNumbers, FS_CardinalityType DEF RepInv
<1> HIDE DEF r
<1>16. QED
  BY <1>3, <1>11, <1>13, <1>14, <1>15

\* The rate of some processes, and that of the others.
LEMMA RateOfPart ==
  ASSUME TypeOK, NEW S \in SUBSET Pids, NEW R \in SUBSET S, NEW d \in Directions
  PROVE  /\ RateOf(S, d) \in Nat /\ RateOf(R, d) \in Nat /\ RateOf(S \ R, d) \in Nat
         /\ RateOf(S, d) = RateOf(R, d) + RateOf(S \ R, d)
<1>1. IsFiniteSet(S) /\ NatOn(rate[d], S)
  BY RatesAreNumbers, PidsAssumption, FS_Subset DEF NatOn
<1>2. SumOf(rate[d], S) = SumOf(rate[d], R) + SumOf(rate[d], S \ R)
  BY <1>1, SumOfPart
<1>3. R \in SUBSET Pids /\ S \ R \in SUBSET Pids
  OBVIOUS
<1>4. QED
  BY <1>2, <1>3, RatesAreNumbers DEF RateOf

\* A process that is not active transfers nothing.
LEMMA InactiveIsQuiet ==
  ASSUME TypeOK, NEW p \in Pids \ Active, NEW d \in Directions
  PROVE  rate[d][p] = 0
<1>1. ASSUME NEW e \in Directions PROVE rate[e][p] \in Nat /\ RateOf({p}, e) = rate[e][p]
  <2> DEFINE f == rate[e]
  <2>1. f[p] \in Nat /\ IsFiniteSet({}) /\ NatOn(f, {}) /\ {} \cup {p} = {p}
    BY RatesAreNumbers, FS_EmptySet DEF NatOn
  <2>2. RateOf({p}, e) = SumOf(f, {p})
    BY DEF RateOf
  <2> HIDE DEF f
  <2>3. SumOf(f, {} \cup {p}) = SumOf(f, {}) + f[p]
    BY <2>1, SumOfMore
  <2>4. SumOf(f, {}) = 0
    BY SumOfNone
  <2>5. RateOf({p}, e) = f[p] /\ f[p] \in Nat
    BY <2>1, <2>2, <2>3, <2>4
  <2>6. QED
    BY <2>5 DEF f
<1>2. ~(Total({p}) > 0)
  BY DEF Active
<1>3. Total({p}) = rate["rx"][p] + rate["tx"][p]
  BY <1>1 DEF Total, Directions
<1>4. rate["rx"][p] \in Nat /\ rate["tx"][p] \in Nat
  BY <1>1 DEF Directions
<1>5. d = "rx" \/ d = "tx"
  BY DEF Directions
<1>6. \A x, y \in Nat : ~(x + y > 0) => x = 0 /\ y = 0
  OBVIOUS
<1>7. rate["rx"][p] = 0 /\ rate["tx"][p] = 0
  BY <1>2, <1>3, <1>4, <1>6
<1>8. QED
  BY <1>5, <1>7

\* What the covered processes transfer is the total without the hidden ones.
LEMMA CoveredIsTheRest ==
  ASSUME RepInv, NEW d \in Directions
  PROVE  /\ RateOf(Pids, d) \in Nat /\ RateOf(Covered, d) \in Nat
         /\ RateOf(HiddenMembers, d) \in Nat
         /\ RateOf(Pids, d) = RateOf(HiddenMembers, d) + RateOf(Covered, d)
<1> DEFINE R == {p \in Pids : appOf[p] \in hidden \cap Listed}
<1>1. R \in SUBSET Pids /\ Covered = Pids \ R /\ Pids \in SUBSET Pids
  BY DEF Covered
<1>2. HiddenMembers \in SUBSET R
  BY DEF HiddenMembers, Members, Active
<1>3. \A p \in R \ HiddenMembers : p \in Pids \ Active
  BY DEF HiddenMembers, Members
<1> HIDE DEF R
<1>4. /\ RateOf(Pids, d) \in Nat /\ RateOf(R, d) \in Nat /\ RateOf(Covered, d) \in Nat
      /\ RateOf(Pids, d) = RateOf(R, d) + RateOf(Covered, d)
  BY <1>1, RateOfPart DEF RepInv
<1>5. /\ RateOf(HiddenMembers, d) \in Nat
      /\ RateOf(R, d) = RateOf(HiddenMembers, d) + RateOf(R \ HiddenMembers, d)
  BY <1>1, <1>2, RateOfPart DEF RepInv
<1>6. RateOf(R \ HiddenMembers, d) = 0
  <2> DEFINE f == rate[d]
             Q == R \ HiddenMembers
  <2>1. \A p \in Q : f[p] = 0
    BY <1>3, InactiveIsQuiet DEF RepInv
  <2>2. IsFiniteSet(Q)
    BY <1>1, PidsAssumption, FS_Subset
  <2>3. RateOf(Q, d) = SumOf(f, Q)
    BY DEF RateOf
  <2> HIDE DEF f, Q
  <2>4. SumOf(f, Q) = 0
    BY <2>1, <2>2, SumOfZeroes
  <2>5. QED
    BY <2>3, <2>4 DEF Q
<1>7. RateOf(R, d) = RateOf(HiddenMembers, d)
  BY <1>5, <1>6
<1>8. QED
  BY <1>4, <1>5, <1>7

\* What is taken from the total, and what is shown.
LEMMA ShownIs ==
  ASSUME RepInv, step = "shown", NEW d \in Directions
  PROVE  /\ shown[d] \in Nat /\ doc.total[d] \in Nat /\ RowsOf(hidden \cap Listed, d) \in Nat
         /\ shown[d] = IF doc.total[d] < RowsOf(hidden \cap Listed, d) THEN 0
                       ELSE doc.total[d] - RowsOf(hidden \cap Listed, d)
         /\ RateOf(Pids, d) \in Nat
         /\ 2 * RateOf(Pids, d) - Parts <= 2 * (Parts * doc.total[d])
         /\ 2 * (Parts * doc.total[d]) <= 2 * RateOf(Pids, d) + Parts
<1>1. shown[d] = Remainder(hidden, d)
  <2>1. shown["rx"] = Remainder(hidden, "rx") /\ shown["tx"] = Remainder(hidden, "tx")
    BY DEF RepInv, Displayed
  <2>2. d = "rx" \/ d = "tx"
    BY DEF Directions
  <2>3. QED
    BY <2>1, <2>2
<1>2. /\ RateOf(Pids, d) \in Nat /\ doc.total[d] = Rounded(RateOf(Pids, d))
      /\ doc.total[d] \in Nat /\ Remainder(hidden, d) \in Nat
      /\ RowsOf(hidden \cap Listed, d) \in Nat
  <2>1. hidden \cap Listed \in SUBSET Listed
    OBVIOUS
  <2>2. QED
    BY <2>1, RemainderIs
<1>3. \A x, y \in Nat : (IF x - y < 0 THEN 0 ELSE x - y) = IF x < y THEN 0 ELSE x - y
  OBVIOUS
<1>4. QED
  BY <1>1, <1>2, <1>3, RoundedIsNear DEF Remainder

-----------------------------------------------------------------------------
(* The theorems. *)

\* Every variable keeps its type.
THEOREM TypeCorrect == Spec => []TypeOK
<1>1. RepInv => TypeOK
  BY DEF RepInv
<1>2. QED
  BY <1>1, Invariant, PTL

\* The total shown is what the applications that are not hidden transfer, but for
\* half a byte for its own rounding and for each process hidden
\* (main.qml:163-184, JsonWriter.cpp:38-42).
THEOREM TotalsAreTheRest == Spec => []TotalIsTheRest
<1>1. ASSUME RepInv, step = "shown", NEW d \in Directions
      PROVE  LET off == 2 * (Parts * shown[d] - RateOf(Covered, d))
                 bound == Parts * (1 + Cardinality(HiddenMembers))
             IN  -bound <= off /\ off <= bound
  <2> DEFINE H == hidden \cap Listed
             n == Cardinality(HiddenMembers)
             t == RateOf(Pids, d)
             c == RateOf(Covered, d)
             h == RateOf(HiddenMembers, d)
             k == RowsOf(H, d)
             w == doc.total[d]
             s == shown[d]
  <2>1. HiddenMembers = Busy(H)
    BY DEF HiddenMembers, Busy
  <2>2. /\ n \in Nat /\ h \in Nat /\ k \in Nat
        /\ 2 * h - Parts * n <= 2 * (Parts * k) /\ 2 * (Parts * k) <= 2 * h + Parts * n
    <3>1. H \in SUBSET Listed
      OBVIOUS
    <3> HIDE DEF H
    <3>2. QED
      BY <1>1, <2>1, <3>1, RowsAreNear
  <2>3. t \in Nat /\ c \in Nat /\ t = h + c
    BY <1>1, CoveredIsTheRest
  <2>4. /\ s \in Nat /\ w \in Nat /\ s = IF w < k THEN 0 ELSE w - k
        /\ 2 * t - Parts <= 2 * (Parts * w) /\ 2 * (Parts * w) <= 2 * t + Parts
    BY <1>1, ShownIs
  <2>5. Parts \in Nat
    BY PartsAssumption
  <2> HIDE DEF H, n, t, c, h, k, w, s
  <2> DEFINE pn == Parts * n
             pk == Parts * k
             pw == Parts * w
             ps == Parts * s
  <2>6. pn \in Nat /\ pk \in Nat /\ pw \in Nat /\ ps \in Nat
    BY <2>2, <2>4, <2>5
  <2>7. Parts * (1 + n) = Parts + pn
    BY <2>2, <2>5, Z3
  <2>8. /\ w < k => ps = 0 /\ pw <= pk
        /\ ~(w < k) => ps = pw - pk
    <3>1. CASE w < k
      <4>1. s = 0
        BY <2>4, <3>1
      <4>2. ps = 0
        BY <2>5, <4>1
      <4>3. pw <= pk
        BY <2>2, <2>4, <2>5, <3>1, Z3
      <4>4. QED
        BY <3>1, <4>2, <4>3
    <3>2. CASE ~(w < k)
      <4>1. s = w - k
        BY <2>4, <3>2
      <4>2. ps = pw - pk
        BY <2>2, <2>4, <2>5, <4>1, Z3
      <4>3. QED
        BY <3>2, <4>2
    <3>3. QED
      BY <3>1, <3>2
  <2>9. /\ 2 * h - pn <= 2 * pk /\ 2 * pk <= 2 * h + pn
        /\ 2 * t - Parts <= 2 * pw /\ 2 * pw <= 2 * t + Parts
    BY <2>2, <2>4
  <2> HIDE DEF pn, pk, pw, ps
  <2>10. -(Parts + pn) <= 2 * (ps - c) /\ 2 * (ps - c) <= Parts + pn
    <3>1. CASE w < k
      <4>1. ps = 0 /\ pw <= pk
        BY <2>8, <3>1
      <4>2. QED
        BY <2>2, <2>3, <2>5, <2>6, <2>9, <4>1
    <3>2. CASE ~(w < k)
      <4>1. ps = pw - pk
        BY <2>8, <3>2
      <4>2. QED
        BY <2>2, <2>3, <2>5, <2>6, <2>9, <4>1
    <3>3. QED
      BY <3>1, <3>2
  <2>11. QED
    BY <2>7, <2>10 DEF ps, c, n, s
<1>2. RepInv => TotalIsTheRest
  BY <1>1 DEF TotalIsTheRest
<1>3. QED
  BY <1>2, Invariant, PTL

\* The rows under a total add up to no more than it, but for half a byte for each
\* process they list and half for the total (JsonWriter.cpp:38-42).
THEOREM RowsDoFitTheTotal == Spec => []RowsFitTheTotal
<1>1. ASSUME RepInv, step = "shown", NEW d \in Directions
      PROVE  2 * RowsOf(Listed \ hidden, d) <= 2 * shown[d] + 1 + Cardinality(Busy(Listed))
  <2> DEFINE H == hidden \cap Listed
             n == Cardinality(Busy(Listed))
             b == RateOf(Busy(Listed), d)
             t == RateOf(Pids, d)
             all == RowsOf(Listed, d)
             k == RowsOf(H, d)
             r == RowsOf(Listed \ hidden, d)
             w == doc.total[d]
             s == shown[d]
  <2>1. /\ Busy(Listed) \in SUBSET Pids /\ n \in Nat /\ b \in Nat /\ all \in Nat
        /\ 2 * (Parts * all) <= 2 * b + Parts * n
    <3>1. Listed \in SUBSET Listed
      OBVIOUS
    <3>2. QED
      BY <1>1, <3>1, RowsAreNear
  <2>2. b <= t
    <3>1. Pids \in SUBSET Pids /\ Busy(Listed) \in SUBSET Pids
      BY <2>1
    <3>2. /\ RateOf(Pids \ Busy(Listed), d) \in Nat /\ b \in Nat
          /\ t = b + RateOf(Pids \ Busy(Listed), d)
      BY <1>1, <3>1, RateOfPart DEF RepInv
    <3> HIDE DEF b, t
    <3>3. QED
      BY <3>2
  <2>3. /\ s \in Nat /\ w \in Nat /\ k \in Nat /\ s = IF w < k THEN 0 ELSE w - k
        /\ t \in Nat /\ 2 * (Parts * w) >= 2 * t - Parts
    BY <1>1, ShownIs
  <2>4. r \in Nat /\ all = k + r
    <3> DEFINE g == [a \in Listed |-> doc.rows[a][d]]
    <3>1. \A a \in Listed : doc.rows[a][d] \in Nat
      <4>1. \A a \in Listed : doc.rows[a][d] = Row(Members(a), d)
        BY <1>1 DEF RepInv, Documented
      <4>2. QED
        BY <1>1, <4>1, RowsAreNumbers DEF RepInv
    <3>2. NatOn(g, Listed) /\ IsFiniteSet(Listed) /\ H \in SUBSET Listed
      BY <1>1, <3>1, ListIsFinite DEF RepInv, NatOn
    <3>3. Listed \ H = Listed \ hidden
      OBVIOUS
    <3>4. all = SumOf(g, Listed) /\ k = SumOf(g, H) /\ r = SumOf(g, Listed \ H)
      BY <3>3 DEF RowsOf
    <3> HIDE DEF g, H, all, k, r
    <3>5. QED
      BY <3>2, <3>4, SumOfPart
  <2>5. Parts \in Nat \ {0}
    BY PartsAssumption
  <2> HIDE DEF H, n, b, t, all, k, r, w, s
  <2>6. 2 * all <= 2 * w + 1 + n
    <3> DEFINE x == 2 * all
               y == 2 * w + 1 + n
    <3>1. x \in Nat /\ y \in Nat
      BY <2>1, <2>3
    <3>2. Parts * x = 2 * (Parts * all) /\ Parts * y = 2 * (Parts * w) + Parts + Parts * n
      BY <2>1, <2>3, <2>5, Z3
    <3>3. Parts * all \in Nat /\ Parts * w \in Nat /\ Parts * n \in Nat
      BY <2>1, <2>3, <2>5
    <3>4. Parts * x <= Parts * y
      <4> DEFINE pa == Parts * all
                 pw == Parts * w
                 pn == Parts * n
      <4> HIDE DEF pa, pw, pn
      <4>1. /\ pa \in Nat /\ pw \in Nat /\ pn \in Nat
            /\ 2 * pa <= 2 * b + pn /\ 2 * pw >= 2 * t - Parts
        BY <2>1, <2>3, <3>3 DEF pa, pw, pn
      <4>2. 2 * pa <= 2 * pw + Parts + pn
        BY <2>1, <2>2, <2>3, <2>5, <4>1
      <4> HIDE DEF x, y
      <4>3. QED
        BY <3>2, <4>2 DEF pa, pw, pn
    <3> HIDE DEF x, y
    <3>5. x <= y
      BY <2>5, <3>1, <3>4, Z3
    <3>6. QED
      BY <3>5 DEF x, y
  <2>7. 2 * r <= 2 * s + 1 + n
    BY <2>1, <2>3, <2>4, <2>6
  <2>8. QED
    BY <2>7 DEF r, s, n
<1>2. RepInv => RowsFitTheTotal
  BY <1>1 DEF RowsFitTheTotal, Busy
<1>3. QED
  BY <1>2, Invariant, PTL

\* The tooltip names an active application as busy as any that is not hidden, and none
\* only if all that are active are hidden, or as many as the list is long
\* (main.qml:236, Aggregator.cpp:126-131).
THEOREM BusiestIsOnTop == Spec => []TopIsBusiest
<1>1. ASSUME RepInv, step = "shown" PROVE TopIsBusiest
  <2>1. shown.top = FirstActive(hidden)
    BY <1>1 DEF RepInv, Displayed
  <2>2. Len(listed) \in Nat /\ \A i \in 1..Len(listed) : listed[i] \in Apps /\ listed[i] \in Listed
    BY <1>1 DEF RepInv, Order, InOrder, Listed
  <2>3. \A a \in Groups \ Listed, b \in Listed : Total(Members(a)) <= Total(Members(b))
    BY <1>1 DEF RepInv, Order, InOrder, Listed
  <2>4. CASE Listed \subseteq hidden
    <3>1. shown.top = NoApp
      BY <1>1, <2>1, <2>4, FirstActiveIs DEF RepInv
    <3>2. Groups \subseteq Listed \/ Len(listed) = topCount
      BY <1>1 DEF RepInv, Filled, IsFull, Listed
    <3>3. CASE Groups \subseteq Listed
      BY <2>4, <3>1, <3>3 DEF TopIsBusiest
    <3>4. CASE Len(listed) = topCount
      <4>1. Cardinality(Listed) = topCount /\ topCount \in Nat
        BY <1>1, <3>4, TopAssumption DEF RepInv, TypeOK
      <4>2. Listed \subseteq hidden \cap Groups
        BY <1>1, <2>4 DEF RepInv, Order, InOrder, Listed
      <4>3. IsFiniteSet(hidden \cap Groups)
        BY <1>1, GroupsAreFinite, FS_Subset DEF RepInv
      <4>4. Cardinality(Listed) <= Cardinality(hidden \cap Groups)
        BY <4>2, <4>3, FS_Subset
      <4>5. Cardinality(hidden \cap Groups) \in Nat
        BY <4>3, FS_CardinalityType
      <4>6. Cardinality(hidden \cap Groups) >= topCount
        BY <4>1, <4>4, <4>5
      <4>7. QED
        BY <3>1, <4>6 DEF TopIsBusiest
    <3>5. QED
      BY <3>2, <3>3, <3>4
  <2>5. CASE ~(Listed \subseteq hidden)
    <3>1. PICK i \in 1..Len(listed) :
            /\ shown.top = listed[i] /\ listed[i] \notin hidden
            /\ \A j \in 1..i - 1 : listed[j] \in hidden
      BY <1>1, <2>1, <2>5, FirstActiveIs DEF RepInv
    <3>2. shown.top # NoApp
      BY <2>2, <3>1, TopAssumption
    <3>3. ASSUME NEW a \in Groups \ hidden PROVE Total(Members(a)) <= Total(Members(listed[i]))
      <4>1. CASE a \notin Listed
        BY <2>2, <2>3, <4>1
      <4>2. CASE a \in Listed
        <5>1. PICK j \in 1..Len(listed) : a = listed[j]
          BY <4>2 DEF Listed
        <5>2. ~(j \in 1..i - 1)
          BY <3>1, <3>3, <5>1
        <5>3. i <= j
          BY <2>2, <5>2
        <5>4. Total(Members(listed[i])) >= Total(Members(listed[j]))
          BY <1>1, <5>3 DEF RepInv, Order, InOrder
        <5>5. Total(Members(listed[i])) \in Nat /\ Total(Members(listed[j])) \in Nat
          BY <1>1, RatesAreNumbers, GroupsAreFinite DEF RepInv
        <5>6. \A x, y \in Nat : x >= y => y <= x
          OBVIOUS
        <5>7. QED
          BY <5>1, <5>4, <5>5, <5>6
      <4>3. QED
        BY <4>1, <4>2
    <3>4. listed[i] \in Groups \ hidden
      BY <1>1, <3>1 DEF RepInv, Order, InOrder
    <3>5. QED
      BY <3>1, <3>2, <3>3, <3>4 DEF TopIsBusiest
  <2>6. QED
    BY <2>4, <2>5
<1>2. RepInv => TopIsBusiest
  <2>1. step # "shown" => TopIsBusiest
    BY DEF TopIsBusiest
  <2>2. QED
    BY <1>1, <2>1
<1>3. QED
  BY <1>2, Invariant, PTL
=============================================================================

------------------------- MODULE FiniteSumTheorems --------------------------
(***************************************************************************)
(* What a sum over a finite set is: its type, its value on the empty set   *)
(* and on one element, additivity in the set and in the summand, and the   *)
(* sum that a first-come-first-served division of n units comes to.        *)
(***************************************************************************)
EXTENDS FiniteSums, FiniteSetTheorems, TLAPS

\* f is a family of natural numbers on S.
NatOn(S, f) == \A s \in S : f[s] \in Nat

\* The units are the pairs of an element and a number up to its share.
LEMMA UnitsMember ==
  ASSUME NEW S, NEW f, NatOn(S, f)
  PROVE  \A u : u \in Units(S, f) <=> \E s \in S : \E k \in Nat : 1 <= k /\ k <= f[s] /\ u = <<s, k>>
BY DEF Units, NatOn

LEMMA UnitsFinite ==
  ASSUME NEW S, IsFiniteSet(S), NEW f, NatOn(S, f)
  PROVE  IsFiniteSet(Units(S, f))
<1> DEFINE T == {{s} \X (1 .. f[s]) : s \in S}
           g == [s \in S |-> {s} \X (1 .. f[s])]
<1>1. g \in Surjection(S, T)
  BY DEF Surjection
<1>2. IsFiniteSet(T)
  BY <1>1, FS_Surjection
<1>3. ASSUME NEW s \in S PROVE IsFiniteSet({s} \X (1 .. f[s]))
  <2>1. f[s] \in Int
    BY DEF NatOn
  <2>2. IsFiniteSet(1 .. f[s])
    BY <2>1, FS_Interval
  <2> QED BY <2>2, FS_Singleton, FS_Product
<1>4. \A U \in T : IsFiniteSet(U)
  BY <1>3
<1> HIDE DEF T
<1>5. IsFiniteSet(UNION T)
  BY <1>2, <1>4, FS_UNION
<1> QED BY <1>5 DEF T, Units

\* A sum is a natural number.
LEMMA SumType ==
  ASSUME NEW S, IsFiniteSet(S), NEW f, NatOn(S, f)
  PROVE  SumOver(S, f) \in Nat
BY UnitsFinite, FS_CardinalityType DEF SumOver

LEMMA SumEmpty ==
  ASSUME NEW f
  PROVE  SumOver({}, f) = 0
<1>1. Units({}, f) = {}
  BY DEF Units
<1> QED BY <1>1, FS_EmptySet DEF SumOver

\* Equal summands, equal sums.
LEMMA SumSame ==
  ASSUME NEW S, NEW f, NEW g, \A s \in S : f[s] = g[s]
  PROVE  SumOver(S, f) = SumOver(S, g)
<1>1. Units(S, f) = Units(S, g)
  BY DEF Units
<1> QED BY <1>1 DEF SumOver

LEMMA SumSingle ==
  ASSUME NEW x, NEW f, f[x] \in Nat
  PROVE  SumOver({x}, f) = f[x]
<1> DEFINE g == [k \in 1 .. f[x] |-> <<x, k>>]
<1>1. g \in Bijection(1 .. f[x], {x} \X (1 .. f[x]))
  <2>1. g \in [1 .. f[x] -> {x} \X (1 .. f[x])]
    OBVIOUS
  <2>2. \A a, b \in 1 .. f[x] : g[a] = g[b] => a = b
    OBVIOUS
  <2>3. \A t \in {x} \X (1 .. f[x]) : \E a \in 1 .. f[x] : g[a] = t
    OBVIOUS
  <2> QED BY <2>1, <2>2, <2>3 DEF Bijection, Injection, Surjection, IsInjective
<1>2. IsFiniteSet(1 .. f[x]) /\ Cardinality(1 .. f[x]) = f[x]
  BY FS_Interval
<1>3. ExistsBijection(1 .. f[x], {x} \X (1 .. f[x]))
  BY <1>1 DEF ExistsBijection
<1>4. Cardinality({x} \X (1 .. f[x])) = f[x]
  BY <1>2, <1>3, FS_Bijection
<1>5. Units({x}, f) = {x} \X (1 .. f[x])
  BY DEF Units
<1> QED BY <1>4, <1>5 DEF SumOver

\* The sum over a disjoint union.
LEMMA SumDisjoint ==
  ASSUME NEW S, IsFiniteSet(S), NEW T, IsFiniteSet(T), S \cap T = {},
         NEW f, NatOn(S \cup T, f)
  PROVE  SumOver(S \cup T, f) = SumOver(S, f) + SumOver(T, f)
<1>1. IsFiniteSet(Units(S, f)) /\ IsFiniteSet(Units(T, f))
  BY UnitsFinite DEF NatOn
<1>2. Units(S \cup T, f) = Units(S, f) \cup Units(T, f)
  BY DEF Units
<1>3. Units(S, f) \cap Units(T, f) = {}
  BY DEF Units
<1>4. Cardinality(Units(S, f)) \in Nat /\ Cardinality(Units(T, f)) \in Nat
  BY <1>1, FS_CardinalityType
<1>5. Cardinality(Units(S, f) \cap Units(T, f)) = 0
  BY <1>3, FS_EmptySet
<1>6. Cardinality(Units(S, f) \cup Units(T, f))
        = Cardinality(Units(S, f)) + Cardinality(Units(T, f)) - Cardinality(Units(S, f) \cap Units(T, f))
  BY <1>1, FS_Union
<1>7. Cardinality(Units(S, f) \cup Units(T, f)) = Cardinality(Units(S, f)) + Cardinality(Units(T, f))
  BY <1>4, <1>5, <1>6
<1> QED BY <1>2, <1>7 DEF SumOver

\* One element taken out of a sum.
LEMMA SumRemove ==
  ASSUME NEW S, IsFiniteSet(S), NEW x \in S, NEW f, NatOn(S, f)
  PROVE  SumOver(S, f) = SumOver(S \ {x}, f) + f[x]
<1>1. (S \ {x}) \cup {x} = S /\ (S \ {x}) \cap {x} = {}
  OBVIOUS
<1>2. IsFiniteSet(S \ {x}) /\ IsFiniteSet({x})
  BY FS_RemoveElement, FS_Singleton
<1>3. SumOver(S, f) = SumOver(S \ {x}, f) + SumOver({x}, f)
  BY <1>1, <1>2, SumDisjoint
<1> QED BY <1>3, SumSingle DEF NatOn

\* Larger summands, a larger sum.
LEMMA SumMonotone ==
  ASSUME NEW S, IsFiniteSet(S), NEW f, NEW g, NatOn(S, f), NatOn(S, g),
         \A s \in S : f[s] <= g[s]
  PROVE  SumOver(S, f) <= SumOver(S, g)
<1>1. Units(S, f) \subseteq Units(S, g)
  BY UnitsMember DEF NatOn
<1> QED BY <1>1, UnitsFinite, FS_Subset DEF SumOver

\* The sum of a sum of two families.
LEMMA SumPlus ==
  ASSUME NEW S, IsFiniteSet(S), NEW f, NEW g, NEW h, NatOn(S, f), NatOn(S, g),
         \A s \in S : h[s] = f[s] + g[s]
  PROVE  SumOver(S, h) = SumOver(S, f) + SumOver(S, g)
<1> DEFINE moved == [u \in Units(S, g) |-> <<u[1], u[2] + f[u[1]]>>]
           V == Units(S, h) \ Units(S, f)
<1>1. NatOn(S, h)
  BY DEF NatOn
<1>2. Units(S, f) \subseteq Units(S, h)
  BY <1>1, UnitsMember DEF NatOn
<1>3. \A u : u \in V <=> \E s \in S : \E k \in Nat : f[s] < k /\ k <= f[s] + g[s] /\ u = <<s, k>>
  BY <1>1, UnitsMember DEF NatOn
<1>4. moved \in Bijection(Units(S, g), V)
  <2>1. \A u \in Units(S, g) : moved[u] \in V
    BY <1>3, UnitsMember DEF NatOn
  <2>2. \A a, b \in Units(S, g) : moved[a] = moved[b] => a = b
    BY UnitsMember DEF NatOn
  <2>3. ASSUME NEW v \in V PROVE \E a \in Units(S, g) : moved[a] = v
    <3>1. PICK s \in S, k \in Nat : f[s] < k /\ k <= f[s] + g[s] /\ v = <<s, k>>
      BY <1>3
    <3>2. <<s, k - f[s]>> \in Units(S, g)
      BY <3>1, UnitsMember DEF NatOn
    <3>3. moved[<<s, k - f[s]>>] = v
      BY <3>1, <3>2 DEF NatOn
    <3> QED BY <3>2, <3>3
  <2> QED BY <2>1, <2>2, <2>3 DEF Bijection, Injection, Surjection, IsInjective
<1>5. ExistsBijection(Units(S, g), V)
  BY <1>4 DEF ExistsBijection
<1>6. IsFiniteSet(Units(S, f)) /\ IsFiniteSet(Units(S, g))
  BY UnitsFinite
<1> HIDE DEF V, moved
<1>7. IsFiniteSet(V) /\ Cardinality(V) = Cardinality(Units(S, g))
  BY <1>5, <1>6, FS_Bijection
<1>8. Units(S, f) \cup V = Units(S, h) /\ Units(S, f) \cap V = {}
  BY <1>2 DEF V
<1>9. Cardinality(Units(S, f)) \in Nat /\ Cardinality(V) \in Nat
  BY <1>6, <1>7, FS_CardinalityType
<1>10. Cardinality(Units(S, f) \cup V)
         = Cardinality(Units(S, f)) + Cardinality(V) - Cardinality(Units(S, f) \cap V)
  BY <1>6, <1>7, FS_Union
<1>11. Cardinality(Units(S, f) \cap V) = 0
  BY <1>8, FS_EmptySet
<1>12. Cardinality(Units(S, f) \cup V) = Cardinality(Units(S, f)) + Cardinality(V)
  BY <1>9, <1>10, <1>11
<1> QED BY <1>7, <1>8, <1>12 DEF SumOver

\* A sum over a subset is the sum over the whole set of the family cut off
\* outside the subset.
LEMMA SumMask ==
  ASSUME NEW S, IsFiniteSet(S), NEW T \in SUBSET S, NEW f, NEW g, NatOn(T, f),
         \A s \in T : g[s] = f[s], \A s \in S \ T : g[s] = 0
  PROVE  SumOver(T, f) = SumOver(S, g)
<1>1. Units(T, f) = Units(S, g)
  <2>1. NatOn(S, g)
    BY DEF NatOn
  <2> QED BY <2>1, UnitsMember DEF NatOn
<1> QED BY <1>1 DEF SumOver

\* A sum of zeroes.
LEMMA SumZero ==
  ASSUME NEW S, NEW f, \A s \in S : f[s] = 0
  PROVE  SumOver(S, f) = 0
<1>1. Units(S, f) = {}
  BY DEF Units
<1> QED BY <1>1, FS_EmptySet DEF SumOver

-----------------------------------------------------------------------------
(* Finite linear orders. *)

LEMMA NatLeast ==
  ASSUME NEW T \in SUBSET Nat, T # {}
  PROVE  \E x \in T : \A y \in T : x <= y
<1>1. \E x \in T : \A y \in T : ~ (<<y, x>> \in OpToRel(<, Nat))
  BY NatLessThanWellFounded, WFMin
<1>2. \A x, y \in Nat : <<y, x>> \in OpToRel(<, Nat) <=> y < x
  BY DEF OpToRel
<1>3. PICK x \in T : \A y \in T : ~ (<<y, x>> \in OpToRel(<, Nat))
  BY <1>1
<1>4. \A y \in T : x \in Nat /\ y \in Nat /\ ~ (y < x)
  BY <1>2, <1>3
<1> QED BY <1>4

\* R is a strict linear order of S.
LinearOn(R, S) ==
  /\ \A x \in S : <<x, x>> \notin R
  /\ \A x, y, z \in S : <<x, y>> \in R /\ <<y, z>> \in R => <<x, z>> \in R
  /\ \A x, y \in S : x = y \/ <<x, y>> \in R \/ <<y, x>> \in R

Below(R, S, x) == {u \in S : <<u, x>> \in R}
Above(R, S, x) == {u \in S : <<x, u>> \in R}

\* What is below x, x and what is above x are all there is.
LEMMA LinearSplit ==
  ASSUME NEW S, NEW R, LinearOn(R, S), NEW x \in S
  PROVE  /\ S = (Below(R, S, x) \cup {x}) \cup Above(R, S, x)
         /\ (Below(R, S, x) \cup {x}) \cap Above(R, S, x) = {}
         /\ Below(R, S, x) \cap {x} = {}
<1>1. \A s \in S : s \in Below(R, S, x) \/ s = x \/ s \in Above(R, S, x)
  BY DEF LinearOn, Below, Above
<1>2. \A s \in S : ~(s \in Below(R, S, x) /\ s \in Above(R, S, x))
  BY DEF LinearOn, Below, Above
<1>3. x \notin Below(R, S, x) /\ x \notin Above(R, S, x)
  BY DEF LinearOn, Below, Above
<1>4. Below(R, S, x) \subseteq S /\ Above(R, S, x) \subseteq S
  BY DEF Below, Above
<1> QED BY <1>1, <1>2, <1>3, <1>4

\* What is below the next element.
LEMMA BelowNext ==
  ASSUME NEW S, NEW R, LinearOn(R, S), NEW x \in S, NEW y \in Above(R, S, x),
         \A z \in Above(R, S, x) : z = y \/ <<y, z>> \in R
  PROVE  Below(R, S, y) = Below(R, S, x) \cup {x}
<1>1. \A s \in S : <<s, y>> \in R <=> <<s, x>> \in R \/ s = x
  BY DEF LinearOn, Above
<1> QED BY <1>1 DEF Below

\* A finite linear order has a least element ...
LEMMA LinearLeast ==
  ASSUME NEW S, IsFiniteSet(S), NEW R, LinearOn(R, S), NEW T \in SUBSET S, T # {}
  PROVE  \E x \in T : \A y \in T : y = x \/ <<x, y>> \in R
<1> DEFINE rank(x) == Cardinality(Below(R, S, x))
           N == {rank(x) : x \in T}
<1>1. ASSUME NEW x \in S PROVE IsFiniteSet(Below(R, S, x)) /\ rank(x) \in Nat
  <2>1. Below(R, S, x) \in SUBSET S
    BY DEF Below
  <2> QED BY <2>1, FS_Subset, FS_CardinalityType
<1>2. N \in SUBSET Nat /\ N # {}
  BY <1>1
<1>3. PICK m \in N : \A k \in N : m <= k
  BY <1>2, NatLeast
<1>4. PICK x \in T : m = rank(x)
  BY <1>3
<1>5. ASSUME NEW y \in T, y # x, <<y, x>> \in R PROVE FALSE
  <2>1. Below(R, S, y) \subseteq Below(R, S, x)
    BY <1>5 DEF Below, LinearOn
  <2>2. y \in Below(R, S, x) /\ y \notin Below(R, S, y)
    BY <1>5 DEF Below, LinearOn
  <2>3. rank(y) <= rank(x) /\ rank(y) # rank(x)
    BY <1>1, <2>1, <2>2, FS_Subset
  <2>4. rank(x) <= rank(y)
    BY <1>3, <1>4
  <2>5. rank(x) \in Nat /\ rank(y) \in Nat
    BY <1>1
  <2> HIDE DEF rank
  <2> QED BY <2>3, <2>4, <2>5
<1> QED BY <1>5 DEF LinearOn

\* ... and a greatest one.
LEMMA LinearGreatest ==
  ASSUME NEW S, IsFiniteSet(S), NEW R, LinearOn(R, S), NEW T \in SUBSET S, T # {}
  PROVE  \E x \in T : \A y \in T : y = x \/ <<y, x>> \in R
<1> DEFINE Q == {p \in S \X S : <<p[2], p[1]>> \in R}
<1>1. \A x, y \in S : <<x, y>> \in Q <=> <<y, x>> \in R
  OBVIOUS
<1> HIDE DEF Q
<1>2. LinearOn(Q, S)
  BY <1>1 DEF LinearOn
<1>3. \E x \in T : \A y \in T : y = x \/ <<x, y>> \in Q
  BY <1>2, LinearLeast
<1> QED BY <1>1, <1>3

\* First come, first served: when each element in the order R gets what is
\* left of n units, up to what it has room for, and there is room for n, then
\* exactly n units are given out.
THEOREM GreedySum ==
  ASSUME NEW S, IsFiniteSet(S), NEW R, LinearOn(R, S),
         NEW room, NatOn(S, room), NEW n \in Nat, n <= SumOver(S, room),
         NEW a, \A s \in S : LET left == n - SumOver(Below(R, S, s), room)
                             IN a[s] = IF left <= 0 THEN 0 ELSE IF left <= room[s] THEN left ELSE room[s]
  PROVE  SumOver(S, a) = n
<1> DEFINE before(s) == SumOver(Below(R, S, s), room)
<1>1. ASSUME NEW s \in S PROVE IsFiniteSet(Below(R, S, s)) /\ before(s) \in Nat /\ NatOn(Below(R, S, s), room)
  <2>1. Below(R, S, s) \in SUBSET S
    BY DEF Below
  <2>2. NatOn(Below(R, S, s), room)
    BY <2>1 DEF NatOn
  <2> QED BY <2>1, <2>2, FS_Subset, SumType
<1>2. ASSUME NEW s \in S
      PROVE  a[s] = IF n - before(s) <= 0 THEN 0 ELSE IF n - before(s) <= room[s] THEN n - before(s) ELSE room[s]
  OBVIOUS
\* Everything before t has room before t.
<1>3. ASSUME NEW s \in S, NEW t \in S, <<s, t>> \in R PROVE before(s) + room[s] <= before(t)
  <2> DEFINE D == Below(R, S, s) \cup {s}
             E == Below(R, S, t) \ D
  <2>1. D \cup E = Below(R, S, t) /\ D \cap E = {}
    BY <1>3 DEF Below, LinearOn
  <2>2. Below(R, S, s) \cap {s} = {}
    BY DEF Below, LinearOn
  <2>3. NatOn(D, room) /\ NatOn(E, room) /\ NatOn({s}, room) /\ NatOn(D \cup E, room)
    BY DEF NatOn, Below
  <2>4. IsFiniteSet(D) /\ IsFiniteSet(E) /\ IsFiniteSet({s})
    BY <1>1, FS_Singleton, FS_Union, FS_Difference
  <2>5. SumOver(D, room) = before(s) + SumOver({s}, room)
    BY <1>1, <2>2, <2>3, <2>4, SumDisjoint
  <2>6. SumOver({s}, room) = room[s]
    BY SumSingle DEF NatOn
  <2> HIDE DEF D, E
  <2>7. SumOver(D \cup E, room) = SumOver(D, room) + SumOver(E, room)
    BY <2>1, <2>3, <2>4, SumDisjoint
  <2>8. before(t) = SumOver(D, room) + SumOver(E, room)
    BY <2>1, <2>7
  <2>9. SumOver(E, room) \in Nat
    BY <2>3, <2>4, SumType
  <2>10. before(s) \in Nat /\ before(t) \in Nat /\ room[s] \in Nat
    BY <1>1 DEF NatOn
  <2> HIDE DEF before
  <2> QED BY <2>5, <2>6, <2>8, <2>9, <2>10
<1>4. CASE n = 0
  <2>1. \A s \in S : a[s] = 0
    BY <1>1, <1>2, <1>4
  <2> QED BY <1>4, <2>1, SumZero
<1>5. CASE n > 0
  <2> DEFINE T == {s \in S : before(s) < n}
  <2>1. S # {}
    BY <1>5, SumEmpty
  <2>2. T # {}
    <3>1. PICK x \in S : \A y \in S : y = x \/ <<x, y>> \in R
      BY <2>1, LinearLeast
    <3>2. Below(R, S, x) = {}
      BY <3>1 DEF Below, LinearOn
    <3>3. before(x) = 0
      BY <3>2, SumEmpty
    <3> QED BY <1>5, <3>3
  <2>3. PICK x \in T : \A y \in T : y = x \/ <<y, x>> \in R
    <3>1. T \in SUBSET S
      OBVIOUS
    <3> HIDE DEF T
    <3> QED BY <2>2, <3>1, LinearGreatest
  <2> DEFINE A == Above(R, S, x)
             B == Below(R, S, x)
  <2>4. x \in S /\ before(x) < n
    OBVIOUS
  <2>5. \A s \in A : before(s) >= n
    <3>1. ASSUME NEW s \in A, before(s) < n PROVE FALSE
      <4>1. s \in T /\ s \in S /\ <<x, s>> \in R
        BY <3>1 DEF Above
      <4> QED BY <2>3, <4>1 DEF LinearOn
    <3> QED BY <1>1, <3>1 DEF Above
  <2>6. n <= before(x) + room[x]
    <3>1. CASE A = {}
      <4>1. S = B \cup {x} /\ B \cap {x} = {}
        BY <3>1, <2>4, LinearSplit
      <4>2. IsFiniteSet(B) /\ IsFiniteSet({x})
        BY <1>1, FS_Singleton
      <4> HIDE DEF B
      <4>3. SumOver(B \cup {x}, room) = SumOver(B, room) + SumOver({x}, room)
        BY <4>1, <4>2, SumDisjoint
      <4>4. SumOver({x}, room) = room[x]
        BY <2>4, SumSingle DEF NatOn
      <4> QED BY <4>1, <4>3, <4>4 DEF B
    <3>2. CASE A # {}
      <4>1. PICK y \in A : \A z \in A : z = y \/ <<y, z>> \in R
        <5>1. A \in SUBSET S
          BY DEF Above
        <5> QED BY <3>2, <5>1, LinearLeast
      <4>2. Below(R, S, y) = B \cup {x} /\ B \cap {x} = {}
        BY <2>4, <4>1, BelowNext, LinearSplit
      <4>3. IsFiniteSet(B) /\ IsFiniteSet({x})
        BY <1>1, FS_Singleton
      <4>4. NatOn(B \cup {x}, room)
        BY <2>4 DEF NatOn, Below
      <4>5. SumOver({x}, room) = room[x]
        BY <2>4, SumSingle DEF NatOn
      <4>6. before(y) >= n
        BY <2>5
      <4> HIDE DEF B
      <4>7. SumOver(B \cup {x}, room) = SumOver(B, room) + SumOver({x}, room)
        BY <4>2, <4>3, <4>4, SumDisjoint
      <4> QED BY <4>2, <4>5, <4>6, <4>7 DEF B
    <3> QED BY <3>1, <3>2
  <2>7. a[x] = n - before(x)
    <3>1. before(x) \in Nat /\ room[x] \in Nat
      BY <1>1, <2>4 DEF NatOn
    <3> QED BY <1>2, <2>4, <2>6, <3>1
  <2>8. \A s \in A : a[s] = 0
    BY <1>1, <1>2, <2>5 DEF Above
  <2>9. \A s \in B : a[s] = room[s]
    <3>1. ASSUME NEW s \in B PROVE a[s] = room[s]
      <4>1. s \in S /\ <<s, x>> \in R
        BY DEF Below
      <4>2. before(s) + room[s] <= before(x)
        BY <1>3, <2>4, <4>1
      <4>3. before(x) \in Nat /\ before(s) \in Nat /\ room[s] \in Nat
        BY <1>1, <2>4, <4>1 DEF NatOn
      <4> QED BY <1>2, <2>4, <4>1, <4>2, <4>3
    <3> QED BY <3>1
  <2>10. S = (B \cup {x}) \cup A /\ (B \cup {x}) \cap A = {} /\ B \cap {x} = {}
    BY <2>4, LinearSplit
  <2>11. IsFiniteSet(A) /\ IsFiniteSet(B) /\ IsFiniteSet({x}) /\ IsFiniteSet(B \cup {x})
    <3>1. A \in SUBSET S
      BY DEF Above
    <3> QED BY <1>1, <2>4, <3>1, FS_Subset, FS_Singleton, FS_Union
  <2>12. before(x) \in Nat
    BY <1>1, <2>4
  <2>13. NatOn(S, a)
    <3>1. \A s \in S : before(s) \in Nat /\ room[s] \in Nat
      BY <1>1 DEF NatOn
    <3> HIDE DEF before
    <3> QED BY <1>2, <3>1 DEF NatOn
  <2>14. NatOn(B \cup {x}, a) /\ NatOn((B \cup {x}) \cup A, a)
    BY <2>10, <2>13 DEF NatOn
  <2>15. SumOver(B, a) = before(x)
    BY <2>9, SumSame
  <2>16. SumOver({x}, a) = n - before(x)
    <3>1. n - before(x) \in Nat
      BY <2>4, <2>12
    <3> HIDE DEF before
    <3>2. a[x] \in Nat
      BY <2>7, <3>1
    <3> QED BY <2>7, <3>2, SumSingle
  <2>17. SumOver(A, a) = 0
    BY <2>8, SumZero
  <2> HIDE DEF A, B, before
  <2>18. SumOver(B \cup {x}, a) = SumOver(B, a) + SumOver({x}, a)
    BY <2>10, <2>11, <2>14, SumDisjoint
  <2>19. SumOver((B \cup {x}) \cup A, a) = SumOver(B \cup {x}, a) + SumOver(A, a)
    BY <2>10, <2>11, <2>14, SumDisjoint
  <2>20. SumOver((B \cup {x}) \cup A, a) = n
    BY <2>12, <2>15, <2>16, <2>17, <2>18, <2>19
  <2> QED BY <2>10, <2>20
<1> QED BY <1>4, <1>5
=============================================================================

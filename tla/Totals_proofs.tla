---------------------------- MODULE Totals_proofs ----------------------------
(***************************************************************************)
(* Facts about Total that the proofs about the contract's and the          *)
(* database's running totals cite, and about the least element of a set.   *)
(***************************************************************************)
EXTENDS Totals, FiniteSetTheorems, WellFoundedInduction, TLAPS

\* A column of n units is a finite set of n elements.
LEMMA ColumnCardinality ==
  ASSUME NEW x, NEW n \in Nat
  PROVE  /\ IsFiniteSet({x} \X (1 .. n))
         /\ Cardinality({x} \X (1 .. n)) = n
<1>. DEFINE One == {x}
            Col == 1 .. n
<1>1. IsFiniteSet(One) /\ Cardinality(One) = 1
  BY FS_Singleton
<1>2. IsFiniteSet(Col) /\ Cardinality(Col) = n
  BY FS_Interval
<1>3. /\ IsFiniteSet(One \X Col)
      /\ Cardinality(One \X Col) = Cardinality(One) * Cardinality(Col)
  <2>. HIDE DEF One, Col
  <2>. QED  BY <1>1, <1>2, FS_Product
<1>4. Cardinality(One) * Cardinality(Col) = n
  <2>. HIDE DEF One, Col
  <2>. QED  BY <1>1, <1>2
<1>. QED
  BY <1>3, <1>4

\* A function with natural values on a finite domain has finitely many units.
LEMMA UnitsFinite ==
  ASSUME NEW S, IsFiniteSet(S), NEW f \in [S -> Nat]
  PROVE  IsFiniteSet(Units(f))
<1>. DEFINE col == [x \in S |-> {x} \X (1 .. f[x])]
            Cols == {{x} \X (1 .. f[x]) : x \in S}
<1>1. col \in Surjection(S, Cols)
  BY Zenon DEF Surjection
<1>2. IsFiniteSet(Cols)
  <2>. HIDE DEF col, Cols
  <2>. QED  BY <1>1, FS_Surjection
<1>3. ASSUME NEW T \in Cols
      PROVE  IsFiniteSet(T)
  <2>1. PICK x \in S : T = {x} \X (1 .. f[x])
    OBVIOUS
  <2>2. f[x] \in Nat
    OBVIOUS
  <2>. QED
    BY <2>1, <2>2, ColumnCardinality
<1>4. IsFiniteSet(UNION Cols)
  <2>. HIDE DEF Cols
  <2>. QED  BY <1>2, <1>3, FS_UNION
<1>. QED
  BY <1>4 DEF Units

\* A total is a natural number.
LEMMA TotalType ==
  ASSUME NEW S, IsFiniteSet(S), NEW f \in [S -> Nat]
  PROVE  Total(f) \in Nat
BY UnitsFinite, FS_CardinalityType DEF Total

\* The total of a function that is zero everywhere is zero.
LEMMA TotalZero ==
  ASSUME NEW S
  PROVE  Total([x \in S |-> 0]) = 0
<1>1. Units([x \in S |-> 0]) = {}
  BY DEF Units
<1>. QED
  BY <1>1, FS_EmptySet DEF Total

\* Changing f at x from f[x] to v changes the total by v - f[x].
LEMMA TotalUpdate ==
  ASSUME NEW S, IsFiniteSet(S), NEW f \in [S -> Nat],
         NEW x \in S, NEW v \in Nat
  PROVE  /\ f[x] <= Total(f)
         /\ Total([f EXCEPT ![x] = v]) = (Total(f) - f[x]) + v
<1>. DEFINE g    == [f EXCEPT ![x] = v]
            Old  == {x} \X (1 .. f[x])
            New  == {x} \X (1 .. v)
            Rest == Units(f) \ Old
<1>1. g \in [S -> Nat] /\ DOMAIN f = S /\ DOMAIN g = S
  OBVIOUS
<1>2. Old \subseteq Units(f)
  BY DEF Units
<1>3. Units(g) = Rest \cup New
  <2>1. ASSUME NEW u \in Units(g)
        PROVE  u \in Rest \cup New
    <3>1. PICK y \in S : u \in {y} \X (1 .. g[y])
      BY <1>1 DEF Units
    <3>2. CASE y = x
      BY <3>1, <3>2
    <3>3. CASE y # x
      <4>1. g[y] = f[y]
        BY <3>3
      <4>2. u \in Units(f)
        BY <3>1, <4>1 DEF Units
      <4>3. u \notin Old
        BY <3>1, <3>3
      <4>. QED
        BY <4>2, <4>3
    <3>. QED
      BY <3>2, <3>3
  <2>2. New \subseteq Units(g)
    BY DEF Units
  <2>3. ASSUME NEW u \in Rest
        PROVE  u \in Units(g)
    <3>1. PICK y \in S : u \in {y} \X (1 .. f[y])
      BY DEF Units
    <3>2. y # x
      BY <3>1
    <3>3. g[y] = f[y]
      BY <3>2
    <3>. QED
      BY <3>1, <3>3, <1>1 DEF Units
  <2>. QED
    BY <2>1, <2>2, <2>3
<1>4. Rest \cap New = {}
  <2>1. ASSUME NEW u \in Rest, u \in New
        PROVE  FALSE
    <3>1. PICK y \in S : u \in {y} \X (1 .. f[y])
      BY DEF Units
    <3>2. y = x
      BY <2>1, <3>1
    <3>. QED
      BY <3>1, <3>2
  <2>. QED
    BY <2>1
<1>5. IsFiniteSet(Units(f)) /\ Cardinality(Units(f)) \in Nat
  BY UnitsFinite, FS_CardinalityType
<1>6. /\ f[x] \in Nat
      /\ IsFiniteSet(Old) /\ Cardinality(Old) = f[x]
      /\ IsFiniteSet(New) /\ Cardinality(New) = v
  BY ColumnCardinality
<1>7. Cardinality(Old) <= Cardinality(Units(f))
  BY <1>2, <1>5, FS_Subset
<1>8. /\ IsFiniteSet(Rest)
      /\ Cardinality(Rest) = Cardinality(Units(f)) - f[x]
  <2>1. Units(f) \cap Old = Old
    BY <1>2
  <2>2. /\ IsFiniteSet(Rest)
        /\ Cardinality(Rest) = Cardinality(Units(f)) - Cardinality(Units(f) \cap Old)
    BY <1>5, FS_Difference
  <2>. QED
    BY <2>1, <2>2, <1>6
<1>9. Cardinality(Units(g)) = Cardinality(Rest) + v
  <2>1. Cardinality(Rest \cup New)
          = Cardinality(Rest) + Cardinality(New) - Cardinality(Rest \cap New)
    <3>. HIDE DEF Rest, New
    <3>. QED  BY <1>6, <1>8, FS_Union
  <2>2. Cardinality(Rest \cap New) = 0
    BY <1>4, FS_EmptySet
  <2>3. Cardinality(Rest) \in Nat
    <3>. HIDE DEF Rest
    <3>. QED  BY <1>8, FS_CardinalityType
  <2>4. Units(g) = Rest \cup New /\ Cardinality(New) = v
    BY <1>3, <1>6
  <2>. HIDE DEF Rest, New, g
  <2>. QED
    BY <2>1, <2>2, <2>3, <2>4
<1>. QED
  BY <1>5, <1>6, <1>7, <1>8, <1>9 DEF Total

\* A function that is smaller everywhere has the smaller total.
LEMMA TotalMonotone ==
  ASSUME NEW S, IsFiniteSet(S), NEW f \in [S -> Nat], NEW g \in [S -> Nat],
         \A x \in S : f[x] <= g[x]
  PROVE  Total(f) <= Total(g)
<1>1. Units(f) \subseteq Units(g)
  <2>1. ASSUME NEW u \in Units(f)
        PROVE  u \in Units(g)
    <3>1. PICK x \in S : u \in {x} \X (1 .. f[x])
      BY DEF Units
    <3>2. f[x] \in Nat /\ g[x] \in Nat /\ f[x] <= g[x]
      OBVIOUS
    <3>3. u \in {x} \X (1 .. g[x])
      BY <3>1, <3>2
    <3>. QED
      BY <3>3 DEF Units
  <2>. QED
    BY <2>1
<1>2. IsFiniteSet(Units(g))
  <2>1. g \in [S -> Nat] /\ IsFiniteSet(S)
    OBVIOUS
  <2>. QED
    BY ONLY <2>1, UnitsFinite
<1>3. Cardinality(Units(f)) <= Cardinality(Units(g))
  BY ONLY <1>1, <1>2, FS_Subset
<1>. QED
  BY <1>3 DEF Total

\* The total of a sum of two functions is the sum of their totals.
LEMMA TotalSum ==
  ASSUME NEW S, IsFiniteSet(S), NEW f \in [S -> Nat], NEW g \in [S -> Nat]
  PROVE  Total([x \in S |-> f[x] + g[x]]) = Total(f) + Total(g)
<1>. DEFINE h     == [x \in S |-> f[x] + g[x]]
            Above == Units(h) \ Units(f)
            up    == [u \in Units(g) |-> <<u[1], f[u[1]] + u[2]>>]
<1>1. \A u : u \in Units(f) <=> \E x \in S : \E k \in 1 .. f[x] : u = <<x, k>>
  BY DEF Units
<1>2. \A u : u \in Units(g) <=> \E x \in S : \E k \in 1 .. g[x] : u = <<x, k>>
  BY DEF Units
<1>3. \A u : u \in Units(h) <=> \E x \in S : \E k \in 1 .. (f[x] + g[x]) : u = <<x, k>>
  BY DEF Units
<1>4. Units(f) \subseteq Units(h)
  BY <1>1, <1>3
<1>5. ASSUME NEW u \in Units(g)
      PROVE  up[u] \in Above
  <2>1. PICK x \in S : \E k \in 1 .. g[x] : u = <<x, k>>
    BY <1>2
  <2>2. PICK k \in 1 .. g[x] : u = <<x, k>>
    BY <2>1
  <2>3. up[u] = <<x, f[x] + k>> /\ f[x] + k \in 1 .. (f[x] + g[x])
    BY <2>2
  <2>4. f[x] + k \notin 1 .. f[x]
    OBVIOUS
  <2>. HIDE DEF up, h
  <2>. QED
    BY <1>1, <1>3, <2>3, <2>4
<1>6. ASSUME NEW t \in Above
      PROVE  \E u \in Units(g) : up[u] = t
  <2>1. PICK x \in S : \E k \in 1 .. (f[x] + g[x]) : t = <<x, k>>
    <3>. HIDE DEF h
    <3>. QED  BY <1>3
  <2>2. PICK k \in 1 .. (f[x] + g[x]) : t = <<x, k>>
    BY <2>1
  <2>3. k \notin 1 .. f[x]
    BY <1>1, <2>2
  <2>4. (k - f[x]) \in 1 .. g[x]
    BY <2>3
  <2>5. <<x, k - f[x]>> \in Units(g)
    BY <1>2, <2>4
  <2>6. up[<<x, k - f[x]>>] = <<x, f[x] + (k - f[x])>>
    BY <2>5
  <2>7. f[x] + (k - f[x]) = k
    OBVIOUS
  <2>. QED
    BY <2>2, <2>5, <2>6, <2>7
<1>7. ASSUME NEW u \in Units(g), NEW v \in Units(g), up[u] = up[v]
      PROVE  u = v
  <2>1. PICK x \in S : \E k \in 1 .. g[x] : u = <<x, k>>
    BY <1>2
  <2>2. PICK k \in 1 .. g[x] : u = <<x, k>>
    BY <2>1
  <2>3. PICK y \in S : \E l \in 1 .. g[y] : v = <<y, l>>
    BY <1>2
  <2>4. PICK l \in 1 .. g[y] : v = <<y, l>>
    BY <2>3
  <2>5. x = y /\ f[x] + k = f[y] + l
    BY <1>7, <2>2, <2>4
  <2>. QED
    BY <2>2, <2>4, <2>5
<1>8. up \in Bijection(Units(g), Above)
  <2>1. up \in [Units(g) -> Above]
    BY <1>5
  <2>2. \A t \in Above : \E u \in Units(g) : up[u] = t
    BY <1>6
  <2>3. \A u, v \in Units(g) : up[u] = up[v] => u = v
    BY <1>7
  <2>. HIDE DEF up, Above
  <2>4. up \in Surjection(Units(g), Above)
    BY <2>1, <2>2, Zenon DEF Surjection
  <2>5. up \in Injection(Units(g), Above)
    BY <2>1, <2>3, Zenon DEF Injection, IsInjective
  <2>. QED
    BY <2>4, <2>5 DEF Bijection
<1>9. /\ IsFiniteSet(Units(f)) /\ IsFiniteSet(Units(g))
      /\ Cardinality(Units(f)) \in Nat /\ Cardinality(Units(g)) \in Nat
  BY UnitsFinite, FS_CardinalityType
<1>10. IsFiniteSet(Above) /\ Cardinality(Above) = Cardinality(Units(g))
  <2>. HIDE DEF up, Above
  <2>. QED  BY <1>8, <1>9, FS_Bijection DEF ExistsBijection
<1>11. Units(h) = Units(f) \cup Above /\ Units(f) \cap Above = {}
  BY <1>4
<1>12. Cardinality(Units(h)) = Cardinality(Units(f)) + Cardinality(Units(g))
  <2>. HIDE DEF Above, h, up
  <2>1. Cardinality(Units(f) \cup Above)
          = Cardinality(Units(f)) + Cardinality(Above) - Cardinality({})
    BY ONLY <1>9, <1>10, <1>11, FS_Union
  <2>2. Cardinality({}) = 0
    BY FS_EmptySet
  <2>. QED
    BY <1>9, <1>10, <1>11, <2>1, <2>2
<1>. QED
  BY <1>12 DEF Total

\* Adding an element to a set adds its value to the sum over the set.
LEMMA TotalAdd ==
  ASSUME NEW D, NEW g \in [D -> Nat], NEW S \in SUBSET D, IsFiniteSet(S),
         NEW x \in D, x \notin S
  PROVE  Total([y \in S \cup {x} |-> g[y]]) = Total([y \in S |-> g[y]]) + g[x]
<1>. DEFINE f   == [y \in S |-> g[y]]
            Col == {x} \X (1 .. g[x])
<1>1. Units([y \in S \cup {x} |-> g[y]]) = Units(f) \cup Col
  BY DEF Units
<1>2. Units(f) \cap Col = {}
  BY DEF Units
<1>3. IsFiniteSet(Units(f)) /\ Cardinality(Units(f)) \in Nat
  BY UnitsFinite, FS_CardinalityType
<1>4. IsFiniteSet(Col) /\ Cardinality(Col) = g[x] /\ g[x] \in Nat
  BY ColumnCardinality
<1>5. Cardinality(Units(f) \cup Col) = Cardinality(Units(f)) + g[x]
  <2>. HIDE DEF f, Col
  <2>. QED  BY <1>2, <1>3, <1>4, FS_Union, FS_EmptySet
<1>. QED
  BY <1>1, <1>5 DEF Total

\* A sum over a subset is not greater.
LEMMA TotalSubset ==
  ASSUME NEW D, NEW g \in [D -> Nat], NEW S \in SUBSET D, IsFiniteSet(S),
         NEW T \in SUBSET S
  PROVE  /\ Total([y \in T |-> g[y]]) <= Total([y \in S |-> g[y]])
         /\ Total([y \in T |-> g[y]]) \in Nat
         /\ Total([y \in S |-> g[y]]) \in Nat
<1>. DEFINE f == [y \in S |-> g[y]]
            h == [y \in T |-> g[y]]
<1>1. Units(h) \subseteq Units(f)
  BY DEF Units
<1>2. IsFiniteSet(T)
  BY FS_Subset
<1>3. IsFiniteSet(Units(f)) /\ IsFiniteSet(Units(h))
  BY <1>2, UnitsFinite
<1>. HIDE DEF f, h
<1>4. Cardinality(Units(h)) <= Cardinality(Units(f))
  BY <1>1, <1>3, FS_Subset
<1>5. Cardinality(Units(h)) \in Nat /\ Cardinality(Units(f)) \in Nat
  BY <1>3, FS_CardinalityType
<1>. QED
  BY <1>4, <1>5 DEF Total, f, h

-----------------------------------------------------------------------------
(* Least elements. *)

\* A set of numbers has a least one.
LEMMA LeastNumber ==
  ASSUME NEW T \in SUBSET Nat, T # {}
  PROVE  \E x \in T : \A y \in T : x <= y
<1>1. PICK x \in T : \A y \in T : <<y, x>> \notin OpToRel(<, Nat)
  BY WFMin, NatLessThanWellFounded, Zenon
<1>2. \A y \in T : ~(y < x)
  BY <1>1, Zenon DEF OpToRel
<1>. QED
  BY <1>2

\* A strict order on a finite set has a minimal element: one with the fewest
\* elements before it.
LEMMA MinimalElement ==
  ASSUME NEW S, IsFiniteSet(S), S # {}, NEW R,
         \A x \in S : <<x, x>> \notin R,
         \A x, y, z \in S : <<x, y>> \in R /\ <<y, z>> \in R => <<x, z>> \in R
  PROVE  \E x \in S : \A y \in S : <<y, x>> \notin R
<1>. DEFINE before(x) == {y \in S : <<y, x>> \in R}
            counts == {Cardinality(before(x)) : x \in S}
<1>1. ASSUME NEW x \in S
      PROVE  IsFiniteSet(before(x)) /\ Cardinality(before(x)) \in Nat
  BY FS_Subset, FS_CardinalityType
<1>2. counts \in SUBSET Nat /\ counts # {}
  <2>1. \A x \in S : Cardinality(before(x)) \in Nat
    BY <1>1
  <2>. HIDE DEF before
  <2>. QED  BY <2>1
<1>3. PICK n \in counts : \A m \in counts : n <= m
  <2>. HIDE DEF counts
  <2>. QED  BY <1>2, LeastNumber
<1>4. PICK x \in S : n = Cardinality(before(x))
  OBVIOUS
<1>5. ASSUME NEW y \in S, <<y, x>> \in R
      PROVE  FALSE
  <2>1. before(y) \subseteq before(x) \ {y} /\ y \in before(x)
    BY <1>5
  <2>2. /\ IsFiniteSet(before(x) \ {y})
        /\ Cardinality(before(x) \ {y}) = Cardinality(before(x)) - 1
    <3>. HIDE DEF before
    <3>. QED  BY <1>1, <2>1, FS_RemoveElement
  <2>3. Cardinality(before(y)) <= Cardinality(before(x) \ {y})
    <3>. HIDE DEF before
    <3>. QED  BY <2>1, <2>2, FS_Subset
  <2>4. Cardinality(before(x)) <= Cardinality(before(y))
    <3>. HIDE DEF before
    <3>1. Cardinality(before(y)) \in counts
      OBVIOUS
    <3>. HIDE DEF counts
    <3>. QED  BY <3>1, <1>3, <1>4
  <2>5. Cardinality(before(x)) \in Nat /\ Cardinality(before(y)) \in Nat
    BY <1>1
  <2>. HIDE DEF before
  <2>. QED
    BY <2>2, <2>3, <2>4, <2>5
<1>. QED
  BY <1>5

=============================================================================

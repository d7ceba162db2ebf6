------------------------------ MODULE FiniteSums ------------------------------
(***************************************************************************)
(* What the proofs need of finite sets and cannot take from a library:     *)
(* least elements, and the sum of a function over a finite set, which the  *)
(* modules compute with MapThenSumSet and FoldFunctionOnSet.               *)
(***************************************************************************)
EXTENDS Integers, FiniteSetTheorems, WellFoundedInduction, TLAPS

\* Every nonempty set of numbers has a least element: the initial segments of
\* it are finite, and strict inclusion of finite sets is well founded.
LEMMA LeastNat ==
    ASSUME NEW S \in SUBSET Nat, S # {}
    PROVE  \E m \in S : \A k \in S : m <= k
<1> DEFINE upTo == [k \in S |-> {i \in S : i <= k}]
           T == {upTo[k] : k \in S}
<1>1. \A k \in S : upTo[k] \subseteq S /\ \A i \in S : i \in upTo[k] <=> i <= k
  BY Zenon
<1>2. T # {} /\ (\A X \in T : \E k \in S : X = upTo[k]) /\ (\A k \in S : upTo[k] \in T)
  BY Zenon
<1> HIDE DEF upTo, T
<1>3. \A i \in S : i \in Nat
  OBVIOUS
<1>4. \A X \in T : X \in FiniteSubsetsOf(Nat)
  <2> SUFFICES ASSUME NEW k \in S PROVE upTo[k] \in FiniteSubsetsOf(Nat)
    BY <1>2
  <2>1. ASSUME NEW i \in upTo[k] PROVE i \in 0..k
    <3>1. i \in S /\ i <= k
      BY <1>1
    <3> QED
      BY <1>3, <3>1
  <2>2. upTo[k] \in SUBSET (0..k) /\ upTo[k] \in SUBSET Nat
    BY <1>1, <1>3, <2>1
  <2>3. IsFiniteSet(0..k)
    BY <1>3, FS_Interval
  <2> QED
    BY <2>2, <2>3, FS_Subset DEF FiniteSubsetsOf
<1>5. PICK X \in T : \A Y \in T : <<Y, X>> \notin StrictSubsetOrdering(Nat)
  <2>1. T \subseteq FiniteSubsetsOf(Nat)
    BY <1>4
  <2> QED
    BY <2>1, <1>2, FS_StrictSubsetOrderingWellFounded, WFMin
<1>6. PICK m \in S : X = upTo[m]
  BY <1>2
<1>7. ASSUME NEW k \in S, ~(m <= k)
      PROVE  FALSE
  <2>1. k < m
    BY <1>3, <1>7
  <2>2. upTo[k] \subseteq upTo[m] /\ m \in upTo[m] /\ m \notin upTo[k]
    <3>1. m \in upTo[m] /\ m \notin upTo[k]
      BY <1>1, <1>3, <2>1
    <3>2. ASSUME NEW i \in upTo[k] PROVE i \in upTo[m]
      <4>1. i \in S /\ i <= k
        BY <1>1
      <4> QED
        BY <1>1, <1>3, <2>1, <4>1
    <3> QED
      BY <3>1, <3>2
  <2>3. upTo[k] \in SUBSET Nat /\ upTo[m] \in SUBSET Nat
    BY <1>1, <1>3
  <2>4. <<upTo[k], X>> \in StrictSubsetOrdering(Nat)
    BY <1>6, <2>2, <2>3, Zenon DEF StrictSubsetOrdering
  <2> QED
    BY <1>2, <1>5, <2>4
<1> QED
  BY <1>7

\* A minimal member of a family of subsets of a finite set: proper inclusion is
\* well founded.
LEMMA MinimalSet ==
    ASSUME NEW S, IsFiniteSet(S), NEW B \in SUBSET (SUBSET S), B # {}
    PROVE  \E T \in B : \A U \in SUBSET T : U # T => U \notin B
<1>1. B \subseteq FiniteSubsetsOf(S)
  BY FS_FiniteSubsetsOfFinite
<1>2. PICK T \in B : \A U \in B : <<U, T>> \notin StrictSubsetOrdering(S)
  BY <1>1, FS_StrictSubsetOrderingWellFounded, WFMin
<1>3. ASSUME NEW U \in SUBSET T, U # T, U \in B PROVE FALSE
  <2>1. <<U, T>> \in StrictSubsetOrdering(S)
    BY <1>3, Zenon DEF StrictSubsetOrdering
  <2> QED BY <1>2, <1>3, <2>1
<1> QED BY <1>3

\* The element that MapThenSumSet takes next.
Taken(s) == CHOOSE x \in s : TRUE

\* g has the sum of h over every subset of A.
Sums(g, h, A) ==
    \A s \in SUBSET A : g[s] = IF s = {} THEN 0 ELSE h[Taken(s)] + g[s \ {Taken(s)}]

\* It is one of them.
LEMMA TakenIn == \A s : s # {} => Taken(s) \in s
BY DEF Taken

\* total is the sum of h over A.
Totals(total, h, A) == \E g \in [SUBSET A -> Int] : Sums(g, h, A) /\ total = g[A]

\* Its values are integers.
IntSums(g, A) == \A s \in SUBSET A : g[s] \in Int

\* j is h but for its value at x, which is d more.
Shifted(h, j, x, d, A) == \A y \in A : h[y] \in Int /\ j[y] = h[y] + (IF y = x THEN d ELSE 0)

\* A change of one summand changes the sum by as much.
LEMMA SumShift ==
    ASSUME NEW A, IsFiniteSet(A), NEW x, NEW d \in Int, NEW g, NEW k, NEW h, NEW j,
           Sums(g, h, A), Sums(k, j, A), IntSums(g, A), Shifted(h, j, x, d, A)
    PROVE  k[A] = g[A] + (IF x \in A THEN d ELSE 0)
<1> DEFINE Bad == {s \in SUBSET A : k[s] # g[s] + (IF x \in s THEN d ELSE 0)}
<1>1. ASSUME NEW s \in SUBSET A, s \in Bad, \A u \in SUBSET s : u # s => u \notin Bad
      PROVE  FALSE
  <2>1. s # {}
    <3>1. {} \in SUBSET A
      OBVIOUS
    <3>2. g[{}] = 0 /\ k[{}] = 0
      BY <3>1 DEF Sums
    <3>3. k[s] # g[s] + (IF x \in s THEN d ELSE 0)
      BY <1>1
    <3> SUFFICES ASSUME s = {} PROVE FALSE
      OBVIOUS
    <3>4. x \notin s
      OBVIOUS
    <3> HIDE DEF Bad
    <3> QED BY <3>2, <3>3, <3>4
  <2> DEFINE y == Taken(s)
             r == s \ {y}
  <2>2. y \in s /\ r \in SUBSET s /\ r # s /\ r \in SUBSET A
    BY <2>1, TakenIn
  <2>3. g[s] = h[y] + g[r] /\ k[s] = j[y] + k[r]
    BY <2>1 DEF Sums
  <2> HIDE DEF y
  <2>4. k[r] = g[r] + (IF x \in r THEN d ELSE 0)
    BY <1>1, <2>2
  <2>5. y \in A /\ h[y] \in Int /\ j[y] = h[y] + (IF y = x THEN d ELSE 0)
    BY <2>2 DEF Shifted
  <2>6. g[r] \in Int /\ g[s] \in Int
    BY <2>2 DEF IntSums
  <2>7. x \in s <=> x \in r \/ x = y
    BY <2>2
  <2>8. k[s] = g[s] + (IF x \in s THEN d ELSE 0)
    BY <2>2, <2>3, <2>4, <2>5, <2>6, <2>7
  <2> QED BY <1>1, <2>8
<1>2. Bad = {}
  <2>1. Bad \in SUBSET (SUBSET A)
    OBVIOUS
  <2> HIDE DEF Bad
  <2> SUFFICES ASSUME Bad # {} PROVE FALSE
    OBVIOUS
  <2>2. PICK s \in Bad : \A u \in SUBSET s : u # s => u \notin Bad
    BY <2>1, MinimalSet
  <2> QED BY <1>1, <2>1, <2>2
<1> QED BY <1>2

\* Two sums of the same h agree.
LEMMA SumUnique ==
    ASSUME NEW A, IsFiniteSet(A), NEW g, NEW k, NEW h, Sums(g, h, A), Sums(k, h, A), IntSums(g, A),
           \A y \in A : h[y] \in Int
    PROVE  k[A] = g[A]
<1>1. PICK d \in Int : d = 0
  OBVIOUS
<1>2. Shifted(h, h, A, d, A)
  BY <1>1 DEF Shifted
<1>3. k[A] = g[A] + (IF A \in A THEN d ELSE 0)
  BY <1>2, SumShift
<1>4. g[A] \in Int
  BY DEF IntSums
<1> QED BY <1>1, <1>3, <1>4

\* There is such a sum.
LEMMA SumExists ==
    ASSUME NEW S, IsFiniteSet(S), NEW h, \A y \in S : h[y] \in Int
    PROVE  \E g \in [SUBSET S -> Int] : Sums(g, h, S)
<1> DEFINE Is(g, T) == g \in [SUBSET S -> Int] /\ Sums(g, h, T)
           Bad == {T \in SUBSET S : ~\E g : Is(g, T)}
           G(T) == CHOOSE g : Is(g, T)
<1>1. ASSUME NEW T \in SUBSET S, T \in Bad, \A u \in SUBSET T : u # T => u \notin Bad
      PROVE  FALSE
  <2>1. ASSUME NEW u \in SUBSET T, u # T PROVE Is(G(u), u)
    <3>1. \E g : Is(g, u)
      BY <1>1, <2>1
    <3> QED BY <3>1, Zenon
  <2> DEFINE rest(s) == s \ {Taken(s)}
             value(s) == IF s \notin SUBSET T THEN 0
                         ELSE IF s = {} THEN 0
                         ELSE h[Taken(s)] + G(rest(s))[rest(s)]
             k == [s \in SUBSET S |-> value(s)]
  <2> HIDE DEF G, Is
  <2>2. ASSUME NEW s \in SUBSET T, s # {}
        PROVE  rest(s) \in SUBSET T /\ rest(s) # T /\ rest(s) # s /\ rest(s) \in SUBSET s /\ Taken(s) \in S
    BY <2>2, TakenIn
  <2>3. ASSUME NEW u \in SUBSET T, u # T PROVE G(u) \in [SUBSET S -> Int] /\ Sums(G(u), h, u)
    BY <2>1, <2>3 DEF Is
  <2>4. \A s \in SUBSET S : value(s) \in Int
    <3>1. ASSUME NEW s \in SUBSET T, s # {} PROVE h[Taken(s)] + G(rest(s))[rest(s)] \in Int
      <4>1. rest(s) \in SUBSET S /\ G(rest(s)) \in [SUBSET S -> Int] /\ h[Taken(s)] \in Int
        BY <2>2, <2>3, <3>1
      <4> DEFINE r == rest(s)
                 a == h[Taken(s)]
                 g == G(r)
      <4>2. r \in SUBSET S /\ g \in [SUBSET S -> Int] /\ a \in Int
        BY <4>1
      <4> HIDE DEF r, a, g
      <4>3. a + g[r] \in Int
        BY <4>2
      <4> QED BY <4>3 DEF r, a, g
    <3> QED BY <3>1
  <2>5. k \in [SUBSET S -> Int] /\ \A s \in SUBSET S : k[s] = value(s)
    BY <2>4
  <2>6. ASSUME NEW s \in SUBSET T, s # T PROVE k[s] = G(s)[s]
    <3>1. Sums(G(s), h, s) /\ G(s) \in [SUBSET S -> Int]
      BY <2>3, <2>6
    <3>2. CASE s = {}
      BY <2>5, <3>1, <3>2 DEF Sums
    <3>3. CASE s # {}
      <4> DEFINE r == rest(s)
      <4>1. r \in SUBSET T /\ r # T /\ r # s /\ r \in SUBSET s /\ r \in SUBSET S /\ Taken(s) \in S
        BY <2>2, <3>3
      <4>2. Sums(G(r), h, r) /\ G(r) \in [SUBSET S -> Int]
        BY <2>3, <4>1
      <4>3. G(s)[s] = h[Taken(s)] + G(s)[r]
        BY <3>1, <3>3 DEF Sums
      <4>4. k[s] = h[Taken(s)] + G(r)[r]
        BY <2>5, <3>3
      <4>5. G(s)[r] = G(r)[r]
        <5>1. Sums(G(s), h, r)
          BY <3>1, <4>1 DEF Sums
        <5>2. IsFiniteSet(r)
          BY <4>1, FS_Subset
        <5>3. IntSums(G(r), r)
          BY <4>1, <4>2 DEF IntSums
        <5>4. \A y \in r : h[y] \in Int
          BY <4>1
        <5> HIDE DEF r
        <5> QED BY <4>2, <5>1, <5>2, <5>3, <5>4, SumUnique
      <4> QED BY <4>3, <4>4, <4>5
    <3> QED BY <3>2, <3>3
  <2>7. Sums(k, h, T)
    <3>1. ASSUME NEW s \in SUBSET T, s # {} PROVE k[s] = h[Taken(s)] + k[rest(s)]
      <4>1. k[rest(s)] = G(rest(s))[rest(s)]
        BY <2>2, <2>6, <3>1
      <4> QED BY <2>5, <3>1, <4>1
    <3>2. k[{}] = 0
      BY <2>5
    <3> HIDE DEF k
    <3> QED BY <3>1, <3>2 DEF Sums
  <2>8. Is(k, T)
    BY <2>5, <2>7 DEF Is
  <2> QED BY <1>1, <2>8
<1>2. Bad = {}
  <2>1. Bad \in SUBSET (SUBSET S)
    OBVIOUS
  <2> HIDE DEF Bad
  <2> SUFFICES ASSUME Bad # {} PROVE FALSE
    OBVIOUS
  <2>2. PICK s \in Bad : \A u \in SUBSET s : u # s => u \notin Bad
    BY <2>1, MinimalSet
  <2> QED BY <1>1, <2>1, <2>2
<1> QED BY <1>2

\* The total moves with the one summand that moves.
LEMMA SumMoves ==
    ASSUME NEW S, IsFiniteSet(S), NEW h, NEW j, NEW key \in Int, NEW d \in Int, NEW x \in S,
           Shifted(h, j, x, d, S), Totals(key, h, S)
    PROVE  Totals(key + d, j, S)
<1>1. PICK g \in [SUBSET S -> Int] : Sums(g, h, S) /\ key = g[S]
  BY DEF Totals
<1>2. \A y \in S : j[y] \in Int
  BY DEF Shifted
<1>3. PICK k \in [SUBSET S -> Int] : Sums(k, j, S)
  BY <1>2, SumExists
<1>4. IntSums(g, S)
  BY DEF IntSums
<1>5. Sums(g, h, S) /\ Sums(k, j, S)
  BY <1>1, <1>3
<1>6. k[S] = g[S] + (IF x \in S THEN d ELSE 0)
  BY <1>4, <1>5, SumShift
<1> QED BY <1>1, <1>3, <1>6 DEF Totals

\* Any element can be taken first.
LEMMA SumAdd ==
    ASSUME NEW A, IsFiniteSet(A), NEW g, NEW h, Sums(g, h, A), IntSums(g, A),
           \A y \in A : h[y] \in Int, NEW T \in SUBSET A, NEW x \in T
    PROVE  g[T] = h[x] + g[T \ {x}]
<1> DEFINE Off(s, z) == g[s] # h[z] + g[s \ {z}]
           Bad == {s \in SUBSET A : \E z \in s : Off(s, z)}
<1>1. ASSUME NEW s \in SUBSET A, \A u \in SUBSET s : u # s => u \notin Bad, NEW z \in s
      PROVE  ~Off(s, z)
  <2> DEFINE y == Taken(s)
             r == s \ {y}
             q == s \ {z}
             b == s \ {y, z}
  <2>1. y \in s
    BY TakenIn
  <2>2. g[s] = h[y] + g[r]
    BY DEF Sums
  <2>3. CASE y = z
    BY <2>2, <2>3
  <2>4. CASE y # z
    <3>1. z \in r /\ y \in q /\ r \in SUBSET s /\ r # s /\ q \in SUBSET s /\ q # s /\ r \in SUBSET A /\ q \in SUBSET A
          /\ b \in SUBSET A
      BY <2>1, <2>4
    <3>2. r \ {z} = b /\ q \ {y} = b
      OBVIOUS
    <3> HIDE DEF y, r, q, b
    <3>3. ~Off(r, z) /\ ~Off(q, y)
      BY <1>1, <3>1
    <3>4. g[r] = h[z] + g[b] /\ g[q] = h[y] + g[b]
      BY <3>2, <3>3
    <3>5. h[y] \in Int /\ h[z] \in Int /\ g[b] \in Int
      BY <2>1, <3>1 DEF IntSums
    <3>6. g[s] = h[z] + g[q]
      BY <2>2, <3>4, <3>5
    <3> QED BY <3>6 DEF q
  <2> QED BY <2>3, <2>4
<1>2. Bad = {}
  <2>1. Bad \in SUBSET (SUBSET A)
    OBVIOUS
  <2> SUFFICES ASSUME Bad # {} PROVE FALSE
    OBVIOUS
  <2>2. PICK s \in Bad : \A u \in SUBSET s : u # s => u \notin Bad
    <3> HIDE DEF Bad
    <3> QED BY <2>1, MinimalSet
  <2>3. PICK z \in s : Off(s, z)
    OBVIOUS
  <2> HIDE DEF Bad, Off
  <2> QED BY <1>1, <2>1, <2>2, <2>3
<1> QED BY <1>2

\* A finite set of integers has a least element.
LEMMA LeastInt ==
    ASSUME NEW S \in SUBSET Int, IsFiniteSet(S), S # {}
    PROVE  \E m \in S : \A k \in S : m <= k
<1> DEFINE Has(T) == \E m \in T : \A k \in T : m <= k
           Bad == {T \in SUBSET S : T # {} /\ ~Has(T)}
<1>1. ASSUME NEW T \in Bad, \A u \in SUBSET T : u # T => u \notin Bad PROVE FALSE
  <2>1. PICK x \in T : TRUE
    OBVIOUS
  <2>2. CASE T = {x}
    BY <2>2
  <2>3. CASE T # {x}
    <3>1. T \ {x} # {} /\ T \ {x} \in SUBSET T /\ T \ {x} # T /\ T \ {x} \in SUBSET S
      BY <2>3
    <3>2. Has(T \ {x})
      BY <1>1, <3>1
    <3>3. PICK m \in T \ {x} : \A k \in T \ {x} : m <= k
      BY <3>2
    <3>4. Has(T)
      <4>1. CASE x <= m
        <5>1. \A k \in T : x <= k
          BY <3>3, <4>1
        <5> QED BY <5>1
      <4>2. CASE ~(x <= m)
        <5>1. \A k \in T : m <= k
          BY <3>3, <4>2
        <5> QED BY <5>1
      <4> QED BY <4>1, <4>2
    <3> QED BY <3>4
  <2> QED BY <2>2, <2>3
<1>2. Bad = {}
  <2>1. Bad \in SUBSET (SUBSET S)
    OBVIOUS
  <2> SUFFICES ASSUME Bad # {} PROVE FALSE
    OBVIOUS
  <2>2. PICK T \in Bad : \A u \in SUBSET T : u # T => u \notin Bad
    <3> HIDE DEF Bad
    <3> QED BY <2>1, MinimalSet
  <2> QED BY <1>1, <2>2
<1> QED BY <1>2

\* s lists S from the greatest element down.
Descends(s, S) ==
    /\ s \in [1..Cardinality(S) -> S]
    /\ \A i, j \in 1..Cardinality(S) : i < j => s[i] > s[j]
    /\ \A x \in S : \E i \in 1..Cardinality(S) : s[i] = x

\* A finite set of integers can be sorted.
LEMMA Sortable ==
    ASSUME NEW S \in SUBSET Int, IsFiniteSet(S)
    PROVE  \E s : Descends(s, S)
<1> DEFINE Bad == {T \in SUBSET S : ~\E s : Descends(s, T)}
<1>1. ASSUME NEW T \in SUBSET S, \A u \in SUBSET T : u # T => u \notin Bad PROVE \E s : Descends(s, T)
  <2>1. IsFiniteSet(T)
    BY FS_Subset
  <2>2. CASE T = {}
    <3>1. Cardinality(T) = 0
      BY <2>2, FS_EmptySet
    <3>2. Descends([i \in 1..0 |-> 0], T)
      BY <2>2, <3>1 DEF Descends
    <3> QED BY <3>2
  <2>3. CASE T # {}
    <3>1. PICK m \in T : \A k \in T : m <= k
      BY <2>1, <2>3, LeastInt
    <3> DEFINE U == T \ {m}
               n == Cardinality(U)
    <3>2. U \in SUBSET T /\ U # T /\ U \in SUBSET S
      OBVIOUS
    <3>3. PICK d : Descends(d, U)
      BY <1>1, <3>2
    <3>4. n \in Nat /\ Cardinality(T) = n + 1
      <4>1. IsFiniteSet(U)
        BY <2>1, FS_Subset
      <4>2. Cardinality(U \cup {m}) = n + 1
        BY <4>1, FS_AddElement
      <4>3. U \cup {m} = T
        OBVIOUS
      <4> QED BY <4>1, <4>2, <4>3, FS_CardinalityType
    <3>5. \A k \in U : k > m /\ k \in Int
      BY <3>1
    <3> DEFINE s == [i \in 1..(n + 1) |-> IF i = n + 1 THEN m ELSE d[i]]
    <3> HIDE DEF n
    <3>6. d \in [1..n -> U] /\ (\A i, j \in 1..n : i < j => d[i] > d[j]) /\ \A x \in U : \E i \in 1..n : d[i] = x
      BY <3>3 DEF Descends, n
    <3>7. \A i \in 1..(n + 1) : i \in 1..n \/ i = n + 1
      BY <3>4
    <3>8. s \in [1..(n + 1) -> T]
      BY <3>6, <3>7
    <3>9. \A i, j \in 1..(n + 1) : i < j => s[i] > s[j]
      <4> SUFFICES ASSUME NEW i \in 1..(n + 1), NEW j \in 1..(n + 1), i < j PROVE s[i] > s[j]
        OBVIOUS
      <4>1. i \in 1..n /\ i # n + 1
        BY <3>4
      <4>2. s[i] = d[i] /\ d[i] \in U
        BY <3>6, <4>1
      <4>3. CASE j = n + 1
        BY <3>5, <4>2, <4>3
      <4>4. CASE j # n + 1
        BY <3>4, <3>6, <4>1, <4>2, <4>4
      <4> QED BY <4>3, <4>4
    <3>10. \A x \in T : \E i \in 1..(n + 1) : s[i] = x
      <4> SUFFICES ASSUME NEW x \in T PROVE \E i \in 1..(n + 1) : s[i] = x
        OBVIOUS
      <4>1. CASE x = m
        <5>1. n + 1 \in 1..(n + 1)
          BY <3>4
        <5> QED BY <4>1, <5>1
      <4>2. CASE x # m
        <5>1. PICK i \in 1..n : d[i] = x
          BY <3>6, <4>2
        <5>2. i \in 1..(n + 1) /\ i # n + 1
          BY <3>4
        <5> QED BY <5>1, <5>2
      <4> QED BY <4>1, <4>2
    <3>11. Descends(s, T)
      BY <3>4, <3>8, <3>9, <3>10 DEF Descends
    <3> QED BY <3>11
  <2> QED BY <2>2, <2>3
<1>2. Bad = {}
  <2>1. Bad \in SUBSET (SUBSET S)
    OBVIOUS
  <2> SUFFICES ASSUME Bad # {} PROVE FALSE
    OBVIOUS
  <2>2. PICK T \in Bad : \A u \in SUBSET T : u # T => u \notin Bad
    <3> HIDE DEF Bad
    <3> QED BY <2>1, MinimalSet
  <2> QED BY <1>1, <2>2
<1>3. S \in SUBSET S
  OBVIOUS
<1> QED BY <1>2, <1>3
=============================================================================

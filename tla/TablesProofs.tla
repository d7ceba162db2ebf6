----------------------------- MODULE TablesProofs -----------------------------
(***************************************************************************)
(* The tables of MCTables.  Routing (Balancer): Next returns the usable    *)
(* channels of the greatest priority, and the draws follow the weights,    *)
(* for any rows, groups, wildcards, filters and cooldowns.  The prices     *)
(* (Pricing): no name has two rows and no locked price is lost, for any    *)
(* names, tables, price lists, servers and goroutines.                     *)
(***************************************************************************)
EXTENDS MCTables, FiniteSums

-----------------------------------------------------------------------------
(* The weights of a view *)

\* A view that Load made, with some of its flags set.
Weighed(v) ==
    /\ IsFiniteSet(DOMAIN v.channels)
    /\ \A c \in DOMAIN v.channels :
          v.channels[c].channel.weight \in Nat \ {0} /\ v.channels[c].channel.priority \in Int

\* The weight that Load gave a channel.
Weight(v, c) == v.channels[c].channel.weight

\* totalWeight is the sum of the weights, for all sets of channels at once.
LEMMA TotalIsSum ==
    ASSUME NEW v, Weighed(v)
    PROVE  \E g \in [SUBSET DOMAIN v.channels -> Int] :
              /\ Sums(g, [c \in DOMAIN v.channels |-> Weight(v, c)], DOMAIN v.channels)
              /\ \A ids \in SUBSET DOMAIN v.channels : TotalWeight(v, ids) = g[ids]
<1> DEFINE D == DOMAIN v.channels
           h == [c \in D |-> Weight(v, c)]
<1>1. IsFiniteSet(D) /\ \A c \in D : h[c] \in Int /\ h[c] = v.channels[c].channel.weight
  BY DEF Weighed, Weight
<1> HIDE DEF D, h
<1>2. PICK g \in [SUBSET D -> Int] : Sums(g, h, D)
  BY <1>1, SumExists
<1>3. ASSUME NEW ids \in SUBSET D
      PROVE  TotalWeight(v, ids) = g[ids]
  <2> DEFINE w == [c \in ids |-> v.channels[c].channel.weight]
             unfold(f) == [s \in SUBSET ids |->
                             IF s = {} THEN 0 ELSE LET x == CHOOSE x \in s : TRUE IN w[x] + f[s \ {x}]]
             iter == CHOOSE f : f = unfold(f)
             k == [s \in SUBSET ids |-> g[s]]
  <2>1. TotalWeight(v, ids) = iter[ids]
    BY DEF TotalWeight, Funs!FoldFunctionOnSet, Funs!MapThenFoldSet
  <2>2. \A c \in ids : w[c] = h[c]
    BY <1>1, <1>3
  <2> HIDE DEF w
  <2>3. ASSUME NEW s \in SUBSET ids, s # {}
        PROVE  w[Taken(s)] = h[Taken(s)] /\ s \ {Taken(s)} \in SUBSET ids
    BY <2>2, <2>3, TakenIn
  <2>4. k = unfold(k)
    <3>1. \A s \in SUBSET ids : k[s] = unfold(k)[s]
      <4> SUFFICES ASSUME NEW s \in SUBSET ids PROVE k[s] = unfold(k)[s]
        OBVIOUS
      <4>1. s \in SUBSET D /\ s \ {Taken(s)} \in SUBSET ids
        BY <1>3
      <4>2. g[s] = IF s = {} THEN 0 ELSE h[Taken(s)] + g[s \ {Taken(s)}]
        BY <1>2, <4>1 DEF Sums
      <4>3. k[s] = g[s] /\ k[s \ {Taken(s)}] = g[s \ {Taken(s)}]
        BY <4>1
      <4> HIDE DEF k
      <4>4. unfold(k)[s] = IF s = {} THEN 0 ELSE w[Taken(s)] + k[s \ {Taken(s)}]
        BY DEF Taken
      <4> QED BY <2>3, <4>2, <4>3, <4>4
    <3>2. unfold(k) = [s \in SUBSET ids |-> unfold(k)[s]] /\ k = [s \in SUBSET ids |-> k[s]]
      OBVIOUS
    <3> HIDE DEF unfold, k
    <3> QED BY <3>1, <3>2
  <2>5. iter = unfold(iter)
    <3> HIDE DEF unfold, k
    <3> QED BY <2>4, Zenon
  <2>6. Sums(iter, h, ids)
    <3> HIDE DEF iter
    <3>1. ASSUME NEW s \in SUBSET ids
          PROVE  iter[s] = IF s = {} THEN 0 ELSE h[Taken(s)] + iter[s \ {Taken(s)}]
      <4>1. iter[s] = unfold(iter)[s]
        BY <2>5
      <4> QED BY <2>3, <4>1 DEF Taken
    <3> QED BY <3>1 DEF Sums
  <2>7. Sums(g, h, ids) /\ IntSums(g, ids) /\ IsFiniteSet(ids) /\ \A c \in ids : h[c] \in Int
    BY <1>1, <1>2, <1>3, FS_Subset DEF Sums, IntSums
  <2> HIDE DEF iter
  <2>8. iter[ids] = g[ids]
    BY <2>6, <2>7, SumUnique
  <2> QED BY <2>1, <2>8
<1> QED BY <1>2, <1>3 DEF D, h

\* The weights of some channels add up.
LEMMA TotalAdds ==
    ASSUME NEW v, Weighed(v)
    PROVE  /\ TotalWeight(v, {}) = 0
           /\ \A ids \in SUBSET DOMAIN v.channels :
                 /\ TotalWeight(v, ids) \in Int
                 /\ \A c \in ids : TotalWeight(v, ids) = Weight(v, c) + TotalWeight(v, ids \ {c})
<1> DEFINE D == DOMAIN v.channels
           h == [c \in D |-> Weight(v, c)]
<1>1. IsFiniteSet(D) /\ \A c \in D : h[c] \in Int /\ h[c] = Weight(v, c)
  BY DEF Weighed, Weight
<1>2. PICK g \in [SUBSET D -> Int] : Sums(g, h, D) /\ \A ids \in SUBSET D : TotalWeight(v, ids) = g[ids]
  BY TotalIsSum
<1> HIDE DEF D, h
<1>3. TotalWeight(v, {}) = 0
  <2>1. {} \in SUBSET D
    OBVIOUS
  <2> QED BY <1>2, <2>1 DEF Sums
<1>4. IntSums(g, D)
  BY DEF IntSums
<1>5. ASSUME NEW ids \in SUBSET D, NEW c \in ids
      PROVE  TotalWeight(v, ids) = Weight(v, c) + TotalWeight(v, ids \ {c})
  <2>0. Sums(g, h, D) /\ IntSums(g, D) /\ IsFiniteSet(D) /\ \A y \in D : h[y] \in Int
    BY <1>1, <1>2, <1>4
  <2>1. g[ids] = h[c] + g[ids \ {c}]
    BY <2>0, SumAdd
  <2>2. ids \ {c} \in SUBSET D
    OBVIOUS
  <2> QED BY <1>1, <1>2, <2>1, <2>2
<1>6. \A ids \in SUBSET D : TotalWeight(v, ids) \in Int
  BY <1>2
<1> QED BY <1>3, <1>5, <1>6 DEF D

-----------------------------------------------------------------------------
(* Lists of a set *)

\* s has every element of S at one place.
Lists(s, S) ==
    /\ s \in [1..Cardinality(S) -> S]
    /\ \A i, j \in 1..Cardinality(S) : s[i] = s[j] => i = j
    /\ \A x \in S : \E i \in 1..Cardinality(S) : s[i] = x

\* SetToSeq lists a finite set.
LEMMA SetToSeqLists ==
    ASSUME NEW S, IsFiniteSet(S)
    PROVE  Lists(Seqs!SetToSeq(S), S) /\ Len(Seqs!SetToSeq(S)) = Cardinality(S) /\ Cardinality(S) \in Nat
<1> DEFINE n == Cardinality(S)
           s == Seqs!SetToSeq(S)
<1>1. n \in Nat /\ ExistsBijection(1..n, S)
  BY FS_CardinalityType
<1>2. PICK b \in [1..n -> S] : Seqs!IsInjective(b)
  BY <1>1 DEF ExistsBijection, Bijection, Injection, IsInjective, Seqs!IsInjective
<1>3. s \in [1..n -> S] /\ Seqs!IsInjective(s)
  <2>1. Seqs!Cardinality(S) = n
    BY DEF Cardinality, Seqs!Cardinality
  <2>2. \E f \in [1..Seqs!Cardinality(S) -> S] : Seqs!IsInjective(f)
    BY <1>2, <2>1
  <2>3. s \in [1..Seqs!Cardinality(S) -> S] /\ Seqs!IsInjective(s)
    BY <2>2, Zenon DEF Seqs!SetToSeq
  <2> QED BY <2>1, <2>3
<1> HIDE DEF s
<1>4. s \in Injection(1..n, S)
  BY <1>3 DEF Injection, IsInjective, Seqs!IsInjective
<1>5. Cardinality(1..n) = n
  BY <1>1, FS_Interval
<1>6. s \in Surjection(1..n, S)
  BY <1>4, <1>5, FS_Injection
<1>7. Len(s) = n
  BY <1>1, <1>3
<1> QED BY <1>1, <1>3, <1>6, <1>7 DEF Lists, Surjection, Seqs!IsInjective, s

\* A function that rises at every step rises.
LEMMA Rising ==
    ASSUME NEW n \in Nat, NEW p, \A i \in 0..n : p[i] \in Int, \A i \in 1..n : p[i - 1] < p[i]
    PROVE  \A i, k \in 0..n : i < k => p[i] < p[k]
<1> SUFFICES ASSUME NEW i \in 0..n PROVE \A k \in 0..n : i < k => p[i] < p[k]
  OBVIOUS
<1> DEFINE Bad == {k \in 0..n : i < k /\ ~(p[i] < p[k])}
<1> SUFFICES ASSUME Bad # {} PROVE FALSE
  OBVIOUS
<1>1. PICK k \in Bad : \A j \in Bad : k <= j
  <2>1. Bad \in SUBSET Nat
    OBVIOUS
  <2> HIDE DEF Bad
  <2> QED BY <2>1, LeastNat
<1>2. k \in 1..n /\ k - 1 \in 0..n /\ k - 1 >= i /\ k - 1 < k /\ ~(p[i] < p[k])
  OBVIOUS
<1>3. k - 1 \notin Bad
  <2> HIDE DEF Bad
  <2>1. \A j \in Bad : k <= j
    BY <1>1
  <2> QED BY <1>2, <2>1
<1>4. p[k - 1] < p[k] /\ p[k - 1] \in Int /\ p[k] \in Int /\ p[i] \in Int
  BY <1>2
<1>5. CASE k - 1 = i
  BY <1>2, <1>4, <1>5
<1>6. CASE k - 1 # i
  <2>1. p[i] < p[k - 1]
    BY <1>2, <1>3, <1>6
  <2> QED BY <1>2, <1>4, <2>1
<1> QED BY <1>5, <1>6

-----------------------------------------------------------------------------
(* Draws *)

\* The first i channels of a list.
Firsts(s, i) == {s[j] : j \in 1..i}

\* The weights of the first i channels.
Before(v, s, i) == TotalWeight(v, Firsts(s, i))

\* These weights rise from nothing to the total.
LEMMA BeforeRises ==
    ASSUME NEW v, Weighed(v), NEW S \in SUBSET DOMAIN v.channels, NEW s, Lists(s, S)
    PROVE  LET n == Cardinality(S)
           IN  /\ n \in Nat /\ Before(v, s, 0) = 0 /\ Before(v, s, n) = TotalWeight(v, S)
               /\ \A i \in 0..n : Before(v, s, i) \in Int
               /\ \A i \in 1..n : Before(v, s, i) = Before(v, s, i - 1) + Weight(v, s[i])
               /\ \A i, k \in 0..n : i < k => Before(v, s, i) < Before(v, s, k)
<1> DEFINE n == Cardinality(S)
<1>1. IsFiniteSet(S) /\ n \in Nat
  BY FS_Subset, FS_CardinalityType DEF Weighed
<1>2. s \in [1..n -> S] /\ (\A i, j \in 1..n : s[i] = s[j] => i = j) /\ \A x \in S : \E i \in 1..n : s[i] = x
  BY DEF Lists
<1> HIDE DEF n
<1>3. \A i \in 0..n : Firsts(s, i) \in SUBSET S
  BY <1>1, <1>2 DEF Firsts
<1>4. Firsts(s, 0) = {} /\ Firsts(s, n) = S
  BY <1>1, <1>2 DEF Firsts
<1>5. ASSUME NEW i \in 1..n
      PROVE  /\ s[i] \in Firsts(s, i) /\ Firsts(s, i - 1) = Firsts(s, i) \ {s[i]}
             /\ Weight(v, s[i]) \in Nat \ {0}
  <2>1. i - 1 \in 0..n /\ i \in 1..i /\ i \notin 1..(i - 1) /\ 1..(i - 1) \subseteq 1..n /\ 1..i \subseteq 1..n
        /\ 1..i = 1..(i - 1) \cup {i}
    BY <1>1
  <2>2. s[i] \in S /\ \A j \in 1..(i - 1) : s[j] # s[i]
    BY <1>2, <2>1
  <2>3. Firsts(s, i) = Firsts(s, i - 1) \cup {s[i]}
    BY <2>1 DEF Firsts
  <2>4. s[i] \notin Firsts(s, i - 1)
    BY <2>2 DEF Firsts
  <2> QED BY <2>2, <2>3, <2>4 DEF Weighed, Weight
<1>6. \A i \in 0..n : Before(v, s, i) \in Int
  BY <1>3, TotalAdds DEF Before
<1>7. ASSUME NEW i \in 1..n
      PROVE  Before(v, s, i) = Before(v, s, i - 1) + Weight(v, s[i]) /\ Before(v, s, i - 1) < Before(v, s, i)
  <2>1. i \in 0..n /\ i - 1 \in 0..n
    BY <1>1
  <2>2. Firsts(s, i) \in SUBSET DOMAIN v.channels
    BY <1>3, <2>1
  <2>3. Before(v, s, i) = Weight(v, s[i]) + Before(v, s, i - 1)
    BY <1>5, <2>2, TotalAdds DEF Before
  <2> QED BY <1>5, <1>6, <2>1, <2>3
<1>8. \A i, k \in 0..n : i < k => Before(v, s, i) < Before(v, s, k)
  <2> DEFINE p == [i \in 0..n |-> Before(v, s, i)]
  <2>1. \A i \in 0..n : p[i] \in Int /\ p[i] = Before(v, s, i)
    BY <1>6
  <2>2. \A i \in 1..n : p[i - 1] < p[i]
    <3> SUFFICES ASSUME NEW i \in 1..n PROVE p[i - 1] < p[i]
      OBVIOUS
    <3>1. i \in 0..n /\ i - 1 \in 0..n
      BY <1>1
    <3> QED BY <1>7, <2>1, <3>1
  <2> HIDE DEF p
  <2>3. \A i, k \in 0..n : i < k => p[i] < p[k]
    BY <1>1, <2>1, <2>2, Rising
  <2> QED BY <2>1, <2>3
<1>9. Before(v, s, 0) = 0 /\ Before(v, s, n) = TotalWeight(v, S)
  BY <1>4, TotalAdds DEF Before
<1> QED BY <1>1, <1>6, <1>7, <1>8, <1>9 DEF n

\* The draws that give a channel are those between the weights before it and
\* its own.
LEMMA DrawnBetween ==
    ASSUME NEW v, Weighed(v), NEW S \in SUBSET DOMAIN v.channels, NEW s, Lists(s, S), Len(s) = Cardinality(S),
           NEW i \in 1..Cardinality(S)
    PROVE  {draw \in 0..(TotalWeight(v, S) - 1) : Drawn(v, s, draw, s[i])}
             = Before(v, s, i - 1)..(Before(v, s, i) - 1)
<1> DEFINE n == Cardinality(S)
           b(j) == Before(v, s, j)
<1>1. /\ n \in Nat /\ b(0) = 0 /\ b(n) = TotalWeight(v, S)
      /\ \A j \in 0..n : b(j) \in Int
      /\ \A j, k \in 0..n : j < k => b(j) < b(k)
  BY BeforeRises
<1>2. \A j, k \in 1..n : s[j] = s[k] => j = k
  BY DEF Lists
<1>3. i \in 1..n /\ Len(s) = n
  OBVIOUS
<1>4. \A draw : Drawn(v, s, draw, s[i]) <=>
         \E j \in 1..n : s[j] = s[i] /\ draw < b(j) /\ \A k \in 1..(j - 1) : draw >= b(k)
  BY <1>3 DEF Drawn, Before, Firsts
<1> HIDE DEF n, b
<1>5. ASSUME NEW draw \in Int
      PROVE  draw \in 0..(b(n) - 1) /\ Drawn(v, s, draw, s[i]) <=> b(i - 1) <= draw /\ draw < b(i)
  <2>1. Drawn(v, s, draw, s[i]) <=> draw < b(i) /\ \A k \in 1..(i - 1) : draw >= b(k)
    BY <1>2, <1>3, <1>4
  <2>2. i \in 0..n /\ i - 1 \in 0..n /\ 0 \in 0..n /\ n \in 0..n /\ \A k \in 1..(i - 1) : k \in 0..n /\ k <= i - 1
    BY <1>1, <1>3
  <2>3. b(i) <= b(n) /\ 0 <= b(i - 1) /\ b(i) \in Int /\ b(i - 1) \in Int /\ b(n) \in Int
    <3>1. i < n \/ i = n
      BY <1>1, <1>3
    <3>2. 0 < i - 1 \/ i - 1 = 0
      BY <1>3
    <3> QED BY <1>1, <2>2, <3>1, <3>2
  <2>4. ASSUME b(i - 1) <= draw, NEW k \in 1..(i - 1) PROVE draw >= b(k)
    <3>1. k \in 0..n /\ (k < i - 1 \/ k = i - 1)
      BY <2>2
    <3>2. b(k) \in Int
      BY <1>1, <3>1
    <3>3. k < i - 1 => b(k) < b(i - 1)
      BY <1>1, <2>2, <3>1
    <3>4. k = i - 1 => b(k) = b(i - 1)
      OBVIOUS
    <3> QED BY <2>3, <2>4, <3>1, <3>2, <3>3, <3>4
  <2>5. ASSUME \A k \in 1..(i - 1) : draw >= b(k), draw >= 0 PROVE b(i - 1) <= draw
    <3>1. CASE i = 1
      <4>1. b(i - 1) = 0
        BY <1>1, <3>1
      <4> QED BY <2>5, <4>1
    <3>2. CASE i # 1
      <4>1. i - 1 \in 1..(i - 1)
        BY <1>3, <3>2
      <4> QED BY <2>3, <2>5, <4>1
    <3> QED BY <3>1, <3>2
  <2> QED BY <2>1, <2>3, <2>4, <2>5
<1>6. i - 1 \in 0..n /\ i \in 0..n
  BY <1>1, <1>3
<1>7. {draw \in 0..(b(n) - 1) : Drawn(v, s, draw, s[i])} = b(i - 1)..(b(i) - 1)
  BY <1>1, <1>5, <1>6
<1> QED BY <1>1, <1>7 DEF b

\* There are as many of them as the channel's weight.
LEMMA DrawsOf ==
    ASSUME NEW v, Weighed(v), NEW S \in SUBSET DOMAIN v.channels, NEW c \in S
    PROVE  /\ Cardinality({draw \in 0..(TotalWeight(v, S) - 1) : Drawn(v, Seqs!SetToSeq(S), draw, c)}) = Weight(v, c)
           /\ \E draw \in 0..(TotalWeight(v, S) - 1) : Drawn(v, Seqs!SetToSeq(S), draw, c)
<1> DEFINE s == Seqs!SetToSeq(S)
           n == Cardinality(S)
<1>1. IsFiniteSet(S)
  BY FS_Subset DEF Weighed
<1>2. Lists(s, S) /\ Len(s) = n /\ n \in Nat
  BY <1>1, SetToSeqLists
<1>3. PICK i \in 1..n : s[i] = c
  BY <1>2 DEF Lists
<1> HIDE DEF s
<1>4. {draw \in 0..(TotalWeight(v, S) - 1) : Drawn(v, s, draw, s[i])} = Before(v, s, i - 1)..(Before(v, s, i) - 1)
  BY <1>2, <1>3, DrawnBetween
<1> DEFINE a == Before(v, s, i - 1)
           b == Before(v, s, i)
<1>5. i \in 0..n /\ i - 1 \in 0..n
  BY <1>2
<1>6. a \in Int /\ b \in Int /\ b = a + Weight(v, c)
  BY <1>2, <1>3, <1>5, BeforeRises
<1>7. Weight(v, c) \in Nat \ {0}
  BY DEF Weighed, Weight
<1> HIDE DEF a, b
<1>8. Cardinality(a..(b - 1)) = Weight(v, c) /\ a \in a..(b - 1)
  <2> DEFINE e == b - 1
  <2>1. e \in Int /\ a <= e /\ e - a + 1 = Weight(v, c)
    BY <1>6, <1>7
  <2> HIDE DEF e
  <2>2. Cardinality(a..e) = e - a + 1
    BY <1>6, <2>1, FS_Interval
  <2>3. a \in a..e
    BY <1>6, <2>1
  <2> QED BY <2>1, <2>2, <2>3 DEF e
<1> QED BY <1>3, <1>4, <1>8 DEF a, b, s

-----------------------------------------------------------------------------
(* Next *)

\* Every candidate of a tier can be drawn.
LEMMA BalancerGives ==
    ASSUME NEW v, Weighed(v), NEW ids, NEW name, NEW filter, NEW c
    PROVE  balancer(v, ids, name, filter, c) = Valid(v, ids, name, filter, c)
<1> DEFINE S == Valid(v, ids, name, filter, c)
<1>1. S \in SUBSET DOMAIN v.channels
  BY DEF Valid
<1> HIDE DEF S
<1>2. \A d \in S : \E draw \in 0..(TotalWeight(v, S) - 1) : Drawn(v, Seqs!SetToSeq(S), draw, d)
  BY <1>1, DrawsOf
<1> QED BY <1>2 DEF balancer, S

\* The priorities of a rule.
Levels(v, group, name) == {Priority(v, c) : c \in Listed(v, group, name)}

\* The tiers of a rule are its priorities from the greatest down.
LEMMA RuleTiers ==
    ASSUME NEW v, Weighed(v), NEW group, NEW name
    PROVE  \E ps : /\ Descends(ps, Levels(v, group, name))
                   /\ Rule(v, group, name) =
                        [i \in DOMAIN ps |-> {c \in Listed(v, group, name) : Priority(v, c) = ps[i]}]
<1> DEFINE L == Listed(v, group, name)
           S == Levels(v, group, name)
           n == Cardinality(S)
           ps == CHOOSE s \in Seqs!SetToSeqs(S) : \A i, j \in DOMAIN s : i < j => s[i] > s[j]
<1>1. IsFiniteSet(L) /\ S \in SUBSET Int
  BY FS_Subset DEF Weighed, Listed, Levels, Priority
<1>2. IsFiniteSet(S)
  <2> DEFINE f == [c \in L |-> Priority(v, c)]
  <2>1. f \in Surjection(L, S)
    BY DEF Surjection, Levels
  <2> HIDE DEF f
  <2> QED BY <1>1, <2>1, FS_Surjection
<1>3. n \in Nat /\ Seqs!Cardinality(S) = n /\ Cardinality(1..n) = n
  <2>1. n \in Nat
    BY <1>2, FS_CardinalityType
  <2>2. Seqs!Cardinality(S) = n
    BY DEF Cardinality, Seqs!Cardinality
  <2> QED BY <2>1, <2>2, FS_Interval
<1>4. Rule(v, group, name) = [i \in DOMAIN ps |-> {c \in L : Priority(v, c) = ps[i]}]
  BY DEF Rule, Levels
<1> HIDE DEF S
<1>5. \A s : s \in Seqs!SetToSeqs(S) <=> s \in [1..n -> S] /\ \A i, j \in 1..n : i # j => s[i] # s[j]
  BY <1>3 DEF Seqs!SetToSeqs
<1> HIDE DEF n
<1>6. \E s \in Seqs!SetToSeqs(S) : \A i, j \in DOMAIN s : i < j => s[i] > s[j]
  <2>1. PICK s : Descends(s, S)
    BY <1>1, <1>2, Sortable
  <2>2. s \in [1..n -> S] /\ \A i, j \in 1..n : i < j => s[i] > s[j]
    BY <2>1 DEF Descends, n
  <2>3. ASSUME NEW i \in 1..n, NEW j \in 1..n, i # j PROVE s[i] # s[j]
    <3>1. i < j \/ j < i
      BY <1>3, <2>3
    <3>2. s[i] \in Int /\ s[j] \in Int
      BY <1>1, <2>2
    <3> QED BY <2>2, <3>1, <3>2
  <2> QED BY <1>5, <2>2, <2>3
<1>7. ps \in Seqs!SetToSeqs(S) /\ \A i, j \in DOMAIN ps : i < j => ps[i] > ps[j]
  BY <1>6, Zenon
<1> HIDE DEF ps
<1>8. ps \in [1..n -> S] /\ \A i, j \in 1..n : i # j => ps[i] # ps[j]
  BY <1>5, <1>7
<1>9. \A x \in S : \E i \in 1..n : ps[i] = x
  <2>1. ps \in Injection(1..n, S)
    BY <1>8 DEF Injection, IsInjective
  <2>2. ps \in Surjection(1..n, S)
    BY <1>2, <1>3, <2>1, FS_Injection DEF n
  <2> QED BY <2>2 DEF Surjection
<1>10. Descends(ps, S)
  BY <1>7, <1>8, <1>9 DEF Descends, n
<1> QED BY <1>4, <1>10 DEF S

\* Next gives the candidates of the greatest priority that has some.
LEMMA NextGivesBest ==
    ASSUME NEW v, Weighed(v), NEW group, NEW name, NEW filter, NEW c,
           NEW U, U = Valid(v, Listed(v, group, RuleKey(v, group, name)), name, filter, c)
    PROVE  NextChannel(v, group, name, filter, c) = {x \in U : \A d \in U : Priority(v, d) <= Priority(v, x)}
<1> DEFINE key == RuleKey(v, group, name)
           L == Listed(v, group, key)
           tiers == Rule(v, group, key)
           S == Levels(v, group, key)
           n == Cardinality(S)
           given(i) == balancer(v, tiers[i], name, filter, c)
           found == {i \in DOMAIN tiers : given(i) # {}}
           first == CHOOSE i \in found : \A j \in found : i <= j
<1>1. PICK ps : Descends(ps, S) /\ tiers = [i \in DOMAIN ps |-> {x \in L : Priority(v, x) = ps[i]}]
  BY RuleTiers
<1>2. NextChannel(v, group, name, filter, c) = IF found = {} THEN {} ELSE given(first)
  BY DEF NextChannel
<1>3. /\ ps \in [1..n -> S] /\ (\A i, j \in 1..n : i < j => ps[i] > ps[j])
      /\ \A x \in S : \E i \in 1..n : ps[i] = x
  BY <1>1 DEF Descends
<1>4. S \in SUBSET Int /\ (\A x \in U : x \in L /\ Priority(v, x) \in S)
  BY DEF Levels, Weighed, Listed, Priority, Valid
<1> HIDE DEF key, L, tiers, S, n, given
<1>5. DOMAIN tiers = 1..n /\ \A i \in 1..n : given(i) = {x \in U : Priority(v, x) = ps[i]}
  <2>1. DOMAIN tiers = 1..n /\ \A i \in 1..n : tiers[i] = {x \in L : Priority(v, x) = ps[i]}
    BY <1>1, <1>3
  <2>2. ASSUME NEW i \in 1..n PROVE given(i) = {x \in U : Priority(v, x) = ps[i]}
    <3>1. given(i) = Valid(v, tiers[i], name, filter, c)
      BY BalancerGives DEF given
    <3>2. tiers[i] = {x \in L : Priority(v, x) = ps[i]}
      BY <2>1
    <3>3. U = Valid(v, L, name, filter, c)
      BY DEF L, key
    <3> QED BY <3>1, <3>2, <3>3 DEF Valid
  <2> QED BY <2>1, <2>2
<1>6. ASSUME NEW x \in U PROVE \E i \in found : Priority(v, x) = ps[i]
  <2>1. PICK i \in 1..n : ps[i] = Priority(v, x)
    BY <1>3, <1>4
  <2>2. x \in given(i)
    BY <1>5, <2>1
  <2> QED BY <1>5, <2>1, <2>2
<1>7. CASE found = {}
  BY <1>2, <1>6, <1>7
<1>8. CASE found # {}
  <2>1. found \in SUBSET Nat
    BY <1>5
  <2>2. \E i \in found : \A j \in found : i <= j
    <3> HIDE DEF found
    <3> QED BY <1>8, <2>1, LeastNat
  <2>3. first \in found /\ \A j \in found : first <= j
    <3> HIDE DEF found
    <3> QED BY <2>2, Zenon
  <2> HIDE DEF first
  <2>4. \A j \in found : ps[j] \in Int /\ ps[j] <= ps[first] /\ (j \in 1..n)
    <3> SUFFICES ASSUME NEW j \in found PROVE ps[j] \in Int /\ ps[j] <= ps[first] /\ j \in 1..n
      OBVIOUS
    <3>1. j \in 1..n /\ first \in 1..n /\ (first < j \/ first = j)
      BY <1>5, <2>1, <2>3
    <3>2. ps[j] \in Int /\ ps[first] \in Int
      BY <1>3, <1>4, <3>1
    <3> QED BY <1>3, <3>1, <3>2
  <2>5. PICK w \in U : Priority(v, w) = ps[first]
    BY <1>5, <2>3
  <2>6. given(first) = {x \in U : Priority(v, x) = ps[first]}
    BY <1>5, <2>3
  <2> HIDE DEF found
  <2>7. ASSUME NEW x \in U
        PROVE  Priority(v, x) = ps[first] <=> \A d \in U : Priority(v, d) <= Priority(v, x)
    <3>1. ASSUME Priority(v, x) = ps[first], NEW d \in U PROVE Priority(v, d) <= Priority(v, x)
      BY <1>6, <2>4, <3>1
    <3>2. ASSUME \A d \in U : Priority(v, d) <= Priority(v, x) PROVE Priority(v, x) = ps[first]
      <4>1. PICK j \in found : Priority(v, x) = ps[j]
        BY <1>6
      <4>2. ps[first] <= ps[j] /\ ps[j] <= ps[first] /\ ps[j] \in Int /\ ps[first] \in Int
        BY <2>3, <2>4, <2>5, <3>2, <4>1
      <4> QED BY <4>1, <4>2
    <3> QED BY <3>1, <3>2
  <2> QED BY <1>2, <1>8, <2>6, <2>7
<1> QED BY <1>7, <1>8

-----------------------------------------------------------------------------
(* The routing table of a behaviour *)

\* Load replaces a weight of zero.
LEMMA LoadWeighs ==
    ASSUME NEW rows, NEW loaded \in Load(rows),
           \A c \in Channels : rows[c].status = Enabled => rows[c] \in Row
    PROVE  Weighed(loaded)
<1>1. loaded.channels = LoadChannels(rows)
  BY DEF Load
<1>2. DOMAIN loaded.channels = {d \in Channels : rows[d].status = Enabled}
  BY <1>1 DEF LoadChannels
<1>3. IsFiniteSet(DOMAIN loaded.channels)
  BY <1>2, BalancerAssumption, FS_Subset
<1>4. ASSUME NEW c \in DOMAIN loaded.channels
      PROVE  loaded.channels[c].channel.weight \in Nat \ {0} /\ loaded.channels[c].channel.priority \in Int
  <2> DEFINE w == IF rows[c].weight = 0 THEN DefaultChannelWeight ELSE rows[c].weight
  <2>1. rows[c] \in Row
    BY <1>2
  <2>2. loaded.channels[c].channel = [rows[c] EXCEPT !.weight = w]
    BY <1>1, <1>2 DEF LoadChannels
  <2>3. w \in Nat \ {0}
    BY <2>1, BalancerAssumption DEF Row
  <2> HIDE DEF w
  <2>4. loaded.channels[c].channel.weight = w
    BY <2>1, <2>2 DEF Row
  <2>5. loaded.channels[c].channel.priority \in Int
    BY <2>1, <2>2 DEF Row
  <2> QED BY <2>3, <2>4, <2>5
<1> QED BY <1>3, <1>4 DEF Weighed

\* So every behaviour begins, and stays, with a weighed view.
LEMMA WeighedInit == TablesInit => Weighed(view)
<1>1. ASSUME Init PROVE Weighed(view)
  <2>0. PICK rows \in Tables, off \in Flags :
          \E loaded \in Load(rows) :
            view = [loaded EXCEPT !.channels = [c \in DOMAIN @ |-> [@[c] EXCEPT !.disable = c \in off]]]
    BY <1>1 DEF Init
  <2>1. PICK loaded \in Load(rows) :
          view = [loaded EXCEPT !.channels = [c \in DOMAIN @ |-> [@[c] EXCEPT !.disable = c \in off]]]
    BY <2>0
  <2>2. \A c \in Channels : rows[c] \in Row
    BY RoutingAssumption DEF Tables
  <2>3. Weighed(loaded)
    BY <2>2, LoadWeighs
  <2> DEFINE chs == [c \in DOMAIN loaded.channels |-> [loaded.channels[c] EXCEPT !.disable = c \in off]]
  <2>4. view = [loaded EXCEPT !.channels = chs]
    BY <2>1
  <2>5. loaded = [channels |-> loaded.channels, match |-> loaded.match] /\ loaded.channels = LoadChannels(rows)
    BY DEF Load
  <2>6. \A c \in DOMAIN loaded.channels : chs[c].channel = loaded.channels[c].channel
    BY <2>5 DEF LoadChannels
  <2>7. DOMAIN chs = DOMAIN loaded.channels
    OBVIOUS
  <2> HIDE DEF chs
  <2>8. view.channels = chs
    BY <2>4, <2>5
  <2> QED BY <2>3, <2>6, <2>7, <2>8 DEF Weighed
<1>2. ASSUME OneRouting PROVE Weighed(view)
  <2> DEFINE rows == [c \in Channels |-> [status |-> Absent]]
  <2>1. \A c \in Channels : rows[c].status # Enabled
    BY DEF Absent, Enabled
  <2>2. view \in Load(rows)
    BY <1>2 DEF OneRouting
  <2> HIDE DEF rows
  <2> QED BY <2>1, <2>2, LoadWeighs
<1> QED BY <1>1, <1>2 DEF TablesInit

\* No step writes the view.
LEMMA WeighedHolds == TablesSpec => []Weighed(view)
<1>1. ASSUME Weighed(view), [TablesNext]_tableVars PROVE Weighed(view)'
  <2>1. view' = view
    BY <1>1 DEF TablesNext, tableVars, Routes, Prices, Step, vars
  <2> QED BY <1>1, <2>1 DEF Weighed
<1>2. TablesSpec => TablesInit /\ [][TablesNext]_tableVars
  BY PTL DEF TablesSpec
<1> QED BY <1>1, <1>2, WeighedInit, PTL

\* Next returns the usable channels of the greatest priority that has one, all
\* of them possible, for any rows, groups, wildcards, filters, flags and
\* cooldowns (model/balancer.go).
THEOREM NextIsBestAlways == TablesSpec => []NextIsBest
<1>1. ASSUME Weighed(view) PROVE NextIsBest
  <2>1. Usable = Valid(view, Listed(view, asked.group, RuleKey(view, asked.group, asked.model)),
                       asked.model, asked.filter, cooling)
    BY DEF Usable, Valid, Listed, Filtered
  <2> QED BY <1>1, <2>1, NextGivesBest DEF NextIsBest, Answer
<1> QED BY <1>1, WeighedHolds, PTL

\* Of the draws of balancer, each channel gets as many as its weight, for any
\* number of channels and any weights (model/balancer.go).
THEOREM DrawsFollowWeightsAlways == TablesSpec => []DrawsFollowWeights
<1>1. ASSUME Weighed(view) PROVE DrawsFollowWeights
  <2> DEFINE S == DOMAIN view.channels
  <2>1. ASSUME NEW c \in S
        PROVE  Cardinality({r \in 0..(TotalWeight(view, S) - 1) : Drawn(view, Seqs!SetToSeq(S), r, c)}) = Weight(view, c)
    BY <1>1, DrawsOf
  <2>2. \A c \in S : Weight(view, c) > 0
    BY <1>1 DEF Weighed, Weight
  <2> QED BY <2>1, <2>2 DEF DrawsFollowWeights, Weight
<1> QED BY <1>1, WeighedHolds, PTL

-----------------------------------------------------------------------------
(* Prices: statements, and what those who made them knew *)

\* The rows of the table.
PriceRows == [model : Names, price : Nat, locked : BOOLEAN]

\* No name has two of them.
OneEach(rows) == \A r, q \in rows : r.model = q.model => r = q

\* Statements are well formed: the form may be DefaultPrice, without a name.
WellFormed(st) ==
    /\ st.ins \subseteq PriceRows /\ OneEach(st.ins)
    /\ st.form \in [model : Names \cup {""}, price : Nat, locked : BOOLEAN]

\* A statement of an administrator inserts names that were not known.
Edits(st, names) ==
    /\ WellFormed(st) /\ st.spare = FALSE
    /\ \A r \in st.ins : r.model \notin names

\* One of a price list leaves locked rows alone, and inserts a name that was
\* not known, or one whose rows, known not to be locked, it deletes.
Applies(st, known) ==
    /\ WellFormed(st) /\ st.upd = {}
    /\ st.del = {} \/ st.spare = TRUE
    /\ \A r \in st.ins : \/ r.model \notin known.names
                         \/ r.model \in st.del /\ r.model \notin known.locks

\* What is left of an operation, by what it knew when it was called: one
\* statement, or the deletion and the insertion of UpdatePrice.
Fits(todo, sync, known) ==
    \/ \E st : todo = <<st>> /\ sync = TRUE /\ Applies(st, known)
    \/ \E st : todo = <<st>> /\ sync = FALSE /\ Edits(st, known.names)
    \/ \E st, next : /\ todo = <<st, next>> /\ sync = FALSE
                     /\ Edits(st, known.names) /\ Edits(next, known.names \ st.del)

\* A task that has statements left.
Plan(at, todo, then, sync, names, locks) ==
    [pc |-> "exec", at |-> at, todo |-> todo, then |-> then, sync |-> sync,
     known |-> [names |-> names, locks |-> locks]]

\* It fits what was known.
Planned(t) ==
    \E at, todo, then, sync, names, locks :
       /\ t = Plan(at, todo, then, sync, names, locks)
       /\ Fits(todo, sync, [names |-> names, locks |-> locks])
       /\ then # "exec"

\* What was written by one who knew the table: one row, the locked one if
\* there is one.
Standing(m) ==
    /\ \A r, q \in prices : r.model = m /\ q.model = m => r = q
    /\ \A p \in lock[m] : \E r \in prices : r.model = m /\ r.price = p /\ r.locked = TRUE

\* The inductive invariant: an operation executes what it planned when it was
\* called, and where what it knew is still so, the table keeps one row.
PricesInv ==
    /\ prices \subseteq PriceRows
    /\ DOMAIN task = Editors
    /\ \A e \in Editors : task[e].pc = "exec" => Planned(task[e])
    /\ \A m \in Names \ outdated : Standing(m)

\* A row after a statement was inserted, or comes from one of its name.
LEMMA AfterRows ==
    ASSUME NEW st, NEW x \in After(st), x \notin st.ins
    PROVE  \E r \in prices :
              /\ r.model \notin st.del \/ (st.spare /\ r.locked)
              /\ r.model \notin st.upd => x = r
              /\ r.model \in st.upd => x = [st.form EXCEPT !.model = r.model]
BY DEF After, Kept

\* A form that is written over a row keeps the row's name.
LEMMA FormRow ==
    ASSUME NEW f \in [model : Names \cup {""}, price : Nat, locked : BOOLEAN], NEW m \in Names
    PROVE  [f EXCEPT !.model = m] \in PriceRows /\ [f EXCEPT !.model = m].model = m
BY DEF PriceRows

\* A row keeps its name, and no row of a name is made of none.
LEMMA AfterNames ==
    ASSUME prices \subseteq PriceRows, NEW st, WellFormed(st), NEW x \in After(st), x \notin st.ins
    PROVE  /\ x \in PriceRows
           /\ \E r \in prices :
              /\ r.model = x.model
              /\ r.model \notin st.del \/ (st.spare /\ r.locked)
              /\ r.model \notin st.upd => x = r
              /\ r.model \in st.upd => x = [st.form EXCEPT !.model = r.model]
<1>1. PICK r \in prices :
              /\ r.model \notin st.del \/ (st.spare /\ r.locked)
              /\ r.model \notin st.upd => x = r
              /\ r.model \in st.upd => x = [st.form EXCEPT !.model = r.model]
  BY AfterRows
<1>2. r \in PriceRows /\ r.model \in Names
  BY DEF PriceRows
<1>3. x.model = r.model /\ x \in PriceRows
  BY <1>1, <1>2, FormRow DEF WellFormed
<1> QED BY <1>1, <1>3

\* The rows after a well-formed statement are rows.
LEMMA AfterTyped ==
    ASSUME prices \subseteq PriceRows, NEW st, WellFormed(st)
    PROVE  After(st) \subseteq PriceRows
<1>1. ASSUME NEW x \in After(st) PROVE x \in PriceRows
  <2>1. CASE x \in st.ins
    BY <2>1 DEF WellFormed
  <2>2. CASE x \notin st.ins
    BY <2>2, AfterNames
  <2> QED BY <2>1, <2>2
<1> QED BY <1>1

\* A statement makes no second row for a name that it does not insert beside
\* rows that stay.
LEMMA AfterOne ==
    ASSUME prices \subseteq PriceRows, NEW st, WellFormed(st), NEW m \in Names,
           \A r, q \in prices : r.model = m /\ q.model = m => r = q,
           m \in NamesIn(st.ins) =>
              \A r \in prices : r.model = m => r.model \in st.del /\ ~(st.spare /\ r.locked)
    PROVE  \A x, y \in After(st) : x.model = m /\ y.model = m => x = y
<1> SUFFICES ASSUME NEW x \in After(st), NEW y \in After(st), x.model = m, y.model = m
             PROVE  x = y
  OBVIOUS
<1>1. CASE m \in NamesIn(st.ins)
  <2>1. ASSUME NEW z \in After(st), z.model = m PROVE z \in st.ins
    BY <1>1, <2>1, AfterNames
  <2> QED BY <2>1 DEF WellFormed, OneEach
<1>2. CASE m \notin NamesIn(st.ins)
  <2>1. x \notin st.ins /\ y \notin st.ins
    BY <1>2 DEF NamesIn
  <2>2. PICK r \in prices : r.model = m /\ (m \notin st.upd => x = r)
                            /\ (m \in st.upd => x = [st.form EXCEPT !.model = m])
    BY <2>1, AfterNames
  <2>3. PICK q \in prices : q.model = m /\ (m \notin st.upd => y = q)
                            /\ (m \in st.upd => y = [st.form EXCEPT !.model = m])
    BY <2>1, AfterNames
  <2> QED BY <2>2, <2>3
<1> QED BY <1>1, <1>2

\* PricesStand follows: a row is its three fields.
LEMMA StandingMeans ==
    ASSUME prices \subseteq PriceRows, NEW m \in Names, Standing(m)
    PROVE  /\ Cardinality(RowsOf(prices, m)) <= 1
           /\ \A p \in lock[m] : RowsOf(prices, m) = {[model |-> m, price |-> p, locked |-> TRUE]}
<1>1. ASSUME NEW r \in RowsOf(prices, m) PROVE RowsOf(prices, m) = {r}
  BY <1>1 DEF RowsOf, Standing
<1>2. Cardinality(RowsOf(prices, m)) <= 1
  <2>1. CASE RowsOf(prices, m) = {}
    BY <2>1, FS_EmptySet
  <2>2. CASE RowsOf(prices, m) # {}
    <3>1. PICK r \in RowsOf(prices, m) : TRUE
      BY <2>2
    <3>2. Cardinality({r}) = 1
      BY FS_Singleton
    <3> QED BY <1>1, <3>1, <3>2
  <2> QED BY <2>1, <2>2
<1>3. ASSUME NEW p \in lock[m]
      PROVE  RowsOf(prices, m) = {[model |-> m, price |-> p, locked |-> TRUE]}
  <2>1. PICK r \in prices : r.model = m /\ r.price = p /\ r.locked = TRUE
    BY <1>3 DEF Standing
  <2>2. r = [model |-> m, price |-> p, locked |-> TRUE]
    BY <2>1 DEF PriceRows
  <2> QED BY <1>1, <2>1, <2>2 DEF RowsOf
<1> QED BY <1>2, <1>3

\* No operation has begun, and the table has one row per name.
LEMMA PricesInvInit == PricingInit => PricesInv
<1> SUFFICES ASSUME PricingInit PROVE PricesInv
  OBVIOUS
<1>1. prices \subseteq PriceRows /\ \A r, q \in prices : r.model = q.model => r = q
  BY PricingAssumption DEF PricingInit, PriceRows
<1>2. DOMAIN task = Editors /\ \A e \in Editors : task[e].pc # "exec"
  BY DEF PricingInit, Idle
<1>3. ASSUME NEW m \in Names PROVE Standing(m)
  <2>1. lock[m] = {r.price : r \in {q \in prices : q.model = m /\ q.locked}}
    BY DEF PricingInit, LocksOf
  <2>2. \A r \in prices : r.locked \in BOOLEAN
    BY <1>1 DEF PriceRows
  <2> QED BY <1>1, <2>1, <2>2 DEF Standing
<1> QED BY <1>1, <1>2, <1>3 DEF PricesInv

-----------------------------------------------------------------------------
(* What the operations plan *)

\* A deletion inserts nothing.
LEMMA DeleteEdits ==
    ASSUME NEW names, NEW known
    PROVE  Edits(Delete(names), known) /\ Delete(names).del = names
BY DEF Edits, WellFormed, OneEach, Delete, DefaultPrice

\* A statement with other rows to insert, or spared locked rows.
LEMMA StatementFields ==
    ASSUME NEW st, NEW d, NEW b, NEW u, NEW f, NEW i, NEW v,
           st = [del |-> d, spare |-> b, upd |-> u, form |-> f, ins |-> i]
    PROVE  /\ [st EXCEPT !.ins = v] = [del |-> d, spare |-> b, upd |-> u, form |-> f, ins |-> v]
           /\ [st EXCEPT !.spare = v] = [del |-> d, spare |-> v, upd |-> u, form |-> f, ins |-> i]
OBVIOUS

\* An insertion does nothing else.
LEMMA InsertFields ==
    ASSUME NEW rows
    PROVE  Insert(rows) = [del |-> {}, spare |-> FALSE, upd |-> {}, form |-> DefaultPrice, ins |-> rows]
<1> DEFINE no == FALSE
           none == {}
           st == Delete({})
<1>1. st = [del |-> none, spare |-> no, upd |-> none, form |-> DefaultPrice, ins |-> none]
  BY DEF Delete
<1> HIDE DEF no, none, st
<1>2. [st EXCEPT !.ins = rows] = [del |-> none, spare |-> no, upd |-> none, form |-> DefaultPrice, ins |-> rows]
  BY <1>1, StatementFields
<1> QED BY <1>2 DEF Insert, no, none, st

\* AddPrice, and the second half of UpdatePrice, insert a name that the copy
\* of the server does not have.
LEMMA InsertEdits ==
    ASSUME NEW row \in PriceRows, NEW known, row.model \notin known
    PROVE  Edits(Insert({row}), known)
BY InsertFields DEF Edits, WellFormed, OneEach, DefaultPrice

\* The other statements of SyncPricing are made from a deletion that spares
\* the locked rows.
LEMMA SyncFields ==
    ASSUME NEW mode, NEW new
    PROVE  LET st == SyncStatement(mode, new)
           IN  /\ st.ins = new /\ st.upd = {} /\ st.form = DefaultPrice
               /\ mode = "add" => st.del = {}
               /\ mode # "add" => st.spare = TRUE /\ st.del = IF mode = "update" THEN NamesIn(new) ELSE Names
<1>1. CASE mode = "add"
  BY <1>1, InsertFields DEF SyncStatement
<1>2. CASE mode # "add"
  <2> DEFINE d == IF mode = "update" THEN NamesIn(new) ELSE Names
             no == FALSE
             yes == TRUE
             none == {}
             all == Delete(d)
             spared == DeleteNotLock(d)
  <2>1. all = [del |-> d, spare |-> no, upd |-> none, form |-> DefaultPrice, ins |-> none]
    BY DEF Delete
  <2>2. spared = [all EXCEPT !.spare = yes]
    BY DEF DeleteNotLock
  <2>3. SyncStatement(mode, new) = [spared EXCEPT !.ins = new]
    BY <1>2 DEF SyncStatement
  <2> HIDE DEF d, no, yes, none, all, spared
  <2>4. spared = [del |-> d, spare |-> yes, upd |-> none, form |-> DefaultPrice, ins |-> none]
    BY <2>1, <2>2, StatementFields
  <2>5. SyncStatement(mode, new) = [del |-> d, spare |-> yes, upd |-> none, form |-> DefaultPrice, ins |-> new]
    BY <2>3, <2>4, StatementFields
  <2> QED BY <1>2, <2>5 DEF d, yes, none
<1> QED BY <1>1, <1>2

\* SyncPricing inserts the names that are new to what it read, or not locked in
\* it, and spares the locked rows, in each of its modes.
LEMMA SyncApplies ==
    ASSUME NEW mode \in {"add", "update", "overwrite"}, NEW row \in PriceRows, NEW known
    PROVE  Applies(SyncStatement(mode, SyncNew(mode, {row}, known)), known)
<1> DEFINE new == SyncNew(mode, {row}, known)
           st == SyncStatement(mode, new)
<1>1. new \subseteq {row}
  BY DEF SyncNew
<1>2. /\ st.ins = new /\ st.upd = {} /\ st.form = DefaultPrice
      /\ mode = "add" => st.del = {}
      /\ mode # "add" => st.spare = TRUE /\ st.del = IF mode = "update" THEN NamesIn(new) ELSE Names
  BY SyncFields
<1>3. WellFormed(st)
  <2>1. DefaultPrice \in [model : Names \cup {""}, price : Nat, locked : BOOLEAN]
    BY DEF DefaultPrice
  <2>2. st.ins \subseteq {row} /\ st.form = DefaultPrice
    BY <1>1, <1>2
  <2> HIDE DEF st, new
  <2> QED BY <2>1, <2>2 DEF WellFormed, OneEach
<1>4. \A r \in new : \/ r.model \notin known.names
                     \/ mode # "add" /\ r.model \in st.del /\ r.model \notin known.locks
  <2>1. row.model \in Names
    BY DEF PriceRows
  <2> HIDE DEF st
  <2> QED BY <1>2, <2>1 DEF SyncNew, NamesIn
<1> HIDE DEF st, new
<1>5. Applies(st, known)
  BY <1>2, <1>3, <1>4 DEF Applies
<1> QED BY <1>5 DEF st, new

\* BatchSetPrices inserts the names that are not among the originals.
LEMMA BatchEdits ==
    ASSUME NEW originals, NEW names \in SUBSET Names, NEW row \in PriceRows
    PROVE  Edits([del |-> originals \ names, spare |-> FALSE, upd |-> originals \cap names, form |-> row,
                  ins |-> {[row EXCEPT !.model = m] : m \in names \ originals}], originals)
<1> DEFINE ins == {[row EXCEPT !.model = m] : m \in names \ originals}
<1>1. ASSUME NEW r \in ins PROVE r \in PriceRows /\ r.model \notin originals /\ r = [row EXCEPT !.model = r.model]
  <2>1. PICK m \in names \ originals : r = [row EXCEPT !.model = m]
    BY <1>1
  <2>2. row \in [model : Names \cup {""}, price : Nat, locked : BOOLEAN]
    BY DEF PriceRows
  <2>3. r \in PriceRows /\ r.model = m
    BY <2>1, <2>2, FormRow
  <2> QED BY <2>1, <2>3
<1> HIDE DEF ins
<1>2. row \in [model : Names \cup {""}, price : Nat, locked : BOOLEAN]
  BY DEF PriceRows
<1>3. OneEach(ins)
  BY <1>1 DEF OneEach
<1>4. Edits([del |-> originals \ names, spare |-> FALSE, upd |-> originals \cap names, form |-> row,
             ins |-> ins], originals)
  BY <1>1, <1>2, <1>3 DEF Edits, WellFormed
<1> QED BY <1>4 DEF ins

-----------------------------------------------------------------------------
(* Steps *)

\* An operation that plans what fits leaves the rest as it was.
LEMMA DoesStep ==
    ASSUME PricesInv, NEW e \in Editors, NEW s, NEW todo, NEW then, NEW sync, NEW names, NEW locks,
           Does(e, s, todo, then, sync, [names |-> names, locks |-> locks]),
           Fits(todo, sync, [names |-> names, locks |-> locks]), then # "exec"
    PROVE  PricesInv'
<1>1. /\ task' = [task EXCEPT ![e] = Plan(s, todo, then, sync, names, locks)]
      /\ UNCHANGED <<prices, lock, outdated>>
  BY DEF Does, Plan
<1>2. Planned(Plan(s, todo, then, sync, names, locks))
  BY DEF Planned
<1>3. DOMAIN task' = Editors /\ \A o \in Editors : task'[o] = IF o = e THEN Plan(s, todo, then, sync, names, locks) ELSE task[o]
  BY <1>1 DEF PricesInv
<1>4. \A o \in Editors : task'[o].pc = "exec" => Planned(task'[o])
  BY <1>2, <1>3 DEF PricesInv
<1>5. \A m \in Names \ outdated : Standing(m)'
  BY <1>1 DEF PricesInv, Standing
<1> QED BY <1>1, <1>3, <1>4, <1>5 DEF PricesInv

\* What reads and swaps the copies, fails or ends.
LEMMA QuietStep ==
    ASSUME PricesInv, UNCHANGED <<prices, lock, outdated>>, NEW e \in Editors, NEW to,
           task' = [task EXCEPT ![e] = to], to.pc # "exec"
    PROVE  PricesInv'
<1>1. DOMAIN task' = Editors /\ \A o \in Editors : task'[o] = IF o = e THEN to ELSE task[o]
  BY DEF PricesInv
<1>2. \A o \in Editors : task'[o].pc = "exec" => Planned(task'[o])
  BY <1>1 DEF PricesInv
<1>3. \A m \in Names \ outdated : Standing(m)'
  BY DEF PricesInv, Standing
<1> QED BY <1>1, <1>2, <1>3 DEF PricesInv

\* Every operation plans statements that fit what its server knew.
LEMMA OperationStep ==
    ASSUME PricesInv, NEW e \in Editors, Operation(e)
    PROVE  PricesInv'
<1>1. PICK s \in Servers :
       \/ \E row \in PriceForms : AddPrice(e, s, row)
       \/ \E row \in PriceForms, m \in Names : UpdatePrice(e, s, m, row)
       \/ \E m \in Names : DeletePrice(e, s, m)
       \/ \E b \in Batches : BatchDeletePrices(e, s, b.names)
       \/ \E row \in PriceForms, b \in Batches : BatchSetPrices(e, s, b.originals, b.names, row)
       \/ \E row \in PriceForms, mode \in {"add", "update", "overwrite"} :
             SyncPricing(e, s, mode, {row}, KnownAt(s), "read")
       \/ \E row \in PriceForms, mode \in {"add", "update", "overwrite"} :
             s = Master /\ UpdatePriceByPriceService(e, mode, {row})
  BY DEF Operation
<1> DEFINE locks == LockedIn(copy[s].prices)
<1>2. PriceForms \subseteq PriceRows /\ KnownAt(s) = [names |-> Has(s), locks |-> locks]
  BY PricingAssumption DEF PriceRows, KnownAt, Known, Has
<1> HIDE DEF locks
<1>3. ASSUME NEW row \in PriceForms, AddPrice(e, s, row) PROVE PricesInv'
  <2>1. Edits(Insert({row}), Has(s)) /\ Does(e, s, <<Insert({row})>>, "read", FALSE, [names |-> Has(s), locks |-> locks])
    BY <1>2, <1>3, InsertEdits DEF AddPrice
  <2>2. Fits(<<Insert({row})>>, FALSE, [names |-> Has(s), locks |-> locks])
    BY <2>1 DEF Fits
  <2> QED BY <2>1, <2>2, DoesStep
<1>4. ASSUME NEW row \in PriceForms, NEW m \in Names, UpdatePrice(e, s, m, row) PROVE PricesInv'
  <2> DEFINE del == Delete({m})
             ins == Insert({row})
  <2>1. Does(e, s, <<del, ins>>, "read", FALSE, [names |-> Has(s), locks |-> locks])
    BY <1>2, <1>4 DEF UpdatePrice
  <2>2. Edits(del, Has(s)) /\ del.del = {m}
    BY DeleteEdits
  <2>3. row.model \notin Has(s) \ {m}
    BY <1>4 DEF UpdatePrice
  <2>4. Edits(ins, Has(s) \ del.del)
    BY <1>2, <2>2, <2>3, InsertEdits
  <2> HIDE DEF del, ins
  <2>5. Fits(<<del, ins>>, FALSE, [names |-> Has(s), locks |-> locks])
    BY <2>2, <2>4 DEF Fits
  <2> QED BY <2>1, <2>5, DoesStep
<1>5. ASSUME NEW names, NEW then, then # "exec", Does(e, s, <<Delete(names)>>, then, FALSE, KnownAt(s)) PROVE PricesInv'
  <2>1. Fits(<<Delete(names)>>, FALSE, [names |-> Has(s), locks |-> locks])
    BY DeleteEdits DEF Fits
  <2> QED BY <1>2, <1>5, <2>1, DoesStep
<1>6. ASSUME NEW row \in PriceForms, NEW b \in Batches, BatchSetPrices(e, s, b.originals, b.names, row)
      PROVE  PricesInv'
  <2> DEFINE st == [del |-> b.originals \ b.names, spare |-> FALSE, upd |-> b.originals \cap b.names, form |-> row,
                    ins |-> {[row EXCEPT !.model = m] : m \in b.names \ b.originals}]
             none == {}
  <2>1. b.names \in SUBSET Names
    BY PricingAssumption
  <2>2. Edits(st, b.originals)
    BY <1>2, <2>1, BatchEdits
  <2>3. Does(e, s, <<st>>, "read", FALSE, [names |-> b.originals, locks |-> none])
    BY <1>6 DEF BatchSetPrices
  <2> HIDE DEF st, none
  <2>4. Fits(<<st>>, FALSE, [names |-> b.originals, locks |-> none])
    BY <2>2 DEF Fits
  <2> QED BY <2>3, <2>4, DoesStep
<1>7. ASSUME NEW row \in PriceForms, NEW mode \in {"add", "update", "overwrite"}, NEW at, NEW table, NEW then, then # "exec",
             SyncPricing(e, at, mode, {row}, Known(table), then)
      PROVE  PricesInv'
  <2> DEFINE names == NamesIn(table)
             locked == LockedIn(table)
             new == SyncNew(mode, {row}, Known(table))
             st == SyncStatement(mode, new)
  <2>1. Known(table) = [names |-> names, locks |-> locked]
    BY DEF Known
  <2>2. CASE new # {} /\ Does(e, at, <<st>>, then, TRUE, Known(table))
    <3>1. Applies(st, Known(table))
      BY <1>2, SyncApplies
    <3> HIDE DEF names, locked, new, st
    <3>2. Fits(<<st>>, TRUE, Known(table))
      BY <3>1 DEF Fits
    <3>3. Does(e, at, <<st>>, then, TRUE, [names |-> names, locks |-> locked])
      BY <2>1, <2>2
    <3>4. Fits(<<st>>, TRUE, [names |-> names, locks |-> locked]) /\ then # "exec"
      BY <1>7, <2>1, <3>2
    <3> QED BY <3>3, <3>4, DoesStep
  <2>3. CASE UNCHANGED <<prices, copy, task, priceFails, lock, outdated>>
    BY <2>3 DEF PricesInv, Standing
  <2> QED BY <1>7, <2>2, <2>3 DEF SyncPricing
<1> QED BY <1>1, <1>3, <1>4, <1>5, <1>6, <1>7 DEF DeletePrice, BatchDeletePrices, KnownAt, UpdatePriceByPriceService

\* What a statement may insert beside the rows that stay, by one who knew the
\* table for that name.
LEMMA Inserts ==
    ASSUME prices \subseteq PriceRows, NEW todo, NEW sync, NEW known, Fits(todo, sync, known),
           NEW m \in NamesIn(Head(todo).ins),
           (m \in known.names) = (m \in NamesIn(prices)),
           sync => (m \in known.locks) = (m \in LockedIn(prices))
    PROVE  \A r \in prices : r.model = m => r.model \in Head(todo).del /\ ~(Head(todo).spare /\ r.locked)
<1> SUFFICES ASSUME NEW r \in prices, r.model = m
             PROVE  r.model \in Head(todo).del /\ ~(Head(todo).spare /\ r.locked)
  OBVIOUS
<1>1. m \in NamesIn(prices)
  BY DEF NamesIn
<1>2. PICK i \in Head(todo).ins : i.model = m
  BY DEF NamesIn
<1>3. ASSUME NEW st, Head(todo) = st, Edits(st, known.names) PROVE FALSE
  BY <1>1, <1>2, <1>3 DEF Edits
<1>4. ASSUME NEW st, Head(todo) = st, sync = TRUE, Applies(st, known)
      PROVE  r.model \in Head(todo).del /\ ~(Head(todo).spare /\ r.locked)
  <2>1. m \in st.del /\ m \notin known.locks
    BY <1>1, <1>2, <1>4 DEF Applies
  <2>2. m \notin LockedIn(prices)
    BY <1>4, <2>1
  <2>3. r.locked = FALSE
    BY <2>2 DEF LockedIn, NamesIn, PriceRows
  <2> QED BY <1>4, <2>1, <2>3
<1>5. CASE \E st : todo = <<st>> /\ sync = TRUE /\ Applies(st, known)
  BY <1>4, <1>5
<1>6. CASE \E st : todo = <<st>> /\ sync = FALSE /\ Edits(st, known.names)
  BY <1>3, <1>6
<1>7. CASE \E st, next : /\ todo = <<st, next>> /\ sync = FALSE
                         /\ Edits(st, known.names) /\ Edits(next, known.names \ st.del)
  <2>1. PICK st, next : todo = <<st, next>> /\ Edits(st, known.names)
    BY <1>7
  <2>2. Head(todo) = st
    BY <2>1
  <2> QED BY <1>3, <2>1, <2>2
<1> QED BY <1>5, <1>6, <1>7 DEF Fits

\* The plan after its first statement.
Onward(t, rest, less) == [t EXCEPT !.todo = rest, !.known.names = less]

\* It is a plan.
LEMMA NextPlan ==
    ASSUME NEW at, NEW todo, NEW then, NEW sync, NEW names, NEW locks, NEW t,
           t = Plan(at, todo, then, sync, names, locks), NEW rest, NEW less
    PROVE  Onward(t, rest, less) = Plan(at, rest, then, sync, less, locks)
<1> DEFINE known == [names |-> names, locks |-> locks]
           u == [t EXCEPT !.todo = rest]
<1>1. t = [pc |-> "exec", at |-> at, todo |-> todo, then |-> then, sync |-> sync, known |-> known]
  BY DEF Plan
<1> HIDE DEF known
<1>2. u = [pc |-> "exec", at |-> at, todo |-> rest, then |-> then, sync |-> sync, known |-> known]
  BY <1>1
<1> HIDE DEF u
<1>3. [known EXCEPT !.names = less] = [names |-> less, locks |-> locks]
  BY DEF known
<1>4. [u EXCEPT !.known.names = less] = Plan(at, rest, then, sync, less, locks)
  BY <1>2, <1>3 DEF Plan
<1> QED BY <1>4 DEF u, Onward

\* The statement of an operation keeps what the inserted names of one who knew
\* the table have.
LEMMA ExecuteStep ==
    ASSUME PricesInv, NEW e \in Editors, Execute(e)
    PROVE  PricesInv'
<1>1. PICK at, todo, then, sync, names, locks :
          /\ task[e] = Plan(at, todo, then, sync, names, locks)
          /\ Fits(todo, sync, [names |-> names, locks |-> locks]) /\ then # "exec"
  BY DEF PricesInv, Planned, Execute
<1> DEFINE known == [names |-> names, locks |-> locks]
           st == Head(todo)
           t == task[e]
<1>2. t.todo = todo /\ t.then = then /\ t.sync = sync /\ t.known = known /\ t.at = at
  BY <1>1 DEF Plan
<1>3. known.names = names /\ known.locks = locks
  OBVIOUS
<1>4. /\ prices' = After(st)
      /\ lock' = IF sync THEN lock
                 ELSE [m \in Names |-> IF m \in st.del \cup st.upd \cup NamesIn(st.ins)
                                       THEN LocksOf(prices')[m] ELSE lock[m]]
      /\ outdated' = outdated \cup
              {m \in NamesIn(st.ins) : \/ (m \in names) # (m \in NamesIn(prices))
                                       \/ sync /\ (m \in locks) # (m \in LockedIn(prices))}
      /\ task' = [task EXCEPT ![e] =
              IF Len(todo) > 1 THEN [t EXCEPT !.todo = Tail(@), !.known.names = @ \ st.del]
              ELSE IF then = "end" THEN Idle
              ELSE [pc |-> then, at |-> at, todo |-> todo]]
  BY <1>2, <1>3 DEF Execute
<1>5. /\ WellFormed(st) /\ sync \in BOOLEAN
      /\ sync = TRUE => st.upd = {} /\ (st.del = {} \/ st.spare = TRUE)
      /\ sync = FALSE => st.spare = FALSE
  <2> HIDE DEF known
  <2>1. CASE \E s : todo = <<s>> /\ sync = TRUE /\ Applies(s, known)
    BY <1>1, <2>1 DEF Applies
  <2>2. CASE \E s : todo = <<s>> /\ sync = FALSE /\ Edits(s, known.names)
    <3>1. PICK s : todo = <<s>> /\ sync = FALSE /\ Edits(s, known.names)
      BY <2>2
    <3>2. st = s
      BY <3>1
    <3> QED BY <3>1, <3>2 DEF Edits
  <2>3. CASE \E s, next : /\ todo = <<s, next>> /\ sync = FALSE
                         /\ Edits(s, known.names) /\ Edits(next, known.names \ s.del)
    <3>1. PICK s, next : todo = <<s, next>> /\ sync = FALSE /\ Edits(s, known.names)
      BY <2>3
    <3>2. st = s
      BY <3>1
    <3> QED BY <3>1, <3>2 DEF Edits
  <2> QED BY <1>1, <2>1, <2>2, <2>3 DEF Fits, known
<1>6. prices' \subseteq PriceRows
  BY <1>4, <1>5, AfterTyped DEF PricesInv
<1>7. ASSUME NEW m \in Names \ outdated'
      PROVE  Standing(m)'
  <2>1. m \notin outdated /\ Standing(m)
    BY <1>4, <1>7 DEF PricesInv
  <2>2. m \in NamesIn(st.ins) =>
           \A r \in prices : r.model = m => r.model \in st.del /\ ~(st.spare /\ r.locked)
    <3> SUFFICES ASSUME m \in NamesIn(st.ins)
                 PROVE  \A r \in prices : r.model = m => r.model \in st.del /\ ~(st.spare /\ r.locked)
      OBVIOUS
    <3>1. (m \in known.names) = (m \in NamesIn(prices)) /\ (sync => (m \in known.locks) = (m \in LockedIn(prices)))
      BY <1>3, <1>4, <1>7
    <3> HIDE DEF known
    <3> QED BY <1>1, <3>1, Inserts DEF PricesInv, known
  <2>3. \A x, y \in After(st) : x.model = m /\ y.model = m => x = y
    BY <1>5, <2>1, <2>2, AfterOne DEF PricesInv, Standing
  <2>4. ASSUME NEW p \in lock'[m]
        PROVE  \E r \in After(st) : r.model = m /\ r.price = p /\ r.locked = TRUE
    <3>1. CASE sync = FALSE /\ m \in st.del \cup st.upd \cup NamesIn(st.ins)
      <4>1. p \in {r.price : r \in {q \in prices' : q.model = m /\ q.locked}}
        BY <1>4, <1>7, <2>4, <3>1 DEF LocksOf
      <4>2. PICK r \in prices' : r.model = m /\ r.locked /\ p = r.price
        BY <4>1
      <4>3. r.locked = TRUE
        BY <1>6, <4>2 DEF PriceRows
      <4> QED BY <1>4, <4>2, <4>3
    <3>2. CASE ~(sync = FALSE /\ m \in st.del \cup st.upd \cup NamesIn(st.ins))
      <4>1. p \in lock[m]
        BY <1>4, <1>5, <1>7, <2>4, <3>2
      <4>2. PICK r \in prices : r.model = m /\ r.price = p /\ r.locked = TRUE
        BY <2>1, <4>1 DEF Standing
      <4>3. m \notin st.upd /\ (m \notin st.del \/ (st.spare /\ r.locked))
        BY <1>5, <3>2, <4>2
      <4>4. r \in After(st)
        BY <4>2, <4>3 DEF After, Kept
      <4> QED BY <4>2, <4>4
    <3> QED BY <3>1, <3>2
  <2> QED BY <1>4, <2>3, <2>4 DEF Standing
<1>8. DOMAIN task' = Editors /\ \A o \in Editors : task'[o].pc = "exec" => Planned(task'[o])
  <2>1. CASE Len(todo) > 1
    <3>1. PICK s, next : todo = <<s, next>> /\ sync = FALSE /\ Edits(next, names \ s.del)
      <4>1. \A s : Len(<<s>>) = 1
        OBVIOUS
      <4>2. ~\E s : todo = <<s>>
        <5> SUFFICES ASSUME NEW s, todo = <<s>> PROVE FALSE
          OBVIOUS
        <5>1. Len(todo) = 1
          BY <4>1
        <5> QED BY <2>1, <5>1
      <4> QED BY <1>1, <4>2 DEF Fits
    <3>2. st = s /\ Tail(todo) = <<next>>
      BY <3>1
    <3> DEFINE rest == Plan(at, <<next>>, then, sync, names \ s.del, locks)
    <3>3. [t EXCEPT !.todo = Tail(@), !.known.names = @ \ st.del] = rest
      <4> DEFINE tail == Tail(t.todo)
                 less == t.known.names \ st.del
      <4>1. tail = <<next>> /\ less = names \ s.del
        BY <1>2, <1>3, <3>2
      <4> HIDE DEF tail, less
      <4>2. Onward(t, tail, less) = Plan(at, tail, then, sync, less, locks)
        <5>1. t = Plan(at, todo, then, sync, names, locks)
          BY <1>1
        <5> HIDE DEF t
        <5> QED BY <5>1, NextPlan
      <4> QED BY <4>1, <4>2 DEF tail, less, Onward
    <3>4. Planned(rest)
      <4>1. Fits(<<next>>, sync, [names |-> names \ s.del, locks |-> locks])
        BY <3>1 DEF Fits
      <4> QED BY <1>1, <4>1 DEF Planned
    <3>5. task' = [task EXCEPT ![e] = rest]
      BY <1>4, <2>1, <3>3
    <3> HIDE DEF rest
    <3> QED BY <3>4, <3>5 DEF PricesInv
  <2>2. CASE ~(Len(todo) > 1)
    <3> QED BY <1>1, <1>4, <2>2 DEF PricesInv, Idle
  <2> QED BY <2>1, <2>2
<1> HIDE DEF known
<1> QED BY <1>6, <1>7, <1>8 DEF PricesInv

\* Every step on the prices keeps the invariant.
LEMMA PricesInvStep ==
    ASSUME PricesInv, [PricingNext]_priceVars
    PROVE  PricesInv'
<1>1. CASE UNCHANGED priceVars
  BY <1>1 DEF PricesInv, Standing, priceVars
<1>2. ASSUME NEW e \in Editors, Operation(e) PROVE PricesInv'
  BY <1>2, OperationStep
<1>3. ASSUME NEW e \in Editors, PriceStep(e) PROVE PricesInv'
  <2>0. Idle.pc # "exec"
    BY DEF Idle
  <2>1. CASE Execute(e)
    BY <2>1, ExecuteStep
  <2>2. CASE Fail(e)
    BY <2>2, <2>0, QuietStep DEF Fail
  <2>3. CASE DropFromCopy(e)
    BY <2>3, <2>0, QuietStep DEF DropFromCopy
  <2>4. CASE InitRead(e)
    <3>1. PICK to : task' = [task EXCEPT ![e] = to] /\ to.pc # "exec"
      BY <2>4 DEF InitRead, Idle
    <3> QED BY <2>4, <3>1, QuietStep DEF InitRead
  <2>5. CASE InitSwap(e)
    BY <2>5, <2>0, QuietStep DEF InitSwap
  <2> QED BY <1>3, <2>1, <2>2, <2>3, <2>4, <2>5 DEF PriceStep
<1>4. ASSUME NEW s \in Servers \ {Master}, Reload(s) PROVE PricesInv'
  <2>1. Loop[s] \in Editors
    BY PricingAssumption
  <2> DEFINE to == [pc |-> "read", at |-> s]
  <2>2. task' = [task EXCEPT ![Loop[s]] = to] /\ UNCHANGED <<prices, lock, outdated>> /\ to.pc # "exec"
    BY <1>4 DEF Reload
  <2> HIDE DEF to
  <2> QED BY <2>1, <2>2, QuietStep
<1> QED BY <1>1, <1>2, <1>3, <1>4 DEF PricingNext

\* A name has one row, and the price that an administrator locked stays its
\* price, whatever operations and price lists cross, but for names that were
\* written by one who knew an older table (model/pricing.go).
THEOREM PricesStandAlways == TablesSpec => []PricesStand
<1>1. TablesInit => PricesInv
  BY PricesInvInit DEF TablesInit
<1>2. ASSUME PricesInv, [TablesNext]_tableVars PROVE PricesInv'
  <2>1. [PricingNext]_priceVars
    BY <1>2 DEF TablesNext, tableVars, Routes, Prices
  <2> QED BY <1>2, <2>1, PricesInvStep
<1>3. PricesInv => PricesStand
  BY StandingMeans DEF PricesInv, PricesStand
<1>4. TablesSpec => TablesInit /\ [][TablesNext]_tableVars
  BY PTL DEF TablesSpec
<1> QED BY <1>1, <1>2, <1>3, <1>4, PTL
=============================================================================

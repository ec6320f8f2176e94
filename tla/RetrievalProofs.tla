--------------------------- MODULE RetrievalProofs ---------------------------
(***************************************************************************)
(* Theorems about a search (Retrieval), for any chunks and collections,    *)
(* any request and any limits: a semantic search returns the best or says  *)
(* otherwise, the fusion keeps what both branches agree on, the status     *)
(* tells when the sparse branch is used, and no lexical match is lost in   *)
(* silence.                                                                *)
(*                                                                         *)
(* A search takes a few steps; what there is to prove is what its steps    *)
(* compute.  That a finite set can be put in order rests on counting: what *)
(* is before an element has a size, no two elements have the same, and     *)
(* there are as many sizes as elements (OrderedIsSorted).                  *)
(***************************************************************************)
EXTENDS Retrieval, FiniteSetTheorems, TLAPS

-----------------------------------------------------------------------------
(* Lemmas *)

Ranking(branch) ==
  /\ Len(branch) \in Nat /\ DOMAIN branch = 1..Len(branch)
  /\ \A m, n \in DOMAIN branch : branch[m] = branch[n] => m = n

\* A ranking of a finite set has all its elements: a sequence of that length without
\* repetition leaves none out.
LEMMA RankingHasAll ==
  ASSUME NEW S, IsFiniteSet(S), NEW ranking \in SetToSeqs(S)
  PROVE  ToSet(ranking) = S /\ Ranking(ranking)
<1> DEFINE n == Cardinality(S)
<1>1. n \in Nat
  BY FS_CardinalityType
<1>2. /\ ranking \in [1..n -> S]
      /\ \A i, j \in 1..n : i # j => ranking[i] # ranking[j]
  BY DEF SetToSeqs
<1>3. ranking \in Injection(1..n, S)
  BY <1>2 DEF Injection, IsInjective
<1>4. IsFiniteSet(1..n) /\ Cardinality(1..n) = n
  BY <1>1, FS_Interval
<1>5. ranking \in Surjection(1..n, S)
  BY <1>3, <1>4, FS_Injection
<1>6. \A x \in S : \E i \in 1..n : ranking[i] = x
  BY <1>5 DEF Surjection
<1>7. Ranking(ranking)
  <2>1. DOMAIN ranking = 1..n /\ Len(ranking) = n
    BY <1>1, <1>2
  <2> QED BY <1>1, <1>2, <2>1 DEF Ranking
<1> QED BY <1>2, <1>6, <1>7 DEF ToSet

-----------------------------------------------------------------------------
(* Orders *)

\* A strict order of all of S.
Orders(before, S) ==
  /\ \A i \in S : <<i, i>> \notin before
  /\ \A i, j, k \in S : <<i, j>> \in before /\ <<j, k>> \in before => <<i, k>> \in before
  /\ \A i, j \in S : i # j => <<i, j>> \in before \/ <<j, i>> \in before

Before(before, S, i) == {j \in S : <<j, i>> \in before}

\* A finite set has an element for every place in the order: what is before an element
\* has a size of its own below that of the set, and there are as many sizes as elements.
LEMMA OrderedIsSorted ==
  ASSUME NEW S, IsFiniteSet(S), NEW before, Orders(before, S)
  PROVE  /\ Cardinality(S) \in Nat
         /\ Ordered(S, before) \in [1..Cardinality(S) -> S]
         /\ \A n \in 1..Cardinality(S) :
              Cardinality(Before(before, S, Ordered(S, before)[n])) = n - 1
         /\ \A i \in S : \E n \in 1..Cardinality(S) : Ordered(S, before)[n] = i
         /\ \A m, n \in 1..Cardinality(S) :
              m < n => <<Ordered(S, before)[m], Ordered(S, before)[n]>> \in before
         /\ \A i, j \in S : Cardinality(Before(before, S, i)) = Cardinality(Before(before, S, j)) => i = j
<1> DEFINE N == Cardinality(S)
           below == [i \in S |-> Cardinality(Before(before, S, i))]
<1>1. N \in Nat
  BY FS_CardinalityType
<1>2. ASSUME NEW i \in S
      PROVE  /\ IsFiniteSet(Before(before, S, i))
             /\ below[i] \in 0..(N - 1)
  <2>1. Before(before, S, i) \subseteq S /\ i \notin Before(before, S, i)
    BY DEF Before, Orders
  <2>2. IsFiniteSet(Before(before, S, i)) /\ Cardinality(Before(before, S, i)) <= N
    BY <2>1, FS_Subset
  <2>3. Cardinality(Before(before, S, i)) # N
    BY <2>1, FS_Subset
  <2>4. Cardinality(Before(before, S, i)) \in Nat
    BY <2>2, FS_CardinalityType
  <2> QED BY <1>1, <2>2, <2>3, <2>4
<1>3. ASSUME NEW i \in S, NEW j \in S, <<j, i>> \in before
      PROVE  below[j] < below[i]
  <2>1. Before(before, S, j) \subseteq Before(before, S, i)
    BY <1>3 DEF Before, Orders
  <2>2. j \in Before(before, S, i) /\ j \notin Before(before, S, j)
    BY <1>3 DEF Before, Orders
  <2>3. /\ Cardinality(Before(before, S, j)) <= Cardinality(Before(before, S, i))
        /\ Cardinality(Before(before, S, j)) # Cardinality(Before(before, S, i))
    BY <1>2, <2>1, <2>2, FS_Subset
  <2>4. below[i] \in 0..(N - 1) /\ below[j] \in 0..(N - 1)
    BY <1>2
  <2> QED BY <1>1, <2>3, <2>4
<1>4. \A i, j \in S : below[i] = below[j] => i = j
  <2> SUFFICES ASSUME NEW i \in S, NEW j \in S, i # j PROVE below[i] # below[j]
    OBVIOUS
  <2>1. <<i, j>> \in before \/ <<j, i>> \in before
    BY DEF Orders
  <2>2. below[i] \in 0..(N - 1) /\ below[j] \in 0..(N - 1)
    BY <1>2
  <2>3. below[i] < below[j] \/ below[j] < below[i]
    BY <1>3, <2>1
  <2> HIDE DEF below
  <2> QED BY <1>1, <2>2, <2>3
<1>5. \A m \in 0..(N - 1) : \E i \in S : below[i] = m
  <2>1. below \in Injection(S, 0..(N - 1))
    <3>1. below \in [S -> 0..(N - 1)]
      BY <1>2
    <3> HIDE DEF below
    <3> QED BY <1>4, <3>1 DEF Injection, IsInjective
  <2>2. IsFiniteSet(0..(N - 1)) /\ Cardinality(0..(N - 1)) = N
    BY <1>1, FS_Interval
  <2> HIDE DEF below
  <2>3. below \in Surjection(S, 0..(N - 1))
    BY <2>1, <2>2, FS_Injection
  <2> QED BY <2>3 DEF Surjection
<1>6. ASSUME NEW n \in 1..N
      PROVE  /\ Ordered(S, before)[n] \in S
             /\ below[Ordered(S, before)[n]] = n - 1
  <2>1. PICK i \in S : below[i] = n - 1
    BY <1>1, <1>5
  <2>2. Ordered(S, before)[n] = CHOOSE x \in S : below[x] = n - 1
    BY DEF Ordered, Before
  <2> HIDE DEF below
  <2> QED BY <2>1, <2>2
<1>7. Ordered(S, before) \in [1..N -> S]
  <2> DEFINE at(n) == CHOOSE i \in S : Cardinality({j \in S : <<j, i>> \in before}) = n - 1
  <2>1. Ordered(S, before) = [n \in 1..N |-> at(n)]
    BY DEF Ordered
  <2> HIDE DEF at
  <2> QED BY <1>6, <2>1
<1>8. ASSUME NEW i \in S PROVE \E n \in 1..N : Ordered(S, before)[n] = i
  <2>1. below[i] \in 0..(N - 1)
    BY <1>2
  <2> DEFINE n == below[i] + 1
  <2> HIDE DEF below
  <2>2. n \in 1..N /\ below[i] = n - 1
    BY <1>1, <2>1
  <2>3. Ordered(S, before)[n] \in S /\ below[Ordered(S, before)[n]] = below[i]
    BY <1>6, <2>2
  <2> QED BY <1>4, <2>2, <2>3
<1>9. ASSUME NEW m \in 1..N, NEW n \in 1..N, m < n
      PROVE  <<Ordered(S, before)[m], Ordered(S, before)[n]>> \in before
  <2> DEFINE i == Ordered(S, before)[m]
             j == Ordered(S, before)[n]
  <2>1. i \in S /\ j \in S /\ below[i] = m - 1 /\ below[j] = n - 1
    BY <1>6
  <2> HIDE DEF below, i, j
  <2>2. i # j /\ ~(below[j] < below[i])
    BY <1>1, <1>9, <2>1
  <2>3. <<i, j>> \in before
    BY <1>3, <2>1, <2>2 DEF Orders
  <2> QED BY <2>3 DEF i, j
<1>10. \A n \in 1..N : Cardinality(Before(before, S, Ordered(S, before)[n])) = n - 1
  BY <1>6
<1>11. \A i, j \in S : Cardinality(Before(before, S, i)) = Cardinality(Before(before, S, j)) => i = j
  BY <1>4
<1> QED BY <1>1, <1>7, <1>8, <1>9, <1>10, <1>11

-----------------------------------------------------------------------------
(* Numbers *)

LEMMA MinOfTwo ==
  ASSUME NEW a \in Nat, NEW b \in Nat
  PROVE  Min({a, b}) = IF a <= b THEN a ELSE b
<1>1. CASE a <= b
  <2>1. a \in {a, b} /\ \A y \in {a, b} : a <= y
    BY <1>1
  <2>2. \A x \in {a, b} : (\A y \in {a, b} : x <= y) => x = a
    BY <1>1
  <2> QED BY <1>1, <2>1, <2>2 DEF Min
<1>2. CASE ~(a <= b)
  <2>1. b \in {a, b} /\ \A y \in {a, b} : b <= y
    BY <1>2
  <2>2. \A x \in {a, b} : (\A y \in {a, b} : x <= y) => x = b
    BY <1>2
  <2> QED BY <1>2, <2>1, <2>2 DEF Min
<1> QED BY <1>1, <1>2

LEMMA MaxOfTwo ==
  ASSUME NEW a \in Nat, NEW b \in Nat
  PROVE  Max({a, b}) \in Nat
<1>1. CASE a >= b
  <2>1. a \in {a, b} /\ \A y \in {a, b} : a >= y
    BY <1>1
  <2> QED BY <2>1 DEF Max
<1>2. CASE ~(a >= b)
  <2>1. b \in {a, b} /\ \A y \in {a, b} : b >= y
    BY <1>2
  <2> QED BY <2>1 DEF Max
<1> QED BY <1>1, <1>2

-----------------------------------------------------------------------------
(* Fractions                                                               *)

Fraction == Nat \X (Nat \ {0})

LEMMA ProductsGrow ==
  ASSUME NEW a \in Int, NEW b \in Int, NEW c \in Nat \ {0}
  PROVE  /\ a > b <=> a * c > b * c
         /\ a >= b <=> a * c >= b * c
OBVIOUS

LEMMA AboveIsTransitive ==
  ASSUME NEW x \in Fraction, NEW y \in Fraction, NEW z \in Fraction
  PROVE  /\ Above(x, y) /\ Above(y, z) => Above(x, z)
         /\ Above(x, y) /\ ~Above(z, y) => Above(x, z)
         /\ ~Above(y, x) /\ Above(y, z) => Above(x, z)
         /\ ~Above(y, x) /\ ~Above(z, y) => ~Above(z, x)
<1> DEFINE a == x[1]
           b == x[2]
           c == y[1]
           d == y[2]
           e == z[1]
           f == z[2]
<1>1. /\ {a, c, e} \subseteq Nat /\ {b, d, f} \subseteq Nat \ {0}
      /\ Above(x, y) <=> a * d > c * b
      /\ Above(y, x) <=> c * b > a * d
      /\ Above(y, z) <=> c * f > e * d
      /\ Above(z, y) <=> e * d > c * f
      /\ Above(x, z) <=> a * f > e * b
      /\ Above(z, x) <=> e * b > a * f
  BY DEF Fraction, Above
<1> HIDE DEF a, b, c, d, e, f
<1>2. /\ (a * d) * f = (a * f) * d /\ (c * b) * f = (c * f) * b /\ (e * d) * b = (e * b) * d
      /\ {a * d, c * b, c * f, e * d, a * f, e * b} \subseteq Int
  BY <1>1
<1>3. /\ a * d > c * b <=> (a * f) * d > (c * f) * b
      /\ a * d >= c * b <=> (a * f) * d >= (c * f) * b
  BY <1>1, <1>2, ProductsGrow
<1>4. /\ c * f > e * d <=> (c * f) * b > (e * b) * d
      /\ c * f >= e * d <=> (c * f) * b >= (e * b) * d
  BY <1>1, <1>2, ProductsGrow
<1>5. /\ a * f > e * b <=> (a * f) * d > (e * b) * d
      /\ a * f >= e * b <=> (a * f) * d >= (e * b) * d
  BY <1>1, <1>2, ProductsGrow
<1> DEFINE u == (a * f) * d
           v == (c * f) * b
           w == (e * b) * d
<1>6. u \in Int /\ v \in Int /\ w \in Int
  BY <1>1
<1> HIDE DEF u, v, w
<1>7. /\ Above(x, y) <=> u > v
      /\ ~Above(y, x) <=> u >= v
      /\ Above(y, z) <=> v > w
      /\ ~Above(z, y) <=> v >= w
      /\ Above(x, z) <=> u > w
      /\ ~Above(z, x) <=> u >= w
  BY <1>1, <1>2, <1>3, <1>4, <1>5 DEF u, v, w
<1> QED BY <1>6, <1>7

\* A sum of fractions is above another when one of them is and the other is not below.
LEMMA PlusIsAbove ==
  ASSUME NEW x \in Fraction, NEW y \in Fraction, NEW u \in Fraction, NEW v \in Fraction,
         ~Above(u, x), ~Above(v, y), Above(x, u) \/ Above(y, v)
  PROVE  Above(Plus(x, y), Plus(u, v))
<1> DEFINE a == x[1]
           b == x[2]
           c == y[1]
           d == y[2]
           e == u[1]
           f == u[2]
           g == v[1]
           h == v[2]
<1>1. /\ {a, c, e, g} \subseteq Nat /\ {b, d, f, h} \subseteq Nat \ {0}
      /\ a * f >= e * b /\ c * h >= g * d
      /\ a * f > e * b \/ c * h > g * d
  BY DEF Fraction, Above
<1>2. Above(Plus(x, y), Plus(u, v))
        <=> (a * d + c * b) * (f * h) > (e * h + g * f) * (b * d)
  BY DEF Above, Plus
<1> HIDE DEF a, b, c, d, e, f, g, h
<1>3. /\ (a * d + c * b) * (f * h) = (a * f) * (d * h) + (c * h) * (b * f)
      /\ (e * h + g * f) * (b * d) = (e * b) * (d * h) + (g * d) * (b * f)
  BY <1>1
<1>4. /\ {a * f, e * b, c * h, g * d} \subseteq Nat
      /\ d * h \in Nat \ {0} /\ b * f \in Nat \ {0}
  BY <1>1
<1>5. /\ (a * f) * (d * h) >= (e * b) * (d * h)
      /\ (c * h) * (b * f) >= (g * d) * (b * f)
      /\ \/ (a * f) * (d * h) > (e * b) * (d * h)
         \/ (c * h) * (b * f) > (g * d) * (b * f)
  BY <1>1, <1>4, ProductsGrow
<1> DEFINE p == (a * f) * (d * h)
           q == (e * b) * (d * h)
           r == (c * h) * (b * f)
           s == (g * d) * (b * f)
<1>6. {p, q, r, s} \subseteq Int
  BY <1>4
<1>7. p >= q /\ r >= s /\ (p > q \/ r > s)
  BY <1>5
<1>8. Above(Plus(x, y), Plus(u, v)) <=> p + r > q + s
  BY <1>2, <1>3
<1> HIDE DEF p, q, r, s
<1> QED BY <1>6, <1>7, <1>8

-----------------------------------------------------------------------------
(* Rankings by number *)

Smaller(S) == {p \in S \X S : p[1] < p[2]}

LEMMA NumbersAreOrdered ==
  ASSUME NEW S \in SUBSET Nat
  PROVE  /\ Orders(Smaller(S), S)
         /\ \A i \in S : Before(Smaller(S), S, i) = {j \in S : j < i}
<1>1. \A i, j \in S : <<i, j>> \in Smaller(S) <=> i < j
  BY DEF Smaller
<1>2. Orders(Smaller(S), S)
  BY <1>1 DEF Orders
<1> QED BY <1>1, <1>2 DEF Before

\* Numbers in ascending order: each stands behind as many as are smaller.
LEMMA AscendingIsSorted ==
  ASSUME NEW S \in SUBSET Nat, IsFiniteSet(S)
  PROVE  /\ Cardinality(S) \in Nat
         /\ Ascending(S) \in [1..Cardinality(S) -> S] /\ Len(Ascending(S)) = Cardinality(S)
         /\ \A n \in 1..Cardinality(S) : Cardinality({j \in S : j < Ascending(S)[n]}) = n - 1
         /\ \A i \in S : \E n \in 1..Cardinality(S) : Ascending(S)[n] = i
         /\ \A i, j \in S : Cardinality({m \in S : m < i}) = Cardinality({m \in S : m < j}) => i = j
<1> DEFINE N == Cardinality(S)
<1>1. Ascending(S) = Ordered(S, Smaller(S))
  BY DEF Ascending, Smaller
<1>2. Orders(Smaller(S), S) /\ \A i \in S : Before(Smaller(S), S, i) = {j \in S : j < i}
  BY NumbersAreOrdered
<1>3. /\ N \in Nat
      /\ Ascending(S) \in [1..N -> S]
      /\ \A n \in 1..N : Cardinality(Before(Smaller(S), S, Ascending(S)[n])) = n - 1
      /\ \A i \in S : \E n \in 1..N : Ascending(S)[n] = i
      /\ \A i, j \in S :
           Cardinality(Before(Smaller(S), S, i)) = Cardinality(Before(Smaller(S), S, j)) => i = j
  BY <1>1, <1>2, OrderedIsSorted
<1>4. \A n \in 1..N : Ascending(S)[n] \in S
  BY <1>3
<1>5. Len(Ascending(S)) = N
  <2>1. DOMAIN Ascending(S) = 1..N
    BY <1>3
  <2> QED BY <1>3, <2>1
<1>6. \A n \in 1..N : Cardinality({j \in S : j < Ascending(S)[n]}) = n - 1
  BY <1>2, <1>3, <1>4
<1>7. \A i, j \in S : Cardinality({m \in S : m < i}) = Cardinality({m \in S : m < j}) => i = j
  BY <1>2, <1>3
<1> QED BY <1>3, <1>5, <1>6, <1>7

\* The numbers up to n are themselves in order.
LEMMA AscendingOfInterval ==
  ASSUME NEW n \in Nat
  PROVE  /\ Len(Ascending(1..n)) = n
         /\ \A i \in 1..n : Ascending(1..n)[i] = i
<1> DEFINE S == 1..n
<1>1. S \in SUBSET Nat /\ IsFiniteSet(S) /\ Cardinality(S) = n
  BY FS_Interval
<1> HIDE DEF S
<1>2. /\ Len(Ascending(S)) = n
      /\ \A i \in 1..n : Ascending(S)[i] \in S
      /\ \A i \in 1..n : Cardinality({j \in S : j < Ascending(S)[i]}) = i - 1
      /\ \A i, j \in S : Cardinality({m \in S : m < i}) = Cardinality({m \in S : m < j}) => i = j
  <2>1. /\ Ascending(S) \in [1..n -> S] /\ Len(Ascending(S)) = n
        /\ \A i \in 1..n : Cardinality({j \in S : j < Ascending(S)[i]}) = i - 1
        /\ \A i, j \in S : Cardinality({m \in S : m < i}) = Cardinality({m \in S : m < j}) => i = j
    BY <1>1, AscendingIsSorted
  <2> QED BY <2>1
<1>3. ASSUME NEW i \in 1..n PROVE Ascending(S)[i] = i
  <2>1. {j \in S : j < i} = 1..(i - 1)
    BY DEF S
  <2>2. Cardinality(1..(i - 1)) = i - 1
    <3>1. 1 \in Int /\ i - 1 \in Int
      OBVIOUS
    <3> QED BY <3>1, FS_Interval
  <2>3. i \in S
    BY DEF S
  <2> QED BY <1>2, <2>1, <2>2, <2>3
<1> QED BY <1>2, <1>3 DEF S

\* With or without a bound per file, no more are kept than asked for.
LEMMA DiverseLength ==
  ASSUME NEW n \in Nat, NEW ranking, DOMAIN ranking = 1..n, NEW k \in Nat, NEW cap
  PROVE  Len(Diverse(ranking, k, cap)) \in Nat /\ Len(Diverse(ranking, k, cap)) <= k
<1> DEFINE earlier(m) == {e \in 1..(m - 1) : case.chunks[ranking[e]].file = case.chunks[ranking[m]].file}
           kept == {m \in DOMAIN ranking : cap = None \/ Cardinality(earlier(m)) < cap}
           positions == Ascending(kept)
           length == Min({k, Len(positions)})
<1>1. Diverse(ranking, k, cap) = [m \in 1..length |-> ranking[positions[m]]]
  BY DEF Diverse
<1>2. kept \in SUBSET Nat /\ IsFiniteSet(kept)
  <2>1. kept \subseteq 1..n
    OBVIOUS
  <2>2. IsFiniteSet(1..n)
    BY FS_Interval
  <2> HIDE DEF kept
  <2>3. kept \in SUBSET Nat
    BY <2>1
  <2>4. IsFiniteSet(kept)
    BY <2>1, <2>2, FS_Subset
  <2> QED BY <2>3, <2>4
<1>3. Len(positions) \in Nat
  <2> HIDE DEF kept
  <2> QED BY <1>2, AscendingIsSorted
<1> HIDE DEF positions
<1>4. length \in Nat /\ length <= k
  BY <1>3, MinOfTwo
<1> HIDE DEF length
<1> QED BY <1>1, <1>4

\* Without such a bound the ranking begins alike.
LEMMA UncappedIsBeginning ==
  ASSUME NEW n \in Nat, NEW ranking, DOMAIN ranking = 1..n, NEW k \in Nat
  PROVE  Diverse(ranking, k, None) = [m \in 1..(IF k <= n THEN k ELSE n) |-> ranking[m]]
<1> DEFINE positions == Ascending(DOMAIN ranking)
           length == Min({k, Len(positions)})
<1>1. Diverse(ranking, k, None) = [m \in 1..length |-> ranking[positions[m]]]
  BY DEF Diverse
<1>2. Len(positions) = n /\ \A m \in 1..n : positions[m] = m
  BY AscendingOfInterval
<1> HIDE DEF positions
<1>3. length = IF k <= n THEN k ELSE n
  BY <1>2, MinOfTwo
<1> HIDE DEF length
<1> QED BY <1>1, <1>2, <1>3

-----------------------------------------------------------------------------
(* The lexical side of a search *)

LEMMA SparseLimitIsNat == case.k \in Nat => SparseLimit \in Nat
<1> SUFFICES ASSUME case.k \in Nat PROVE SparseLimit \in Nat
  OBVIOUS
<1>1. SparseCap \in Nat /\ SparseFloor \in Nat /\ case.k * SparseFactor \in Nat
  BY LimitsAssumption DEF LimitsAssumption
<1>2. Max({SparseFloor, case.k * SparseFactor}) \in Nat
  BY <1>1, MaxOfTwo
<1> QED BY <1>1, <1>2, MinOfTwo DEF SparseLimit

\* A chunk that passes the filters is ranked: where the branch is used, one with words of
\* the query, unless its collection has more of them than are asked for or points foreign
\* to its manifest; where it is not, one the BM25 rates.
Ranked ==
  \A i \in Admissible :
    LET s == case.chunks[i].scope
    IN  IF BranchAvailable
        THEN case.chunks[i].words =>
               \/ i \in ToSet(lexical)
               \/ Cardinality({j \in Pushed(s) : case.chunks[j].words}) > SparseLimit
               \/ case.collections[s].foreign
        ELSE case.chunks[i].rated => i \in ToSet(lexical)

\* What the sparse branch has said of itself stays so: nothing is indexed during a search.
LexicalInv ==
  /\ case \in Cases
  /\ ToSet(lexical) \subseteq DOMAIN case.chunks /\ Ranking(lexical)
  /\ sparse # None => sparse.available = BranchAvailable
  /\ pc = "bm25" => ~BranchAvailable
  /\ pc = "fuse" => Ranked
  /\ pc = "done" /\ case.mode = "hybrid" => Ranked

LEMMA CaseIsPossible ==
  ASSUME LexicalInv
  PROVE  /\ IsFiniteSet(DOMAIN case.chunks)
         /\ case.k \in Nat
         /\ Possible(case)
         /\ DOMAIN case.collections = {"code", "docs"}
         /\ Requested \subseteq {"code", "docs"}
<1>1. case \in Cases
  BY DEF LexicalInv
<1>2. case.k \in 1..Min({Cap, SparseCap})
  BY <1>1, LimitsAssumption DEF LimitsAssumption
<1>3. /\ case.scope \in {"code", "docs", "all"}
      /\ Len(case.chunks) \in Nat /\ DOMAIN case.chunks = 1..Len(case.chunks)
  BY <1>1, CasesAssumption
<1>4. IsFiniteSet(DOMAIN case.chunks)
  BY <1>3, FS_Interval
<1> QED BY <1>1, <1>2, <1>3, <1>4, CasesAssumption DEF Requested

\* Chunks of a collection are finitely many, and none means that there are none.
LEMMA PointsAreFinite ==
  ASSUME LexicalInv, NEW s
  PROVE  /\ IsFiniteSet(In(s)) /\ IsFiniteSet(Pushed(s))
         /\ Cardinality(In(s)) \in Nat
         /\ Cardinality(In(s)) > 0 <=> In(s) # {}
<1>1. In(s) \subseteq DOMAIN case.chunks /\ Pushed(s) \subseteq In(s)
  BY DEF In, Pushed
<1>2. IsFiniteSet(In(s)) /\ IsFiniteSet(Pushed(s))
  BY <1>1, CaseIsPossible, FS_Subset
<1> QED BY <1>2, FS_CardinalityType, FS_EmptySet

\* A collection that is asked is searched unless it holds no points, if the
\* branch is available.
LEMMA FilledIsAsked ==
  ASSUME NEW s \in Requested, In(s) # {}
  PROVE  s \in SearchScopes /\ (BranchAvailable => s \in Searched)
BY DEF SearchScopes, BranchAvailable, Unavailable, Searched, PassedOver

\* Points of a collection that is searched have a manifest that says so, or are foreign to it.
LEMMA SearchedIsNotEmpty ==
  ASSUME LexicalInv, NEW s \in Requested, In(s) # {}, s \in Searched, ~case.collections[s].foreign
  PROVE  ~Manifest(s).empty
<1>1. s \in DOMAIN case.collections /\ Possible(case)
  BY CaseIsPossible
<1>2. case.collections[s].vector /\ Manifest(s) # None
  BY DEF Searched, PassedOver, Usable
<1>3. \E i \in DOMAIN case.chunks : case.chunks[i].scope = s
  BY DEF In
<1> QED BY <1>1, <1>2, <1>3 DEF Possible, Manifest

\* The best of a collection's sparse answers are all of them where there are not too many.
LEMMA FewAnswersAreAll ==
  ASSUME LexicalInv, NEW s \in Searched, NEW top \in SparseAnswers(s),
         ~case.collections[s].foreign, ~Manifest(s).empty,
         ~(Cardinality({j \in Pushed(s) : case.chunks[j].words}) > SparseLimit)
  PROVE  top = {j \in Pushed(s) : case.chunks[j].words}
<1> DEFINE found == {j \in Pushed(s) : case.chunks[j].words}
<1>1. IsFiniteSet(found)
  BY PointsAreFinite, FS_Subset
<1>2. Cardinality(found) \in Nat /\ SparseLimit \in Nat
  BY <1>1, FS_CardinalityType, SparseLimitIsNat, CaseIsPossible
<1>3. top \in SUBSET found /\ Cardinality(top) = Min({SparseLimit, Cardinality(found)})
  BY DEF SparseAnswers
<1>4. Cardinality(top) = Cardinality(found)
  BY <1>2, <1>3, MinOfTwo
<1> QED BY <1>1, <1>3, <1>4, FS_Subset

\* Where filters are pushed down, what passes all of them passes those.
LEMMA AdmissibleIsPushed ==
  ASSUME NEW i \in Admissible
  PROVE  /\ case.chunks[i].scope \in Requested /\ i \in In(case.chunks[i].scope)
         /\ i \in Pushed(case.chunks[i].scope) /\ Matches(i)
BY DEF Admissible, In, Pushed, FilterPlan, Matches

-----------------------------------------------------------------------------
(* Steps *)

\* While the case is the same, so is what is computed from it.
CaseStays ==
  /\ BranchAvailable' = BranchAvailable
  /\ Admissible' = Admissible
  /\ SparseLimit' = SparseLimit
  /\ SearchScopes' = SearchScopes
  /\ \A s : Pushed(s)' = Pushed(s) /\ FilterPlan(s)' = FilterPlan(s)

LEMMA CaseStaysToo ==
  ASSUME case' = case
  PROVE  CaseStays
<1>1. \A s : /\ In(s)' = In(s) /\ Pushed(s)' = Pushed(s)
             /\ Usable(s)' = Usable(s) /\ FilterPlan(s)' = FilterPlan(s)
  BY DEF In, Pushed, FilterPlan, PayloadFields, Usable, Manifest
<1>2. Requested' = Requested
  BY DEF Requested
<1>3. SearchScopes' = SearchScopes
  BY <1>1, <1>2 DEF SearchScopes
<1>4. Unavailable' = Unavailable
  BY <1>1, <1>3 DEF Unavailable
<1>5. BranchAvailable' = BranchAvailable
  BY <1>1, <1>2, <1>4 DEF BranchAvailable
<1>6. Admissible' = Admissible
  BY <1>1, <1>2 DEF Admissible, Matches
<1> QED BY <1>1, <1>3, <1>5, <1>6 DEF CaseStays, SparseLimit

\* Sparse answers of all collections, put in some order.
LEMMA SparseSearchStep ==
  ASSUME LexicalInv, SparseSearch
  PROVE  LexicalInv'
<1>1. /\ case' = case /\ case \in Cases
      /\ pc' = IF BranchAvailable THEN "fuse" ELSE "bm25"
      /\ sparse'.available = BranchAvailable
  BY DEF SparseSearch, LexicalInv
<1>2. BranchAvailable' = BranchAvailable
  BY <1>1, CaseStaysToo DEF CaseStays
<1>3. PICK top \in [SearchScopes -> SUBSET DOMAIN case.chunks] :
        /\ \A s \in SearchScopes : top[s] \in SparseAnswers(s)
        /\ \E ranking \in SetToSeqs({i \in UNION {top[s] : s \in SearchScopes} : Matches(i)}) :
             lexical' = ranking
  BY DEF SparseSearch
<1> DEFINE merged == {i \in UNION {top[s] : s \in SearchScopes} : Matches(i)}
<1>4. merged \subseteq DOMAIN case.chunks
  BY <1>3
<1>5. ToSet(lexical') = merged /\ Ranking(lexical')
  <2>1. IsFiniteSet(merged)
    BY <1>4, CaseIsPossible, FS_Subset
  <2> HIDE DEF merged
  <2>2. PICK ranking \in SetToSeqs(merged) : lexical' = ranking
    BY <1>3 DEF merged
  <2> QED BY <2>1, <2>2, RankingHasAll
<1>6. ASSUME BranchAvailable PROVE Ranked'
  <2>1. ASSUME NEW i \in Admissible, case.chunks[i].words,
               ~(Cardinality({j \in Pushed(case.chunks[i].scope) : case.chunks[j].words}) > SparseLimit),
               ~case.collections[case.chunks[i].scope].foreign
        PROVE  i \in merged
    <3> DEFINE s == case.chunks[i].scope
    <3>1. s \in Requested /\ In(s) # {} /\ i \in Pushed(s) /\ Matches(i)
      BY AdmissibleIsPushed
    <3>2. s \in SearchScopes /\ s \in Searched
      BY <1>6, <3>1, FilledIsAsked
    <3>3. top[s] = {j \in Pushed(s) : case.chunks[j].words}
      <4>1. ~Manifest(s).empty
        BY <2>1, <3>1, <3>2, SearchedIsNotEmpty
      <4> QED BY <1>3, <2>1, <3>2, <4>1, FewAnswersAreAll
    <3>4. i \in top[s]
      BY <2>1, <3>1, <3>3
    <3> QED BY <3>1, <3>2, <3>4
  <2>2. CaseStays
    BY <1>1, CaseStaysToo
  <2> QED
    BY <1>1, <1>2, <1>5, <1>6, <2>1, <2>2 DEF Ranked, CaseStays
<1>7. ToSet(lexical)' \subseteq (DOMAIN case.chunks)' /\ Ranking(lexical)'
  BY <1>1, <1>4, <1>5
<1> QED BY <1>1, <1>2, <1>6, <1>7 DEF LexicalInv

\* Chunks of every collection asked that the BM25 rates are added.
LEMMA LegacyBm25Step ==
  ASSUME LexicalInv, LegacyBm25
  PROVE  LexicalInv'
<1> DEFINE matching == {i \in UNION {In(s) : s \in SearchScopes} : Matches(i) /\ case.chunks[i].rated}
<1>1. case' = case /\ sparse' = sparse /\ pc' = "fuse"
  BY DEF LegacyBm25
<1>2. BranchAvailable' = BranchAvailable /\ ~BranchAvailable
  BY <1>1, CaseStaysToo DEF CaseStays, LegacyBm25, LexicalInv
<1>3. ToSet(lexical') = ToSet(lexical) \cup matching /\ Ranking(lexical')
  <2> DEFINE merged == ToSet(lexical) \cup matching
  <2>1. IsFiniteSet(merged)
    <3>1. matching \subseteq DOMAIN case.chunks
      BY DEF In
    <3>2. IsFiniteSet(matching)
      BY <3>1, CaseIsPossible, FS_Subset
    <3>3. IsFiniteSet(ToSet(lexical))
      BY CaseIsPossible, FS_Subset DEF LexicalInv
    <3> QED BY <3>2, <3>3, FS_Union
  <2> HIDE DEF merged
  <2>2. PICK ranking \in SetToSeqs(merged) : lexical' = ranking
    BY DEF LegacyBm25, merged
  <2> QED BY <2>1, <2>2, RankingHasAll DEF merged
<1>4. ASSUME NEW i \in Admissible, case.chunks[i].rated PROVE i \in matching
  <2> DEFINE s == case.chunks[i].scope
  <2>1. s \in Requested /\ i \in In(s) /\ Matches(i)
    BY AdmissibleIsPushed
  <2>2. s \in SearchScopes
    BY <2>1, FilledIsAsked
  <2> QED BY <1>4, <2>1, <2>2
<1>5. CaseStays
  BY <1>1, CaseStaysToo
<1>6. Ranked'
  <2> HIDE DEF matching
  <2> QED BY <1>1, <1>2, <1>3, <1>4, <1>5 DEF Ranked, CaseStays
<1>7. ToSet(lexical)' \subseteq (DOMAIN case.chunks)' /\ Ranking(lexical)'
  <2>1. matching \subseteq DOMAIN case.chunks
    BY DEF In
  <2> QED BY <1>1, <1>3, <2>1 DEF LexicalInv
<1> QED BY <1>1, <1>2, <1>6, <1>7 DEF LexicalInv

\* The dense side changes neither what is ranked nor what is asked.
LEMMA DenseStep ==
  ASSUME LexicalInv, Widen \/ DenseReturns
  PROVE  LexicalInv'
<1>1. /\ case' = case /\ sparse' = sparse /\ lexical' = lexical
      /\ pc' = "dense" \/ pc' = "sparse" \/ (pc' = "done" /\ case.mode = "semantic")
  BY DEF Widen, DenseReturns
<1>2. BranchAvailable' = BranchAvailable
  BY <1>1, CaseStaysToo DEF CaseStays
<1> QED BY <1>1, <1>2 DEF LexicalInv

\* What was ranked before the fusion is ranked after it.
LEMMA Unranked ==
  ASSUME LexicalInv, UNCHANGED <<case, lexical, sparse>>, pc' = pc \/ (pc = "fuse" /\ pc' = "done")
  PROVE  LexicalInv'
<1>1. CaseStays
  BY CaseStaysToo
<1>2. Ranked => Ranked'
  BY <1>1 DEF Ranked, CaseStays
<1> QED BY <1>1, <1>2 DEF LexicalInv, CaseStays

LEMMA EmptyIsRanking == ToSet(<<>>) = {} /\ Ranking(<<>>)
BY DEF ToSet, Ranking

\* What is ranked and what the sparse branch said of itself, in every behaviour.
THEOREM LexicalInvariant == Spec => []LexicalInv
<1>1. Init => LexicalInv
  BY EmptyIsRanking DEF Init, LexicalInv
<1>2. LexicalInv /\ [Next]_vars => LexicalInv'
  <2> SUFFICES ASSUME LexicalInv, [Next]_vars PROVE LexicalInv'
    OBVIOUS
  <2>1. CASE Widen \/ DenseReturns
    BY <2>1, DenseStep
  <2>2. CASE SparseSearch
    BY <2>2, SparseSearchStep
  <2>3. CASE LegacyBm25
    BY <2>3, LegacyBm25Step
  <2>4. CASE HybridReturns
    BY <2>4, Unranked DEF HybridReturns
  <2>5. CASE UNCHANGED vars
    BY <2>5, Unranked DEF vars
  <2> QED BY <2>1, <2>2, <2>3, <2>4, <2>5 DEF Next
<1> QED BY <1>1, <1>2, PTL DEF Spec

\* No chunk that passes the filters is lost to the lexical branch because one of the
\* collections has no sparse vectors: where the branch is used none with words of the query
\* is, but where its collection has more of them than the branch asks for or points foreign
\* to its manifest; where it is not, none that the BM25 rates.
THEOREM NoLexicalMatchIsLostHolds == Spec => []NoLexicalMatchIsLost
<1>1. LexicalInv => NoLexicalMatchIsLost
  BY DEF LexicalInv, Ranked, NoLexicalMatchIsLost
<1> QED BY <1>1, LexicalInvariant, PTL

-----------------------------------------------------------------------------
(* Status and search *)

\* What the status reads of a collection.
Observed(s) ==
  [scope |-> s, points |-> Cardinality(In(s)),
   exists |-> case.collections[s].current \/ In(s) # {},
   current |-> case.collections[s].current,
   kind |-> case.collections[s].kind,
   vector |-> case.collections[s].vector,
   manifest |-> Manifest(s)]

\* The status and the search ask the same of a collection that has points.
LEMMA SameOfEach ==
  ASSUME LexicalInv, NEW s \in Requested, In(s) # {}
  PROVE  /\ ScopeState(Observed(s)) # "intentionally_empty"
         /\ ScopeStatus(Observed(s)).sparse <=> s \notin Unavailable /\ ~Manifest(s).empty
<1>1. /\ s \in DOMAIN case.collections /\ Possible(case)
      /\ Observed(s).points > 0 /\ Observed(s).points \in Nat
  BY CaseIsPossible, PointsAreFinite DEF Observed
<1>2. s \in SearchScopes
  BY FilledIsAsked
<1>3. case.collections[s].vector => case.collections[s].current
  BY <1>1 DEF Possible
<1>4. Manifest(s) = None => ManifestCodes(Manifest(s)) # {}
  BY DEF ManifestCodes
<1>5. ScopeState(Observed(s)) # "intentionally_empty"
  BY <1>1 DEF ScopeState
<1>6. ScopeState(Observed(s)) = "ready"
        <=> /\ case.collections[s].current /\ case.collections[s].vector
            /\ ManifestCodes(Manifest(s)) = {}
  <2> DEFINE o == Observed(s)
  <2>1. o.exists
    BY Zenon DEF Observed
  <2>2. ~(o.points = 0)
    BY <1>1
  <2>3. ScopeState(o) = "ready" <=> o.current /\ ManifestCodes(o.manifest) = {} /\ o.vector
    <3> HIDE DEF o
    <3> QED BY <2>1, <2>2 DEF ScopeState
  <2> QED BY <2>3 DEF Observed
<1>7. s \notin Unavailable
        <=> /\ case.collections[s].vector
            /\ Manifest(s) # None /\ ManifestCodes(Manifest(s)) = {}
  BY <1>2 DEF Unavailable, Usable
<1>8. ScopeStatus(Observed(s)).sparse
        <=> ScopeState(Observed(s)) = "ready" /\ ~Manifest(s).empty
  BY DEF ScopeStatus, Observed
<1> QED BY <1>3, <1>4, <1>5, <1>6, <1>7, <1>8

\* index_status reports the sparse branch ready exactly when a search uses it and no manifest
\* denies the points of its collection.
THEOREM StatusAgreesWithSearchHolds == Spec => []StatusAgreesWithSearch
<1>1. ASSUME LexicalInv PROVE StatusAgreesWithSearch
  <2> DEFINE scopes == {Observed(s) : s \in Requested}
             all == {ScopeStatus(o) : o \in scopes}
             filled == {r \in all : r.points > 0 /\ r.state # "intentionally_empty"}
             denied == \E s \in Requested : In(s) # {} /\ Usable(s) /\ Manifest(s).empty
  <2>1. RetrievalStatus(scopes).sparse = (filled # {} /\ \A r \in filled : r.sparse)
    BY DEF RetrievalStatus
  <2>2. ASSUME NEW s \in Requested
        PROVE  ScopeStatus(Observed(s)) \in filled <=> In(s) # {}
    <3>1. /\ ScopeStatus(Observed(s)).points = Cardinality(In(s))
          /\ ScopeStatus(Observed(s)).state = ScopeState(Observed(s))
      BY DEF ScopeStatus, Observed
    <3> QED BY <1>1, <3>1, PointsAreFinite, SameOfEach
  <2>3. \A r \in filled : \E s \in Requested : In(s) # {} /\ r = ScopeStatus(Observed(s))
    BY <2>2
  <2>4. filled # {} <=> \E s \in Requested : In(s) # {}
    BY <2>2, <2>3
  <2>5. (\A r \in filled : r.sparse)
          <=> \A s \in Requested : In(s) # {} => s \notin Unavailable /\ ~Manifest(s).empty
    BY <1>1, <2>2, <2>3, SameOfEach
  <2>6. /\ (\A s \in Requested : In(s) # {} => s \notin Unavailable) <=> Unavailable = {}
        /\ \A s \in Requested : In(s) # {} /\ s \notin Unavailable => Usable(s)
    BY DEF Unavailable, SearchScopes
  <2>7. (filled # {} /\ \A r \in filled : r.sparse) <=> BranchAvailable /\ ~denied
    <3> HIDE DEF filled
    <3>1. (\A r \in filled : r.sparse) <=> Unavailable = {} /\ ~denied
      BY <2>5, <2>6
    <3> QED BY <2>4, <3>1 DEF BranchAvailable
  <2>8. sparse # None => RetrievalStatus(scopes).sparse = (sparse.available /\ ~denied)
    <3> HIDE DEF filled, scopes, denied
    <3> QED BY <1>1, <2>1, <2>7 DEF LexicalInv
  <2> QED BY <2>8 DEF StatusAgreesWithSearch, Observed
<1> QED BY <1>1, LexicalInvariant, PTL

-----------------------------------------------------------------------------
(* A semantic search *)

\* Of two sets of numbers, one in the other, that have the first k in common, the
\* rankings begin alike.
LEMMA SameBeginning ==
  ASSUME NEW S \in SUBSET Nat, IsFiniteSet(S), NEW T \in SUBSET S, NEW k \in Nat,
         \A i \in S : Cardinality({j \in S : j < i}) < k => i \in T
  PROVE  Diverse(Ascending(T), k, None) = Diverse(Ascending(S), k, None)
<1> DEFINE M == Cardinality(T)
           N == Cardinality(S)
           s == Ascending(S)
           t == Ascending(T)
<1>1. T \in SUBSET Nat /\ IsFiniteSet(T) /\ M <= N
  BY FS_Subset
<1>2. /\ N \in Nat /\ s \in [1..N -> S]
      /\ \A n \in 1..N : Cardinality({j \in S : j < s[n]}) = n - 1
      /\ \A i \in S : \E n \in 1..N : s[n] = i
      /\ \A i, j \in S : Cardinality({m \in S : m < i}) = Cardinality({m \in S : m < j}) => i = j
  BY AscendingIsSorted
<1>3. /\ M \in Nat /\ t \in [1..M -> T]
      /\ \A n \in 1..M : Cardinality({j \in T : j < t[n]}) = n - 1
      /\ \A i, j \in T : Cardinality({m \in T : m < i}) = Cardinality({m \in T : m < j}) => i = j
  BY <1>1, AscendingIsSorted
<1> HIDE DEF s, t
<1>4. ASSUME NEW n \in 1..N, n <= k PROVE s[n] \in T
  <2>1. s[n] \in S /\ Cardinality({j \in S : j < s[n]}) = n - 1
    BY <1>2
  <2>2. n - 1 < k
    BY <1>2, <1>4
  <2> QED BY <2>1, <2>2
<1>5. (IF k <= M THEN k ELSE M) = (IF k <= N THEN k ELSE N)
  <2>1. CASE k <= N
    <3> DEFINE f == [n \in 1..k |-> s[n]]
    <3>1. f \in [1..k -> T]
      BY <1>2, <1>4, <2>1
    <3>2. \A m, n \in 1..k : f[m] = f[n] => m = n
      <4>1. ASSUME NEW m \in 1..k, NEW n \in 1..k, s[m] = s[n] PROVE m = n
        <5>1. /\ Cardinality({j \in S : j < s[m]}) = m - 1
              /\ Cardinality({j \in S : j < s[n]}) = n - 1
          BY <1>2, <2>1
        <5>2. m - 1 = n - 1
          BY <4>1, <5>1
        <5> QED BY <5>2
      <4> QED BY <4>1
    <3>3. f \in Injection(1..k, T)
      <4> HIDE DEF f
      <4> QED BY <3>1, <3>2 DEF Injection, IsInjective
    <3> HIDE DEF f
    <3>4. Cardinality(1..k) <= M
      BY <1>1, <3>3, FS_Injection
    <3>5. Cardinality(1..k) = k
      BY FS_Interval
    <3> QED BY <1>1, <1>2, <1>3, <2>1, <3>4, <3>5
  <2>2. CASE N < k
    <3>1. S = T
      <4>1. \A n \in 1..N : n <= k
        BY <1>2, <2>2
      <4>2. ASSUME NEW i \in S PROVE i \in T
        <5>1. PICK n \in 1..N : s[n] = i
          BY <1>2
        <5> QED BY <1>4, <4>1, <5>1
      <4> QED BY <4>2
    <3> QED BY <3>1
  <2> QED BY <1>2, <2>1, <2>2
<1>6. ASSUME NEW n \in 1..M, n <= k PROVE t[n] = s[n]
  <2>1. n \in 1..N /\ s[n] \in S /\ s[n] \in T /\ Cardinality({j \in S : j < s[n]}) = n - 1
    BY <1>1, <1>2, <1>3, <1>4, <1>6
  <2>2. ASSUME NEW j \in S, j < s[n] PROVE j \in T
    <3>1. PICK m \in 1..N : s[m] = j
      BY <1>2
    <3>2. {x \in S : x < j} \subseteq {x \in S : x < s[n]}
      <4>1. j \in Nat /\ s[n] \in Nat /\ \A x \in S : x \in Nat
        BY <2>1
      <4>2. \A x \in S : x < j => x < s[n]
        BY <2>2, <4>1
      <4> QED BY <4>2
    <3>3. IsFiniteSet({x \in S : x < s[n]}) /\ IsFiniteSet({x \in S : x < j})
      BY FS_Subset
    <3>4. Cardinality({x \in S : x < j}) <= Cardinality({x \in S : x < s[n]})
      BY <3>2, <3>3, FS_Subset
    <3>5. m - 1 <= n - 1
      BY <1>2, <2>1, <3>1, <3>4
    <3> QED BY <1>4, <1>6, <3>1, <3>5
  <2>3. {j \in T : j < s[n]} = {j \in S : j < s[n]}
    BY <2>2
  <2>4. t[n] \in T /\ Cardinality({j \in T : j < t[n]}) = Cardinality({j \in T : j < s[n]})
    BY <1>3, <2>1, <2>3
  <2> QED BY <1>3, <2>1, <2>4
<1>7. Diverse(s, k, None) = [m \in 1..(IF k <= N THEN k ELSE N) |-> s[m]]
  <2>1. DOMAIN s = 1..N
    BY <1>2
  <2>2. N \in Nat
    BY <1>2
  <2> HIDE DEF N
  <2> QED BY <2>1, <2>2, UncappedIsBeginning, Zenon
<1>8. Diverse(t, k, None) = [m \in 1..(IF k <= M THEN k ELSE M) |-> t[m]]
  <2>1. DOMAIN t = 1..M
    BY <1>3
  <2>2. M \in Nat
    BY <1>3
  <2> HIDE DEF M
  <2> QED BY <2>1, <2>2, UncappedIsBeginning, Zenon
<1>9. \A m \in 1..(IF k <= M THEN k ELSE M) : t[m] = s[m]
  BY <1>3, <1>6
<1> QED BY <1>5, <1>7, <1>8, <1>9 DEF s, t

\* What is true of the results of a search with such hits and warnings.
Exact == Diverse(Ascending(Admissible), case.k, case.cap)
Full == \E s \in SearchScopes : Cardinality(Pushed(s)) > limit

ExactOrTold(results, warnings) ==
  /\ \/ results = Exact
     \/ "qdrant_filter_post_filter_best_effort" \in warnings
     \/ case.cap # None /\ Full
  /\ Len(results) < Len(Exact) =>
       \/ "filtered_dense_search_best_effort" \in warnings
       \/ case.cap # None /\ ~BestEffort /\ Full

\* The shortlist is never shorter than the results asked for.
DenseInv ==
  case.mode = "semantic" =>
    /\ pc \in {"dense", "done"}
    /\ limit \in Nat /\ limit >= case.k
    /\ pc = "done" => ExactOrTold(hits, told)

LEMMA CodeOfCase ==
  ASSUME NEW cases, NEW x \in cases, x[1]
  PROVE  x[2] \in CodesOf(cases)
BY DEF CodesOf

LEMMA NumbersOfChunks ==
  ASSUME LexicalInv
  PROVE  /\ Admissible \in SUBSET Nat /\ IsFiniteSet(Admissible)
         /\ Shortlist \in SUBSET Admissible
         /\ \A s : Pushed(s) \in SUBSET Nat
<1>1. DOMAIN case.chunks \subseteq Nat /\ IsFiniteSet(DOMAIN case.chunks)
  <2>1. case \in Cases
    BY DEF LexicalInv
  <2>2. DOMAIN case.chunks = 1..Len(case.chunks) /\ Len(case.chunks) \in Nat
    BY <2>1, CasesAssumption
  <2> QED BY <2>2, CaseIsPossible
<1>2. Admissible \subseteq DOMAIN case.chunks /\ \A s : Pushed(s) \subseteq DOMAIN case.chunks
  BY DEF Admissible, In, Pushed
<1>3. IsFiniteSet(Admissible)
  BY <1>1, <1>2, FS_Subset
<1>4. SearchScopes \subseteq Requested
  BY DEF SearchScopes
<1>5. Shortlist \subseteq Admissible
  BY <1>4 DEF Shortlist, Admissible, Best, Pushed
<1> QED BY <1>1, <1>2, <1>3, <1>5

\* Where all filters are pushed down, the shortlist has the best of what is admissible,
\* as many as its limit, and all of it where no collection has more.
LEMMA ShortlistHasTheBest ==
  ASSUME LexicalInv, limit \in Nat, ~BestEffort, NEW i \in Admissible,
         ~Full \/ Cardinality({j \in Admissible : j < i}) < limit
  PROVE  i \in Shortlist
<1> DEFINE s == case.chunks[i].scope
           smaller == {j \in Pushed(s) : j < i}
<1>1. /\ s \in Requested /\ i \in In(s) /\ i \in Pushed(s) /\ Matches(i)
  BY AdmissibleIsPushed
<1>2. s \in SearchScopes
  BY <1>1, FilledIsAsked
<1>3. Pushed(s) \subseteq Admissible
  <2>1. FilterPlan(s).post = {}
    BY <1>2 DEF BestEffort
  <2>2. FilterPlan(s).pushed = case.filters
    BY <2>1 DEF FilterPlan
  <2> QED BY <1>1, <2>2 DEF Pushed, Admissible, Matches
<1>4. IsFiniteSet(Pushed(s)) /\ IsFiniteSet(smaller)
  BY PointsAreFinite, FS_Subset
<1>5. Cardinality(smaller) \in Nat /\ Cardinality(Pushed(s)) \in Nat
  BY <1>4, FS_CardinalityType
<1>6. CASE ~Full
  <2>1. Cardinality(Pushed(s)) <= limit
    BY <1>2, <1>5, <1>6 DEF Full
  <2>2. smaller \in SUBSET Pushed(s) /\ smaller # Pushed(s)
    BY <1>1, NumbersOfChunks
  <2>3. Cardinality(smaller) <= Cardinality(Pushed(s)) /\ Cardinality(smaller) # Cardinality(Pushed(s))
    BY <1>4, <2>2, FS_Subset
  <2>4. Cardinality(smaller) < limit
    BY <1>5, <2>1, <2>3
  <2> QED BY <1>1, <1>2, <2>4 DEF Shortlist, Best
<1>7. CASE Cardinality({j \in Admissible : j < i}) < limit
  <2> DEFINE all == {j \in Admissible : j < i}
  <2>1. IsFiniteSet(all)
    BY NumbersOfChunks, FS_Subset
  <2>2. smaller \in SUBSET all
    BY <1>3
  <2>3. Cardinality(smaller) <= Cardinality(all) /\ Cardinality(all) \in Nat
    BY <2>1, <2>2, FS_Subset, FS_CardinalityType
  <2>4. Cardinality(smaller) < limit
    BY <1>5, <1>7, <2>3
  <2> HIDE DEF all
  <2>5. i \in Best(Pushed(s), limit)
    BY <1>1, <2>4 DEF Best
  <2> QED BY <1>1, <1>2, <2>5 DEF Shortlist
<1> QED BY <1>6, <1>7

\* So the results are the exact ones, or the warnings say otherwise.
LEMMA SemanticResults ==
  ASSUME LexicalInv, DenseInv, case.mode = "semantic", Enough, NEW more
  PROVE  ExactOrTold(Diverse(Ascending(Shortlist), case.k, case.cap), FilterWarnings \cup more)
<1> DEFINE results == Diverse(Ascending(Shortlist), case.k, case.cap)
           warnings == FilterWarnings \cup more
<1>1. /\ limit \in Nat /\ limit >= case.k /\ case.k \in Nat
      /\ Shortlist \in SUBSET Admissible /\ Admissible \in SUBSET Nat
      /\ IsFiniteSet(Admissible) /\ IsFiniteSet(Shortlist)
  <2>1. Shortlist \in SUBSET Admissible /\ IsFiniteSet(Admissible) /\ Admissible \in SUBSET Nat
    BY NumbersOfChunks
  <2>2. IsFiniteSet(Shortlist)
    BY <2>1, FS_Subset
  <2> QED BY <2>1, <2>2, CaseIsPossible DEF DenseInv
<1>2. Len(results) \in Nat /\ Len(Exact) \in Nat /\ Len(Exact) <= case.k
  <2>1. ASSUME NEW S \in SUBSET Nat, IsFiniteSet(S)
        PROVE  /\ Len(Diverse(Ascending(S), case.k, case.cap)) \in Nat
               /\ Len(Diverse(Ascending(S), case.k, case.cap)) <= case.k
    <3>1. Cardinality(S) \in Nat /\ DOMAIN Ascending(S) = 1..Cardinality(S)
      BY <2>1, AscendingIsSorted
    <3> QED BY <1>1, <3>1, DiverseLength
  <2> QED BY <1>1, <2>1 DEF Exact
<1>3. ASSUME ~BestEffort, ~Full PROVE results = Exact
  <2>1. Shortlist = Admissible
    BY <1>1, <1>3, ShortlistHasTheBest
  <2> QED BY <2>1 DEF Exact
<1>4. ASSUME ~BestEffort, case.cap = None PROVE results = Exact
  <2>1. \A i \in Admissible : Cardinality({j \in Admissible : j < i}) < case.k => i \in Shortlist
    <3> SUFFICES ASSUME NEW i \in Admissible, Cardinality({j \in Admissible : j < i}) < case.k
                 PROVE  i \in Shortlist
      OBVIOUS
    <3>1. Cardinality({j \in Admissible : j < i}) \in Nat
      BY <1>1, FS_Subset, FS_CardinalityType
    <3>2. Cardinality({j \in Admissible : j < i}) < limit
      BY <1>1, <3>1
    <3> QED BY <1>1, <1>4, <3>2, ShortlistHasTheBest
  <2>2. Diverse(Ascending(Shortlist), case.k, None) = Diverse(Ascending(Admissible), case.k, None)
    BY <1>1, <2>1, SameBeginning
  <2> QED BY <1>4, <2>2 DEF Exact
<1>5. ASSUME BestEffort PROVE "qdrant_filter_post_filter_best_effort" \in warnings
  <2> DEFINE x == <<BestEffort, "qdrant_filter_post_filter_best_effort">>
  <2>1. x[1]
    BY <1>5
  <2> QED BY <2>1, CodeOfCase DEF FilterWarnings
<1>6. ASSUME BestEffort, Len(results) < Len(Exact)
      PROVE  "filtered_dense_search_best_effort" \in warnings
  <2>1. Kept = Len(results) /\ Target = case.k
    BY DEF Kept, Target, FileCap
  <2>2. Kept < Target
    BY <1>1, <1>2, <1>6, <2>1
  <2>3. limit >= MaxLimit
    BY <1>1, <1>2, <1>6, <2>1, <2>2 DEF Enough
  <2> DEFINE x == <<BestEffort /\ limit >= MaxLimit /\ Kept < Target, "filtered_dense_search_best_effort">>
  <2>4. x[1]
    BY <1>6, <2>2, <2>3
  <2> QED BY <2>4, CodeOfCase DEF FilterWarnings
<1> QED BY <1>2, <1>3, <1>4, <1>5, <1>6 DEF ExactOrTold

LEMMA MaxIsAbove ==
  ASSUME NEW a \in Nat, NEW b \in Nat, NEW c \in Nat, NEW S \in {{a, b}, {a, b, c}}
  PROVE  Max(S) \in Nat /\ Max(S) >= a
<1>1. PICK x \in S : \A y \in S : x >= y
  OBVIOUS
<1>2. Max(S) \in S /\ \A y \in S : Max(S) >= y
  BY <1>1 DEF Max
<1> QED BY <1>2

LEMMA BaseLimitIsEnough ==
  ASSUME LexicalInv, case.mode = "semantic"
  PROVE  /\ BaseLimit \in Nat /\ BaseLimit >= case.k
         /\ MaxLimit \in Nat
<1>1. /\ {Factor, Floor, FilteredFloor, Cap, SparseCap} \subseteq Nat \ {0}
      /\ case.k \in 1..Min({Cap, SparseCap})
  BY LimitsAssumption DEF LimitsAssumption, LexicalInv
<1>2. case.k \in Nat /\ case.k <= Cap
  BY <1>1, MinOfTwo
<1>3. case.k * Factor \in Nat /\ case.k * Factor >= case.k
  BY <1>1, <1>2
<1> DEFINE limits == {Target * Factor, Floor} \cup IF BestEffort THEN {FilteredFloor} ELSE {}
<1>4. limits \in {{case.k * Factor, Floor}, {case.k * Factor, Floor, FilteredFloor}}
  BY DEF Target
<1>5. Max(limits) \in Nat /\ Max(limits) >= case.k * Factor
  <2> HIDE DEF limits
  <2> QED BY <1>1, <1>3, <1>4, MaxIsAbove
<1>6. BaseLimit = Min({Cap, Max(limits)})
  BY DEF BaseLimit
<1> HIDE DEF limits
<1>7. BaseLimit \in Nat /\ BaseLimit >= case.k
  BY <1>1, <1>2, <1>3, <1>5, <1>6, MinOfTwo
<1> QED BY <1>1, <1>7 DEF MaxLimit

LEMMA ResultsStay ==
  ASSUME case' = case, limit' = limit, NEW results, NEW warnings,
         ExactOrTold(results, warnings)
  PROVE  ExactOrTold(results, warnings)'
<1>1. CaseStays
  BY CaseStaysToo
<1>2. \A S, k, cap : /\ Ascending(S)' = Ascending(S)
                     /\ Diverse(S, k, cap)' = Diverse(S, k, cap)
  BY DEF Diverse, Ascending, Ordered
<1>3. Exact' = Exact
  BY <1>1, <1>2 DEF Exact, CaseStays
<1>4. Full' = Full /\ BestEffort' = BestEffort
  BY <1>1 DEF Full, BestEffort, CaseStays
<1> QED BY <1>3, <1>4 DEF ExactOrTold

\* A semantic search ends with results that are exact or told of, in every behaviour.
THEOREM DenseInvariant == Spec => []DenseInv
<1>1. Init => DenseInv
  <2> SUFFICES ASSUME Init PROVE DenseInv
    OBVIOUS
  <2>1. LexicalInv
    BY EmptyIsRanking DEF Init, LexicalInv
  <2>2. limit = BaseLimit /\ pc = "dense"
    BY DEF Init
  <2> QED BY <2>1, <2>2, BaseLimitIsEnough DEF DenseInv
<1>2. LexicalInv /\ DenseInv /\ [Next]_vars => DenseInv'
  <2> SUFFICES ASSUME LexicalInv, DenseInv, [Next]_vars PROVE DenseInv'
    OBVIOUS
  <2>1. CASE Widen
    <3> SUFFICES ASSUME case.mode = "semantic" PROVE DenseInv'
      BY <2>1 DEF DenseInv, Widen
    <3>1. /\ case' = case /\ pc' = pc /\ pc = "dense"
          /\ limit' = Min({limit * 2, MaxLimit}) /\ limit < MaxLimit
          /\ limit \in Nat /\ limit >= case.k /\ MaxLimit \in Nat
      <4>1. limit \in Nat /\ MaxLimit \in Nat
        BY BaseLimitIsEnough DEF DenseInv
      <4> QED BY <2>1, <4>1 DEF DenseInv, Widen, Enough
    <3>2. case.k \in Nat
      BY CaseIsPossible
    <3>3. limit' \in Nat /\ limit' >= limit
      BY <3>1, MinOfTwo
    <3> QED BY <3>1, <3>2, <3>3 DEF DenseInv
  <2>2. CASE DenseReturns
    <3> SUFFICES ASSUME case.mode = "semantic" PROVE DenseInv'
      BY <2>2 DEF DenseInv, DenseReturns
    <3>1. /\ case' = case /\ limit' = limit /\ pc' = "done"
          /\ hits' = Diverse(Ascending(Shortlist), case.k, case.cap)
          /\ told' = FilterWarnings \cup EmptyWarning(hits')
          /\ Enough
      BY <2>2 DEF DenseReturns
    <3>2. ExactOrTold(hits', told')
      BY <3>1, SemanticResults
    <3>3. ExactOrTold(hits, told)'
      BY <3>1, <3>2, ResultsStay DEF ExactOrTold
    <3> QED BY <3>1, <3>3 DEF DenseInv
  <2>3. CASE SparseSearch \/ LegacyBm25 \/ HybridReturns
    BY <2>3 DEF DenseInv, SparseSearch, LegacyBm25, HybridReturns
  <2>4. CASE UNCHANGED vars
    BY <2>4, ResultsStay DEF DenseInv, vars
  <2> QED BY <2>1, <2>2, <2>3, <2>4 DEF Next
<1> QED BY <1>1, <1>2, LexicalInvariant, PTL DEF Spec

\* A semantic search returns the best of all indexed chunks that pass the filters, or says
\* that filters were applied to a bounded shortlist, and when it returns fewer than there are,
\* that the shortlist was at its cap.
THEOREM ResultsAreExactOrToldHolds == Spec => []ResultsAreExactOrTold
<1>1. DenseInv => ResultsAreExactOrTold
  BY DEF DenseInv, ExactOrTold, Exact, Full, ResultsAreExactOrTold
<1> QED BY <1>1, DenseInvariant, PTL

-----------------------------------------------------------------------------
(* Fused rankings *)

\* Ranks of a chunk that some branch has.
RankPairs == {x \in Nat \X Nat : x[1] # 0 \/ x[2] # 0}

LEMMA ScoreIsFraction ==
  ASSUME NEW rank \in Nat, NEW weight \in Nat
  PROVE  Share(weight, rank) \in Fraction
BY DEF Share, Fraction, RRF_K

LEMMA WeightsArePositive == Weights[1] \in Nat \ {0} /\ Weights[2] \in Nat \ {0}
BY DEF Weights

LEMMA ScoresAndBestRanks ==
  ASSUME NEW x \in RankPairs
  PROVE  Score(x) \in Fraction /\ BestRank(x) \in Nat
<1>1. x[1] \in Nat /\ x[2] \in Nat /\ (x[1] # 0 \/ x[2] # 0)
  BY DEF RankPairs
<1>2. Share(Weights[1], x[1]) \in Fraction /\ Share(Weights[2], x[2]) \in Fraction
  BY <1>1, ScoreIsFraction, WeightsArePositive
<1>3. Score(x) \in Fraction
  BY <1>2 DEF Score, Plus, Fraction
<1>4. BestRank(x) \in Nat
  <2>1. CASE x[1] # 0 /\ x[2] # 0
    <3>1. {x[1], x[2]} \ {0} = {x[1], x[2]}
      BY <2>1
    <3> QED BY <1>1, <3>1, MinOfTwo DEF BestRank
  <2>2. ASSUME NEW r \in Nat \ {0}, {x[1], x[2]} \ {0} = {r} PROVE BestRank(x) \in Nat
    <3>1. {r} = {r, r}
      OBVIOUS
    <3> QED BY <2>2, <3>1, MinOfTwo DEF BestRank
  <2>3. CASE x[1] = 0
    <3>1. {x[1], x[2]} \ {0} = {x[2]}
      BY <1>1, <2>3
    <3> QED BY <1>1, <2>2, <2>3, <3>1
  <2>4. CASE x[2] = 0
    <3>1. {x[1], x[2]} \ {0} = {x[1]}
      BY <1>1, <2>4
    <3> QED BY <1>1, <2>2, <2>4, <3>1
  <2> QED BY <2>1, <2>3, <2>4
<1> QED BY <1>3, <1>4

\* Two chunks are never at the same place of a branch.
Apart(x, y) ==
  /\ x[1] # 0 => x[1] # y[1]
  /\ x[2] # 0 => x[2] # y[2]

LEMMA AheadIsAnOrder ==
  ASSUME NEW x \in RankPairs, NEW y \in RankPairs, NEW z \in RankPairs
  PROVE  /\ ~Ahead(x, x)
         /\ Ahead(x, y) /\ Ahead(y, z) => Ahead(x, z)
         /\ Apart(x, y) /\ Apart(y, x) => Ahead(x, y) \/ Ahead(y, x)
<1>1. /\ {x[1], x[2], y[1], y[2], z[1], z[2]} \subseteq Nat
      /\ {BestRank(x), BestRank(y), BestRank(z)} \subseteq Nat
      /\ {Score(x), Score(y), Score(z)} \subseteq Fraction
      /\ x[1] # 0 \/ x[2] # 0
      /\ y[1] # 0 \/ y[2] # 0
  BY ScoresAndBestRanks DEF RankPairs
<1>2. /\ ~Earlier(x, x)
      /\ Earlier(x, y) /\ Earlier(y, z) => Earlier(x, z)
      /\ Apart(x, y) /\ Apart(y, x) => Earlier(x, y) \/ Earlier(y, x)
  BY <1>1 DEF Earlier, Apart
<1>3. ~Above(Score(x), Score(x))
  BY <1>1 DEF Above, Fraction
<1>4. ~(Above(Score(x), Score(y)) /\ Above(Score(y), Score(x)))
  BY <1>1 DEF Above, Fraction
<1>5. /\ Above(Score(x), Score(y)) /\ Above(Score(y), Score(z)) => Above(Score(x), Score(z))
      /\ Above(Score(x), Score(y)) /\ ~Above(Score(z), Score(y)) => Above(Score(x), Score(z))
      /\ ~Above(Score(y), Score(x)) /\ Above(Score(y), Score(z)) => Above(Score(x), Score(z))
      /\ ~Above(Score(y), Score(x)) /\ ~Above(Score(z), Score(y)) => ~Above(Score(z), Score(x))
  BY <1>1, AboveIsTransitive
<1>6. ~Ahead(x, x)
  BY <1>1, <1>2, <1>3 DEF Ahead
<1>7. Ahead(x, y) /\ Ahead(y, z) => Ahead(x, z)
  BY <1>1, <1>2, <1>5 DEF Ahead
<1>8. Apart(x, y) /\ Apart(y, x) => Ahead(x, y) \/ Ahead(y, x)
  BY <1>1, <1>2, <1>4 DEF Ahead
<1> QED BY <1>6, <1>7, <1>8

\* The better in every branch that has the other has the higher score.
LEMMA BetterRanksScoreHigher ==
  ASSUME NEW x \in RankPairs, NEW y \in RankPairs,
         y[1] # 0 => x[1] # 0 /\ x[1] < y[1],
         y[2] # 0 => x[2] # 0 /\ x[2] < y[2]
  PROVE  Ahead(x, y)
<1>1. {x[1], x[2], y[1], y[2]} \subseteq Nat /\ (y[1] # 0 \/ y[2] # 0)
  BY DEF RankPairs
<1>2. ASSUME NEW w \in Nat \ {0}, NEW q \in Nat, NEW r \in Nat, r # 0 => q # 0 /\ q < r
      PROVE  /\ Share(w, q) \in Fraction /\ Share(w, r) \in Fraction
             /\ ~Above(Share(w, r), Share(w, q))
             /\ r # 0 => Above(Share(w, q), Share(w, r))
  <2>1. Share(w, q) \in Fraction /\ Share(w, r) \in Fraction
    BY ScoreIsFraction
  <2>2. CASE r = 0
    <3>1. Share(w, r)[1] = 0
      BY <2>2 DEF Share
    <3>2. \A f, g \in Fraction : f[1] = 0 => ~Above(f, g)
      BY DEF Fraction, Above
    <3> QED BY <2>1, <2>2, <3>1, <3>2
  <2>3. CASE r # 0
    <3>1. w * (60 + r) > w * (60 + q)
      BY <1>2, <2>3, ProductsGrow
    <3> QED BY <1>2, <2>1, <2>3, <3>1 DEF Share, Above, RRF_K
  <2> QED BY <2>1, <2>2, <2>3
<1> DEFINE a == Share(Weights[1], x[1])
           b == Share(Weights[2], x[2])
           c == Share(Weights[1], y[1])
           d == Share(Weights[2], y[2])
<1>3. /\ {a, b, c, d} \subseteq Fraction
      /\ ~Above(c, a) /\ ~Above(d, b)
      /\ Above(a, c) \/ Above(b, d)
  BY <1>1, <1>2, WeightsArePositive
<1>4. Score(x) = Plus(a, b) /\ Score(y) = Plus(c, d)
  BY DEF Score
<1> HIDE DEF a, b, c, d
<1> QED BY <1>3, <1>4, PlusIsAbove DEF Ahead

LEMMA RankInBranch ==
  ASSUME NEW branch, Ranking(branch), NEW i
  PROVE  /\ RankIn(branch, i) \in Nat
         /\ RankIn(branch, i) # 0 <=> i \in ToSet(branch)
         /\ i \in ToSet(branch) => RankIn(branch, i) \in DOMAIN branch /\ branch[RankIn(branch, i)] = i
<1>1. CASE i \in ToSet(branch)
  <2>1. PICK n \in DOMAIN branch : branch[n] = i
    BY <1>1 DEF ToSet
  <2>2. RankIn(branch, i) = CHOOSE r \in DOMAIN branch : branch[r] = i
    BY <1>1 DEF RankIn
  <2>3. RankIn(branch, i) \in DOMAIN branch /\ branch[RankIn(branch, i)] = i
    BY <2>1, <2>2
  <2> QED BY <1>1, <2>3 DEF Ranking
<1>2. CASE i \notin ToSet(branch)
  BY <1>2 DEF RankIn
<1> QED BY <1>1, <1>2

LEMMA RankedAreFinite ==
  ASSUME NEW branch, Ranking(branch)
  PROVE  IsFiniteSet(ToSet(branch))
<1> DEFINE f == [n \in 1..Len(branch) |-> branch[n]]
<1>1. f \in Surjection(1..Len(branch), ToSet(branch))
  <2>1. f \in [1..Len(branch) -> ToSet(branch)] /\ \A i \in ToSet(branch) : \E n \in 1..Len(branch) : f[n] = i
    BY DEF Ranking, ToSet
  <2> HIDE DEF f
  <2> QED BY <2>1 DEF Surjection
<1>2. IsFiniteSet(1..Len(branch))
  BY FS_Interval DEF Ranking
<1> QED BY <1>1, <1>2, FS_Surjection

\* i is before j in every branch that has j.
Dominates(first, second, i, j) ==
  /\ j \in ToSet(first) => \E q, r \in DOMAIN first : q < r /\ first[q] = i /\ first[r] = j
  /\ j \in ToSet(second) => \E q, r \in DOMAIN second : q < r /\ second[q] = i /\ second[r] = j

\* No chunk twice, and none without those that dominate it.
Keeps(results, first, second) ==
  /\ IsInjective(results)
  /\ \A n \in DOMAIN results : \A i \in ToSet(first) \cup ToSet(second) :
       Dominates(first, second, i, results[n]) => \E m \in 1..(n - 1) : results[m] = i

LEMMA FusionKeeps ==
  ASSUME NEW first, Ranking(first), NEW second, Ranking(second)
  PROVE  /\ Keeps(Fuse(first, second), first, second)
         /\ \E N \in Nat : DOMAIN Fuse(first, second) = 1..N
<1> DEFINE all == ToSet(first) \cup ToSet(second)
           ranks(i) == <<RankIn(first, i), RankIn(second, i)>>
           before == {p \in all \X all : Ahead(ranks(p[1]), ranks(p[2]))}
           N == Cardinality(all)
           f == Fuse(first, second)
<1>1. f = Ordered(all, before)
  BY DEF Fuse
<1>2. IsFiniteSet(all)
  BY RankedAreFinite, FS_Union
<1>3. \A i \in all : ranks(i) \in RankPairs
  BY RankInBranch DEF RankPairs
<1>4. \A i, j \in all : i # j => Apart(ranks(i), ranks(j))
  <2> SUFFICES ASSUME NEW i \in all, NEW j \in all, i # j PROVE Apart(ranks(i), ranks(j))
    OBVIOUS
  <2>1. RankIn(first, i) # 0 => RankIn(first, i) # RankIn(first, j)
    BY RankInBranch
  <2>2. RankIn(second, i) # 0 => RankIn(second, i) # RankIn(second, j)
    BY RankInBranch
  <2> QED BY <2>1, <2>2 DEF Apart
<1>5. \A i, j \in all : <<i, j>> \in before <=> Ahead(ranks(i), ranks(j))
  OBVIOUS
<1>6. Orders(before, all)
  <2> HIDE DEF all, ranks, before
  <2>1. \A i \in all : <<i, i>> \notin before
    BY <1>3, <1>5, AheadIsAnOrder
  <2>2. \A i, j, k \in all : <<i, j>> \in before /\ <<j, k>> \in before => <<i, k>> \in before
    <3> SUFFICES ASSUME NEW i \in all, NEW j \in all, NEW k \in all,
                        <<i, j>> \in before, <<j, k>> \in before
                 PROVE  <<i, k>> \in before
      OBVIOUS
    <3>1. Ahead(ranks(i), ranks(j)) /\ Ahead(ranks(j), ranks(k))
      BY <1>5
    <3>2. Ahead(ranks(i), ranks(k))
      BY <1>3, <3>1, AheadIsAnOrder
    <3> QED BY <1>5, <3>2
  <2>3. \A i, j \in all : i # j => <<i, j>> \in before \/ <<j, i>> \in before
    BY <1>3, <1>4, <1>5, AheadIsAnOrder
  <2> QED BY <2>1, <2>2, <2>3 DEF Orders
<1>7. /\ N \in Nat
      /\ f \in [1..N -> all]
      /\ \A i \in all : \E n \in 1..N : f[n] = i
      /\ \A m, n \in 1..N : m < n => <<f[m], f[n]>> \in before
  <2> HIDE DEF all, before, f
  <2> QED BY <1>1, <1>2, <1>6, OrderedIsSorted
<1> HIDE DEF f
<1>8. ASSUME NEW m \in 1..N, NEW n \in 1..N, f[m] = f[n] PROVE m = n
  <2>1. f[m] \in all /\ <<f[m], f[m]>> \notin before
    BY <1>6, <1>7 DEF Orders
  <2> HIDE DEF all, before
  <2>2. ~(m < n) /\ ~(n < m)
    BY <1>7, <1>8, <2>1
  <2> QED BY <1>7, <2>2
<1>9. ASSUME NEW n \in 1..N, NEW i \in all, Dominates(first, second, i, f[n])
      PROVE  \E m \in 1..(n - 1) : f[m] = i
  <2> DEFINE j == f[n]
             x == ranks(i)
             y == ranks(j)
  <2>1. j \in all /\ x \in RankPairs /\ y \in RankPairs
    BY <1>3, <1>7
  <2>2. ASSUME NEW branch \in {first, second}, RankIn(branch, j) # 0
        PROVE  RankIn(branch, i) # 0 /\ RankIn(branch, i) < RankIn(branch, j)
    <3>1. Ranking(branch) /\ j \in ToSet(branch)
      BY <2>2, RankInBranch
    <3>2. PICK q \in DOMAIN branch, r \in DOMAIN branch : q < r /\ branch[q] = i /\ branch[r] = j
      BY <1>9, <3>1 DEF Dominates
    <3>3. i \in ToSet(branch)
      BY <3>2 DEF ToSet
    <3>4. RankIn(branch, i) = q /\ RankIn(branch, j) = r
      BY <3>1, <3>2, <3>3, RankInBranch DEF Ranking
    <3> QED BY <3>1, <3>2, <3>3, <3>4, RankInBranch
  <2>3. Ahead(x, y)
    <3>1. /\ y[1] # 0 => x[1] # 0 /\ x[1] < y[1]
          /\ y[2] # 0 => x[2] # 0 /\ x[2] < y[2]
      BY <2>2
    <3> HIDE DEF x, y
    <3> QED BY <2>1, <3>1, BetterRanksScoreHigher
  <2>4. <<i, j>> \in before
    BY <2>1, <2>3
  <2>5. PICK m \in 1..N : f[m] = i
    BY <1>7
  <2> HIDE DEF all, before
  <2>6. ~(n < m)
    <3> SUFFICES ASSUME n < m PROVE FALSE
      OBVIOUS
    <3>1. <<j, i>> \in before
      BY <1>7, <2>5
    <3> QED BY <1>6, <2>1, <2>4, <3>1 DEF Orders
  <2>7. m # n
    BY <1>6, <2>1, <2>4, <2>5 DEF Orders
  <2> QED BY <1>7, <2>5, <2>6, <2>7
<1>10. DOMAIN f = 1..N
  BY <1>7
<1>11. Keeps(f, first, second)
  <2> HIDE DEF N
  <2> QED BY <1>8, <1>9, <1>10 DEF Keeps, IsInjective
<1> QED BY <1>7, <1>10, <1>11 DEF f

\* So does the beginning of the fused ranking.
LEMMA BeginningKeeps ==
  ASSUME NEW ranking, NEW first, NEW second, Keeps(ranking, first, second),
         NEW N \in Nat, DOMAIN ranking = 1..N, NEW k \in Nat
  PROVE  Keeps(Diverse(ranking, k, None), first, second)
<1> DEFINE length == IF k <= N THEN k ELSE N
           results == Diverse(ranking, k, None)
<1>1. results = [m \in 1..length |-> ranking[m]]
  BY UncappedIsBeginning
<1>2. length \in Nat /\ length <= N
  OBVIOUS
<1> HIDE DEF length, results
<1>3. DOMAIN results = 1..length /\ \A m \in 1..length : results[m] = ranking[m] /\ m \in 1..N
  BY <1>1, <1>2
<1>4. IsInjective(results)
  BY <1>3 DEF Keeps, IsInjective
<1>5. ASSUME NEW n \in DOMAIN results, NEW i \in ToSet(first) \cup ToSet(second),
             Dominates(first, second, i, results[n])
      PROVE  \E m \in 1..(n - 1) : results[m] = i
  <2>1. PICK m \in 1..(n - 1) : ranking[m] = i
    BY <1>3, <1>5 DEF Keeps
  <2>2. m \in 1..length
    BY <1>2, <1>3, <2>1
  <2> QED BY <1>3, <2>1, <2>2
<1> QED BY <1>4, <1>5 DEF Keeps, results

\* The candidates of both branches are chunks, and a fused result keeps what dominates it.
FusionInv ==
  /\ dense \subseteq DOMAIN case.chunks
  /\ pc = "done" /\ case.mode = "hybrid" /\ case.cap = None
       => Keeps(hits, Ascending(dense), lexical)

LEMMA AscendingIsRanking ==
  ASSUME NEW S \in SUBSET Nat, IsFiniteSet(S)
  PROVE  Ranking(Ascending(S)) /\ ToSet(Ascending(S)) = S
<1> DEFINE N == Cardinality(S)
           f == Ascending(S)
<1>1. /\ N \in Nat /\ f \in [1..N -> S] /\ Len(f) = N
      /\ \A n \in 1..N : Cardinality({j \in S : j < f[n]}) = n - 1
      /\ \A i \in S : \E n \in 1..N : f[n] = i
  BY AscendingIsSorted
<1> HIDE DEF N, f
<1>2. ASSUME NEW m \in 1..N, NEW n \in 1..N, f[m] = f[n] PROVE m = n
  <2>1. m - 1 = n - 1
    BY <1>1, <1>2
  <2> QED BY <2>1
<1>3. DOMAIN f = 1..N
  BY <1>1
<1>4. Ranking(f)
  BY <1>1, <1>2, <1>3 DEF Ranking
<1>5. ToSet(f) = S
  BY <1>1, <1>3 DEF ToSet
<1> QED BY <1>4, <1>5 DEF f

LEMMA DenseAreNumbers ==
  ASSUME LexicalInv, FusionInv
  PROVE  dense \in SUBSET Nat /\ IsFiniteSet(dense)
<1>1. case \in Cases
  BY DEF LexicalInv
<1>2. DOMAIN case.chunks = 1..Len(case.chunks) /\ IsFiniteSet(DOMAIN case.chunks)
  BY <1>1, CasesAssumption, CaseIsPossible
<1>3. IsFiniteSet(dense)
  BY <1>2, FS_Subset DEF FusionInv
<1> QED BY <1>2, <1>3 DEF FusionInv

\* A fused result keeps what dominates it, in every behaviour.
THEOREM FusionInvariant == Spec => []FusionInv
<1>1. Init => FusionInv
  BY DEF Init, FusionInv
<1>2. LexicalInv /\ FusionInv /\ [Next]_vars => FusionInv'
  <2> SUFFICES ASSUME LexicalInv, FusionInv, [Next]_vars PROVE FusionInv'
    OBVIOUS
  <2>1. CASE Widen \/ SparseSearch \/ LegacyBm25
    BY <2>1 DEF FusionInv, Widen, SparseSearch, LegacyBm25
  <2>2. CASE DenseReturns
    <3>1. /\ case' = case /\ dense' = Shortlist
          /\ pc' = "done" => case.mode = "semantic"
      BY <2>2 DEF DenseReturns
    <3>2. Shortlist \subseteq DOMAIN case.chunks
      BY NumbersOfChunks DEF Admissible, In
    <3> QED BY <3>1, <3>2 DEF FusionInv
  <2>3. CASE HybridReturns
    <3>1. /\ UNCHANGED <<case, dense, lexical>>
          /\ hits' = Diverse(Fuse(Ascending(dense), lexical), case.k, case.cap)
      BY <2>3 DEF HybridReturns
    <3>2. dense \in SUBSET Nat /\ IsFiniteSet(dense)
      BY DenseAreNumbers
    <3>3. Ranking(Ascending(dense)) /\ Ranking(lexical)
      BY <3>2, AscendingIsRanking DEF LexicalInv
    <3>4. Keeps(Diverse(Fuse(Ascending(dense), lexical), case.k, None), Ascending(dense), lexical)
      BY <3>3, FusionKeeps, BeginningKeeps, CaseIsPossible
    <3>5. Ascending(dense)' = Ascending(dense)
      BY <3>1 DEF Ascending, Ordered
    <3> QED BY <3>1, <3>4, <3>5 DEF FusionInv
  <2>4. CASE UNCHANGED vars
    BY <2>4 DEF FusionInv, vars
  <2> QED BY <2>1, <2>2, <2>3, <2>4 DEF Next
<1> QED BY <1>1, <1>2, LexicalInvariant, PTL DEF Spec

\* A hit that is behind another candidate in every branch that has it is behind it in the
\* hits, which have that candidate, and no chunk is a hit twice.
THEOREM FusionKeepsDominanceHolds == Spec => []FusionKeepsDominance
<1>1. ASSUME LexicalInv, FusionInv PROVE FusionKeepsDominance
  <2> SUFFICES ASSUME pc = "done", case.mode = "hybrid", case.cap = None
               PROVE  FusionKeepsDominance
    BY DEF FusionKeepsDominance
  <2>1. dense \in SUBSET Nat /\ IsFiniteSet(dense)
    BY <1>1, DenseAreNumbers
  <2>2. ToSet(Ascending(dense)) = dense
    BY <2>1, AscendingIsRanking
  <2> DEFINE branches == <<Ascending(dense), lexical>>
             dominates(i, j) ==
               \A b \in 1..2 : j \in ToSet(branches[b]) =>
                 \E q, r \in DOMAIN branches[b] : q < r /\ branches[b][q] = i /\ branches[b][r] = j
  <2>3. \A i, j : dominates(i, j) => Dominates(Ascending(dense), lexical, i, j)
    BY DEF Dominates
  <2>4. Keeps(hits, Ascending(dense), lexical)
    BY <1>1 DEF FusionInv
  <2> HIDE DEF dominates
  <2>5. /\ IsInjective(hits)
        /\ \A n \in DOMAIN hits : \A i \in dense \cup ToSet(lexical) :
             dominates(i, hits[n]) => \E m \in 1..(n - 1) : hits[m] = i
    BY <2>2, <2>3, <2>4 DEF Keeps
  <2> QED BY <2>5 DEF FusionKeepsDominance, dominates
<1> QED BY <1>1, LexicalInvariant, FusionInvariant, PTL
=============================================================================

------------------------ MODULE PureFunctions_proofs ------------------------
(***************************************************************************)
(* What the functions without state compute, whatever they are given: the  *)
(* breadth-first search of DependencyGraph finds every dependent, however  *)
(* long the chain and whatever the cycles; and of the operators in Scalars *)
(* the laws of division, the slots of arrays, the turns of a FOR, the      *)
(* order of texts and their parts, in pseudocode and in Python.            *)
(***************************************************************************)
EXTENDS DependencyGraph, Scalars, FiniteSetTheorems, WellFoundedInduction, TLAPS

\* A set of numbers that has an element has a least one.
LEMMA LeastNumber ==
  ASSUME NEW T \in SUBSET Nat, T # {}
  PROVE  \E m \in T : \A k \in T : m <= k
<1> DEFINE R == { p \in Nat \X Nat : p[1] < p[2] }
<1>1. OpToRel(<, Nat) = R
  BY DEF OpToRel
<1>2. IsWellFoundedOn(R, Nat)
  BY <1>1, NatLessThanWellFounded
<1>3. PICK m \in T : \A k \in T : ~ (<< k, m >> \in R)
  <2> HIDE DEF R
  <2> QED
    BY <1>2, WFMin
<1>4. \A k \in T : ~ (k < m)
  BY <1>3
<1> QED
  BY <1>4

\* A set of numbers up to N that has 0 and, with each number, the next one has
\* them all.
LEMMA UpTo ==
  ASSUME NEW N \in Nat, NEW T, 0 \in T,
         \A n \in 1 .. N : n - 1 \in T => n \in T
  PROVE  \A n \in 0 .. N : n \in T
<1> SUFFICES ASSUME NEW b \in 0 .. N, b \notin T PROVE FALSE
  OBVIOUS
<1> DEFINE Bad == { n \in 0 .. N : n \notin T }
<1>1. Bad \in SUBSET Nat /\ Bad # {}
  OBVIOUS
<1>2. PICK m \in Bad : \A k \in Bad : m <= k
  <2> HIDE DEF Bad
  <2> QED
    BY <1>1, LeastNumber
<1>3. m \in 1 .. N
  BY <1>2
<1>4. m - 1 \in T
  BY <1>2, <1>3
<1> QED
  BY <1>2, <1>3, <1>4

-----------------------------------------------------------------------------
(* The waves of the search *)

Grown(g, S) == S \cup UNION { g.dependents[v] : v \in S }

\* The functions that give the first k waves.
Waves(g, u, k) ==
  { r \in [ 0 .. k -> SUBSET Uri ] :
      /\ r[0] = { u }
      /\ \A n \in 1 .. k : r[n] = Grown(g, r[n - 1]) }

LEMMA GrownIsSet ==
  ASSUME NEW g \in Graph, NEW S \in SUBSET Uri
  PROVE  Grown(g, S) \in SUBSET Uri /\ S \subseteq Grown(g, S)
BY DEF Grown, Graph

\* The waves can be computed, for any number of them.
LEMMA WavesExist ==
  ASSUME NEW g \in Graph, NEW u \in Uri, NEW N \in Nat
  PROVE  Waves(g, u, N) # {}
<1> DEFINE T == { k \in Nat : Waves(g, u, k) # {} }
<1>1. 0 \in T
  <2> DEFINE r == [ n \in 0 .. 0 |-> { u } ]
  <2>1. r \in Waves(g, u, 0)
    BY DEF Waves
  <2> QED
    BY <2>1
<1>2. ASSUME NEW n \in 1 .. N, n - 1 \in T PROVE n \in T
  <2>1. PICK r \in Waves(g, u, n - 1) : TRUE
    BY <1>2
  <2>2. /\ r \in [ 0 .. n - 1 -> SUBSET Uri ] /\ r[0] = { u }
        /\ \A i \in 1 .. n - 1 : r[i] = Grown(g, r[i - 1])
    BY <2>1 DEF Waves
  <2> DEFINE q == [ i \in 0 .. n |-> IF i = n THEN Grown(g, r[n - 1]) ELSE r[i] ]
  <2>3. r[n - 1] \in SUBSET Uri
    BY <2>2
  <2>4. Grown(g, r[n - 1]) \in SUBSET Uri
    BY <2>3, GrownIsSet
  <2>5. \A i \in 0 .. n : i # n => r[i] \in SUBSET Uri
    BY <2>2
  <2>6. q \in [ 0 .. n -> SUBSET Uri ]
    BY <2>4, <2>5
  <2>7. q[0] = { u }
    BY <2>2
  <2>8. ASSUME NEW i \in 1 .. n PROVE q[i] = Grown(g, q[i - 1])
    <3>1. q[i - 1] = r[i - 1]
      OBVIOUS
    <3>2. CASE i = n
      BY <3>1, <3>2
    <3>3. CASE i # n
      <4>1. q[i] = r[i] /\ i \in 1 .. n - 1
        BY <3>3
      <4>2. r[i] = Grown(g, r[i - 1])
        BY <4>1, <2>2
      <4> QED
        BY <3>1, <4>1, <4>2
    <3> QED
      BY <3>2, <3>3
  <2>9. q \in Waves(g, u, n)
    <3> HIDE DEF q
    <3> QED
      BY <2>6, <2>7, <2>8 DEF Waves
  <2> QED
    BY <2>9
<1> QED
  <2>1. \A n \in 0 .. N : n \in T
    <3> HIDE DEF T
    <3> QED
      BY <1>1, <1>2, UpTo
  <2> QED
    BY <2>1

\* The search returns the last of its waves, without the document itself.
LEMMA SearchIsWaves ==
  ASSUME NEW g \in Graph, NEW u \in Uri
  PROVE  \E r \in Waves(g, u, Cardinality(Uri)) :
           transitiveDependents(g, u) = r[Cardinality(Uri)] \ { u }
<1> DEFINE N == Cardinality(Uri)
<1> DEFINE Body(f) == [ n \in 0 .. N |->
                          IF n = 0 THEN { u }
                          ELSE LET before == f[n - 1]
                               IN  before \cup UNION { g.dependents[v] : v \in before } ]
<1> DEFINE reached == CHOOSE f : f = Body(f)
<1>1. N \in Nat
  BY UriAssumption, FS_CardinalityType
<1>2. PICK r \in Waves(g, u, N) : TRUE
  BY <1>1, WavesExist
<1>3. r = Body(r)
  BY <1>1, <1>2 DEF Waves, Grown
<1>4. reached = Body(reached)
  <2> HIDE DEF Body
  <2> QED
    BY <1>3
<1>5. transitiveDependents(g, u) = reached[N] \ { u }
  BY DEF transitiveDependents
<1>6. \A n \in 0 .. N : reached[n] = IF n = 0 THEN { u } ELSE Grown(g, reached[n - 1])
  <2> HIDE DEF reached, N
  <2>1. \A n \in 0 .. N :
          Body(reached)[n] = IF n = 0 THEN { u } ELSE Grown(g, reached[n - 1])
    BY DEF Grown
  <2> HIDE DEF Body
  <2> QED
    BY <1>4, <2>1
<1> HIDE DEF Body, reached, N
<1>7. \A n \in 0 .. N : n \in { k \in 0 .. N : reached[k] = r[k] }
  <2> DEFINE T == { k \in 0 .. N : reached[k] = r[k] }
  <2>1. 0 \in T
    <3>1. 0 \in 0 .. N /\ reached[0] = { u }
      BY <1>1, <1>6
    <3>2. r[0] = { u }
      BY <1>2 DEF Waves
    <3> QED
      BY <3>1, <3>2
  <2>2. ASSUME NEW n \in 1 .. N, n - 1 \in T PROVE n \in T
    <3>1. reached[n] = Grown(g, reached[n - 1])
      BY <1>1, <1>6
    <3>2. r[n] = Grown(g, r[n - 1])
      BY <1>2 DEF Waves
    <3> QED
      BY <2>2, <3>1, <3>2
  <2> HIDE DEF T
  <2>3. \A n \in 0 .. N : n \in T
    BY <1>1, <2>1, <2>2, UpTo
  <2> QED
    BY <2>3 DEF T
<1>8. reached[N] = r[N]
  BY <1>1, <1>7
<1> QED
  BY <1>2, <1>5, <1>8 DEF N

\* A wave holds the ones before it.  A wave that adds nothing is closed, and
\* every wave that adds something adds a document.
LEMMA WavesGrow ==
  ASSUME NEW g \in Graph, NEW u \in Uri, NEW N \in Nat, NEW r \in Waves(g, u, N)
  PROVE  \A n \in 0 .. N :
           /\ u \in r[n]
           /\ \/ Grown(g, r[n]) = r[n]
              \/ Cardinality(r[n]) >= n + 1
<1> DEFINE T == { n \in 0 .. N : /\ u \in r[n]
                                 /\ \/ Grown(g, r[n]) = r[n]
                                    \/ Cardinality(r[n]) >= n + 1 }
<1>1. /\ \A n \in 0 .. N : r[n] \in SUBSET Uri
      /\ r[0] = { u } /\ \A n \in 1 .. N : r[n] = Grown(g, r[n - 1])
  BY DEF Waves
<1>2. \A S \in SUBSET Uri : IsFiniteSet(S) /\ Cardinality(S) \in Nat
  BY UriAssumption, FS_Subset, FS_CardinalityType
<1>3. 0 \in T
  <2>1. Cardinality({ u }) = 1
    BY FS_Singleton
  <2> QED
    BY <1>1, <2>1
<1>4. ASSUME NEW n \in 1 .. N, n - 1 \in T PROVE n \in T
  <2>1. /\ r[n - 1] \in SUBSET Uri /\ r[n] \in SUBSET Uri
        /\ r[n] = Grown(g, r[n - 1]) /\ u \in r[n - 1]
    BY <1>1, <1>4
  <2>2. u \in r[n] /\ r[n - 1] \subseteq r[n]
    BY <2>1, GrownIsSet
  <2>3. CASE Grown(g, r[n - 1]) = r[n - 1]
    BY <2>1, <2>3
  <2>4. CASE Grown(g, r[n - 1]) # r[n - 1]
    <3>1. Cardinality(r[n - 1]) >= n
      BY <1>4, <2>4
    <3>2. /\ Cardinality(r[n - 1]) <= Cardinality(r[n])
          /\ Cardinality(r[n]) = Cardinality(r[n - 1]) => r[n] = r[n - 1]
      BY <1>2, <2>1, <2>2, FS_Subset
    <3>3. Cardinality(r[n]) \in Nat /\ Cardinality(r[n - 1]) \in Nat
      BY <1>2, <2>1
    <3>4. Cardinality(r[n]) >= n + 1
      BY <2>1, <2>4, <3>1, <3>2, <3>3
    <3> QED
      BY <2>2, <3>4
  <2> QED
    BY <2>3, <2>4
<1>5. \A n \in 0 .. N : n \in T
  <2> HIDE DEF T
  <2> QED
    BY <1>3, <1>4, UpTo
<1> QED
  BY <1>5

\* The last wave is closed: there are as many waves as documents.
LEMMA LastWaveIsClosed ==
  ASSUME NEW g \in Graph, NEW u \in Uri, NEW r \in Waves(g, u, Cardinality(Uri))
  PROVE  LET last == r[Cardinality(Uri)]
         IN  last \in SUBSET Uri /\ u \in last /\ Grown(g, last) = last
<1> DEFINE N == Cardinality(Uri)
<1>1. N \in Nat
  BY UriAssumption, FS_CardinalityType
<1>2. r[N] \in SUBSET Uri
  BY <1>1 DEF Waves
<1>3. u \in r[N] /\ (Grown(g, r[N]) = r[N] \/ Cardinality(r[N]) >= N + 1)
  BY <1>1, WavesGrow
<1>4. Cardinality(r[N]) <= N
  BY <1>2, UriAssumption, FS_Subset
<1>5. Cardinality(r[N]) \in Nat
  BY <1>2, UriAssumption, FS_Subset, FS_CardinalityType
<1>6. Grown(g, r[N]) = r[N]
  BY <1>1, <1>3, <1>4, <1>5
<1> QED
  BY <1>2, <1>3, <1>6

-----------------------------------------------------------------------------
(* The two maps *)

\* The two maps of a graph say the same, and nobody depends on itself.
MapsInverse(g) ==
  \A v, w \in Uri : /\ v \in g.deps[w] <=> w \in g.dependents[v]
                    /\ v \notin g.deps[v]

\* A new list keeps the maps inverse: the old edges of the document go.
LEMMA SetKeepsInverse ==
  ASSUME NEW g \in Graph, MapsInverse(g), NEW u \in Uri, NEW list \in SUBSET Uri
  PROVE  setDependencies(g, u, list) \in Graph /\ MapsInverse(setDependencies(g, u, list))
BY DEF Graph, MapsInverse, setDependencies

\* So does a removal, which takes the document out of the lists of the others.
LEMMA RemoveKeepsInverse ==
  ASSUME NEW g \in Graph, MapsInverse(g), NEW u \in Uri
  PROVE  remove(g, u) \in Graph /\ MapsInverse(remove(g, u))
<1> DEFINE h == setDependencies(g, u, {})
<1>1. h \in Graph /\ MapsInverse(h)
  BY SetKeepsInverse
<1>2. remove(g, u) = [ deps |-> [ v \in Uri |-> IF v \in h.dependents[u] THEN h.deps[v] \ { u }
                                                                     ELSE h.deps[v] ],
                       dependents |-> [ h.dependents EXCEPT ![u] = {} ] ]
  BY DEF remove
<1> HIDE DEF h
<1> QED
  BY <1>1, <1>2 DEF Graph, MapsInverse

-----------------------------------------------------------------------------
(* What it finds *)

\* The breadth-first search finds every document that depends on `u', however
\* long the chain: had it missed `v', the documents it missed would be a set
\* that is closed under the lists, holds `v' and does not hold `u'.
THEOREM SearchFindsDependents ==
  ASSUME NEW g \in Graph, MapsInverse(g), NEW u \in Uri, NEW v \in Uri,
         v # u, DependsOn(g, v, u)
  PROVE  v \in transitiveDependents(g, u)
<1>1. PICK r \in Waves(g, u, Cardinality(Uri)) :
        transitiveDependents(g, u) = r[Cardinality(Uri)] \ { u }
  BY SearchIsWaves
<1> DEFINE last == r[Cardinality(Uri)]
<1>2. last \in SUBSET Uri /\ u \in last /\ Grown(g, last) = last
  BY LastWaveIsClosed
<1>3. transitiveDependents(g, u) = last \ { u }
  BY <1>1
<1> HIDE DEF last
<1> SUFFICES ASSUME v \notin last PROVE FALSE
  BY <1>3
<1> DEFINE Missed == Uri \ last
<1>4. ASSUME NEW w \in Missed, NEW x \in g.deps[w] PROVE x \in Missed
  <2>1. x \in Uri /\ w \in Uri
    BY DEF Graph
  <2>2. w \in g.dependents[x]
    BY <2>1 DEF MapsInverse
  <2>3. x \in last => w \in Grown(g, last)
    BY <2>2 DEF Grown
  <2> QED
    BY <1>2, <2>1, <2>3
<1>5. v \in Missed /\ \A w \in Missed : g.deps[w] \subseteq Missed
  BY <1>4
<1>6. Missed \in SUBSET Uri
  OBVIOUS
<1>7. u \in Missed
  <2> HIDE DEF Missed
  <2> QED
    BY <1>5, <1>6 DEF DependsOn
<1> QED
  BY <1>2, <1>7

-----------------------------------------------------------------------------
(* Division *)

abs(n) == IF n < 0 THEN 0 - n ELSE n

\* What \div is, for a divisor that is positive.
LEMMA Quotient ==
  ASSUME NEW a \in Int, NEW b \in Nat \ {0}
  PROVE  /\ a \div b \in Int
         /\ (a \div b) * b <= a /\ a < (a \div b) * b + b
OBVIOUS

\* It is the only number of which this holds.
LEMMA OnlyQuotient ==
  ASSUME NEW b \in Nat \ {0}, NEW p \in Int, NEW q \in Int, p * b < q * b + b
  PROVE  p <= q
<1> SUFFICES ASSUME p >= q + 1 PROVE FALSE
  OBVIOUS
<1>1. (p - q - 1) * b >= 0
  OBVIOUS
<1>2. (p - q - 1) * b = p * b - q * b - b
  OBVIOUS
<1> QED
  BY <1>1, <1>2

\* DIV and MOD belong together: the quotient times the divisor and the
\* remainder make the dividend, and the remainder is smaller than the divisor
\* and never of the other sign than the dividend (numericOp).
THEOREM DivisionLaw ==
  ASSUME NEW a \in Int, NEW b \in Int \ {0}
  PROVE  /\ truncate(a, b) \in Int /\ remainder(a, b) \in Int
         /\ a = truncate(a, b) * b + remainder(a, b)
         /\ abs(remainder(a, b)) < abs(b)
         /\ remainder(a, b) < 0 => a < 0
         /\ remainder(a, b) > 0 => a > 0
<1> DEFINE q == abs(a) \div abs(b)
<1>1. abs(a) \in Nat /\ abs(b) \in Nat \ {0}
  BY DEF abs
<1>2. q \in Int /\ q * abs(b) <= abs(a) /\ abs(a) < q * abs(b) + abs(b)
  <2> DEFINE x == abs(a)
             y == abs(b)
  <2>1. x \in Int /\ y \in Nat \ {0}
    BY <1>1
  <2> HIDE DEF x, y
  <2>2. /\ x \div y \in Int
        /\ (x \div y) * y <= x /\ x < (x \div y) * y + y
    BY <2>1, Quotient
  <2> QED
    BY <2>2 DEF x, y
<1>3. truncate(a, b) = IF (a < 0) # (b < 0) THEN 0 - q ELSE q
  BY DEF truncate, abs
<1> HIDE DEF q
<1>4. CASE a >= 0 /\ b > 0
  BY <1>2, <1>3, <1>4 DEF remainder, abs
<1>5. CASE a < 0 /\ b > 0
  <2>1. truncate(a, b) = 0 - q /\ (0 - q) * b = 0 - q * b
    BY <1>2, <1>3, <1>5
  <2> QED
    BY <1>2, <1>5, <2>1 DEF remainder, abs
<1>6. CASE a >= 0 /\ b < 0
  <2>1. truncate(a, b) = 0 - q /\ (0 - q) * b = q * (0 - b)
    BY <1>2, <1>3, <1>6
  <2> QED
    BY <1>2, <1>6, <2>1 DEF remainder, abs
<1>7. CASE a < 0 /\ b < 0
  <2>1. truncate(a, b) = q /\ q * (0 - b) = 0 - q * b
    BY <1>2, <1>3, <1>7
  <2> QED
    BY <1>2, <1>7, <2>1 DEF remainder, abs
<1> QED
  BY <1>4, <1>5, <1>6, <1>7

\* Python's // is DIV only where the division leaves nothing or both numbers
\* are of one sign; that is why the translator prints _pp_div and not //
\* (PP_DIV_MOD_HELPERS, printBinary).
THEOREM FloorIsNotDiv ==
  ASSUME NEW a \in Int, NEW b \in Int \ {0}
  PROVE  floorDiv(a, b) = truncate(a, b)
           <=> (remainder(a, b) = 0 \/ (a < 0 <=> b < 0))
<1> DEFINE t == truncate(a, b)
           r == remainder(a, b)
           f == floorDiv(a, b)
           c == 0 - b
<1>1. /\ t \in Int /\ r \in Int /\ a = t * b + r
      /\ r < 0 => a < 0
      /\ r > 0 => a > 0
      /\ abs(r) < abs(b)
  BY DivisionLaw
<1>2. CASE b > 0
  <2>1. f = a \div b
    BY <1>2 DEF floorDiv
  <2>2. f \in Int /\ f * b <= a /\ a < f * b + b
    BY <1>2, <2>1, Quotient
  <2>3. CASE r >= 0
    <3>1. r < b /\ f * b \in Int /\ t * b \in Int
      BY <1>1, <1>2, <2>2, <2>3 DEF abs
    <3>2. f * b < t * b + b /\ t * b < f * b + b
      BY <1>1, <1>2, <2>2, <2>3, <3>1
    <3>3. f <= t /\ t <= f
      BY <1>1, <1>2, <2>2, <3>2, OnlyQuotient
    <3> QED
      BY <1>1, <1>2, <2>2, <2>3, <3>3
  <2>4. CASE r < 0
    <3>1. f * b < t * b
      BY <1>1, <2>2, <2>4
    <3> QED
      BY <1>1, <1>2, <2>4, <3>1
  <2> QED
    BY <1>1, <2>3, <2>4
<1>3. CASE b < 0
  <2>1. c \in Nat \ {0} /\ 0 - a \in Int /\ f = (0 - a) \div c
    BY <1>3 DEF floorDiv
  <2> HIDE DEF f
  <2>2. f \in Int /\ f * c <= 0 - a /\ 0 - a < f * c + c
    <3> HIDE DEF c
    <3> QED
      BY <2>1, Quotient
  <2>3. t * c = 0 - t * b /\ t * b \in Int
    BY <1>1
  <2>4. abs(b) = c
    BY <1>3 DEF abs
  <2> HIDE DEF c
  <2>5. 0 - a = t * c - r /\ t * c \in Int /\ f * c \in Int
    BY <1>1, <2>1, <2>2, <2>3
  <2>6. CASE r <= 0
    <3>1. 0 - r < c
      BY <1>1, <2>4, <2>6 DEF abs
    <3>2. f * c < t * c + c /\ t * c < f * c + c
      BY <1>1, <2>1, <2>2, <2>5, <2>6, <3>1
    <3>3. f <= t /\ t <= f
      BY <1>1, <2>1, <2>2, <3>2, OnlyQuotient
    <3> QED
      BY <1>1, <1>3, <2>2, <2>6, <3>3 DEF f
  <2>7. CASE r > 0
    <3>1. f * c < t * c
      BY <1>1, <2>2, <2>5, <2>7
    <3>2. f # t
      BY <3>1, <2>5
    <3> QED
      BY <1>1, <1>3, <2>7, <3>2 DEF f
  <2> QED
    BY <1>1, <2>6, <2>7
<1> QED
  BY <1>2, <1>3

-----------------------------------------------------------------------------
(* The turns of a FOR *)

\* A number is at most a quotient when its product is at most the dividend.
LEMMA AtMostQuotient ==
  ASSUME NEW x \in Int, NEW s \in Nat \ {0}, NEW k \in Int
  PROVE  k <= x \div s <=> k * s <= x
<1> DEFINE q == x \div s
<1>1. q \in Int /\ q * s <= x /\ x < q * s + s
  BY Quotient
<1> HIDE DEF q
<1>2. ASSUME k <= q PROVE k * s <= x
  <2>1. (q - k) * s >= 0 /\ (q - k) * s = q * s - k * s
    BY <1>1, <1>2
  <2>2. k * s \in Int /\ q * s \in Int
    BY <1>1
  <2> QED
    BY <1>1, <2>1, <2>2
<1>3. ASSUME k * s <= x PROVE k <= q
  <2>1. k * s < q * s + s
    BY <1>1, <1>3
  <2> QED
    BY <1>1, <2>1, OnlyQuotient
<1> QED
  BY <1>2, <1>3 DEF q

\* A range upwards has a value in each place before its stop.
LEMMA RangeUp ==
  ASSUME NEW from \in Int, NEW to \in Int, NEW step \in Nat \ {0}, NEW k \in Nat
  PROVE  k + 1 \in DOMAIN rangeOf(from, to, step) <=> from + k * step < to
<1>1. DOMAIN rangeOf(from, to, step) = 1 .. ((to - from + step - 1) \div step)
  BY DEF rangeOf
<1>2. k + 1 <= (to - from + step - 1) \div step <=> (k + 1) * step <= to - from + step - 1
  BY AtMostQuotient
<1>3. (k + 1) * step = k * step + step /\ k * step \in Int
  OBVIOUS
<1>4. (to - from + step - 1) \div step \in Int
  BY Quotient
<1> QED
  BY <1>1, <1>2, <1>3, <1>4

\* A range downwards has a value in each place before its stop.
LEMMA RangeDown ==
  ASSUME NEW from \in Int, NEW to \in Int, NEW step \in Int, step < 0, NEW k \in Nat
  PROVE  k + 1 \in DOMAIN rangeOf(from, to, step) <=> from + k * step > to
<1> DEFINE s == 0 - step
<1>1. s \in Nat \ {0}
  OBVIOUS
<1>2. DOMAIN rangeOf(from, to, step) = 1 .. ((from - to + s - 1) \div s)
  BY DEF rangeOf
<1> HIDE DEF s
<1>3. k + 1 <= (from - to + s - 1) \div s <=> (k + 1) * s <= from - to + s - 1
  BY <1>1, AtMostQuotient
<1>4. (k + 1) * s = k * s + s /\ k * s \in Int
  BY <1>1
<1>5. k * s = 0 - k * step
  BY DEF s
<1>6. (from - to + s - 1) \div s \in Int
  BY <1>1, Quotient
<1> QED
  BY <1>2, <1>3, <1>4, <1>5, <1>6, <1>1

\* What a step is worth: 1 when none is written, a literal its value.  The
\* lexer reads no sign, so that the literal behind a minus is not negative; an
\* expression of another form may have any value.
StepHasValue(steps, step) ==
  IF steps = << >> THEN step = 1
  ELSE LET e == Head(steps) IN
       /\ e.kind = "Literal" => e.value = step
       /\ e.kind = "Unary" /\ e.op = "-" /\ e.argument.kind = "Literal" =>
            e.argument.value \in Nat /\ step = 0 - e.argument.value

\* The stop of the range that is printed for a FOR to end: one further on in
\* the direction the printer sees in the text of the step.
rangeStopValue(end, steps) == IF isDescending(steps) THEN end - 1 ELSE end + 1

LEMMA DescendingIsNegative ==
  ASSUME NEW steps, NEW step \in Int \ {0}, StepHasValue(steps, step), isDescending(steps)
  PROVE  step < 0
<1> DEFINE e == Head(steps)
<1>1. steps # << >> /\ isNegativeLiteral(e)
  BY DEF isDescending
<1>2. /\ e.kind = "Literal" => e.value = step
      /\ e.kind = "Unary" /\ e.op = "-" /\ e.argument.kind = "Literal" =>
           e.argument.value \in Nat /\ step = 0 - e.argument.value
  BY <1>1 DEF StepHasValue
<1>3. CASE e.kind = "Literal" /\ e.value < 0
  BY <1>2, <1>3
<1>4. CASE e.kind = "Unary" /\ e.op = "-" /\ e.argument.kind = "Literal"
  BY <1>2, <1>4
<1> QED
  BY <1>1, <1>3, <1>4 DEF isNegativeLiteral

\* A FOR whose body leaves its variable alone has the turns of the Python loop
\* printed for it, with the same values, whatever start and end, when its step
\* is positive, however it is written, or a negative literal (execFor; the
\* range that IrForStatement is printed as, with isNegativeLiteral).
THEOREM ForTurnsAgree ==
  ASSUME NEW from \in Int, NEW end \in Int, NEW step \in Int \ {0}, NEW k \in Nat,
         NEW steps, StepHasValue(steps, step), step > 0 \/ isDescending(steps)
  PROVE  LET range == rangeOf(from, rangeStopValue(end, steps), step)
         IN  /\ goesOn(from + k * step, end, step) <=> k + 1 \in DOMAIN range
             /\ k + 1 \in DOMAIN range => range[k + 1] = from + k * step
<1> DEFINE range == rangeOf(from, rangeStopValue(end, steps), step)
<1>1. ASSUME k + 1 \in DOMAIN range PROVE range[k + 1] = from + k * step
  BY <1>1 DEF rangeOf
<1>2. k * step \in Int
  OBVIOUS
<1>3. CASE step > 0
  <2>1. ~isDescending(steps)
    BY <1>3, DescendingIsNegative
  <2>2. k + 1 \in DOMAIN range <=> from + k * step < end + 1
    BY <1>3, <2>1, RangeUp DEF rangeStopValue
  <2> QED
    BY <1>1, <1>2, <1>3, <2>2 DEF goesOn
<1>4. CASE isDescending(steps)
  <2>1. step < 0
    BY <1>4, DescendingIsNegative
  <2>2. k + 1 \in DOMAIN range <=> from + k * step > end - 1
    BY <1>4, <2>1, RangeDown DEF rangeStopValue
  <2> QED
    BY <1>1, <1>2, <2>1, <2>2 DEF goesOn
<1> QED
  BY <1>3, <1>4

\* The condition of ForTurnsAgree is needed: a step that is negative by its
\* value and no literal gets the stop of an ascending loop, and Python leaves
\* out the turns at the end and just before it, as a FOR that ends two later
\* would (isNegativeLiteral).
THEOREM HiddenDescentFallsShort ==
  ASSUME NEW from \in Int, NEW end \in Int, NEW step \in Int, step < 0, NEW k \in Nat,
         NEW steps, ~isDescending(steps)
  PROVE  k + 1 \in DOMAIN rangeOf(from, rangeStopValue(end, steps), step)
           <=> goesOn(from + k * step, end + 2, step)
<1>1. k * step \in Int
  OBVIOUS
<1>2. k + 1 \in DOMAIN rangeOf(from, end + 1, step) <=> from + k * step > end + 1
  BY RangeDown
<1> QED
  BY <1>1, <1>2 DEF goesOn, rangeStopValue

-----------------------------------------------------------------------------
(* The slots of an array *)

\* What allocateArray asks of the bounds it is given.
Shape(array) ==
  /\ array.lowers \in Seq(Int) /\ array.uppers \in Seq(Int)
  /\ Len(array.uppers) = Len(array.lowers)
  /\ \A d \in 1 .. Len(array.lowers) : array.lowers[d] <= array.uppers[d]

rank(array)      == Len(array.lowers)
extent(array, d) == array.uppers[d] - array.lowers[d] + 1
Indices(array)   == [ 1 .. rank(array) -> Int ]
InBounds(array, is) ==
  \A d \in 1 .. rank(array) : array.lowers[d] <= is[d] /\ is[d] <= array.uppers[d]

\* Numbers that are computed one from the other, by a factor and a summand,
\* can be computed however many there are.
LEMMA RecursionUp ==
  ASSUME NEW n \in Nat, NEW a \in Int, NEW m \in [ 1 .. n -> Int ], NEW c \in [ 1 .. n -> Int ]
  PROVE  \E f \in [ 0 .. n -> Int ] :
           f[0] = a /\ \A k \in 1 .. n : f[k] = f[k - 1] * m[k] + c[k]
<1> DEFINE F(k) == { f \in [ 0 .. k -> Int ] :
                       f[0] = a /\ \A i \in 1 .. k : f[i] = f[i - 1] * m[i] + c[i] }
           T == { k \in 0 .. n : F(k) # {} }
<1>1. 0 \in T
  <2>1. [ i \in 0 .. 0 |-> a ] \in F(0)
    OBVIOUS
  <2> QED
    BY <2>1
<1>2. ASSUME NEW k \in 1 .. n, k - 1 \in T PROVE k \in T
  <2>1. PICK f \in F(k - 1) : TRUE
    BY <1>2
  <2>2. /\ f \in [ 0 .. k - 1 -> Int ] /\ f[0] = a
        /\ \A i \in 1 .. k - 1 : f[i] = f[i - 1] * m[i] + c[i]
    BY <2>1
  <2> DEFINE g == [ i \in 0 .. k |-> IF i = k THEN f[k - 1] * m[k] + c[k] ELSE f[i] ]
  <2>3. f[k - 1] * m[k] + c[k] \in Int
    BY <2>2
  <2>4. g \in [ 0 .. k -> Int ] /\ g[0] = a
    BY <2>2, <2>3
  <2>5. ASSUME NEW i \in 1 .. k PROVE g[i] = g[i - 1] * m[i] + c[i]
    <3>1. g[i - 1] = f[i - 1]
      OBVIOUS
    <3>2. CASE i = k
      BY <3>1, <3>2
    <3>3. CASE i # k
      <4>1. g[i] = f[i] /\ i \in 1 .. k - 1
        BY <3>3
      <4> QED
        BY <2>2, <3>1, <4>1
    <3> QED
      BY <3>2, <3>3
  <2>6. g \in F(k)
    <3> HIDE DEF g
    <3> QED
      BY <2>4, <2>5
  <2> HIDE DEF F
  <2> QED
    BY <2>6
<1>3. \A k \in 0 .. n : k \in T
  <2> HIDE DEF T
  <2> QED
    BY <1>1, <1>2, UpTo
<1>4. F(n) # {}
  <2> HIDE DEF F
  <2> QED
    BY <1>3
<1> QED
  BY <1>4

\* From the last to the first as well.
LEMMA RecursionDown ==
  ASSUME NEW n \in Nat, NEW a \in Int, NEW m \in [ 1 .. n -> Int ], NEW c \in [ 1 .. n -> Int ]
  PROVE  \E f \in [ 1 .. n + 1 -> Int ] :
           f[n + 1] = a /\ \A d \in 1 .. n : f[d] = f[d + 1] * m[d] + c[d]
<1> DEFINE mm == [ k \in 1 .. n |-> m[n + 1 - k] ]
           cc == [ k \in 1 .. n |-> c[n + 1 - k] ]
<1>1. mm \in [ 1 .. n -> Int ] /\ cc \in [ 1 .. n -> Int ]
  OBVIOUS
<1>2. \A d \in 1 .. n : n + 1 - d \in 1 .. n /\ mm[n + 1 - d] = m[d] /\ cc[n + 1 - d] = c[d]
  OBVIOUS
<1> HIDE DEF mm, cc
<1>3. PICK f \in [ 0 .. n -> Int ] :
        f[0] = a /\ \A k \in 1 .. n : f[k] = f[k - 1] * mm[k] + cc[k]
  BY <1>1, RecursionUp
<1> DEFINE g == [ d \in 1 .. n + 1 |-> f[n + 1 - d] ]
<1>4. g \in [ 1 .. n + 1 -> Int ] /\ g[n + 1] = a
  BY <1>3
<1>5. ASSUME NEW d \in 1 .. n PROVE g[d] = g[d + 1] * m[d] + c[d]
  <2>1. g[d] = f[n + 1 - d] /\ g[d + 1] = f[(n + 1 - d) - 1]
    OBVIOUS
  <2>2. f[n + 1 - d] = f[(n + 1 - d) - 1] * mm[n + 1 - d] + cc[n + 1 - d]
    BY <1>2, <1>3
  <2> QED
    BY <1>2, <2>1, <2>2
<1> QED
  BY <1>4, <1>5

\* What holds of the last and, with each number, of the one before it, holds
\* of them all.
LEMMA DownTo ==
  ASSUME NEW n \in Nat, NEW T, n + 1 \in T,
         \A d \in 1 .. n : d + 1 \in T => d \in T
  PROVE  \A d \in 1 .. n + 1 : d \in T
<1> DEFINE U == { k \in 0 .. n : n + 1 - k \in T }
<1>1. 0 \in U
  OBVIOUS
<1>2. ASSUME NEW k \in 1 .. n, k - 1 \in U PROVE k \in U
  <2>1. n + 1 - k \in 1 .. n /\ (n + 1 - k) + 1 = n + 1 - (k - 1)
    OBVIOUS
  <2> QED
    BY <1>2, <2>1
<1>3. \A k \in 0 .. n : k \in U
  <2> HIDE DEF U
  <2> QED
    BY <1>1, <1>2, UpTo
<1>4. ASSUME NEW d \in 1 .. n + 1 PROVE d \in T
  <2>1. n + 1 - d \in 0 .. n /\ n + 1 - (n + 1 - d) = d
    OBVIOUS
  <2> QED
    BY <1>3, <2>1
<1> QED
  BY <1>4

\* Two products of positive numbers are positive; a product of a smaller number
\* is smaller.
LEMMA Products ==
  ASSUME NEW s \in Nat \ {0}
  PROVE  /\ \A e \in Nat \ {0} : s * e \in Nat \ {0}
         /\ \A x, y \in Int : x <= y => x * s <= y * s
<1>1. ASSUME NEW e \in Nat \ {0} PROVE s * e \in Nat \ {0}
  OBVIOUS
<1>2. ASSUME NEW x \in Int, NEW y \in Int, x <= y PROVE x * s <= y * s
  <2>1. (y - x) * s >= 0 /\ (y - x) * s = y * s - x * s
    BY <1>2
  <2> QED
    BY <2>1
<1> QED
  BY <1>1, <1>2

\* The strides are what the code computes: 1 behind the last dimension, and in
\* front of each dimension its extent more (arrayOffset).
LEMMA StridesMultiply ==
  ASSUME NEW array, Shape(array)
  PROVE  /\ \A d \in 1 .. rank(array) + 1 : strides(array)[d] \in Nat \ {0}
         /\ strides(array)[rank(array) + 1] = 1
         /\ \A d \in 1 .. rank(array) :
              strides(array)[d] = strides(array)[d + 1] * extent(array, d)
<1> DEFINE n == rank(array)
           Body(f) == [ d \in 1 .. n + 1 |->
                          IF d = n + 1 THEN 1
                          ELSE f[d + 1] * (array.uppers[d] - array.lowers[d] + 1) ]
           m == [ d \in 1 .. n |-> extent(array, d) ]
           c == [ d \in 1 .. n |-> 0 ]
           s == CHOOSE f : f = Body(f)
<1>1. n \in Nat
  BY DEF rank, Shape
<1>2. \A d \in 1 .. n : extent(array, d) \in Nat \ {0}
  BY DEF rank, extent, Shape
<1>3. m \in [ 1 .. n -> Int ] /\ c \in [ 1 .. n -> Int ]
  BY <1>2
<1>4. PICK f \in [ 1 .. n + 1 -> Int ] :
        f[n + 1] = 1 /\ \A d \in 1 .. n : f[d] = f[d + 1] * m[d] + c[d]
  <2>1. 1 \in Int
    OBVIOUS
  <2> HIDE DEF n, m, c
  <2> QED
    BY <1>1, <1>3, <2>1, RecursionDown
<1>5. f = Body(f)
  <2>1. ASSUME NEW d \in 1 .. n PROVE f[d] = f[d + 1] * extent(array, d)
    <3>1. m[d] = extent(array, d) /\ c[d] = 0
      OBVIOUS
    <3> HIDE DEF n, m, c
    <3>2. f[d + 1] \in Int /\ extent(array, d) \in Int
      BY <1>1, <1>2, <1>4
    <3>3. f[d] = f[d + 1] * m[d] + c[d]
      BY <1>4
    <3>4. f[d + 1] * extent(array, d) \in Int
      BY <3>2
    <3> QED
      BY <3>1, <3>3, <3>4
  <2> HIDE DEF n
  <2> QED
    BY <1>1, <1>4, <2>1 DEF extent
<1>6. s = Body(s)
  <2> HIDE DEF Body
  <2> QED
    BY <1>5
<1>7. strides(array) = s
  BY DEF strides, rank
<1> HIDE DEF s
<1>8. /\ s[n + 1] = 1
      /\ \A d \in 1 .. n : s[d] = s[d + 1] * extent(array, d)
  <2> DEFINE b == Body(s)
  <2>1. b[n + 1] = 1 /\ \A d \in 1 .. n : b[d] = s[d + 1] * extent(array, d)
    <3> HIDE DEF n
    <3> QED
      BY <1>1 DEF extent
  <2> HIDE DEF b, Body
  <2> QED
    BY <1>6, <2>1 DEF b
<1>9. \A d \in 1 .. n + 1 : s[d] \in Nat \ {0}
  <2> DEFINE T == { d \in 1 .. n + 1 : s[d] \in Nat \ {0} }
  <2> HIDE DEF n
  <2>1. n + 1 \in T
    BY <1>1, <1>8
  <2>2. ASSUME NEW d \in 1 .. n, d + 1 \in T PROVE d \in T
    <3>1. s[d + 1] \in Nat \ {0} /\ extent(array, d) \in Nat \ {0}
      BY <1>2, <2>2
    <3>2. s[d + 1] * extent(array, d) \in Nat \ {0}
      BY <3>1, Products
    <3> QED
      BY <1>1, <1>8, <3>2
  <2> HIDE DEF T
  <2>3. \A d \in 1 .. n + 1 : d \in T
    BY <1>1, <2>1, <2>2, DownTo
  <2> QED
    BY <2>3 DEF T
<1> QED
  BY <1>7, <1>8, <1>9

\* An array has as many slots as the first stride says: the dimensions are
\* multiplied from both ends (allocateArray, arrayOffset).
LEMMA SizeIsFirstStride ==
  ASSUME NEW array, Shape(array)
  PROVE  sizeOf(array.lowers, array.uppers) = strides(array)[1]
<1> DEFINE n == rank(array)
           S == strides(array)
           Body(f) == [ d \in 0 .. n |->
                          IF d = 0 THEN 1
                          ELSE f[d - 1] * (array.uppers[d] - array.lowers[d] + 1) ]
           m == [ d \in 1 .. n |-> extent(array, d) ]
           c == [ d \in 1 .. n |-> 0 ]
           size == CHOOSE f : f = Body(f)
<1>1. n \in Nat
  BY DEF rank, Shape
<1>2. \A d \in 1 .. n : extent(array, d) \in Nat \ {0}
  BY DEF rank, extent, Shape
<1>3. m \in [ 1 .. n -> Int ] /\ c \in [ 1 .. n -> Int ]
  BY <1>2
<1>4. PICK f \in [ 0 .. n -> Int ] :
        f[0] = 1 /\ \A d \in 1 .. n : f[d] = f[d - 1] * m[d] + c[d]
  <2>1. 1 \in Int
    OBVIOUS
  <2> HIDE DEF n, m, c
  <2> QED
    BY <1>1, <1>3, <2>1, RecursionUp
<1>5. f[0] = 1 /\ \A d \in 1 .. n : f[d] = f[d - 1] * extent(array, d)
  <2>1. ASSUME NEW d \in 1 .. n PROVE f[d] = f[d - 1] * extent(array, d)
    <3>1. m[d] = extent(array, d) /\ c[d] = 0
      OBVIOUS
    <3> HIDE DEF n, m, c
    <3>2. f[d - 1] \in Int /\ extent(array, d) \in Int
      BY <1>1, <1>2, <1>4
    <3>3. f[d] = f[d - 1] * m[d] + c[d]
      BY <1>4
    <3>4. f[d - 1] * extent(array, d) \in Int
      BY <3>2
    <3> QED
      BY <3>1, <3>3, <3>4
  <2> QED
    BY <1>4, <2>1
<1>6. f = Body(f)
  <2> HIDE DEF n
  <2> QED
    BY <1>1, <1>4, <1>5 DEF extent
<1>7. size = Body(size)
  <2> HIDE DEF Body
  <2> QED
    BY <1>6
<1>8. sizeOf(array.lowers, array.uppers) = size[n]
  BY DEF sizeOf, rank
<1> HIDE DEF size
<1>9. /\ size[0] = 1
      /\ \A d \in 1 .. n : size[d] = size[d - 1] * extent(array, d)
  <2> DEFINE b == Body(size)
  <2>1. b[0] = 1 /\ \A d \in 1 .. n : b[d] = size[d - 1] * extent(array, d)
    <3> HIDE DEF n
    <3> QED
      BY <1>1 DEF extent
  <2> HIDE DEF b, Body
  <2> QED
    BY <1>7, <2>1 DEF b
<1>10. /\ \A d \in 1 .. n + 1 : S[d] \in Nat \ {0}
       /\ S[n + 1] = 1
       /\ \A d \in 1 .. n : S[d] = S[d + 1] * extent(array, d)
  BY StridesMultiply
<1> DEFINE T == { d \in 0 .. n : size[d] \in Int /\ size[d] * S[d + 1] = S[1] }
<1> HIDE DEF n, S
<1>11. 0 \in T
  BY <1>1, <1>9, <1>10
<1>12. ASSUME NEW d \in 1 .. n, d - 1 \in T PROVE d \in T
  <2>1. size[d - 1] \in Int /\ size[d - 1] * S[d] = S[1]
    BY <1>12
  <2>2. extent(array, d) \in Int /\ S[d + 1] \in Int
    BY <1>1, <1>2, <1>10
  <2>3. size[d] = size[d - 1] * extent(array, d) /\ S[d] = S[d + 1] * extent(array, d)
    BY <1>9, <1>10
  <2>4. \A x, y, z \in Int : (x * y) * z = x * (z * y) /\ x * y \in Int
    OBVIOUS
  <2>5. size[d] * S[d + 1] = size[d - 1] * S[d] /\ size[d] \in Int
    BY <2>1, <2>2, <2>3, <2>4
  <2> QED
    BY <2>1, <2>5
<1>13. n \in T
  <2> HIDE DEF T
  <2>1. \A d \in 0 .. n : d \in T
    BY <1>1, <1>11, <1>12, UpTo
  <2> QED
    BY <1>1, <2>1
<1> QED
  BY <1>8, <1>10, <1>13 DEF S

\* How far the element lies behind the first: each index counts from its lower
\* bound, times the stride behind it.
Offsets(array, is, f) ==
  /\ f \in [ 1 .. rank(array) + 1 -> Int ]
  /\ f[rank(array) + 1] = 0
  /\ \A d \in 1 .. rank(array) :
       f[d] = f[d + 1] + (is[d] - array.lowers[d]) * strides(array)[d + 1]

LEMMA OffsetIsSum ==
  ASSUME NEW array, Shape(array), NEW is \in Indices(array), InBounds(array, is)
  PROVE  \E f : Offsets(array, is, f) /\ arrayOffset(array, is) = 1 + f[1]
<1> DEFINE n == rank(array)
           S == strides(array)
           Body(f) == [ d \in 1 .. n + 1 |->
                          IF d = n + 1 THEN 0
                          ELSE f[d + 1] + (is[d] - array.lowers[d]) * S[d + 1] ]
           m == [ d \in 1 .. n |-> 1 ]
           c == [ d \in 1 .. n |-> (is[d] - array.lowers[d]) * S[d + 1] ]
           offset == CHOOSE f : f = Body(f)
<1>1. n \in Nat
  BY DEF rank, Shape
<1>2. \A d \in 1 .. n + 1 : S[d] \in Nat \ {0}
  BY StridesMultiply
<1>3. \A d \in 1 .. n : is[d] \in Int /\ array.lowers[d] \in Int
  BY DEF rank, Shape, Indices
<1>4. m \in [ 1 .. n -> Int ] /\ c \in [ 1 .. n -> Int ]
  <2> HIDE DEF n, S
  <2>1. ASSUME NEW d \in 1 .. n PROVE (is[d] - array.lowers[d]) * S[d + 1] \in Int
    <3>1. is[d] - array.lowers[d] \in Int /\ S[d + 1] \in Int
      BY <1>1, <1>2, <1>3
    <3> QED
      BY <3>1
  <2> QED
    BY <2>1
<1>5. PICK f \in [ 1 .. n + 1 -> Int ] :
        f[n + 1] = 0 /\ \A d \in 1 .. n : f[d] = f[d + 1] * m[d] + c[d]
  <2>1. 0 \in Int
    OBVIOUS
  <2> HIDE DEF n, m, c
  <2> QED
    BY <1>1, <1>4, <2>1, RecursionDown
<1>6. \A d \in 1 .. n : f[d] = f[d + 1] + (is[d] - array.lowers[d]) * S[d + 1]
  <2>1. ASSUME NEW d \in 1 .. n PROVE f[d] = f[d + 1] + c[d]
    <3>1. m[d] = 1
      OBVIOUS
    <3> HIDE DEF n, m, c
    <3>2. f[d + 1] \in Int
      BY <1>1, <1>5
    <3> QED
      BY <1>5, <3>1, <3>2
  <2> QED
    BY <2>1
<1>7. f = Body(f)
  <2> HIDE DEF n, S
  <2> QED
    BY <1>1, <1>5, <1>6
<1>8. offset = Body(offset)
  <2> HIDE DEF Body
  <2> QED
    BY <1>7
<1>9. arrayOffset(array, is) = 1 + offset[1]
  <2>1. ~ \E d \in 1 .. n : is[d] < array.lowers[d] \/ is[d] > array.uppers[d]
    <3>1. \A d \in 1 .. n : array.uppers[d] \in Int
      BY DEF rank, Shape
    <3> HIDE DEF n
    <3> QED
      BY <1>3, <3>1 DEF InBounds, n
  <2> QED
    BY <2>1 DEF arrayOffset, rank
<1> HIDE DEF offset
<1>10. /\ DOMAIN offset = 1 .. n + 1
       /\ offset[n + 1] = 0
       /\ \A d \in 1 .. n : offset[d] = offset[d + 1] + (is[d] - array.lowers[d]) * S[d + 1]
  <2> DEFINE b == Body(offset)
  <2>1. /\ DOMAIN b = 1 .. n + 1 /\ b[n + 1] = 0
        /\ \A d \in 1 .. n : b[d] = offset[d + 1] + (is[d] - array.lowers[d]) * S[d + 1]
    <3> HIDE DEF n, S
    <3> QED
      BY <1>1
  <2> HIDE DEF b, Body
  <2> QED
    BY <1>8, <2>1 DEF b
<1>11. offset = [ d \in 1 .. n + 1 |-> offset[d] ]
  BY <1>8
<1>12. \A d \in 1 .. n + 1 : offset[d] \in Int
  <2> DEFINE T == { d \in 1 .. n + 1 : offset[d] \in Int }
  <2> HIDE DEF n, S, Body
  <2>1. n + 1 \in T
    BY <1>1, <1>10
  <2>2. ASSUME NEW d \in 1 .. n, d + 1 \in T PROVE d \in T
    <3>1. is[d] - array.lowers[d] \in Int /\ S[d + 1] \in Int /\ offset[d + 1] \in Int
      BY <1>1, <1>2, <1>3, <2>2
    <3>2. (is[d] - array.lowers[d]) * S[d + 1] \in Int
      BY <3>1
    <3> QED
      BY <1>1, <1>10, <3>1, <3>2
  <2> HIDE DEF T
  <2>3. \A d \in 1 .. n + 1 : d \in T
    BY <1>1, <2>1, <2>2, DownTo
  <2> QED
    BY <2>3 DEF T
<1>13. Offsets(array, is, offset)
  <2>1. offset \in [ 1 .. n + 1 -> Int ]
    <3> HIDE DEF n
    <3> QED
      BY <1>11, <1>12
  <2> QED
    BY <1>10, <2>1 DEF Offsets
<1> QED
  BY <1>9, <1>13

\* The numbers an element is found by.
LEMMA IndicesAreNumbers ==
  ASSUME NEW array, Shape(array), NEW is \in Indices(array)
  PROVE  /\ rank(array) \in Nat
         /\ \A d \in 1 .. rank(array) :
              is[d] \in Int /\ array.lowers[d] \in Int /\ array.uppers[d] \in Int
BY DEF rank, Shape, Indices

\* Every partial sum is smaller than the stride in front of it.
LEMMA OffsetsAreBounded ==
  ASSUME NEW array, Shape(array), NEW is \in Indices(array), InBounds(array, is),
         NEW f, Offsets(array, is, f)
  PROVE  \A d \in 1 .. rank(array) + 1 : 0 <= f[d] /\ f[d] < strides(array)[d]
<1> DEFINE n == rank(array)
           S == strides(array)
           T == { d \in 1 .. n + 1 : 0 <= f[d] /\ f[d] < S[d] }
<1>1. n \in Nat
  BY DEF rank, Shape
<1>2. /\ \A d \in 1 .. n + 1 : S[d] \in Nat \ {0} /\ f[d] \in Int
      /\ S[n + 1] = 1 /\ f[n + 1] = 0
      /\ \A d \in 1 .. n : /\ S[d] = S[d + 1] * extent(array, d)
                           /\ f[d] = f[d + 1] + (is[d] - array.lowers[d]) * S[d + 1]
  BY StridesMultiply DEF Offsets
<1>3. \A d \in 1 .. n : /\ is[d] - array.lowers[d] \in Nat
                        /\ extent(array, d) \in Int
                        /\ is[d] - array.lowers[d] <= extent(array, d) - 1
  <2>1. \A d \in 1 .. n : is[d] \in Int /\ array.lowers[d] \in Int /\ array.uppers[d] \in Int
    BY IndicesAreNumbers
  <2>2. \A d \in 1 .. n : array.lowers[d] <= is[d] /\ is[d] <= array.uppers[d]
    BY DEF InBounds
  <2> HIDE DEF n
  <2> QED
    BY <2>1, <2>2 DEF extent
<1> HIDE DEF n, S
<1>4. n + 1 \in T
  BY <1>1, <1>2
<1>5. ASSUME NEW d \in 1 .. n, d + 1 \in T PROVE d \in T
  <2> DEFINE x == is[d] - array.lowers[d]
             e == extent(array, d)
             s == S[d + 1]
  <2>1. /\ x \in Nat /\ e \in Int /\ x <= e - 1
        /\ s \in Nat \ {0} /\ f[d + 1] \in Int /\ 0 <= f[d + 1] /\ f[d + 1] < s
    BY <1>1, <1>2, <1>3, <1>5
  <2>2. f[d] = f[d + 1] + x * s /\ S[d] = s * e
    BY <1>2
  <2> HIDE DEF x, e, s
  <2>3. x * s <= (e - 1) * s /\ 0 * s <= x * s
    BY <2>1, Products
  <2>4. (e - 1) * s = s * e - s /\ s * e \in Int /\ x * s \in Int /\ 0 * s = 0
    BY <2>1
  <2>5. 0 <= f[d] /\ f[d] < S[d]
    BY <2>1, <2>2, <2>3, <2>4
  <2> QED
    BY <1>1, <2>5
<1>6. \A d \in 1 .. n + 1 : d \in T
  <2> HIDE DEF T
  <2> QED
    BY <1>1, <1>4, <1>5, DownTo
<1> QED
  BY <1>6 DEF n, S

\* An index within bounds has one of the slots of the array; another one is an
\* error, whatever the rank and the bounds (arrayOffset, R_ARRAY_BOUNDS).
THEOREM ElementsHaveSlots ==
  ASSUME NEW array, Shape(array), NEW is \in Indices(array)
  PROVE  IF InBounds(array, is)
         THEN arrayOffset(array, is) \in 1 .. sizeOf(array.lowers, array.uppers)
         ELSE arrayOffset(array, is) = 0
<1>1. CASE InBounds(array, is)
  <2>1. PICK f : Offsets(array, is, f) /\ arrayOffset(array, is) = 1 + f[1]
    BY <1>1, OffsetIsSum
  <2>2. rank(array) \in Nat
    BY DEF rank, Shape
  <2>3. 0 <= f[1] /\ f[1] < strides(array)[1]
    BY <1>1, <2>1, <2>2, OffsetsAreBounded
  <2>4. f[1] \in Int /\ strides(array)[1] \in Nat
    BY <2>1, <2>2, StridesMultiply DEF Offsets
  <2> QED
    BY <1>1, <2>1, <2>3, <2>4, SizeIsFirstStride
<1>2. CASE ~InBounds(array, is)
  <2>1. \A d \in 1 .. rank(array) :
          is[d] \in Int /\ array.lowers[d] \in Int /\ array.uppers[d] \in Int
    BY IndicesAreNumbers
  <2>2. \E d \in 1 .. rank(array) : is[d] < array.lowers[d] \/ is[d] > array.uppers[d]
    BY <1>2, <2>1 DEF InBounds
  <2>3. arrayOffset(array, is) = 0
    BY <2>2 DEF arrayOffset, rank
  <2> QED
    BY <1>2, <2>3
<1> QED
  BY <1>1, <1>2

\* Two remainders below a divisor and two multiples of it that make the same
\* sum are the same.
LEMMA DigitsAreUnique ==
  ASSUME NEW s \in Nat \ {0}, NEW x \in Int, NEW y \in Int,
         NEW r \in 0 .. s - 1, NEW q \in 0 .. s - 1, r + x * s = q + y * s
  PROVE  x = y /\ r = q
<1>1. x * s \in Int /\ y * s \in Int
  OBVIOUS
<1>2. x * s < y * s + s /\ y * s < x * s + s
  BY <1>1
<1>3. x <= y /\ y <= x
  BY <1>2, OnlyQuotient
<1> QED
  BY <1>1, <1>3

\* Different elements have different slots: a store into one leaves the others
\* alone (arrayOffset, resolvePlace).
THEOREM ElementsAreApart ==
  ASSUME NEW array, Shape(array), NEW is \in Indices(array), NEW js \in Indices(array),
         InBounds(array, is), InBounds(array, js),
         arrayOffset(array, is) = arrayOffset(array, js)
  PROVE  is = js
<1> DEFINE n == rank(array)
           S == strides(array)
<1>1. n \in Nat
  BY DEF rank, Shape
<1>2. PICK f : Offsets(array, is, f) /\ arrayOffset(array, is) = 1 + f[1]
  BY OffsetIsSum
<1>3. PICK g : Offsets(array, js, g) /\ arrayOffset(array, js) = 1 + g[1]
  BY OffsetIsSum
<1>4. \A d \in 1 .. n + 1 : /\ S[d] \in Nat \ {0} /\ f[d] \in Int /\ g[d] \in Int
                            /\ 0 <= f[d] /\ f[d] < S[d] /\ 0 <= g[d] /\ g[d] < S[d]
  BY <1>2, <1>3, StridesMultiply, OffsetsAreBounded DEF Offsets
<1>5. \A d \in 1 .. n : /\ f[d] = f[d + 1] + (is[d] - array.lowers[d]) * S[d + 1]
                        /\ g[d] = g[d + 1] + (js[d] - array.lowers[d]) * S[d + 1]
                        /\ is[d] \in Int /\ js[d] \in Int /\ array.lowers[d] \in Int
  BY <1>2, <1>3, IndicesAreNumbers DEF Offsets
<1>6. is = [ d \in 1 .. n |-> is[d] ] /\ js = [ d \in 1 .. n |-> js[d] ]
  BY DEF Indices
<1> HIDE DEF n, S
<1> DEFINE T == { k \in 0 .. n : f[k + 1] = g[k + 1] }
<1>7. 0 \in T
  <2>1. 1 + f[1] = 1 + g[1]
    BY <1>2, <1>3, Zenon
  <2>2. f[1] \in Int /\ g[1] \in Int
    BY <1>1, <1>4
  <2>3. f[0 + 1] = g[0 + 1]
    BY <2>1, <2>2
  <2> QED
    BY <1>1, <2>3
<1>8. ASSUME NEW k \in 1 .. n, f[k] = g[k] PROVE is[k] = js[k] /\ f[k + 1] = g[k + 1]
  <2> DEFINE x == is[k] - array.lowers[k]
             y == js[k] - array.lowers[k]
             s == S[k + 1]
             r == f[k + 1]
             q == g[k + 1]
  <2>1. /\ x \in Int /\ y \in Int /\ s \in Nat \ {0}
        /\ r \in 0 .. s - 1 /\ q \in 0 .. s - 1
    BY <1>1, <1>4, <1>5
  <2>2. r + x * s = q + y * s
    BY <1>5, <1>8
  <2>3. x = y /\ r = q
    <3> HIDE DEF x, y, s, r, q
    <3> QED
      BY <2>1, <2>2, DigitsAreUnique
  <2> QED
    BY <1>5, <2>3
<1>9. ASSUME NEW k \in 1 .. n, k - 1 \in T PROVE k \in T
  BY <1>1, <1>8, <1>9
<1>10. \A k \in 0 .. n : k \in T
  <2> HIDE DEF T
  <2> QED
    BY <1>1, <1>7, <1>9, UpTo
<1>11. \A d \in 1 .. n : is[d] = js[d]
  <2>1. ASSUME NEW d \in 1 .. n PROVE f[d] = g[d]
    <3>1. d - 1 \in 0 .. n /\ (d - 1) + 1 = d
      BY <1>1
    <3> QED
      BY <1>10, <3>1
  <2> QED
    BY <1>8, <2>1
<1> QED
  BY <1>6, <1>11

-----------------------------------------------------------------------------
(* Texts *)

\* Where two texts differ first, the one below has ended or has the smaller
\* character.
LEMMA BelowAt ==
  ASSUME NEW a \in Seq(Int), NEW b \in Seq(Int), NEW i \in 1 .. Len(b),
         \A j \in 1 .. i - 1 : j <= Len(a) /\ a[j] = b[j],
         i > Len(a) \/ a[i] < b[i]
  PROVE  textBelow(a, b)
BY DEF textBelow

\* Of two different texts exactly one is below the other, and what is below a
\* text is below those above it: the four comparisons of compare, which here are
\* all read off textBelow and equality, agree with each other.
THEOREM TextsAreOrdered ==
  ASSUME NEW a \in Seq(Int), NEW b \in Seq(Int)
  PROVE  /\ ~ textBelow(a, a)
         /\ a # b => (textBelow(a, b) <=> ~ textBelow(b, a))
         /\ \A c \in Seq(Int) : textBelow(a, b) /\ textBelow(b, c) => textBelow(a, c)
<1>1. Len(a) \in Nat /\ Len(b) \in Nat
  OBVIOUS
<1>2. ~ textBelow(a, a)
  <2> SUFFICES ASSUME NEW i \in 1 .. Len(a), i > Len(a) \/ a[i] < a[i] PROVE FALSE
    BY DEF textBelow
  <2>1. a[i] \in Int
    OBVIOUS
  <2> QED
    BY <1>1, <2>1
<1>3. ASSUME textBelow(a, b), textBelow(b, a) PROVE FALSE
  <2>1. PICK i \in 1 .. Len(b) : /\ \A j \in 1 .. (i - 1) : j <= Len(a) /\ a[j] = b[j]
                                 /\ i > Len(a) \/ a[i] < b[i]
    BY <1>3 DEF textBelow
  <2>2. PICK k \in 1 .. Len(a) : /\ \A j \in 1 .. (k - 1) : j <= Len(b) /\ b[j] = a[j]
                                 /\ k > Len(b) \/ b[k] < a[k]
    BY <1>3 DEF textBelow
  <2>3. b[i] \in Int /\ a[k] \in Int
    OBVIOUS
  <2>4. CASE i < k
    <3>1. i \in 1 .. k - 1 /\ i <= Len(a)
      BY <1>1, <2>4
    <3> QED
      BY <1>1, <2>1, <2>2, <2>3, <3>1
  <2>5. CASE k < i
    <3>1. k \in 1 .. i - 1 /\ k <= Len(b)
      BY <1>1, <2>5
    <3> QED
      BY <1>1, <2>1, <2>2, <2>3, <3>1
  <2>6. CASE i = k
    BY <1>1, <2>1, <2>2, <2>3, <2>6
  <2> QED
    BY <2>4, <2>5, <2>6
<1>4. ASSUME a # b PROVE textBelow(a, b) \/ textBelow(b, a)
  <2> DEFINE Apart == { i \in Nat : /\ i >= 1 /\ (i <= Len(a) \/ i <= Len(b))
                                    /\ i > Len(a) \/ i > Len(b) \/ a[i] # b[i] }
  <2>1. Apart # {}
    <3>1. CASE Len(a) = Len(b)
      <4>1. PICK i \in 1 .. Len(a) : a[i] # b[i]
        BY <1>4, <3>1
      <4>2. i \in Apart
        BY <1>1, <4>1
      <4> QED
        BY <4>2
    <3>2. CASE Len(a) < Len(b)
      <4>1. Len(b) \in Apart
        BY <1>1, <3>2
      <4> QED
        BY <4>1
    <3>3. CASE Len(b) < Len(a)
      <4>1. Len(a) \in Apart
        BY <1>1, <3>3
      <4> QED
        BY <4>1
    <3> QED
      BY <1>1, <3>1, <3>2, <3>3
  <2>2. Apart \in SUBSET Nat
    OBVIOUS
  <2>3. PICK i \in Apart : \A k \in Apart : i <= k
    <3> HIDE DEF Apart
    <3> QED
      BY <2>1, <2>2, LeastNumber
  <2>4. i \in Nat /\ i >= 1
    OBVIOUS
  <2>5. ASSUME NEW j \in 1 .. i - 1 PROVE j <= Len(a) /\ j <= Len(b) /\ a[j] = b[j]
    <3>1. j \in Nat /\ j >= 1 /\ j < i /\ (i <= Len(a) \/ i <= Len(b))
      BY <2>4
    <3>2. j \notin Apart
      <4> HIDE DEF Apart
      <4> QED
        BY <2>3, <2>4, <3>1
    <3> QED
      BY <1>1, <3>1, <3>2
  <2>6. CASE i > Len(a)
    <3>1. i \in 1 .. Len(b)
      BY <1>1, <2>4, <2>6
    <3> QED
      BY <2>5, <2>6, <3>1, BelowAt
  <2>7. CASE i > Len(b)
    <3>1. i \in 1 .. Len(a)
      BY <1>1, <2>4, <2>7
    <3> QED
      BY <2>5, <2>7, <3>1, BelowAt
  <2>8. CASE i <= Len(a) /\ i <= Len(b)
    <3>1. a[i] # b[i] /\ i \in 1 .. Len(a) /\ i \in 1 .. Len(b)
      BY <1>1, <2>4, <2>8
    <3>2. a[i] \in Int /\ b[i] \in Int
      BY <3>1
    <3>3. CASE a[i] < b[i]
      BY <2>5, <3>1, <3>3, BelowAt
    <3>4. CASE b[i] < a[i]
      BY <2>5, <3>1, <3>4, BelowAt
    <3> QED
      BY <3>1, <3>2, <3>3, <3>4
  <2> QED
    BY <1>1, <2>4, <2>6, <2>7, <2>8
<1>5. ASSUME NEW c \in Seq(Int), textBelow(a, b), textBelow(b, c) PROVE textBelow(a, c)
  <2>1. PICK i \in 1 .. Len(b) : /\ \A j \in 1 .. (i - 1) : j <= Len(a) /\ a[j] = b[j]
                                 /\ i > Len(a) \/ a[i] < b[i]
    BY <1>5 DEF textBelow
  <2>2. PICK k \in 1 .. Len(c) : /\ \A j \in 1 .. (k - 1) : j <= Len(b) /\ b[j] = c[j]
                                 /\ k > Len(b) \/ b[k] < c[k]
    BY <1>5 DEF textBelow
  <2>3. b[i] \in Int /\ c[k] \in Int /\ Len(c) \in Nat
    OBVIOUS
  <2>4. CASE i < k
    <3>1. i \in 1 .. k - 1 /\ i \in 1 .. Len(c)
      BY <2>3, <2>4
    <3>2. b[i] = c[i] /\ \A j \in 1 .. i - 1 : j <= Len(a) /\ a[j] = c[j]
      BY <2>1, <2>2, <2>4, <3>1
    <3>3. i > Len(a) \/ a[i] < c[i]
      BY <2>1, <3>2
    <3> QED
      BY <3>1, <3>2, <3>3, BelowAt
  <2>5. CASE k < i
    <3>1. k \in 1 .. i - 1 /\ k \in 1 .. Len(b)
      BY <1>1, <2>5
    <3>2. a[k] = b[k] /\ \A j \in 1 .. k - 1 : j <= Len(a) /\ a[j] = c[j]
      BY <2>1, <2>2, <2>5, <3>1
    <3>3. b[k] < c[k]
      BY <1>1, <2>2, <3>1
    <3>4. k > Len(a) \/ a[k] < c[k]
      BY <3>2, <3>3
    <3> QED
      BY <3>2, <3>4, BelowAt
  <2>6. CASE i = k
    <3>1. \A j \in 1 .. k - 1 : j <= Len(a) /\ a[j] = c[j]
      BY <2>1, <2>2, <2>6
    <3>2. b[k] < c[k]
      BY <1>1, <2>2, <2>6
    <3>3. k > Len(a) \/ a[k] < c[k]
      <4>1. CASE k > Len(a)
        BY <4>1
      <4>2. CASE k <= Len(a)
        <5>1. a[k] < b[k]
          BY <1>1, <2>1, <2>6, <4>2
        <5>2. k \in 1 .. Len(a)
          BY <1>1, <4>2
        <5>3. a[k] \in Int /\ b[k] \in Int /\ c[k] \in Int
          BY <2>3, <2>6, <5>2
        <5> QED
          BY <3>2, <5>1, <5>3
      <4>3. k > Len(a) \/ k <= Len(a)
        BY <1>1
      <4> QED
        BY <4>1, <4>2, <4>3
    <3> QED
      BY <3>1, <3>3, BelowAt
  <2> QED
    BY <2>4, <2>5, <2>6
<1> QED
  BY <1>2, <1>3, <1>4, <1>5

\* LEFT, RIGHT and MID are the slices they are printed as, for any text, count
\* and place the interpreter accepts: counts beyond the end are cut in both, and
\* _pp_right takes care of s[-0:] (LEFT, RIGHT, MID, PP_RIGHT_HELPER).
THEOREM PartsAgree ==
  ASSUME NEW t \in Seq(Int), NEW n \in Nat, NEW at \in Nat \ {0}
  PROVE  /\ leftOf(t, n) = sliced(t, 0, n)
         /\ rightOf(t, n) = ppRight(t, n)
         /\ midOf(t, at, n) = sliced(t, at - 1, at - 1 + n)
<1>1. leftOf(t, n) = sliced(t, 0, n)
  BY DEF leftOf, sliced
<1>2. midOf(t, at, n) = sliced(t, at - 1, at - 1 + n)
  BY DEF midOf, sliced
<1>3. CASE n = 0
  <2>1. rightOf(t, n) = << >>
    <3>1. Len(t) \in Nat
      OBVIOUS
    <3>2. (IF n < Len(t) THEN Len(t) - n ELSE 0) = Len(t)
      BY <1>3, <3>1
    <3>3. rightOf(t, n) = slice(t, Len(t), Len(t))
      BY <3>2 DEF rightOf
    <3>4. slice(t, Len(t), Len(t)) = SubSeq(t, Len(t) + 1, Len(t))
      BY DEF slice
    <3>5. SubSeq(t, Len(t) + 1, Len(t)) = << >>
      BY <3>1
    <3> QED
      BY <3>3, <3>4, <3>5
  <2> QED
    BY <1>1, <1>2, <1>3, <2>1 DEF ppRight
<1>4. CASE n # 0
  <2>1. rightOf(t, n) = sliced(t, 0 - n, Len(t))
    BY <1>4 DEF rightOf, sliced
  <2> QED
    BY <1>1, <1>2, <1>4, <2>1 DEF ppRight
<1> QED
  BY <1>3, <1>4

\* The characters of two texts put together.
LEMMA Together ==
  ASSUME NEW l \in Seq(Int), NEW r \in Seq(Int)
  PROVE  /\ l \o r \in Seq(Int) /\ Len(l \o r) = Len(l) + Len(r)
         /\ \A i \in 1 .. Len(l) : (l \o r)[i] = l[i]
         /\ \A i \in 1 .. Len(r) : (l \o r)[Len(l) + i] = r[i]
<1>1. l \o r \in Seq(Int) /\ Len(l \o r) = Len(l) + Len(r)
  OBVIOUS
<1>2. ASSUME NEW i \in 1 .. Len(l) PROVE (l \o r)[i] = l[i]
  OBVIOUS
<1>3. ASSUME NEW i \in 1 .. Len(r) PROVE (l \o r)[Len(l) + i] = r[i]
  OBVIOUS
<1> QED
  BY <1>1, <1>2, <1>3

\* LEFT and RIGHT take a text apart: what one leaves is what the other takes,
\* and a count beyond the end takes all (LEFT, RIGHT).
THEOREM PartsMakeTheWhole ==
  ASSUME NEW t \in Seq(Int), NEW n \in Nat
  PROVE  /\ n <= Len(t) => leftOf(t, n) \o rightOf(t, Len(t) - n) = t
         /\ n >= Len(t) => leftOf(t, n) = t /\ rightOf(t, n) = t
<1>1. Len(t) \in Nat
  OBVIOUS
<1>2. ASSUME n >= Len(t) PROVE leftOf(t, n) = t /\ rightOf(t, n) = t
  <2>1. leftOf(t, n) = slice(t, 0, n) /\ rightOf(t, n) = slice(t, 0, Len(t))
    <3>1. (IF n < Len(t) THEN Len(t) - n ELSE 0) = 0
      BY <1>1, <1>2
    <3> QED
      BY <3>1 DEF leftOf, rightOf
  <2>2. (IF n < Len(t) THEN n ELSE Len(t)) = Len(t) /\ 0 + 1 = 1
    BY <1>1, <1>2
  <2>3. slice(t, 0, n) = SubSeq(t, 1, Len(t)) /\ slice(t, 0, Len(t)) = SubSeq(t, 1, Len(t))
    BY <2>2 DEF slice
  <2>4. SubSeq(t, 1, Len(t)) = t
    OBVIOUS
  <2> QED
    BY <2>1, <2>3, <2>4
<1>3. ASSUME n <= Len(t) PROVE leftOf(t, n) \o rightOf(t, Len(t) - n) = t
  <2> DEFINE l == SubSeq(t, 1, n)
             r == SubSeq(t, n + 1, Len(t))
  <2>1. leftOf(t, n) = l
    BY <1>1, <1>3 DEF leftOf, slice
  <2>2. rightOf(t, Len(t) - n) = r
    BY <1>1, <1>3 DEF rightOf, slice
  <2>3. /\ l \in Seq(Int) /\ Len(l) = n
        /\ \A i \in 1 .. n : l[i] = t[i]
    BY <1>1, <1>3
  <2>4. /\ r \in Seq(Int) /\ Len(r) = Len(t) - n
        /\ \A i \in 1 .. Len(t) - n : r[i] = t[n + i]
    BY <1>1, <1>3
  <2> HIDE DEF l, r
  <2> DEFINE w == l \o r
  <2>5. w \in Seq(Int) /\ Len(w) = Len(l) + Len(r)
    BY <2>3, <2>4, Together
  <2>6. /\ \A i \in 1 .. Len(l) : w[i] = l[i]
        /\ \A i \in 1 .. Len(r) : w[Len(l) + i] = r[i]
    BY <2>3, <2>4, Together
  <2> HIDE DEF w
  <2>7. Len(w) = Len(t)
    BY <1>1, <2>3, <2>4, <2>5
  <2>8. ASSUME NEW i \in 1 .. Len(t) PROVE w[i] = t[i]
    <3>1. i \in Nat /\ i >= 1 /\ i <= Len(t)
      BY <1>1
    <3>2. CASE i <= n
      <4>1. i \in 1 .. n
        BY <3>1, <3>2
      <4> QED
        BY <2>3, <2>6, <4>1
    <3>3. CASE i > n
      <4>1. i - n \in 1 .. Len(t) - n /\ n + (i - n) = i
        BY <1>1, <1>3, <3>1, <3>3
      <4>2. w[i] = r[i - n]
        BY <2>3, <2>4, <2>6, <4>1
      <4> QED
        BY <2>4, <4>1, <4>2
    <3> QED
      BY <3>1, <3>2, <3>3
  <2>9. w = t
    <3>1. w = [ i \in 1 .. Len(w) |-> w[i] ] /\ t = [ i \in 1 .. Len(t) |-> t[i] ]
      BY <2>5
    <3> QED
      BY <2>7, <2>8, <3>1
  <2> QED
    BY <2>1, <2>2, <2>9 DEF w
<1> QED
  BY <1>2, <1>3
=============================================================================

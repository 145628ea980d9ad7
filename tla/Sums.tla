-------------------------------- MODULE Sums ---------------------------------
(***************************************************************************)
(* Sums over finite sets, as the models take them: MapThenSumSet, which    *)
(* adds up in an order of CHOOSE's.  Induction goes by a minimal set for   *)
(* which a claim fails, since inclusion of finite sets is well-founded.    *)
(***************************************************************************)
EXTENDS Integers, SequencesExt, FiniteSetTheorems, WellFoundedInduction, TLAPS

SumOf(f, S) == MapThenSumSet(LAMBDA x : f[x], S)

Chosen(s) == CHOOSE x \in s : TRUE

\* The function that MapThenSumSet defines by recursion.
IsFold(it, f, S) ==
    it = [s \in SUBSET S |-> IF s = {} THEN 0 ELSE f[Chosen(s)] + it[s \ {Chosen(s)}]]

LEMMA ChosenIn ==
    ASSUME NEW s, s # {} PROVE Chosen(s) \in s
BY DEF Chosen

\* A set of subsets of a finite set has a minimal element.
LEMMA MinimalSubset ==
    ASSUME NEW S, IsFiniteSet(S), NEW T \in SUBSET SUBSET S, T # {}
    PROVE  \E x \in T : \A y \in T : y \subseteq x => y = x
<1>1. IsWellFoundedOn(StrictSubsetOrdering(S), SUBSET S)
  BY FS_StrictSubsetOrderingWellFounded, FS_FiniteSubsetsOfFinite
<1>2. \E x \in T : \A y \in T : ~ (<<y, x>> \in StrictSubsetOrdering(S))
  BY <1>1, WFMin
<1> QED BY <1>2 DEF StrictSubsetOrdering

\* A non-empty set of natural numbers has a least element.
LEMMA LeastNat ==
    ASSUME NEW T \in SUBSET Nat, T # {}
    PROVE  \E n \in T : \A m \in T : n <= m
<1>1. PICK k \in T : TRUE
  OBVIOUS
<1> DEFINE U == {0 .. m : m \in {i \in T : i <= k}}
<1>2. k \in Nat /\ IsFiniteSet(0 .. k)
  BY FS_Interval
<1>3. 0 .. k \in U
  BY <1>2
<1>4. \A m \in Nat : m <= k => 0 .. m \subseteq 0 .. k
  BY <1>2
<1>5. U \in SUBSET SUBSET (0 .. k)
  BY <1>4
<1>6. \E x \in U : \A y \in U : y \subseteq x => y = x
  <2>1. U # {}
    BY <1>3
  <2> DEFINE K == 0 .. k
  <2>2. IsFiniteSet(K) /\ U \in SUBSET SUBSET K
    BY <1>2, <1>5
  <2> HIDE DEF U, K
  <2> QED BY <2>1, <2>2, MinimalSubset
<1>7. PICK x \in U : \A y \in U : y \subseteq x => y = x
  BY <1>6
<1>8. PICK n \in T : n <= k /\ x = 0 .. n
  BY <1>7
<1>9. ASSUME NEW m \in T, m < n PROVE FALSE
  <2>1. n \in Nat /\ m \in Nat /\ m <= k
    BY <1>2, <1>8, <1>9
  <2>2. 0 .. m \in U /\ 0 .. m \subseteq 0 .. n
    BY <1>9, <2>1
  <2>3. 0 .. m = 0 .. n
    BY <2>2, <1>7, <1>8
  <2>4. n \in 0 .. n /\ n \notin 0 .. m
    BY <2>1, <1>9
  <2> QED BY <2>3, <2>4
<1>10. \A m \in T : n <= m
  BY <1>8, <1>9
<1> QED BY <1>10

Level(S, n) == {s \in SUBSET S : Cardinality(s) <= n}

\* A fold as far as the sets of at most n elements.
FoldsTo(it, f, S, n) ==
    /\ it \in [Level(S, n) -> Int]
    /\ \A s \in Level(S, n) :
          it[s] = IF s = {} THEN 0 ELSE f[Chosen(s)] + it[s \ {Chosen(s)}]

LEMMA FoldStep ==
    ASSUME NEW S, IsFiniteSet(S), NEW f, \A x \in S : f[x] \in Int,
           NEW n \in Nat, NEW g, FoldsTo(g, f, S, n)
    PROVE  \E h : FoldsTo(h, f, S, n + 1)
<1> DEFINE h == [s \in Level(S, n + 1) |->
                   IF s = {} THEN 0 ELSE f[Chosen(s)] + g[s \ {Chosen(s)}]]
<1>1. ASSUME NEW s \in Level(S, n + 1), s # {}
      PROVE  /\ Chosen(s) \in S /\ s \ {Chosen(s)} \in Level(S, n)
             /\ s \ {Chosen(s)} \in Level(S, n + 1)
  <2>1. s \in SUBSET S /\ IsFiniteSet(s) /\ Cardinality(s) \in Nat /\ Cardinality(s) <= n + 1
    BY FS_Subset, FS_CardinalityType DEF Level
  <2>2. Chosen(s) \in s
    BY <1>1, ChosenIn
  <2>3. Cardinality(s \ {Chosen(s)}) = Cardinality(s) - 1
    BY <2>1, <2>2, FS_RemoveElement
  <2> QED BY <2>1, <2>2, <2>3 DEF Level
<1>2. \A s \in Level(S, n + 1) : h[s] \in Int
  BY <1>1 DEF FoldsTo
<1>3. ASSUME NEW s \in Level(S, n) PROVE s \in Level(S, n + 1) /\ h[s] = g[s]
  <2>1. s \in Level(S, n + 1)
    BY FS_Subset, FS_CardinalityType DEF Level
  <2> QED BY <2>1 DEF FoldsTo
<1>4. ASSUME NEW s \in Level(S, n + 1), s # {}
      PROVE  h[s] = f[Chosen(s)] + h[s \ {Chosen(s)}]
  BY <1>1, <1>3, <1>4
<1>5. FoldsTo(h, f, S, n + 1)
  BY <1>2, <1>4 DEF FoldsTo
<1> QED BY <1>5

LEMMA FoldExists ==
    ASSUME NEW S, IsFiniteSet(S), NEW f, \A x \in S : f[x] \in Int
    PROVE  \E it \in [SUBSET S -> Int] : IsFold(it, f, S)
<1> DEFINE Failing == {n \in Nat : ~ \E g : FoldsTo(g, f, S, n)}
<1>1. 0 \notin Failing
  <2> DEFINE g == [s \in Level(S, 0) |-> 0]
  <2>1. \A s \in Level(S, 0) : s = {}
    BY FS_Subset, FS_CardinalityType, FS_EmptySet DEF Level
  <2>2. FoldsTo(g, f, S, 0)
    BY <2>1 DEF FoldsTo
  <2> QED BY <2>2
<1>2. Failing = {}
  <2> SUFFICES ASSUME Failing # {} PROVE FALSE
    OBVIOUS
  <2>1. PICK n \in Failing : \A m \in Failing : n <= m
    BY LeastNat
  <2>2. n \in Nat /\ n # 0
    BY <1>1
  <2>3. n - 1 \in Nat /\ n - 1 \notin Failing /\ (n - 1) + 1 = n
    BY <2>1, <2>2
  <2>4. \E g : FoldsTo(g, f, S, n - 1)
    BY <2>3
  <2>5. \E h : FoldsTo(h, f, S, (n - 1) + 1)
    BY <2>3, <2>4, FoldStep
  <2>6. \E h : FoldsTo(h, f, S, n)
    BY <2>3, <2>5
  <2> QED BY <2>6
<1>3. Cardinality(S) \in Nat /\ Level(S, Cardinality(S)) = SUBSET S
  BY FS_CardinalityType, FS_Subset DEF Level
<1>4. PICK it : FoldsTo(it, f, S, Cardinality(S))
  BY <1>2, <1>3
<1>5. it \in [SUBSET S -> Int] /\ IsFold(it, f, S)
  BY <1>3, <1>4 DEF FoldsTo, IsFold
<1> QED BY <1>5

\* Two folds give a set the same value if the functions agree on it.
LEMMA FoldsAgree ==
    ASSUME NEW S, NEW T, IsFiniteSet(S), NEW R \in SUBSET S, R \in SUBSET T,
           NEW f, NEW g, \A x \in R : f[x] = g[x],
           NEW it, NEW jt, IsFold(it, f, S), IsFold(jt, g, T)
    PROVE  it[R] = jt[R]
<1> DEFINE Differing == {s \in SUBSET R : it[s] # jt[s]}
<1>1. Differing = {}
  <2> SUFFICES ASSUME Differing # {} PROVE FALSE
    OBVIOUS
  <2>1. IsFiniteSet(R)
    BY FS_Subset
  <2>2. \E s \in Differing : \A r \in Differing : r \subseteq s => r = s
    <3>1. Differing \in SUBSET SUBSET R
      OBVIOUS
    <3> HIDE DEF Differing
    <3> QED BY <2>1, <3>1, MinimalSubset
  <2>3. PICK s \in Differing : \A r \in Differing : r \subseteq s => r = s
    BY <2>2
  <2>4. s \in SUBSET S /\ s \in SUBSET T /\ s \in SUBSET R
    OBVIOUS
  <2>5. s # {}
    BY <2>4 DEF IsFold
  <2>6. Chosen(s) \in s /\ f[Chosen(s)] = g[Chosen(s)]
    BY <2>4, <2>5, ChosenIn
  <2>7. it[s \ {Chosen(s)}] = jt[s \ {Chosen(s)}]
    BY <2>3, <2>4, <2>6
  <2>8. it[s] = f[Chosen(s)] + it[s \ {Chosen(s)}]
    BY <2>4, <2>5 DEF IsFold
  <2>9. jt[s] = g[Chosen(s)] + jt[s \ {Chosen(s)}]
    BY <2>4, <2>5 DEF IsFold
  <2> QED BY <2>6, <2>7, <2>8, <2>9
<1> QED BY <1>1

\* The sum is the value of a fold.
LEMMA SumIsFold ==
    ASSUME NEW S, IsFiniteSet(S), NEW f, \A x \in S : f[x] \in Int
    PROVE  \E it \in [SUBSET S -> Int] : IsFold(it, f, S) /\ SumOf(f, S) = it[S]
<1>1. PICK jt \in [SUBSET S -> Int] : IsFold(jt, f, S)
  BY FoldExists
<1>2. \E it : IsFold(it, f, S) /\ SumOf(f, S) = it[S]
  BY <1>1, Zenon DEF IsFold, Chosen, SumOf, MapThenSumSet, MapThenFoldSet
<1>3. PICK it : IsFold(it, f, S) /\ SumOf(f, S) = it[S]
  BY <1>2
<1>4. SumOf(f, S) = jt[S]
  BY <1>1, <1>3, FoldsAgree
<1> QED BY <1>1, <1>4
\* A recursion over a set that adds what f has for each element is its sum.
LEMMA FoldIsSum ==
    ASSUME NEW S, IsFiniteSet(S), NEW f, \A x \in S : f[x] \in Int,
           NEW it, IsFold(it, f, S)
    PROVE  SumOf(f, S) = it[S]
<1>1. PICK jt : IsFold(jt, f, S) /\ SumOf(f, S) = jt[S]
  BY SumIsFold
<1> QED BY <1>1, FoldsAgree

-----------------------------------------------------------------------------
(* What a reader of MapThenSumSet expects of it.                           *)

\* Functions that agree on a set have the same sum over it.
LEMMA SumSame ==
    ASSUME NEW S, IsFiniteSet(S), NEW f, NEW g, \A x \in S : f[x] \in Int /\ g[x] = f[x]
    PROVE  SumOf(g, S) = SumOf(f, S)
<1>1. PICK it : IsFold(it, f, S) /\ SumOf(f, S) = it[S]
  BY SumIsFold
<1>2. PICK jt : IsFold(jt, g, S) /\ SumOf(g, S) = jt[S]
  BY SumIsFold
<1> QED BY <1>1, <1>2, FoldsAgree

LEMMA SumEmpty == \A f : SumOf(f, {}) = 0
<1> SUFFICES ASSUME NEW f PROVE SumOf(f, {}) = 0
  OBVIOUS
<1>1. PICK it : IsFold(it, f, {}) /\ SumOf(f, {}) = it[{}]
  BY SumIsFold, FS_EmptySet
<1> QED BY <1>1 DEF IsFold

LEMMA SumType ==
    ASSUME NEW S, IsFiniteSet(S), NEW f, \A x \in S : f[x] \in Int
    PROVE  SumOf(f, S) \in Int
<1>1. PICK it \in [SUBSET S -> Int] : IsFold(it, f, S) /\ SumOf(f, S) = it[S]
  BY SumIsFold
<1> QED BY <1>1

\* The chosen element is added to the sum of the others.
LEMMA SumChosen ==
    ASSUME NEW S, IsFiniteSet(S), NEW f, \A x \in S : f[x] \in Int, S # {}
    PROVE  SumOf(f, S) = f[Chosen(S)] + SumOf(f, S \ {Chosen(S)})
<1> DEFINE T == S \ {Chosen(S)}
<1>1. Chosen(S) \in S
  BY ChosenIn
<1>2. IsFiniteSet(T) /\ T \in SUBSET S
  BY FS_Subset
<1>3. PICK it : IsFold(it, f, S) /\ SumOf(f, S) = it[S]
  BY SumIsFold
<1>4. PICK jt : IsFold(jt, f, T) /\ SumOf(f, T) = jt[T]
  BY <1>2, SumIsFold
<1>5. it[T] = jt[T]
  BY <1>2, <1>3, <1>4, FoldsAgree
<1>6. it[S] = f[Chosen(S)] + it[T]
  BY <1>3 DEF IsFold
<1> QED BY <1>3, <1>4, <1>5, <1>6

\* Any element may be added last.
LEMMA SumRemove ==
    ASSUME NEW S, IsFiniteSet(S), NEW f, \A x \in S : f[x] \in Int
    PROVE  \A x \in S : SumOf(f, S) = f[x] + SumOf(f, S \ {x})
<1> DEFINE Adds(s) == \A x \in s : SumOf(f, s) = f[x] + SumOf(f, s \ {x})
           Failing == {s \in SUBSET S : ~ Adds(s)}
<1>1. Failing = {}
  <2> SUFFICES ASSUME Failing # {} PROVE FALSE
    OBVIOUS
  <2>1. \E s \in Failing : \A r \in Failing : r \subseteq s => r = s
    <3>1. Failing \in SUBSET SUBSET S
      OBVIOUS
    <3> HIDE DEF Failing
    <3> QED BY <3>1, MinimalSubset
  <2>2. PICK s \in Failing : \A r \in Failing : r \subseteq s => r = s
    BY <2>1
  <2>3. PICK x \in s : SumOf(f, s) # f[x] + SumOf(f, s \ {x})
    OBVIOUS
  <2> DEFINE c == Chosen(s)
             t == s \ {c}
             u == s \ {x}
             v == t \ {x}
  <2>4. s \in SUBSET S /\ IsFiniteSet(s)
    BY FS_Subset
  <2>5. c \in s
    BY <2>3, ChosenIn
  <2>6. SumOf(f, s) = f[c] + SumOf(f, t)
    BY <2>3, <2>4, SumChosen
  <2>7. x # c
    BY <2>3, <2>6
  <2>8. Adds(t) /\ Adds(u)
    BY <2>2, <2>3, <2>4, <2>5
  <2>9. x \in t /\ c \in u /\ u \ {c} = v
    BY <2>3, <2>5, <2>7
  <2>10. SumOf(f, t) = f[x] + SumOf(f, v) /\ SumOf(f, u) = f[c] + SumOf(f, v)
    BY <2>8, <2>9
  <2>11. IsFiniteSet(v) /\ v \in SUBSET S
    BY <2>4, FS_Subset
  <2>12. SumOf(f, v) \in Int /\ f[x] \in Int /\ f[c] \in Int
    BY <2>3, <2>4, <2>5, <2>11, SumType
  <2> QED BY <2>3, <2>6, <2>10, <2>12
<1> QED BY <1>1

\* An element more.
LEMMA SumAdd ==
    ASSUME NEW S, IsFiniteSet(S), NEW f, \A x \in S : f[x] \in Int, NEW y, y \notin S,
           f[y] \in Int
    PROVE  SumOf(f, S \union {y}) = f[y] + SumOf(f, S)
<1> DEFINE T == S \union {y}
<1>1. IsFiniteSet(T) /\ T \ {y} = S /\ \A x \in T : f[x] \in Int
  BY FS_AddElement
<1> HIDE DEF T
<1>2. y \in T
  BY DEF T
<1>3. SumOf(f, T) = f[y] + SumOf(f, T \ {y})
  BY <1>1, <1>2, SumRemove
<1> QED BY <1>1, <1>3 DEF T

\* A larger function and more elements do not make the sum smaller.
LEMMA SumMonotone ==
    ASSUME NEW S, IsFiniteSet(S), NEW f, NEW g,
           \A x \in S : f[x] \in Int /\ g[x] \in Int /\ f[x] <= g[x],
           NEW T \in SUBSET S, \A x \in S \ T : g[x] >= 0
    PROVE  SumOf(f, T) <= SumOf(g, S)
<1> DEFINE Failing == {s \in SUBSET S : ~ SumOf(f, s \intersect T) <= SumOf(g, s)}
<1>1. Failing = {}
  <2> SUFFICES ASSUME Failing # {} PROVE FALSE
    OBVIOUS
  <2>1. \E s \in Failing : \A r \in Failing : r \subseteq s => r = s
    <3>1. Failing \in SUBSET SUBSET S
      OBVIOUS
    <3> HIDE DEF Failing
    <3> QED BY <3>1, MinimalSubset
  <2>2. PICK s \in Failing : \A r \in Failing : r \subseteq s => r = s
    BY <2>1
  <2>3. s \in SUBSET S /\ IsFiniteSet(s) /\ ~ SumOf(f, s \intersect T) <= SumOf(g, s)
    BY FS_Subset
  <2>4. s # {}
    BY <2>3, SumEmpty
  <2>5. PICK x \in s : TRUE
    BY <2>4
  <2> DEFINE r == s \ {x}
  <2>6. r \notin Failing /\ r \in SUBSET S /\ IsFiniteSet(r)
    BY <2>2, <2>3, FS_Subset
  <2>7. SumOf(f, r \intersect T) <= SumOf(g, r)
    BY <2>6
  <2>8. SumOf(g, s) = g[x] + SumOf(g, r) /\ SumOf(g, r) \in Int /\ g[x] \in Int
    BY <2>3, <2>6, SumRemove, SumType
  <2>9. IsFiniteSet(s \intersect T) /\ IsFiniteSet(r \intersect T)
    BY <2>3, <2>6, FS_Subset
  <2>10. SumOf(f, r \intersect T) \in Int
    BY <2>6, <2>9, SumType
  <2>11. CASE x \in T
    <3>1. x \in s \intersect T /\ (s \intersect T) \ {x} = r \intersect T
      BY <2>11
    <3>2. SumOf(f, s \intersect T) = f[x] + SumOf(f, (s \intersect T) \ {x})
      <4> DEFINE st == s \intersect T
      <4>1. IsFiniteSet(st) /\ x \in st /\ \A y \in st : f[y] \in Int
        BY <2>9, <3>1
      <4> HIDE DEF st
      <4>2. SumOf(f, st) = f[x] + SumOf(f, st \ {x})
        BY <4>1, SumRemove
      <4> QED BY <4>2 DEF st
    <3>3. f[x] \in Int /\ f[x] <= g[x]
      BY <2>3
    <3>4. SumOf(f, s \intersect T) = f[x] + SumOf(f, r \intersect T)
      BY <3>1, <3>2
    <3>5. SumOf(f, s \intersect T) <= SumOf(g, s)
      <4> HIDE DEF r
      <4> QED BY <2>7, <2>8, <2>10, <3>3, <3>4
    <3> QED BY <2>3, <3>5
  <2>12. CASE x \notin T
    <3>1. s \intersect T = r \intersect T /\ g[x] >= 0
      BY <2>3, <2>12
    <3> QED BY <2>3, <2>7, <2>8, <2>10, <3>1
  <2> QED BY <2>11, <2>12
<1>2. S \notin Failing /\ S \intersect T = T
  BY <1>1
<1> QED BY <1>2

\* A sum of natural numbers is one.
LEMMA SumNat ==
    ASSUME NEW S, IsFiniteSet(S), NEW f, \A x \in S : f[x] \in Nat
    PROVE  SumOf(f, S) \in Nat
<1> DEFINE T == {}
<1>1. SumOf(f, T) <= SumOf(f, S)
  <2>1. T \in SUBSET S /\ \A x \in S \ T : f[x] >= 0
    OBVIOUS
  <2>2. \A x \in S : f[x] \in Int /\ f[x] <= f[x]
    OBVIOUS
  <2> HIDE DEF T
  <2> QED BY <2>1, <2>2, SumMonotone
<1> QED BY <1>1, SumType, SumEmpty

\* A function that is one larger on the elements of a subset.
LEMMA SumCount ==
    ASSUME NEW S, IsFiniteSet(S), NEW f, NEW g, NEW A,
           \A x \in S : f[x] \in Int /\ g[x] = f[x] + (IF x \in A THEN 1 ELSE 0)
    PROVE  SumOf(g, S) = SumOf(f, S) + Cardinality(S \intersect A)
<1> DEFINE Adds(s) == SumOf(g, s) = SumOf(f, s) + Cardinality(s \intersect A)
           Failing == {s \in SUBSET S : ~ Adds(s)}
<1>1. Failing = {}
  <2> SUFFICES ASSUME Failing # {} PROVE FALSE
    OBVIOUS
  <2>1. \E s \in Failing : \A r \in Failing : r \subseteq s => r = s
    <3>1. Failing \in SUBSET SUBSET S
      OBVIOUS
    <3> HIDE DEF Failing
    <3> QED BY <3>1, MinimalSubset
  <2>2. PICK s \in Failing : \A r \in Failing : r \subseteq s => r = s
    BY <2>1
  <2>3. s \in SUBSET S /\ IsFiniteSet(s) /\ ~ Adds(s)
    BY FS_Subset
  <2>4. s # {}
    <3>1. Adds({})
      <4>1. {} \intersect A = {}
        OBVIOUS
      <4> QED BY <4>1, SumEmpty, FS_EmptySet
    <3> QED BY <2>3, <3>1
  <2>5. PICK x \in s : TRUE
    BY <2>4
  <2> DEFINE r == s \ {x}
  <2>6. r \notin Failing /\ r \in SUBSET S /\ IsFiniteSet(r)
    BY <2>2, <2>3, FS_Subset
  <2>7. Adds(r)
    BY <2>6
  <2>8. \A y \in S : g[y] \in Int
    OBVIOUS
  <2>9. /\ SumOf(g, s) = g[x] + SumOf(g, r) /\ SumOf(g, r) \in Int
        /\ SumOf(f, s) = f[x] + SumOf(f, r) /\ SumOf(f, r) \in Int
    <3>1. \A y \in s : f[y] \in Int /\ g[y] \in Int
      BY <2>3, <2>8
    <3>2. \A y \in r : f[y] \in Int /\ g[y] \in Int
      BY <3>1
    <3> QED BY <2>3, <2>6, <3>1, <3>2, SumRemove, SumType
  <2>10. IsFiniteSet(r \intersect A) /\ Cardinality(r \intersect A) \in Nat
    BY <2>6, FS_Intersection, FS_CardinalityType
  <2>11. Cardinality(s \intersect A)
           = Cardinality(r \intersect A) + (IF x \in A THEN 1 ELSE 0)
    <3>1. CASE x \in A
      <4>1. s \intersect A = (r \intersect A) \union {x} /\ x \notin r \intersect A
        BY <3>1
      <4> QED BY <2>10, <3>1, <4>1, FS_AddElement
    <3>2. CASE x \notin A
      <4>1. s \intersect A = r \intersect A
        BY <3>2
      <4> QED BY <2>10, <3>2, <4>1
    <3> QED BY <3>1, <3>2
  <2>12. f[x] \in Int /\ g[x] = f[x] + (IF x \in A THEN 1 ELSE 0)
    BY <2>3
  <2> QED BY <2>3, <2>7, <2>9, <2>10, <2>11, <2>12
<1> QED BY <1>1
\* The elements that a set is made into have no larger sum, if each has the value
\* of what it was made of.
LEMMA SumImage ==
    ASSUME NEW S, IsFiniteSet(S), NEW f, NEW g, \A x \in S : f[x] \in Nat /\ f[g[x]] = f[x]
    PROVE  IsFiniteSet({g[x] : x \in S}) /\ SumOf(f, {g[x] : x \in S}) <= SumOf(f, S)
<1> DEFINE Made(s) == {g[x] : x \in s}
           Holds(s) == IsFiniteSet(Made(s)) /\ SumOf(f, Made(s)) <= SumOf(f, s)
           Failing == {s \in SUBSET S : ~ Holds(s)}
<1>1. Failing = {}
  <2> SUFFICES ASSUME Failing # {} PROVE FALSE
    OBVIOUS
  <2>1. \E s \in Failing : \A r \in Failing : r \subseteq s => r = s
    <3>1. Failing \in SUBSET SUBSET S
      OBVIOUS
    <3> HIDE DEF Failing
    <3> QED BY <3>1, MinimalSubset
  <2>2. PICK s \in Failing : \A r \in Failing : r \subseteq s => r = s
    BY <2>1
  <2>3. s \in SUBSET S /\ IsFiniteSet(s) /\ ~ Holds(s)
    BY FS_Subset
  <2>4. s # {}
    <3>1. Made({}) = {}
      OBVIOUS
    <3>2. Holds({})
      BY <3>1, SumEmpty, FS_EmptySet
    <3> QED BY <2>3, <3>2
  <2>5. PICK x \in s : TRUE
    BY <2>4
  <2> DEFINE r == s \ {x}
             M == Made(r)
  <2>6. r \notin Failing /\ r \in SUBSET S /\ IsFiniteSet(r)
    BY <2>2, <2>3, FS_Subset
  <2>7. Holds(r)
    BY <2>6
  <2>8. Made(s) = M \union {g[x]}
    OBVIOUS
  <2>9. SumOf(f, s) = f[x] + SumOf(f, r) /\ SumOf(f, r) \in Nat /\ f[x] \in Nat
    <3>1. \A y \in s : f[y] \in Int
      BY <2>3
    <3>2. SumOf(f, s) = f[x] + SumOf(f, s \ {x})
      BY <2>3, <2>5, <3>1, SumRemove
    <3>3. SumOf(f, r) \in Nat
      <4>1. \A y \in r : f[y] \in Nat
        BY <2>6
      <4> HIDE DEF r
      <4> QED BY <2>6, <4>1, SumNat
    <3> QED BY <2>3, <2>5, <3>2, <3>3
  <2>10. \A y \in M : f[y] \in Int
    BY <2>6
  <2>11. IsFiniteSet(M) /\ SumOf(f, M) <= SumOf(f, r) /\ SumOf(f, M) \in Int
    <3>1. IsFiniteSet(M) /\ SumOf(f, M) <= SumOf(f, r)
      BY <2>7
    <3> HIDE DEF M
    <3> QED BY <2>10, <3>1, SumType
  <2>12. CASE g[x] \in M
    <3>1. Made(s) = M
      BY <2>8, <2>12
    <3>2. Holds(s)
      <4> HIDE DEF M, r, Made
      <4>1. SumOf(f, M) <= SumOf(f, s)
        BY <2>9, <2>11
      <4> QED BY <2>11, <3>1, <4>1
    <3> QED BY <2>3, <3>2
  <2>13. CASE g[x] \notin M
    <3>1. f[g[x]] = f[x]
      BY <2>3, <2>5
    <3>2. SumOf(f, M \union {g[x]}) = f[g[x]] + SumOf(f, M)
      <4> HIDE DEF M
      <4> QED BY <2>9, <2>10, <2>11, <2>13, <3>1, SumAdd
    <3>3. IsFiniteSet(M \union {g[x]})
      BY <2>11, FS_AddElement
    <3>4. Holds(s)
      <4> HIDE DEF M, r
      <4>1. SumOf(f, M \union {g[x]}) <= SumOf(f, s)
        BY <2>9, <2>11, <3>1, <3>2
      <4> QED BY <2>8, <3>3, <4>1
    <3> QED BY <2>3, <3>4
  <2> QED BY <2>12, <2>13
<1>2. Holds(S)
  BY <1>1
<1> QED BY <1>2
==============================================================================

------------------------------ MODULE SumLemmas ------------------------------
(***************************************************************************)
(* What the sum of a function over a finite set (SumFunctionOnSet of the   *)
(* community module Functions) does, as the proofs about deposits, tokens  *)
(* and outputs need it.  Each lemma is shown for a smallest set on which   *)
(* it could fail, which needs no induction over a predicate.               *)
(***************************************************************************)
EXTENDS Integers, FiniteSets, Functions, FiniteSetTheorems, TLAPS

\* The iterator by which MapThenFoldSet adds up f on every subset of S.
IsIter(iter, f, S) ==
  iter = [s \in SUBSET S |->
            IF s = {} THEN 0
            ELSE f[CHOOSE x \in s : TRUE] + iter[s \ {CHOOSE x \in s : TRUE}]]

\* A set of subsets of a finite set, if it has an element, has a smallest one.
LEMMA SmallestSubset ==
  ASSUME NEW S, IsFiniteSet(S), NEW Bad \in SUBSET (SUBSET S), Bad # {}
  PROVE  \E s \in Bad : \A t \in SUBSET s : t # s => t \notin Bad
<1>1. IsWellFoundedOn(StrictSubsetOrdering(S), SUBSET S)
  BY FS_StrictSubsetOrderingWellFounded, FS_FiniteSubsetsOfFinite
<1>2. PICK s \in Bad : \A t \in Bad : <<t, s>> \notin StrictSubsetOrdering(S)
  BY <1>1, WFMin, Zenon
<1>3. ASSUME NEW t \in SUBSET s, t # s, t \in Bad
      PROVE  FALSE
  BY <1>2, <1>3 DEF StrictSubsetOrdering
<1> QED
  BY <1>3

\* A set of naturals, if it has an element, has a least one.
LEMMA LeastNatural ==
  ASSUME NEW S \in SUBSET Nat, S # {}
  PROVE  \E n \in S : \A m \in S : n <= m
<1>1. PICK top \in S : TRUE
  OBVIOUS
<1> DEFINE Up == 0 .. top
<1> DEFINE Bad == {T \in SUBSET Up : \E m \in S : T = 0 .. m}
<1>2. IsFiniteSet(Up)
  BY <1>1, FS_Interval
<1>3. Up \in Bad
  BY <1>1
<1>4. Bad \in SUBSET (SUBSET Up) /\ Bad # {}
  BY <1>3
<1> HIDE DEF Up, Bad
<1>5. \E s \in Bad : \A t \in SUBSET s : t # s => t \notin Bad
  BY <1>2, <1>4, SmallestSubset
<1>6. PICK s \in Bad : \A t \in SUBSET s : t # s => t \notin Bad
  BY <1>5
<1>7. PICK n \in S : s = 0 .. n
  BY <1>6 DEF Bad
<1>8. ASSUME NEW m \in S, m < n
      PROVE  FALSE
  <2>1. 0 .. m \in SUBSET s /\ 0 .. m # s
    BY <1>7, <1>8
  <2>2. 0 .. m \in SUBSET Up
    BY <1>6, <2>1 DEF Bad
  <2> QED
    BY <1>6, <2>1, <2>2 DEF Bad
<1> QED
  BY <1>7, <1>8

\* Two iterators agree where both are defined.
LEMMA IterUnique ==
  ASSUME NEW S, IsFiniteSet(S), NEW T, NEW f, NEW g, NEW h,
         IsIter(g, f, S), IsIter(h, f, T)
  PROVE  \A s \in SUBSET (S \cap T) : g[s] = h[s]
<1> DEFINE Bad == {s \in SUBSET S : s \subseteq T /\ g[s] # h[s]}
<1> SUFFICES ASSUME Bad # {} PROVE FALSE
  OBVIOUS
<1>1. PICK s \in Bad : \A t \in SUBSET s : t # s => t \notin Bad
  <2>1. Bad \in SUBSET (SUBSET S)
    OBVIOUS
  <2> HIDE DEF Bad
  <2> QED
    BY <2>1, SmallestSubset
<1>2. CASE s = {}
  BY <1>2 DEF IsIter
<1>3. CASE s # {}
  <2> DEFINE x == CHOOSE x \in s : TRUE
  <2>1. x \in s
    BY <1>3
  <2>2. g[s] = f[x] + g[s \ {x}] /\ h[s] = f[x] + h[s \ {x}]
    BY <1>3 DEF IsIter
  <2> HIDE DEF x
  <2>3. s \ {x} \notin Bad
    BY <1>1, <2>1
  <2>4. g[s \ {x}] = h[s \ {x}]
    BY <2>3
  <2> QED
    BY <2>2, <2>4
<1> QED
  BY <1>2, <1>3

\* Every finite set has its iterator.
LEMMA IterExists ==
  ASSUME NEW S, IsFiniteSet(S), NEW f
  PROVE  \E iter : IsIter(iter, f, S)
<1> DEFINE Bad == {s \in SUBSET S : ~ \E iter : IsIter(iter, f, s)}
<1> SUFFICES ASSUME Bad # {} PROVE FALSE
  OBVIOUS
<1>1. PICK s \in Bad : \A t \in SUBSET s : t # s => t \notin Bad
  <2>1. Bad \in SUBSET (SUBSET S)
    OBVIOUS
  <2> HIDE DEF Bad
  <2> QED
    BY <2>1, SmallestSubset
<1>2. s \in SUBSET S /\ IsFiniteSet(s)
  BY FS_Subset
<1> DEFINE iterOf(t) == CHOOSE iter : IsIter(iter, f, t)
<1>3. \A t \in SUBSET s : t # s => IsIter(iterOf(t), f, t)
  BY <1>1, <1>2
<1> DEFINE below(t) == iterOf(t)[t]
<1> DEFINE pick(t) == CHOOSE x \in t : TRUE
<1> DEFINE iter == [t \in SUBSET s |->
                      IF t = {} THEN 0 ELSE f[pick(t)] + below(t \ {pick(t)})]
<1>4. ASSUME NEW t \in SUBSET s, t # {}
      PROVE  iter[t \ {pick(t)}] = below(t \ {pick(t)})
  <2> DEFINE u == t \ {pick(t)}
  <2>1. pick(t) \in t
    BY <1>4
  <2>2. u \in SUBSET s /\ u # s
    BY <2>1
  <2>3. IsIter(iterOf(u), f, u)
    BY <2>2, <1>3
  <2>4. CASE u = {}
    <3>1. iterOf(u)[u] = 0
      BY <2>3, <2>4 DEF IsIter
    <3> QED
      BY <3>1, <2>4
  <2>5. CASE u # {}
    <3> DEFINE v == u \ {pick(u)}
    <3>1. pick(u) \in u
      BY <2>5
    <3>2. v \in SUBSET u /\ v # s /\ v \in SUBSET s
      BY <2>2, <3>1
    <3>3. IsIter(iterOf(v), f, v)
      BY <3>2, <1>3
    <3>4. iterOf(u)[u] = f[pick(u)] + iterOf(u)[v]
      BY <2>3, <2>5 DEF IsIter
    <3>5. iterOf(u)[v] = iterOf(v)[v]
      <4>1. IsFiniteSet(u) /\ v \in SUBSET (u \cap v)
        BY <1>2, <2>2, <3>2, FS_Subset
      <4> HIDE DEF u, v, iterOf
      <4> QED
        BY <2>3, <3>3, <4>1, IterUnique
    <3>6. iter[u] = f[pick(u)] + below(v)
      BY <2>2, <2>5
    <3> QED
      BY <3>4, <3>5, <3>6
  <2> QED
    BY <2>4, <2>5
<1>5. IsIter(iter, f, s)
  <2>1. iter = [t \in SUBSET s |->
                  IF t = {} THEN 0 ELSE f[pick(t)] + iter[t \ {pick(t)}]]
    <3>1. \A t \in SUBSET s :
            iter[t] = IF t = {} THEN 0 ELSE f[pick(t)] + iter[t \ {pick(t)}]
      <4> HIDE DEF pick, below
      <4> QED
        BY <1>4
    <3>2. iter = [t \in SUBSET s |-> iter[t]]
      OBVIOUS
    <3> HIDE DEF iter, pick
    <3> QED
      BY <3>1, <3>2, Zenon
  <2> HIDE DEF iter
  <2> QED
    BY <2>1 DEF IsIter
<1> QED
  BY <1>5
\* The sum is what the iterator of the whole set gives.
LEMMA SumIter ==
  ASSUME NEW S, IsFiniteSet(S), NEW f
  PROVE  \E iter : IsIter(iter, f, S) /\ SumFunctionOnSet(f, S) = iter[S]
<1> DEFINE it == CHOOSE iter : IsIter(iter, f, S)
<1>1. IsIter(it, f, S)
  BY IterExists
<1>2. SumFunctionOnSet(f, S) = it[S]
  BY DEF SumFunctionOnSet, FoldFunctionOnSet, MapThenFoldSet, IsIter
<1> QED
  BY <1>1, <1>2

\* An empty sum is 0.
LEMMA SumEmpty == \A f : SumFunctionOnSet(f, {}) = 0
<1> SUFFICES ASSUME NEW f PROVE SumFunctionOnSet(f, {}) = 0
  OBVIOUS
<1>1. PICK iter : IsIter(iter, f, {}) /\ SumFunctionOnSet(f, {}) = iter[{}]
  BY SumIter, FS_EmptySet
<1> QED
  BY <1>1 DEF IsIter

\* The sum adds the element that the iterator takes first.
LEMMA SumFirst ==
  ASSUME NEW S, IsFiniteSet(S), S # {}, NEW f
  PROVE  LET x == CHOOSE x \in S : TRUE
         IN  /\ x \in S
             /\ SumFunctionOnSet(f, S) = f[x] + SumFunctionOnSet(f, S \ {x})
<1> DEFINE x == CHOOSE x \in S : TRUE
<1> DEFINE T == S \ {x}
<1>1. x \in S
  OBVIOUS
<1>2. PICK g : IsIter(g, f, S) /\ SumFunctionOnSet(f, S) = g[S]
  BY SumIter
<1>3. IsFiniteSet(T)
  BY FS_Subset
<1>4. PICK h : IsIter(h, f, T) /\ SumFunctionOnSet(f, T) = h[T]
  BY <1>3, SumIter
<1>5. g[S] = f[x] + g[T]
  BY <1>2 DEF IsIter
<1>6. g[T] = h[T]
  <2>1. T \in SUBSET (S \cap T)
    OBVIOUS
  <2> HIDE DEF T
  <2> QED
    BY <1>2, <1>4, <2>1, IterUnique
<1> QED
  BY <1>1, <1>2, <1>4, <1>5, <1>6

\* Equal terms have equal sums.
LEMMA SumEqual ==
  ASSUME NEW S, IsFiniteSet(S), NEW f, NEW g, \A x \in S : f[x] = g[x]
  PROVE  SumFunctionOnSet(f, S) = SumFunctionOnSet(g, S)
<1> DEFINE Bad == {s \in SUBSET S :
                     SumFunctionOnSet(f, s) # SumFunctionOnSet(g, s)}
<1> SUFFICES ASSUME Bad # {} PROVE FALSE
  OBVIOUS
<1>1. PICK s \in Bad : \A t \in SUBSET s : t # s => t \notin Bad
  <2>1. Bad \in SUBSET (SUBSET S)
    OBVIOUS
  <2> HIDE DEF Bad
  <2> QED
    BY <2>1, SmallestSubset
<1>2. s \in SUBSET S /\ IsFiniteSet(s)
  BY FS_Subset
<1>3. s # {}
  BY SumEmpty
<1>4. PICK x \in s :
        /\ SumFunctionOnSet(f, s) = f[x] + SumFunctionOnSet(f, s \ {x})
        /\ SumFunctionOnSet(g, s) = g[x] + SumFunctionOnSet(g, s \ {x})
  BY <1>2, <1>3, SumFirst
<1>5. s \ {x} \notin Bad
  BY <1>1
<1> QED
  BY <1>2, <1>4, <1>5

\* A sum of integers is an integer.
LEMMA SumInt ==
  ASSUME NEW S, IsFiniteSet(S), NEW f, \A x \in S : f[x] \in Int
  PROVE  SumFunctionOnSet(f, S) \in Int
<1> DEFINE Bad == {s \in SUBSET S : SumFunctionOnSet(f, s) \notin Int}
<1> SUFFICES ASSUME Bad # {} PROVE FALSE
  OBVIOUS
<1>1. PICK s \in Bad : \A t \in SUBSET s : t # s => t \notin Bad
  <2>1. Bad \in SUBSET (SUBSET S)
    OBVIOUS
  <2> HIDE DEF Bad
  <2> QED
    BY <2>1, SmallestSubset
<1>2. s \in SUBSET S /\ IsFiniteSet(s)
  BY FS_Subset
<1>3. s # {}
  BY SumEmpty
<1>4. PICK x \in s :
        SumFunctionOnSet(f, s) = f[x] + SumFunctionOnSet(f, s \ {x})
  BY <1>2, <1>3, SumFirst
<1>5. SumFunctionOnSet(f, s \ {x}) \in Int
  BY <1>1, <1>2
<1> QED
  BY <1>2, <1>4, <1>5

\* A sum of naturals is a natural.
LEMMA SumNat ==
  ASSUME NEW S, IsFiniteSet(S), NEW f, \A x \in S : f[x] \in Nat
  PROVE  SumFunctionOnSet(f, S) \in Nat
<1> DEFINE Bad == {s \in SUBSET S : SumFunctionOnSet(f, s) \notin Nat}
<1> SUFFICES ASSUME Bad # {} PROVE FALSE
  OBVIOUS
<1>1. PICK s \in Bad : \A t \in SUBSET s : t # s => t \notin Bad
  <2>1. Bad \in SUBSET (SUBSET S)
    OBVIOUS
  <2> HIDE DEF Bad
  <2> QED
    BY <2>1, SmallestSubset
<1>2. s \in SUBSET S /\ IsFiniteSet(s)
  BY FS_Subset
<1>3. s # {}
  BY SumEmpty
<1>4. PICK x \in s :
        SumFunctionOnSet(f, s) = f[x] + SumFunctionOnSet(f, s \ {x})
  BY <1>2, <1>3, SumFirst
<1>5. SumFunctionOnSet(f, s \ {x}) \in Nat
  BY <1>1, <1>2
<1> QED
  BY <1>2, <1>4, <1>5

\* Any element of the set can be taken out of the sum: the order in which the
\* iterator adds is of no consequence.
LEMMA SumRemove ==
  ASSUME NEW S, IsFiniteSet(S), NEW f, \A x \in S : f[x] \in Int, NEW y \in S
  PROVE  SumFunctionOnSet(f, S) = f[y] + SumFunctionOnSet(f, S \ {y})
<1> DEFINE Bad == {s \in SUBSET S : \E z \in s :
            SumFunctionOnSet(f, s) # f[z] + SumFunctionOnSet(f, s \ {z})}
<1> SUFFICES ASSUME Bad # {} PROVE FALSE
  BY DEF Bad
<1>1. PICK s \in Bad : \A t \in SUBSET s : t # s => t \notin Bad
  <2>1. Bad \in SUBSET (SUBSET S)
    OBVIOUS
  <2> HIDE DEF Bad
  <2> QED
    BY <2>1, SmallestSubset
<1>2. s \in SUBSET S /\ IsFiniteSet(s)
  BY FS_Subset
<1>3. PICK z \in s : SumFunctionOnSet(f, s) # f[z] + SumFunctionOnSet(f, s \ {z})
  OBVIOUS
<1>4. PICK x \in s :
        SumFunctionOnSet(f, s) = f[x] + SumFunctionOnSet(f, s \ {x})
  BY <1>2, SumFirst
<1>5. x # z
  BY <1>3, <1>4
<1>6. s \ {x} \notin Bad /\ s \ {z} \notin Bad
  BY <1>1
<1>7. /\ SumFunctionOnSet(f, s \ {x}) = f[z] + SumFunctionOnSet(f, (s \ {x}) \ {z})
      /\ SumFunctionOnSet(f, s \ {z}) = f[x] + SumFunctionOnSet(f, (s \ {z}) \ {x})
  BY <1>2, <1>5, <1>6
<1>8. (s \ {x}) \ {z} = (s \ {z}) \ {x}
  OBVIOUS
<1>9. SumFunctionOnSet(f, (s \ {z}) \ {x}) \in Int
  <2>1. IsFiniteSet((s \ {z}) \ {x})
    BY <1>2, FS_Subset
  <2> QED
    BY <1>2, <2>1, SumInt
<1>10. f[x] \in Int /\ f[z] \in Int
  BY <1>2
<1> DEFINE r == SumFunctionOnSet(f, (s \ {z}) \ {x})
<1>11. /\ SumFunctionOnSet(f, s) = f[x] + (f[z] + r)
       /\ SumFunctionOnSet(f, s \ {z}) = f[x] + r
  BY <1>4, <1>7, <1>8
<1>12. f[x] + (f[z] + r) = f[z] + (f[x] + r)
  <2>1. r \in Int
    BY <1>9
  <2> HIDE DEF r
  <2> QED
    BY <1>10, <2>1
<1> HIDE DEF Bad, r
<1> QED
  BY <1>3, <1>11, <1>12

\* One term more or less, when an entry of the function is replaced.
LEMMA SumUpdate ==
  ASSUME NEW S, IsFiniteSet(S), NEW f, NEW g, NEW y \in S,
         \A x \in S : f[x] \in Int /\ g[x] \in Int,
         \A x \in S \ {y} : g[x] = f[x]
  PROVE  SumFunctionOnSet(g, S) = SumFunctionOnSet(f, S) + (g[y] - f[y])
<1>1. IsFiniteSet(S \ {y})
  BY FS_Subset
<1>2. SumFunctionOnSet(g, S \ {y}) = SumFunctionOnSet(f, S \ {y})
  BY <1>1, SumEqual
<1>3. SumFunctionOnSet(f, S \ {y}) \in Int
  BY <1>1, SumInt
<1>4. /\ SumFunctionOnSet(f, S) = f[y] + SumFunctionOnSet(f, S \ {y})
      /\ SumFunctionOnSet(g, S) = g[y] + SumFunctionOnSet(g, S \ {y})
  BY SumRemove
<1>5. \A i, j, k \in Int : j + k = (i + k) + (j - i)
  OBVIOUS
<1> QED
  BY <1>2, <1>3, <1>4, <1>5

\* The sum over a set and one element more.
LEMMA SumAdd ==
  ASSUME NEW S, IsFiniteSet(S), NEW y, y \notin S, NEW f,
         \A x \in S \cup {y} : f[x] \in Int
  PROVE  SumFunctionOnSet(f, S \cup {y}) = SumFunctionOnSet(f, S) + f[y]
<1>1. IsFiniteSet(S \cup {y}) /\ (S \cup {y}) \ {y} = S
  BY FS_AddElement
<1>2. SumFunctionOnSet(f, S \cup {y}) = f[y] + SumFunctionOnSet(f, S)
  BY <1>1, SumRemove
<1>3. SumFunctionOnSet(f, S) \in Int /\ f[y] \in Int
  BY SumInt
<1> QED
  BY <1>2, <1>3

\* The sum over a set is that over two parts of it.
LEMMA SumSplit ==
  ASSUME NEW S, IsFiniteSet(S), NEW T \in SUBSET S, NEW f,
         \A x \in S : f[x] \in Int
  PROVE  SumFunctionOnSet(f, S) =
           SumFunctionOnSet(f, T) + SumFunctionOnSet(f, S \ T)
<1> DEFINE Bad == {s \in SUBSET S : T \subseteq s /\
            SumFunctionOnSet(f, s) #
              SumFunctionOnSet(f, T) + SumFunctionOnSet(f, s \ T)}
<1> SUFFICES ASSUME Bad # {} PROVE FALSE
  OBVIOUS
<1>1. PICK s \in Bad : \A t \in SUBSET s : t # s => t \notin Bad
  <2>1. Bad \in SUBSET (SUBSET S)
    OBVIOUS
  <2> HIDE DEF Bad
  <2> QED
    BY <2>1, SmallestSubset
<1>2. s \in SUBSET S /\ T \subseteq s /\ IsFiniteSet(s)
  BY FS_Subset
<1>3. \A t \in SUBSET s : SumFunctionOnSet(f, t) \in Int
  <2>1. \A t \in SUBSET s : IsFiniteSet(t)
    BY <1>2, FS_Subset
  <2> QED
    BY <1>2, <2>1, SumInt
<1>4. s # T
  <2> SUFFICES ASSUME s = T PROVE FALSE
    OBVIOUS
  <2>1. s \ T = {} /\ SumFunctionOnSet(f, {}) = 0
    BY SumEmpty
  <2> QED
    <3>1. SumFunctionOnSet(f, T) + SumFunctionOnSet(f, s \ T) =
            SumFunctionOnSet(f, T)
      BY <1>2, <1>3, <2>1
    <3> QED
      BY <3>1
<1>5. PICK x \in s : x \notin T
  BY <1>2, <1>4
<1>6. s \ {x} \notin Bad /\ T \subseteq s \ {x}
  BY <1>1, <1>2, <1>5
<1>7. /\ SumFunctionOnSet(f, s) = f[x] + SumFunctionOnSet(f, s \ {x})
      /\ SumFunctionOnSet(f, s \ T) = f[x] + SumFunctionOnSet(f, (s \ T) \ {x})
  <2>1. IsFiniteSet(s \ T) /\ x \in s \ T
    BY <1>2, <1>5, FS_Subset
  <2> QED
    BY <1>2, <2>1, SumRemove
<1>8. SumFunctionOnSet(f, s \ {x}) =
        SumFunctionOnSet(f, T) + SumFunctionOnSet(f, (s \ {x}) \ T)
  BY <1>2, <1>6
<1>9. (s \ {x}) \ T = (s \ T) \ {x}
  OBVIOUS
<1>10. /\ f[x] \in Int /\ SumFunctionOnSet(f, T) \in Int
       /\ SumFunctionOnSet(f, (s \ T) \ {x}) \in Int
  BY <1>2, <1>3
<1> DEFINE r == SumFunctionOnSet(f, (s \ T) \ {x})
<1> DEFINE q == SumFunctionOnSet(f, T)
<1>11. /\ SumFunctionOnSet(f, s) = f[x] + (q + r)
       /\ SumFunctionOnSet(f, s \ T) = f[x] + r
  BY <1>7, <1>8, <1>9
<1>12. f[x] + (q + r) = q + (f[x] + r)
  <2>1. r \in Int /\ q \in Int
    BY <1>10
  <2> HIDE DEF q, r
  <2> QED
    BY <1>10, <2>1
<1>13. SumFunctionOnSet(f, s) # q + SumFunctionOnSet(f, s \ T)
  OBVIOUS
<1> HIDE DEF Bad, q, r
<1> QED
  BY <1>11, <1>12, <1>13

\* Terms that are no greater have a sum that is no greater.
LEMMA SumMonotone ==
  ASSUME NEW S, IsFiniteSet(S), NEW f, NEW g,
         \A x \in S : f[x] \in Int /\ g[x] \in Int /\ f[x] <= g[x]
  PROVE  SumFunctionOnSet(f, S) <= SumFunctionOnSet(g, S)
<1> DEFINE Bad == {s \in SUBSET S :
                     ~ (SumFunctionOnSet(f, s) <= SumFunctionOnSet(g, s))}
<1> SUFFICES ASSUME Bad # {} PROVE FALSE
  OBVIOUS
<1>1. PICK s \in Bad : \A t \in SUBSET s : t # s => t \notin Bad
  <2>1. Bad \in SUBSET (SUBSET S)
    OBVIOUS
  <2> HIDE DEF Bad
  <2> QED
    BY <2>1, SmallestSubset
<1>2. s \in SUBSET S /\ IsFiniteSet(s)
  BY FS_Subset
<1>3. s # {}
  BY SumEmpty
<1>4. PICK x \in s :
        /\ SumFunctionOnSet(f, s) = f[x] + SumFunctionOnSet(f, s \ {x})
        /\ SumFunctionOnSet(g, s) = g[x] + SumFunctionOnSet(g, s \ {x})
  BY <1>2, <1>3, SumFirst
<1>5. SumFunctionOnSet(f, s \ {x}) <= SumFunctionOnSet(g, s \ {x})
  BY <1>1, <1>2
<1>6. /\ SumFunctionOnSet(f, s \ {x}) \in Int
      /\ SumFunctionOnSet(g, s \ {x}) \in Int
  <2>1. IsFiniteSet(s \ {x})
    BY <1>2, FS_Subset
  <2> QED
    BY <1>2, <2>1, SumInt
<1>7. f[x] \in Int /\ g[x] \in Int /\ f[x] <= g[x]
  BY <1>2
<1>8. \A i, j, k, l \in Int : i <= j /\ k <= l => i + k <= j + l
  OBVIOUS
<1>9. ~ (SumFunctionOnSet(f, s) <= SumFunctionOnSet(g, s))
  OBVIOUS
<1> HIDE DEF Bad
<1> QED
  BY <1>4, <1>5, <1>6, <1>7, <1>8, <1>9, Zenon

\* A sum of naturals is no smaller than any of its terms.
LEMMA SumBounds ==
  ASSUME NEW S, IsFiniteSet(S), NEW f, \A x \in S : f[x] \in Nat, NEW y \in S
  PROVE  f[y] <= SumFunctionOnSet(f, S)
<1>1. SumFunctionOnSet(f, S) = f[y] + SumFunctionOnSet(f, S \ {y})
  BY SumRemove
<1>2. SumFunctionOnSet(f, S \ {y}) \in Nat
  <2>1. IsFiniteSet(S \ {y})
    BY FS_Subset
  <2> QED
    BY <2>1, SumNat
<1> QED
  BY <1>1, <1>2

\* The sum of two functions is the sum of their sums.
LEMMA SumOfSums ==
  ASSUME NEW S, IsFiniteSet(S), NEW f, NEW g, NEW h,
         \A x \in S : f[x] \in Int /\ g[x] \in Int /\ h[x] = f[x] + g[x]
  PROVE  SumFunctionOnSet(h, S) = SumFunctionOnSet(f, S) + SumFunctionOnSet(g, S)
<1> DEFINE Bad == {s \in SUBSET S : SumFunctionOnSet(h, s) #
                     SumFunctionOnSet(f, s) + SumFunctionOnSet(g, s)}
<1> SUFFICES ASSUME Bad # {} PROVE FALSE
  OBVIOUS
<1>1. PICK s \in Bad : \A t \in SUBSET s : t # s => t \notin Bad
  <2>1. Bad \in SUBSET (SUBSET S)
    OBVIOUS
  <2> HIDE DEF Bad
  <2> QED
    BY <2>1, SmallestSubset
<1>2. s \in SUBSET S /\ IsFiniteSet(s)
  BY FS_Subset
<1>3. s # {}
  <2>1. SumFunctionOnSet(h, {}) =
          SumFunctionOnSet(f, {}) + SumFunctionOnSet(g, {})
    BY SumEmpty
  <2> QED
    BY <2>1
<1>4. PICK x \in s :
        /\ SumFunctionOnSet(f, s) = f[x] + SumFunctionOnSet(f, s \ {x})
        /\ SumFunctionOnSet(g, s) = g[x] + SumFunctionOnSet(g, s \ {x})
        /\ SumFunctionOnSet(h, s) = h[x] + SumFunctionOnSet(h, s \ {x})
  <2> DEFINE z == CHOOSE z \in s : TRUE
  <2>1. z \in s /\ SumFunctionOnSet(f, s) = f[z] + SumFunctionOnSet(f, s \ {z})
    BY <1>2, <1>3, SumFirst
  <2>2. SumFunctionOnSet(g, s) = g[z] + SumFunctionOnSet(g, s \ {z})
    BY <1>2, <1>3, SumFirst
  <2>3. SumFunctionOnSet(h, s) = h[z] + SumFunctionOnSet(h, s \ {z})
    BY <1>2, <1>3, SumFirst
  <2> HIDE DEF z
  <2> QED
    BY <2>1, <2>2, <2>3
<1>5. SumFunctionOnSet(h, s \ {x}) =
        SumFunctionOnSet(f, s \ {x}) + SumFunctionOnSet(g, s \ {x})
  BY <1>1, <1>2
<1>6. /\ SumFunctionOnSet(f, s \ {x}) \in Int
      /\ SumFunctionOnSet(g, s \ {x}) \in Int
  <2>1. IsFiniteSet(s \ {x})
    BY <1>2, FS_Subset
  <2> QED
    BY <1>2, <2>1, SumInt
<1>7. f[x] \in Int /\ g[x] \in Int /\ h[x] = f[x] + g[x]
  BY <1>2
<1> DEFINE q == SumFunctionOnSet(f, s \ {x})
<1> DEFINE r == SumFunctionOnSet(g, s \ {x})
<1>8. /\ SumFunctionOnSet(f, s) = f[x] + q
      /\ SumFunctionOnSet(g, s) = g[x] + r
      /\ SumFunctionOnSet(h, s) = (f[x] + g[x]) + (q + r)
  BY <1>4, <1>5, <1>7
<1>9. (f[x] + g[x]) + (q + r) = (f[x] + q) + (g[x] + r)
  <2>1. q \in Int /\ r \in Int
    BY <1>6
  <2> HIDE DEF q, r
  <2> QED
    BY <1>7, <2>1
<1>10. SumFunctionOnSet(h, s) # SumFunctionOnSet(f, s) + SumFunctionOnSet(g, s)
  OBVIOUS
<1> HIDE DEF Bad, q, r
<1> QED
  BY <1>8, <1>9, <1>10

\* A sum of zeros is 0.
LEMMA SumZero ==
  ASSUME NEW S, IsFiniteSet(S), NEW f, \A x \in S : f[x] = 0
  PROVE  SumFunctionOnSet(f, S) = 0
<1>1. SumFunctionOnSet(f, S) \in Int
  BY SumInt
<1>2. \A x \in S : f[x] \in Int /\ f[x] \in Int /\ f[x] = f[x] + f[x]
  OBVIOUS
<1>3. SumFunctionOnSet(f, S) = SumFunctionOnSet(f, S) + SumFunctionOnSet(f, S)
  BY <1>2, SumOfSums
<1> DEFINE s == SumFunctionOnSet(f, S)
<1>4. s \in Int /\ s = s + s
  BY <1>1, <1>3
<1> HIDE DEF s
<1>5. s = 0
  BY <1>4
<1> QED
  BY <1>5 DEF s

\* The sum over a set is that of the sums over the parts that have one owner.
LEMMA SumGroups ==
  ASSUME NEW S, IsFiniteSet(S), NEW A, IsFiniteSet(A), NEW owner \in [S -> A],
         NEW f, \A x \in S : f[x] \in Int
  PROVE  SumFunctionOnSet(
           [a \in A |-> SumFunctionOnSet(f, {x \in S : owner[x] = a})], A)
         = SumFunctionOnSet(f, S)
<1> DEFINE part(s, a) == {x \in s : owner[x] = a}
<1> DEFINE sums(s) == [a \in A |-> SumFunctionOnSet(f, part(s, a))]
<1> DEFINE Bad == {s \in SUBSET S :
                     SumFunctionOnSet(sums(s), A) # SumFunctionOnSet(f, s)}
<1> SUFFICES ASSUME Bad # {} PROVE FALSE
  OBVIOUS
<1>1. PICK s \in Bad : \A t \in SUBSET s : t # s => t \notin Bad
  <2>1. Bad \in SUBSET (SUBSET S)
    OBVIOUS
  <2> HIDE DEF Bad
  <2> QED
    BY <2>1, SmallestSubset
<1>2. s \in SUBSET S /\ IsFiniteSet(s)
  BY FS_Subset
<1>3. s # {}
  <2> SUFFICES ASSUME s = {} PROVE FALSE
    OBVIOUS
  <2>1. \A a \in A : part(s, a) = {}
    OBVIOUS
  <2>2. \A a \in A : sums(s)[a] = 0
    BY <2>1, SumEmpty
  <2> HIDE DEF sums
  <2>3. SumFunctionOnSet(sums(s), A) = 0
    BY <2>2, SumZero
  <2> QED
    BY <2>3, SumEmpty
<1>4. PICK x \in s : TRUE
  BY <1>3
<1> DEFINE t == s \ {x}
<1>5. t \notin Bad /\ t \in SUBSET S /\ IsFiniteSet(t)
  BY <1>1, <1>2, <1>4, FS_Subset
<1>6. SumFunctionOnSet(sums(t), A) = SumFunctionOnSet(f, t)
  BY <1>5
<1>7. SumFunctionOnSet(f, s) = f[x] + SumFunctionOnSet(f, t)
  BY <1>2, SumRemove
<1>8. \A a \in A : sums(s)[a] \in Int /\ sums(t)[a] \in Int
  <2>1. \A r \in SUBSET s : SumFunctionOnSet(f, r) \in Int
    <3>1. \A r \in SUBSET s : IsFiniteSet(r)
      BY <1>2, FS_Subset
    <3> QED
      BY <1>2, <3>1, SumInt
  <2>2. \A a \in A : part(s, a) \in SUBSET s /\ part(t, a) \in SUBSET s
    OBVIOUS
  <2> HIDE DEF part
  <2> QED
    BY <2>1, <2>2
<1> DEFINE y == owner[x]
<1>9. y \in A /\ \A a \in A \ {y} : sums(s)[a] = sums(t)[a]
  <2>1. y \in A
    BY <1>2
  <2>2. \A a \in A \ {y} : part(s, a) = part(t, a)
    OBVIOUS
  <2> QED
    BY <2>1, <2>2
<1>10. sums(s)[y] = f[x] + sums(t)[y]
  <2>1. x \in part(s, y) /\ part(s, y) \ {x} = part(t, y)
    OBVIOUS
  <2>2. IsFiniteSet(part(s, y)) /\ \A z \in part(s, y) : f[z] \in Int
    BY <1>2, FS_Subset
  <2>3. SumFunctionOnSet(f, part(s, y)) =
          f[x] + SumFunctionOnSet(f, part(s, y) \ {x})
    <3> HIDE DEF part
    <3> QED
      BY <2>1, <2>2, SumRemove
  <2>4. y \in A
    BY <1>9
  <2>5. sums(s)[y] = SumFunctionOnSet(f, part(s, y))
    BY <2>4
  <2>6. sums(t)[y] = SumFunctionOnSet(f, part(t, y))
    BY <2>4
  <2> HIDE DEF y, part, t, sums
  <2> QED
    BY <2>1, <2>3, <2>5, <2>6
<1>11. SumFunctionOnSet(sums(s), A) =
         SumFunctionOnSet(sums(t), A) + (sums(s)[y] - sums(t)[y])
  <2> HIDE DEF sums, y, t, part, Bad
  <2> QED
    BY <1>8, <1>9, SumUpdate
<1>12. f[x] \in Int /\ SumFunctionOnSet(f, t) \in Int
  BY <1>2, <1>5, SumInt
<1>13. SumFunctionOnSet(sums(s), A) = SumFunctionOnSet(f, s)
  <2>1. sums(t)[y] \in Int
    BY <1>8, <1>9
  <2> HIDE DEF sums, y, t
  <2>2. sums(s)[y] - sums(t)[y] = f[x]
    BY <1>10, <1>12, <2>1
  <2> QED
    BY <1>6, <1>7, <1>11, <1>12, <2>2
<1> QED
  BY <1>13

\* What holds at 0 and, if it does at a number, at the next one, holds up to N;
\* it is given by the set of numbers at which it does.
LEMMA CountUp ==
  ASSUME NEW N \in Nat, NEW S, 0 \in S,
         \A n \in 0 .. N : n \in S /\ n < N => n + 1 \in S
  PROVE  \A n \in 0 .. N : n \in S
<1> DEFINE Bad == {n \in 0 .. N : n \notin S}
<1> SUFFICES ASSUME Bad # {} PROVE FALSE
  OBVIOUS
<1>1. PICK n \in Bad : \A m \in Bad : n <= m
  <2>1. Bad \in SUBSET Nat
    OBVIOUS
  <2> HIDE DEF Bad
  <2> QED
    BY <2>1, LeastNatural
<1>2. n \in 0 .. N /\ n # 0
  OBVIOUS
<1>3. n - 1 \in 0 .. N /\ n - 1 < N /\ (n - 1) + 1 = n
  BY <1>2
<1>4. n - 1 \notin Bad
  BY <1>1, <1>3
<1> QED
  BY <1>3, <1>4
=============================================================================

---------------------------- MODULE SumTheorems ----------------------------
(***************************************************************************)
(* Facts about sums over finite sets (MapThenSumSet of FiniteSetsExt) and  *)
(* about recursion over finite sets, for the proofs about budgets.         *)
(*                                                                         *)
(* Every induction goes through the least element of a set of natural      *)
(* numbers (WFMin), a first-order fact: to show that all n have a          *)
(* property, take the least one that has not.                              *)
(***************************************************************************)
EXTENDS Integers, FiniteSets, FiniteSetsExt, FiniteSetTheorems, TLAPS

\* A set of natural numbers that is not empty has a least element.
LEMMA LeastNatural ==
    ASSUME NEW T \in SUBSET Nat, T # {}
    PROVE  \E n \in T : \A m \in T : n <= m
<1> DEFINE R == {ss \in Nat \X Nat : ss[1] < ss[2]}
<1>1. IsWellFoundedOn(R, Nat)
  BY NatLessThanWellFounded DEF OpToRel
<1> HIDE DEF R
<1>2. PICK n \in T : \A m \in T : ~(<<m, n>> \in R)
  BY <1>1, WFMin
<1>3. \A m \in T : ~(m < n)
  BY <1>2 DEF R
<1> QED BY <1>3

\* Induction along an interval, A being the good numbers.
LEMMA IntervalInduction ==
    ASSUME NEW N \in Nat, NEW A, 0 \in A,
           \A k \in 1..N : k - 1 \in A => k \in A
    PROVE  0..N \subseteq A
<1> DEFINE Bad == {k \in 0..N : ~(k \in A)}
<1>1. SUFFICES ASSUME Bad # {} PROVE FALSE
  OBVIOUS
<1>2. PICK k \in Bad : \A m \in Bad : k <= m
  <2>1. Bad \in SUBSET Nat
    OBVIOUS
  <2> HIDE DEF Bad
  <2> QED BY <1>1, <2>1, LeastNatural
<1>3. k \in 1..N /\ k - 1 \in 0..N /\ ~(k <= k - 1) /\ ~(k \in A)
  BY <1>2
<1>4. ~(k - 1 \in Bad)
  <2> HIDE DEF Bad
  <2> QED BY <1>2, <1>3
<1> QED BY <1>3, <1>4

\* Max of a set of indices is the greatest of them.
LEMMA MaxOfInterval ==
    ASSUME NEW N \in Nat, NEW s \in SUBSET (1..N), s # {}
    PROVE  Max(s) \in s /\ \A x \in s : x <= Max(s)
<1> DEFINE T == {m \in Nat : \E x \in s : m = N - x}
<1>1. T \in SUBSET Nat /\ T # {}
  <2>1. PICK x \in s : TRUE
    OBVIOUS
  <2>2. N - x \in T
    OBVIOUS
  <2> QED BY <2>2
<1>2. PICK m \in T : \A k \in T : m <= k
  <2> HIDE DEF T
  <2> QED BY <1>1, LeastNatural
<1>3. PICK x \in s : m = N - x
  BY <1>2
<1>4. \A y \in s : x >= y
  <2> SUFFICES ASSUME NEW y \in s PROVE x >= y
    OBVIOUS
  <2>1. N - y \in T
    OBVIOUS
  <2>2. m <= N - y
    BY <1>2, <2>1
  <2> QED BY <1>3, <2>2
<1>5. Max(s) \in s /\ \A y \in s : Max(s) >= y
  BY <1>3, <1>4 DEF Max
<1> QED BY <1>5

\* Induction over the subsets of a finite set, A being the good ones.
LEMMA SubsetInduction ==
    ASSUME NEW S, IsFiniteSet(S), NEW A,
           \A T \in SUBSET S : (\A x \in T : T \ {x} \in A) => T \in A
    PROVE  SUBSET S \subseteq A
<1> DEFINE Bad   == {T \in SUBSET S : ~(T \in A)}
           Sizes == {n \in Nat : \E T \in Bad : Cardinality(T) = n}
<1>1. SUFFICES ASSUME Bad # {} PROVE FALSE
  OBVIOUS
<1>2. \A T \in SUBSET S : IsFiniteSet(T) /\ Cardinality(T) \in Nat
  BY FS_Subset, FS_CardinalityType
<1>3. Sizes # {}
  BY <1>1, <1>2
<1>4. PICK n \in Sizes : \A m \in Sizes : n <= m
  <2> HIDE DEF Sizes
  <2>1. Sizes \in SUBSET Nat
    BY DEF Sizes
  <2> QED BY <1>3, <2>1, LeastNatural
<1>5. PICK T \in Bad : Cardinality(T) = n
  BY <1>4
<1>6. ASSUME NEW x \in T PROVE T \ {x} \in A
  <2>1. Cardinality(T \ {x}) = n - 1 /\ T \ {x} \in SUBSET S
    BY <1>2, <1>5, FS_RemoveElement
  <2>2. CASE T \ {x} \in Bad
    <3>1. n - 1 \in Nat
      BY <1>2, <2>1
    <3>2. n - 1 \in Sizes
      BY <2>1, <2>2, <3>1
    <3> QED BY <1>4, <3>2
  <2> QED BY <2>1, <2>2
<1>7. T \in A
  BY <1>5, <1>6
<1> QED BY <1>5, <1>7

-----------------------------------------------------------------------------
(* Recursion over the subsets of a finite set *)

\* What a function g on subsets has to satisfy that starts from base and takes
\* the element pick[s] out of s, turning the value v of the rest into
\* step[<<pick[s], v>>].
Unfolds(g, s, base, pick, step) ==
    g[s] = IF s = {} THEN base ELSE step[<<pick[s], g[s \ {pick[s]}]>>]

Picks(S) == {p \in [(SUBSET S) \ {{}} -> S] : \A s \in (SUBSET S) \ {{}} : p[s] \in s}

\* Such a function exists.
LEMMA RecursionExists ==
    ASSUME NEW S, IsFiniteSet(S), NEW pick \in Picks(S),
           NEW V, NEW base \in V, NEW step \in [S \X V -> V]
    PROVE  \E g \in [SUBSET S -> V] :
              \A s \in SUBSET S : Unfolds(g, s, base, pick, step)
<1> DEFINE Small(n) == {s \in SUBSET S : Cardinality(s) <= n}
           Good(g, n) == \A s \in Small(n) : Unfolds(g, s, base, pick, step)
           Bad == {n \in Nat : ~ \E g \in [SUBSET S -> V] : Good(g, n)}
<1>1. \A s \in SUBSET S : IsFiniteSet(s) /\ Cardinality(s) \in Nat
  BY FS_Subset, FS_CardinalityType
<1>2. CASE Bad = {}
  <2>1. Cardinality(S) \in Nat /\ \A s \in SUBSET S : s \in Small(Cardinality(S))
    BY FS_Subset, FS_CardinalityType
  <2> QED BY <1>2, <2>1
<1>3. CASE Bad # {}
  <2>1. PICK n \in Bad : \A m \in Bad : n <= m
    <3>1. Bad \in SUBSET Nat
      OBVIOUS
    <3> HIDE DEF Bad
    <3> QED BY <1>3, <3>1, LeastNatural
  <2>2. CASE n = 0
    <3> DEFINE g == [s \in SUBSET S |-> base]
    <3>1. \A s \in Small(0) : s = {}
      BY <1>1, FS_EmptySet
    <3>2. g \in [SUBSET S -> V] /\ Good(g, 0)
      BY <3>1 DEF Unfolds
    <3> QED BY <2>1, <2>2, <3>2
  <2>3. CASE n # 0
    <3>1. n - 1 \in Nat /\ ~(n - 1 \in Bad)
      <4>1. n \in Nat
        BY <2>1
      <4>2. \A m \in Bad : m \in Int
        OBVIOUS
      <4> HIDE DEF Bad
      <4> QED BY <2>1, <2>3, <4>1, <4>2
    <3>2. PICK h \in [SUBSET S -> V] : Good(h, n - 1)
      BY <3>1
    <3> DEFINE g == [s \in SUBSET S |->
                        IF s = {} THEN base ELSE step[<<pick[s], h[s \ {pick[s]}]>>]]
    <3>3. g \in [SUBSET S -> V]
      <4> SUFFICES ASSUME NEW s \in SUBSET S, s # {}
                   PROVE  step[<<pick[s], h[s \ {pick[s]}]>>] \in V
        OBVIOUS
      <4>1. pick[s] \in S /\ s \ {pick[s]} \in SUBSET S
        BY DEF Picks
      <4>2. <<pick[s], h[s \ {pick[s]}]>> \in S \X V
        BY <3>2, <4>1
      <4> QED BY <4>2
    <3>4. \A s \in Small(n - 1) : g[s] = h[s]
      BY <3>2 DEF Unfolds
    <3>5. ASSUME NEW s \in Small(n), s # {}
          PROVE  g[s \ {pick[s]}] = h[s \ {pick[s]}]
      <4>1. pick[s] \in s
        BY <3>5 DEF Picks
      <4>2. Cardinality(s \ {pick[s]}) = Cardinality(s) - 1
        BY <1>1, <4>1, FS_RemoveElement
      <4>3. s \ {pick[s]} \in Small(n - 1)
        BY <1>1, <4>2
      <4> QED BY <3>4, <4>3
    <3>6. Good(g, n)
      <4> SUFFICES ASSUME NEW s \in Small(n) PROVE Unfolds(g, s, base, pick, step)
        OBVIOUS
      <4> QED BY <3>5 DEF Unfolds
    <3> QED BY <2>1, <3>3, <3>6
  <2> QED BY <2>2, <2>3
<1> QED BY <1>2, <1>3

-----------------------------------------------------------------------------
(* Sums *)

SumOver(f, S) == MapThenSumSet(LAMBDA c : f[c], S)

\* f gives every element of the finite set S a natural number.
Summable(f, S) == IsFiniteSet(S) /\ \A x \in S : f[x] \in Nat

Some(s) == CHOOSE x \in s : TRUE

\* g has the sums of f over the subsets of S as its values.
Sums(g, f, S) ==
    /\ g \in [SUBSET S -> Nat]
    /\ \A s \in SUBSET S : g[s] = IF s = {} THEN 0 ELSE f[Some(s)] + g[s \ {Some(s)}]

\* Whatever unfolds that way has natural numbers as values.
LEMMA UnfoldedSums ==
    ASSUME NEW f, NEW S, NEW h, Summable(f, S),
           h = [s \in SUBSET S |-> IF s = {} THEN 0 ELSE f[Some(s)] + h[s \ {Some(s)}]]
    PROVE  Sums(h, f, S)
<1> DEFINE A == {s \in SUBSET S : h[s] \in Nat}
<1>1. ASSUME NEW T \in SUBSET S, \A x \in T : T \ {x} \in A
      PROVE  T \in A
  <2>1. CASE T = {}
    BY <2>1
  <2>2. CASE T # {}
    <3>1. Some(T) \in T /\ h[T \ {Some(T)}] \in Nat
      BY <1>1, <2>2 DEF Some
    <3>2. h[T] = f[Some(T)] + h[T \ {Some(T)}]
      BY <2>2
    <3> QED BY <3>1, <3>2 DEF Summable
  <2> QED BY <2>1, <2>2
<1>2. SUBSET S \subseteq A
  <2>1. IsFiniteSet(S)
    BY DEF Summable
  <2> HIDE DEF A
  <2> QED BY <1>1, <2>1, SubsetInduction
<1>3. h \in [SUBSET S -> Nat]
  BY <1>2
<1> QED BY <1>3 DEF Sums

\* The sum is the value at S of such a function.
LEMMA SumWitness ==
    ASSUME NEW f, NEW S, Summable(f, S)
    PROVE  \E g : Sums(g, f, S) /\ SumOver(f, S) = g[S]
<1> DEFINE D(g) == [s \in SUBSET S |->
                      IF s = {} THEN 0 ELSE f[Some(s)] + g[s \ {Some(s)}]]
           it   == CHOOSE g : g = D(g)
           pick == [s \in (SUBSET S) \ {{}} |-> Some(s)]
           step == [xv \in S \X Nat |-> f[xv[1]] + xv[2]]
<1>1. SumOver(f, S) = it[S]
  BY DEF SumOver, MapThenSumSet, MapThenFoldSet, Some
<1>2. \A s \in (SUBSET S) \ {{}} : Some(s) \in s
  BY DEF Some
<1>3. pick \in Picks(S)
  BY <1>2 DEF Picks
<1>4. step \in [S \X Nat -> Nat]
  BY DEF Summable
<1>5. PICK g \in [SUBSET S -> Nat] : \A s \in SUBSET S : Unfolds(g, s, 0, pick, step)
  <2> HIDE DEF pick, step
  <2> QED BY <1>3, <1>4, RecursionExists DEF Summable
<1>6. ASSUME NEW s \in SUBSET S
      PROVE  g[s] = IF s = {} THEN 0 ELSE f[Some(s)] + g[s \ {Some(s)}]
  <2>1. CASE s = {}
    BY <1>5, <2>1 DEF Unfolds
  <2>2. CASE s # {}
    <3>1. pick[s] = Some(s) /\ Some(s) \in S /\ g[s \ {Some(s)}] \in Nat
      BY <1>2, <1>5, <2>2
    <3> DEFINE v == g[s \ {Some(s)}]
    <3>2. step[<<pick[s], g[s \ {pick[s]}]>>] = f[Some(s)] + g[s \ {Some(s)}]
      <4>1. step[<<pick[s], g[s \ {pick[s]}]>>] = step[<<Some(s), v>>]
        <5> HIDE DEF step, pick
        <5> QED BY <3>1
      <4>2. <<Some(s), v>> \in S \X Nat
        BY <3>1
      <4>3. step[<<Some(s), v>>] = f[Some(s)] + v
        <5> HIDE DEF v
        <5> QED BY <4>2
      <4> QED BY <4>1, <4>3
    <3> QED BY <1>5, <2>2, <3>2 DEF Unfolds
  <2> QED BY <2>1, <2>2
<1>7. g = D(g)
  BY <1>5, <1>6
<1>8. it = D(it)
  <2> HIDE DEF D
  <2> QED BY <1>7
<1>9. Sums(it, f, S)
  <2> HIDE DEF it
  <2> QED BY <1>8, UnfoldedSums
<1> QED BY <1>1, <1>9

\* Two such functions agree, also when their sets or summands differ elsewhere.
LEMMA SumsAgree ==
    ASSUME NEW f, NEW g, NEW S, NEW T, IsFiniteSet(S), S \subseteq T,
           \A x \in S : f[x] = g[x],
           NEW a, NEW b, Sums(a, f, S), Sums(b, g, T)
    PROVE  a[S] = b[S]
<1> DEFINE A == {s \in SUBSET S : a[s] = b[s]}
<1>1. ASSUME NEW U \in SUBSET S, \A x \in U : U \ {x} \in A
      PROVE  U \in A
  <2>1. CASE U = {}
    BY <2>1 DEF Sums
  <2>2. CASE U # {}
    <3>1. Some(U) \in U
      BY <2>2 DEF Some
    <3>2. a[U] = f[Some(U)] + a[U \ {Some(U)}] /\ b[U] = g[Some(U)] + b[U \ {Some(U)}]
      BY <2>2 DEF Sums
    <3> QED BY <1>1, <3>1, <3>2
  <2> QED BY <2>1, <2>2
<1>2. SUBSET S \subseteq A
  <2> HIDE DEF A
  <2> QED BY <1>1, SubsetInduction
<1> QED BY <1>2

\* A sum is a natural number, and the sum over nothing is 0.
LEMMA SumType ==
    ASSUME NEW f, NEW S, Summable(f, S)
    PROVE  SumOver(f, S) \in Nat
<1>1. PICK g : Sums(g, f, S) /\ SumOver(f, S) = g[S]
  BY SumWitness
<1>2. g \in [SUBSET S -> Nat] /\ S \in SUBSET S
  BY <1>1 DEF Sums
<1> QED BY <1>1, <1>2

\* The sum over nothing is 0.
LEMMA SumEmpty == ASSUME NEW f PROVE SumOver(f, {}) = 0
<1>1. Summable(f, {})
  BY FS_EmptySet DEF Summable
<1> QED BY <1>1, SumWitness DEF Sums

\* Equal summands have equal sums.
LEMMA SumSame ==
    ASSUME NEW f, NEW g, NEW S, Summable(f, S), \A x \in S : f[x] = g[x]
    PROVE  SumOver(f, S) = SumOver(g, S)
<1>1. Summable(g, S)
  BY DEF Summable
<1>2. PICK a : Sums(a, f, S) /\ SumOver(f, S) = a[S]
  BY SumWitness
<1>3. PICK b : Sums(b, g, S) /\ SumOver(g, S) = b[S]
  BY <1>1, SumWitness
<1> QED BY <1>2, <1>3, SumsAgree DEF Summable

\* One element is set apart: the one the definition takes, hence any.
LEMMA SumStep ==
    ASSUME NEW f, NEW S, Summable(f, S), S # {}
    PROVE  SumOver(f, S) = f[Some(S)] + SumOver(f, S \ {Some(S)})
<1> DEFINE R == S \ {Some(S)}
<1>1. Some(S) \in S /\ Summable(f, R)
  BY FS_RemoveElement DEF Some, Summable
<1>2. PICK a : Sums(a, f, S) /\ SumOver(f, S) = a[S]
  BY SumWitness
<1>3. PICK b : Sums(b, f, R) /\ SumOver(f, R) = b[R]
  <2> HIDE DEF R
  <2> QED BY <1>1, SumWitness
<1>4. b[R] = a[R]
  <2>1. R \subseteq S
    OBVIOUS
  <2> HIDE DEF R
  <2> QED BY <1>1, <1>2, <1>3, <2>1, SumsAgree DEF Summable
<1> QED BY <1>1, <1>2, <1>3, <1>4 DEF Sums

\* Any element can be set apart.
LEMMA SumRemove ==
    ASSUME NEW f, NEW S, Summable(f, S), NEW x \in S
    PROVE  SumOver(f, S) = f[x] + SumOver(f, S \ {x})
<1> DEFINE A == {T \in SUBSET S :
                   \A y \in T : SumOver(f, T) = f[y] + SumOver(f, T \ {y})}
<1>1. \A T \in SUBSET S : Summable(f, T) /\ SumOver(f, T) \in Nat
  BY FS_Subset, SumType DEF Summable
<1>2. ASSUME NEW T \in SUBSET S, \A y \in T : T \ {y} \in A
      PROVE  T \in A
  <2> SUFFICES ASSUME NEW y \in T PROVE SumOver(f, T) = f[y] + SumOver(f, T \ {y})
    OBVIOUS
  <2> DEFINE z == Some(T)
  <2>1. z \in T /\ SumOver(f, T) = f[z] + SumOver(f, T \ {z})
    BY <1>1, SumStep DEF Some
  <2>2. CASE y = z
    BY <2>1, <2>2
  <2>3. CASE y # z
    <3> HIDE DEF z
    <3>1. SumOver(f, T \ {z}) = f[y] + SumOver(f, (T \ {z}) \ {y})
      BY <1>2, <2>1, <2>3
    <3>2. SumOver(f, T \ {y}) = f[z] + SumOver(f, (T \ {y}) \ {z})
      BY <1>2, <2>1, <2>3
    <3>3. (T \ {z}) \ {y} = (T \ {y}) \ {z}
      OBVIOUS
    <3>4. /\ f[y] \in Nat /\ f[z] \in Nat
          /\ SumOver(f, (T \ {y}) \ {z}) \in Nat
      BY <1>1, <2>1 DEF Summable
    <3>5. /\ SumOver(f, T) = f[z] + (f[y] + SumOver(f, (T \ {y}) \ {z}))
          /\ f[y] + SumOver(f, T \ {y}) = f[y] + (f[z] + SumOver(f, (T \ {y}) \ {z}))
      BY <2>1, <3>1, <3>2, <3>3
    <3> DEFINE r == SumOver(f, (T \ {y}) \ {z})
    <3> HIDE DEF r
    <3>6. f[z] + (f[y] + r) = f[y] + (f[z] + r)
      BY <3>4 DEF r
    <3> QED BY <3>5, <3>6 DEF r
  <2> QED BY <2>2, <2>3
<1>3. SUBSET S \subseteq A
  <2> HIDE DEF A
  <2> QED BY <1>2, SubsetInduction DEF Summable
<1> QED BY <1>3

-----------------------------------------------------------------------------
(* What the proofs about budgets use *)

\* Summing is monotone.
LEMMA SumMonotone ==
    ASSUME NEW f, NEW g, NEW S, Summable(f, S), Summable(g, S),
           \A x \in S : f[x] <= g[x]
    PROVE  SumOver(f, S) <= SumOver(g, S)
<1> DEFINE A == {T \in SUBSET S : SumOver(f, T) <= SumOver(g, T)}
<1>1. \A T \in SUBSET S : /\ Summable(f, T) /\ Summable(g, T)
                          /\ SumOver(f, T) \in Nat /\ SumOver(g, T) \in Nat
  BY FS_Subset, SumType DEF Summable
<1>2. ASSUME NEW T \in SUBSET S, \A y \in T : T \ {y} \in A
      PROVE  T \in A
  <2>1. CASE T = {}
    BY <2>1, SumEmpty
  <2>2. CASE T # {}
    <3>1. PICK y \in T : TRUE
      BY <2>2
    <3>2. /\ SumOver(f, T) = f[y] + SumOver(f, T \ {y})
          /\ SumOver(g, T) = g[y] + SumOver(g, T \ {y})
      BY <1>1, <3>1, SumRemove
    <3>3. /\ f[y] \in Nat /\ g[y] \in Nat /\ f[y] <= g[y]
          /\ SumOver(f, T \ {y}) \in Nat /\ SumOver(g, T \ {y}) \in Nat
          /\ SumOver(f, T \ {y}) <= SumOver(g, T \ {y})
      BY <1>1, <1>2, <3>1 DEF Summable
    <3> QED BY <3>2, <3>3
  <2> QED BY <2>1, <2>2
<1>3. SUBSET S \subseteq A
  <2>1. IsFiniteSet(S)
    BY DEF Summable
  <2> HIDE DEF A
  <2> QED BY <1>2, <2>1, SubsetInduction
<1> QED BY <1>3

\* The sum of sums.
LEMMA SumPlus ==
    ASSUME NEW f, NEW g, NEW h, NEW S, Summable(f, S), Summable(g, S),
           \A x \in S : h[x] = f[x] + g[x]
    PROVE  SumOver(h, S) = SumOver(f, S) + SumOver(g, S)
<1> DEFINE A == {T \in SUBSET S : SumOver(h, T) = SumOver(f, T) + SumOver(g, T)}
<1>1. \A T \in SUBSET S : /\ Summable(f, T) /\ Summable(g, T) /\ Summable(h, T)
                          /\ SumOver(f, T) \in Nat /\ SumOver(g, T) \in Nat
  BY FS_Subset, SumType DEF Summable
<1>2. ASSUME NEW T \in SUBSET S, \A y \in T : T \ {y} \in A
      PROVE  T \in A
  <2>1. CASE T = {}
    BY <2>1, SumEmpty
  <2>2. CASE T # {}
    <3>1. PICK y \in T : TRUE
      BY <2>2
    <3>2. /\ SumOver(f, T) = f[y] + SumOver(f, T \ {y})
          /\ SumOver(g, T) = g[y] + SumOver(g, T \ {y})
          /\ SumOver(h, T) = h[y] + SumOver(h, T \ {y})
      BY <1>1, <3>1, SumRemove
    <3>3. /\ f[y] \in Nat /\ g[y] \in Nat /\ h[y] = f[y] + g[y]
          /\ SumOver(f, T \ {y}) \in Nat /\ SumOver(g, T \ {y}) \in Nat
          /\ SumOver(h, T \ {y}) = SumOver(f, T \ {y}) + SumOver(g, T \ {y})
      BY <1>1, <1>2, <3>1 DEF Summable
    <3> QED BY <3>2, <3>3
  <2> QED BY <2>1, <2>2
<1>3. SUBSET S \subseteq A
  <2>1. IsFiniteSet(S)
    BY DEF Summable
  <2> HIDE DEF A
  <2> QED BY <1>2, <2>1, SubsetInduction
<1> QED BY <1>3

\* A sum over a part is the sum over the whole of what vanishes elsewhere.
LEMMA SumPart ==
    ASSUME NEW f, NEW g, NEW S, NEW T, T \subseteq S, Summable(g, S),
           \A x \in T : f[x] = g[x], \A x \in S \ T : g[x] = 0
    PROVE  SumOver(f, T) = SumOver(g, S)
<1> DEFINE A == {U \in SUBSET S : SumOver(g, U) = SumOver(g, U \cap T)}
<1>1. \A U \in SUBSET S : Summable(g, U) /\ SumOver(g, U) \in Nat
  BY FS_Subset, SumType DEF Summable
<1>2. ASSUME NEW U \in SUBSET S, \A y \in U : U \ {y} \in A
      PROVE  U \in A
  <2>1. CASE U \subseteq T
    <3>1. U \cap T = U
      BY <2>1
    <3> QED BY <3>1
  <2>2. CASE ~(U \subseteq T)
    <3>1. PICK y \in U : ~(y \in T)
      BY <2>2
    <3>2. SumOver(g, U) = g[y] + SumOver(g, U \ {y})
      BY <1>1, <3>1, SumRemove
    <3>3. g[y] = 0 /\ SumOver(g, U \ {y}) \in Nat
      BY <1>1, <3>1
    <3>4. (U \ {y}) \cap T = U \cap T
      BY <3>1
    <3>5. SumOver(g, U \ {y}) = SumOver(g, (U \ {y}) \cap T)
      BY <1>2, <3>1
    <3>6. SumOver(g, U) = SumOver(g, U \ {y})
      BY <3>2, <3>3
    <3>7. SumOver(g, (U \ {y}) \cap T) = SumOver(g, U \cap T)
      BY <3>4
    <3> QED BY <3>5, <3>6, <3>7
  <2> QED BY <2>1, <2>2
<1>3. SUBSET S \subseteq A
  <2>1. IsFiniteSet(S)
    BY DEF Summable
  <2> HIDE DEF A
  <2> QED BY <1>2, <2>1, SubsetInduction
<1>4. S \cap T = T /\ SumOver(g, S) = SumOver(g, S \cap T)
  BY <1>3
<1>5. SumOver(g, T) = SumOver(f, T)
  BY <1>1, SumSame
<1> QED BY <1>4, <1>5

\* Changing one summand changes the sum by the difference.
LEMMA SumChange ==
    ASSUME NEW f, NEW g, NEW S, Summable(f, S), Summable(g, S), NEW c \in S,
           \A x \in S : x # c => f[x] = g[x]
    PROVE  SumOver(g, S) = (SumOver(f, S) - f[c]) + g[c]
<1>1. /\ SumOver(f, S) = f[c] + SumOver(f, S \ {c})
      /\ SumOver(g, S) = g[c] + SumOver(g, S \ {c})
  BY SumRemove
<1>2. Summable(f, S \ {c}) /\ Summable(g, S \ {c})
  BY FS_RemoveElement DEF Summable
<1>3. SumOver(f, S \ {c}) = SumOver(g, S \ {c}) /\ SumOver(f, S \ {c}) \in Nat
  BY <1>2, SumSame, SumType
<1>4. f[c] \in Nat /\ g[c] \in Nat
  BY DEF Summable
<1> QED BY <1>1, <1>3, <1>4
=============================================================================

-------------------------------- MODULE Sums --------------------------------
(***************************************************************************)
(* Sums over finite sets: what the fold of the community modules with "+"  *)
(* computes.  The fold is a recursive function; it is unfolded here once,  *)
(* by induction on the size of the set, in the form of a set that contains *)
(* every case.                                                             *)
(***************************************************************************)
EXTENDS Integers, FiniteSets, Functions, FiniteSetTheorems, WellFoundedInduction, TLAPS

Sum(f, S) == FoldFunctionOnSet(+, 0, f, S)

-----------------------------------------------------------------------------
(* Induction. *)

LEMMA NumbersAreReached ==
  ASSUME NEW N, 0 \in N, \A n \in Nat : n \in N => n + 1 \in N
  PROVE  Nat \subseteq N
<1> SUFFICES ASSUME Nat \ N # {} PROVE FALSE
  OBVIOUS
<1>1. PICK n \in Nat \ N : \A m \in Nat \ N : ~ (<<m, n>> \in OpToRel(<, Nat))
  BY NatLessThanWellFounded, WFMin
<1>2. \A m \in Nat \ N : ~ (m < n)
  BY <1>1 DEF OpToRel
<1>3. n # 0 /\ n - 1 \in Nat /\ n - 1 < n
  OBVIOUS
<1>4. n - 1 \in N
  BY <1>2, <1>3
<1> QED BY <1>3, <1>4

\* After k steps it is at g[k], from where step k + 1 leads it on.
IsRun(g, n, S, e, step) ==
  /\ g \in [0..n -> S]
  /\ g[0] = e
  /\ \A k \in 1..n : g[k] = step[<<k, g[k - 1]>>]

\* A number of steps, each from where the one before it led, can be taken.
LEMMA StepsAreTaken ==
  ASSUME NEW n \in Nat, NEW S, NEW e \in S, NEW step \in [(1..n) \X S -> S]
  PROVE  \E g : IsRun(g, n, S, e, step)
<1>0. \A k \in 1..n, s \in S : step[<<k, s>>] \in S
  OBVIOUS
<1> SUFFICES \E g \in [0..n -> S] : g[0] = e /\ \A k \in 1..n : g[k] = step[<<k, g[k - 1]>>]
  BY DEF IsRun
<1> DEFINE Takes(g, m) == g[0] = e /\ \A k \in 1..m : g[k] = step[<<k, g[k - 1]>>]
           N == {m \in Nat : m <= n => \E g \in [0..m -> S] : Takes(g, m)}
<1>1. 0 \in N
  <2> DEFINE g == [k \in 0..0 |-> e]
  <2>1. g \in [0..0 -> S] /\ Takes(g, 0)
    OBVIOUS
  <2> HIDE DEF g
  <2>2. \E h \in [0..0 -> S] : Takes(h, 0)
    BY <2>1
  <2> QED BY <2>2
<1>2. ASSUME NEW m \in Nat, m \in N PROVE m + 1 \in N
  <2>1. SUFFICES ASSUME m + 1 <= n PROVE \E h \in [0..(m + 1) -> S] : Takes(h, m + 1)
    OBVIOUS
  <2>2. PICK g \in [0..m -> S] : Takes(g, m)
    BY <1>2, <2>1
  <2> DEFINE h == [k \in 0..(m + 1) |-> IF k = m + 1 THEN step[<<m + 1, g[m]>>] ELSE g[k]]
  <2>3. m + 1 \in 1..n /\ g[m] \in S
    BY <2>1
  <2>4. step[<<m + 1, g[m]>>] \in S
    BY <1>0, <2>3
  <2>5. /\ h \in [0..(m + 1) -> S]
        /\ h[m + 1] = step[<<m + 1, g[m]>>]
        /\ \A k \in 0..m : h[k] = g[k]
    BY <2>4
  <2> HIDE DEF h
  <2>6. ASSUME NEW k \in 1..(m + 1) PROVE h[k] = step[<<k, h[k - 1]>>]
    <3>1. CASE k = m + 1
      <4>1. k - 1 = m /\ h[m] = g[m]
        BY <2>5, <3>1
      <4> QED BY <2>5, <3>1, <4>1
    <3>2. CASE k # m + 1
      <4>1. k \in 1..m /\ k \in 0..m /\ k - 1 \in 0..m
        BY <3>2
      <4> QED BY <2>2, <2>5, <4>1
    <3> QED BY <3>1, <3>2
  <2>7. Takes(h, m + 1)
    BY <2>2, <2>5, <2>6
  <2> HIDE DEF Takes
  <2> QED BY <2>5, <2>7
<1>3. n \in N
  <2> HIDE DEF N
  <2>1. Nat \subseteq N
    BY <1>1, <1>2, NumbersAreReached
  <2> QED BY <2>1
<1> QED BY <1>3

LEMMA LeastExists ==
  ASSUME NEW S, S \subseteq Nat, S # {}
  PROVE  \E x \in S : \A y \in S : x <= y
<1> SUFFICES ASSUME ~ \E x \in S : \A y \in S : x <= y PROVE FALSE
  OBVIOUS
<1> DEFINE N == {n \in Nat : \A m \in 0..n : m \notin S}
<1>1. 0 \in N
  BY DEF N
<1>2. \A n \in Nat : n \in N => n + 1 \in N
  OBVIOUS
<1>3. Nat \subseteq N
  <2> HIDE DEF N
  <2> QED BY <1>1, <1>2, NumbersAreReached
<1>4. \A n \in S : n \in N /\ n \in 0..n
  BY <1>3
<1> QED BY <1>4

\* What holds of a set if it holds of all that have one element less holds of every finite set.
LEMMA SubsetsAreReached ==
  ASSUME NEW S, IsFiniteSet(S), NEW F,
         \A T \in SUBSET S : (\A x \in T : T \ {x} \in F) => T \in F
  PROVE  SUBSET S \subseteq F
<1> DEFINE N == {n \in Nat : \A T \in SUBSET S : Cardinality(T) = n => T \in F}
<1>1. \A T \in SUBSET S : IsFiniteSet(T) /\ Cardinality(T) \in Nat
  BY FS_Subset, FS_CardinalityType
<1>2. 0 \in N
  BY <1>1, FS_EmptySet
<1>3. ASSUME NEW n \in Nat, n \in N PROVE n + 1 \in N
  <2> SUFFICES ASSUME NEW T \in SUBSET S, Cardinality(T) = n + 1 PROVE T \in F
    OBVIOUS
  <2>1. \A x \in T : Cardinality(T \ {x}) = n
    BY <1>1, FS_RemoveElement
  <2> QED BY <1>3, <2>1
<1>4. Nat \subseteq N
  <2> HIDE DEF N
  <2> QED BY <1>2, <1>3, NumbersAreReached
<1> QED BY <1>1, <1>4
-----------------------------------------------------------------------------
(* The fold. *)

Some(T) == CHOOSE x \in T : TRUE

Unfolded(f, S, g) == [T \in SUBSET S |-> IF T = {} THEN 0 ELSE f[Some(T)] + g[T \ {Some(T)}]]

Folding(f, S) == CHOOSE g : g = Unfolded(f, S, g)

LEMMA SumIsFolding ==
  ASSUME NEW f, NEW S
  PROVE  Sum(f, S) = Folding(f, S)[S]
BY DEF Sum, FoldFunctionOnSet, MapThenFoldSet, Folding, Unfolded, Some

LEMMA FoldingExists ==
  ASSUME NEW f, NEW S, IsFiniteSet(S)
  PROVE  Folding(f, S) = Unfolded(f, S, Folding(f, S))
<1> DEFINE Upto(n, g) == [T \in SUBSET S |-> IF Cardinality(T) > n THEN 0 ELSE Unfolded(f, S, g)[T]]
           N == {n \in Nat : \E g : g = Upto(n, g)}
<1>1. \A T \in SUBSET S : IsFiniteSet(T) /\ Cardinality(T) \in Nat
  BY FS_Subset, FS_CardinalityType
<1>2. 0 \in N
  <2> DEFINE g == [T \in SUBSET S |-> 0]
  <2>1. \A T \in SUBSET S : ~ (Cardinality(T) > 0) => T = {}
    BY <1>1, FS_EmptySet
  <2>2. g = Upto(0, g)
    BY <2>1 DEF Unfolded
  <2> QED BY <2>2
<1>3. ASSUME NEW n \in Nat, n \in N PROVE n + 1 \in N
  <2>1. PICK g : g = Upto(n, g)
    BY <1>3
  <2> DEFINE h == Upto(n + 1, g)
  <2>2. ASSUME NEW T \in SUBSET S, T # {}, ~ (Cardinality(T) > n + 1)
        PROVE  h[T \ {Some(T)}] = g[T \ {Some(T)}]
    <3> DEFINE U == T \ {Some(T)}
    <3>1. Some(T) \in T
      BY <2>2 DEF Some
    <3>2. Cardinality(U) = Cardinality(T) - 1
      BY <1>1, <3>1, FS_RemoveElement
    <3>3. ~ (Cardinality(U) > n) /\ ~ (Cardinality(U) > n + 1) /\ U \in SUBSET S
      BY <1>1, <2>2, <3>2
    <3> HIDE DEF U
    <3>4. g[U] = Unfolded(f, S, g)[U]
      BY <2>1, <3>3
    <3>5. h[U] = Unfolded(f, S, g)[U]
      BY <3>3
    <3> QED BY <3>4, <3>5 DEF U
  <2>3. h = Upto(n + 1, h)
    BY <2>2 DEF Unfolded
  <2> HIDE DEF h
  <2>4. \E k : k = Upto(n + 1, k)
    BY <2>3
  <2> QED BY <2>4
<1>4. Nat \subseteq N
  <2> HIDE DEF N
  <2> QED BY <1>2, <1>3, NumbersAreReached
<1>5. PICK g : g = Upto(Cardinality(S), g)
  BY <1>1, <1>4
<1>6. \A T \in SUBSET S : ~ (Cardinality(T) > Cardinality(S))
  BY <1>1, FS_Subset
<1>7. g = Unfolded(f, S, g)
  BY <1>5, <1>6 DEF Unfolded
<1> QED BY <1>7 DEF Folding

LEMMA FoldingUnfolds ==
  ASSUME NEW f, NEW S, IsFiniteSet(S), NEW T \in SUBSET S
  PROVE  Folding(f, S)[T] = IF T = {} THEN 0 ELSE f[Some(T)] + Folding(f, S)[T \ {Some(T)}]
<1>1. Folding(f, S)[T] = Unfolded(f, S, Folding(f, S))[T]
  BY FoldingExists
<1>2. \A g : Unfolded(f, S, g)[T] = IF T = {} THEN 0 ELSE f[Some(T)] + g[T \ {Some(T)}]
  BY DEF Unfolded
<1> QED BY <1>1, <1>2

LEMMA FoldingIsLocal ==
  ASSUME NEW f, NEW S, IsFiniteSet(S), NEW U \in SUBSET S, NEW V \in SUBSET U
  PROVE  Folding(f, S)[V] = Folding(f, U)[V]
<1> DEFINE F == {T \in SUBSET U : Folding(f, S)[T] = Folding(f, U)[T]}
<1>1. IsFiniteSet(U)
  BY FS_Subset
<1>2. ASSUME NEW T \in SUBSET U, \A x \in T : T \ {x} \in F PROVE T \in F
  <2>1. T # {} => Some(T) \in T
    BY DEF Some
  <2>2. Folding(f, S)[T] = IF T = {} THEN 0 ELSE f[Some(T)] + Folding(f, S)[T \ {Some(T)}]
    BY FoldingUnfolds
  <2>3. Folding(f, U)[T] = IF T = {} THEN 0 ELSE f[Some(T)] + Folding(f, U)[T \ {Some(T)}]
    BY <1>1, FoldingUnfolds
  <2> QED BY <1>2, <2>1, <2>2, <2>3
<1>3. SUBSET U \subseteq F
  <2> HIDE DEF F
  <2> QED BY <1>1, <1>2, SubsetsAreReached
<1> QED BY <1>3
-----------------------------------------------------------------------------
(* Sums of integers. *)

LEMMA SumOfNone == ASSUME NEW f PROVE Sum(f, {}) = 0
<1>1. Folding(f, {})[{}] = 0
  BY FoldingUnfolds, FS_EmptySet
<1> QED BY <1>1, SumIsFolding

LEMMA SumPicksOne ==
  ASSUME NEW f, NEW S, IsFiniteSet(S), S # {}
  PROVE  Some(S) \in S /\ Sum(f, S) = f[Some(S)] + Sum(f, S \ {Some(S)})
<1> DEFINE T == S \ {Some(S)}
<1>1. Folding(f, S)[S] = f[Some(S)] + Folding(f, S)[T]
  BY FoldingUnfolds
<1>2. Folding(f, S)[T] = Folding(f, T)[T]
  BY FoldingIsLocal
<1>3. Some(S) \in S
  BY DEF Some
<1> QED BY <1>1, <1>2, <1>3, SumIsFolding

LEMMA SumIsInt ==
  ASSUME NEW f, NEW S, IsFiniteSet(S), \A x \in S : f[x] \in Int
  PROVE  Sum(f, S) \in Int
<1> DEFINE F == {T \in SUBSET S : Sum(f, T) \in Int}
<1>1. ASSUME NEW T \in SUBSET S, \A x \in T : T \ {x} \in F PROVE T \in F
  <2>1. CASE T = {}
    BY <2>1, SumOfNone
  <2>2. CASE T # {}
    <3>1. Some(T) \in T /\ Sum(f, T) = f[Some(T)] + Sum(f, T \ {Some(T)})
      BY <2>2, FS_Subset, SumPicksOne
    <3> QED BY <1>1, <3>1
  <2> QED BY <2>1, <2>2
<1>2. SUBSET S \subseteq F
  <2> HIDE DEF F
  <2> QED BY <1>1, SubsetsAreReached
<1> QED BY <1>2

\* Any element may be taken out first.
LEMMA SumTakes ==
  ASSUME NEW f, NEW S, IsFiniteSet(S), \A x \in S : f[x] \in Int, NEW e \in S
  PROVE  Sum(f, S) = f[e] + Sum(f, S \ {e})
<1> DEFINE F == {T \in SUBSET S : \A x \in T : Sum(f, T) = f[x] + Sum(f, T \ {x})}
<1>0. \A T \in SUBSET S : Sum(f, T) \in Int
  BY SumIsInt, FS_Subset
<1>1. ASSUME NEW T \in SUBSET S, \A x \in T : T \ {x} \in F PROVE T \in F
  <2> SUFFICES ASSUME NEW x \in T PROVE Sum(f, T) = f[x] + Sum(f, T \ {x})
    OBVIOUS
  <2> DEFINE c == Some(T)
  <2>1. c \in T /\ Sum(f, T) = f[c] + Sum(f, T \ {c})
    BY FS_Subset, SumPicksOne
  <2> HIDE DEF c
  <2>2. CASE x # c
    <3> DEFINE U == (T \ {c}) \ {x}
    <3>1. U = (T \ {x}) \ {c} /\ U \in SUBSET S
      OBVIOUS
    <3>2. Sum(f, T \ {c}) = f[x] + Sum(f, U)
      BY <1>1, <2>1, <2>2
    <3>3. Sum(f, T \ {x}) = f[c] + Sum(f, U)
      BY <1>1, <2>1, <2>2, <3>1
    <3>4. Sum(f, U) \in Int /\ f[x] \in Int /\ f[c] \in Int
      BY <1>0, <2>1, <3>1
    <3> HIDE DEF U
    <3> QED BY <2>1, <3>2, <3>3, <3>4
  <2>3. CASE x = c
    BY <2>1, <2>3
  <2> QED BY <2>2, <2>3
<1>2. SUBSET S \subseteq F
  <2> HIDE DEF F
  <2> QED BY <1>1, SubsetsAreReached
<1> QED BY <1>2

LEMMA SumAdds ==
  ASSUME NEW f, NEW S, IsFiniteSet(S), NEW e, e \notin S, \A x \in S \cup {e} : f[x] \in Int
  PROVE  Sum(f, S \cup {e}) = f[e] + Sum(f, S)
<1>1. IsFiniteSet(S \cup {e}) /\ (S \cup {e}) \ {e} = S
  BY FS_AddElement
<1> QED BY <1>1, SumTakes

\* Sums are compared term by term.
LEMMA SumIsMonotone ==
  ASSUME NEW f, NEW g, NEW S, IsFiniteSet(S), \A x \in S : f[x] \in Int /\ g[x] \in Int /\ f[x] <= g[x]
  PROVE  Sum(f, S) <= Sum(g, S)
<1> DEFINE F == {T \in SUBSET S : Sum(f, T) <= Sum(g, T)}
<1>0. \A T \in SUBSET S : IsFiniteSet(T) /\ Sum(f, T) \in Int /\ Sum(g, T) \in Int
  BY SumIsInt, FS_Subset
<1>1. ASSUME NEW T \in SUBSET S, \A x \in T : T \ {x} \in F PROVE T \in F
  <2>1. CASE T = {}
    BY <2>1, SumOfNone
  <2>2. ASSUME NEW x \in T PROVE Sum(f, T) <= Sum(g, T)
    <3>1. Sum(f, T) = f[x] + Sum(f, T \ {x}) /\ Sum(g, T) = g[x] + Sum(g, T \ {x})
      BY <1>0, SumTakes
    <3>2. Sum(f, T \ {x}) <= Sum(g, T \ {x}) /\ Sum(f, T \ {x}) \in Int /\ Sum(g, T \ {x}) \in Int
      BY <1>0, <1>1
    <3> QED BY <3>1, <3>2
  <2> QED BY <2>1, <2>2
<1>2. SUBSET S \subseteq F
  <2> HIDE DEF F
  <2> QED BY <1>1, SubsetsAreReached
<1> QED BY <1>2

\* The terms may go by other names.
LEMMA SumIsRenamed ==
  ASSUME NEW f, NEW g, NEW h, NEW S, IsFiniteSet(S),
         \A x \in S : f[x] \in Int /\ f[x] = g[h[x]],
         \A x, y \in S : h[x] = h[y] => x = y
  PROVE  Sum(f, S) = Sum(g, {h[x] : x \in S})
<1> DEFINE Names(T) == {h[x] : x \in T}
           F == {T \in SUBSET S : IsFiniteSet(Names(T)) /\ Sum(f, T) = Sum(g, Names(T))}
<1>1. ASSUME NEW T \in SUBSET S, \A x \in T : T \ {x} \in F PROVE T \in F
  <2>1. CASE T = {}
    <3>1. Names(T) = {}
      BY <2>1
    <3> QED BY <2>1, <3>1, FS_EmptySet, SumOfNone
  <2>2. ASSUME NEW x \in T PROVE T \in F
    <3> DEFINE U == Names(T \ {x})
    <3>1. IsFiniteSet(U) /\ Sum(f, T \ {x}) = Sum(g, U)
      BY <1>1
    <3>2. Names(T) = U \cup {h[x]} /\ h[x] \notin U
      OBVIOUS
    <3>3. \A y \in U \cup {h[x]} : g[y] \in Int
      OBVIOUS
    <3> HIDE DEF U
    <3>4. Sum(g, U \cup {h[x]}) = g[h[x]] + Sum(g, U)
      BY <3>1, <3>2, <3>3, SumAdds
    <3>5. Sum(f, T) = f[x] + Sum(f, T \ {x})
      BY FS_Subset, SumTakes
    <3>6. IsFiniteSet(U \cup {h[x]})
      BY <3>1, FS_AddElement
    <3>7. f[x] = g[h[x]]
      OBVIOUS
    <3> HIDE DEF Names
    <3> QED BY <3>1, <3>2, <3>4, <3>5, <3>6, <3>7
  <2> QED BY <2>1, <2>2
<1>2. SUBSET S \subseteq F
  <2> HIDE DEF F
  <2> QED BY <1>1, SubsetsAreReached
<1> QED BY <1>2

LEMMA SumDependsOnTerms ==
  ASSUME NEW f, NEW g, NEW S, IsFiniteSet(S), \A x \in S : f[x] \in Int /\ f[x] = g[x]
  PROVE  Sum(f, S) = Sum(g, S)
<1>1. Sum(f, S) <= Sum(g, S) /\ Sum(g, S) <= Sum(f, S)
  BY SumIsMonotone
<1> QED BY <1>1, SumIsInt

LEMMA SumIsLinear ==
  ASSUME NEW f, NEW g, NEW h, NEW S, IsFiniteSet(S),
         \A x \in S : f[x] \in Int /\ g[x] \in Int /\ h[x] = f[x] + g[x]
  PROVE  Sum(h, S) = Sum(f, S) + Sum(g, S)
<1> DEFINE F == {T \in SUBSET S : Sum(h, T) = Sum(f, T) + Sum(g, T)}
<1>0. \A T \in SUBSET S : IsFiniteSet(T) /\ Sum(f, T) \in Int /\ Sum(g, T) \in Int
  BY SumIsInt, FS_Subset
<1>1. ASSUME NEW T \in SUBSET S, \A x \in T : T \ {x} \in F PROVE T \in F
  <2>1. CASE T = {}
    BY <2>1, SumOfNone
  <2>2. ASSUME NEW x \in T PROVE Sum(h, T) = Sum(f, T) + Sum(g, T)
    <3>0. \A y \in T : f[y] \in Int /\ g[y] \in Int /\ h[y] \in Int
      OBVIOUS
    <3>1. /\ Sum(f, T) = f[x] + Sum(f, T \ {x}) /\ Sum(g, T) = g[x] + Sum(g, T \ {x})
          /\ Sum(h, T) = h[x] + Sum(h, T \ {x})
      BY <1>0, <3>0, SumTakes
    <3>2. /\ Sum(h, T \ {x}) = Sum(f, T \ {x}) + Sum(g, T \ {x})
          /\ Sum(f, T \ {x}) \in Int /\ Sum(g, T \ {x}) \in Int
      BY <1>0, <1>1
    <3>3. f[x] \in Int /\ g[x] \in Int /\ h[x] = f[x] + g[x]
      OBVIOUS
    <3> QED BY <3>1, <3>2, <3>3
  <2> QED BY <2>1, <2>2
<1>2. SUBSET S \subseteq F
  <2> HIDE DEF F
  <2> QED BY <1>1, SubsetsAreReached
<1> QED BY <1>2

LEMMA SumScales ==
  ASSUME NEW f, NEW h, NEW k \in Int, NEW S, IsFiniteSet(S),
         \A x \in S : f[x] \in Int /\ h[x] = k * f[x]
  PROVE  Sum(h, S) = k * Sum(f, S)
<1> DEFINE F == {T \in SUBSET S : Sum(h, T) = k * Sum(f, T)}
<1>0. \A T \in SUBSET S : IsFiniteSet(T) /\ Sum(f, T) \in Int
  BY SumIsInt, FS_Subset
<1>1. ASSUME NEW T \in SUBSET S, \A x \in T : T \ {x} \in F PROVE T \in F
  <2>1. CASE T = {}
    BY <2>1, SumOfNone
  <2>2. ASSUME NEW x \in T PROVE Sum(h, T) = k * Sum(f, T)
    <3>0. \A y \in T : f[y] \in Int /\ h[y] \in Int
      OBVIOUS
    <3>1. Sum(f, T) = f[x] + Sum(f, T \ {x}) /\ Sum(h, T) = h[x] + Sum(h, T \ {x})
      BY <1>0, <3>0, SumTakes
    <3>2. Sum(h, T \ {x}) = k * Sum(f, T \ {x}) /\ Sum(f, T \ {x}) \in Int
      BY <1>0, <1>1
    <3>3. f[x] \in Int /\ h[x] = k * f[x]
      OBVIOUS
    <3>4. \A m, n \in Int : k * m + k * n = k * (m + n)
      OBVIOUS
    <3> QED BY <3>1, <3>2, <3>3, <3>4
  <2> QED BY <2>1, <2>2
<1>2. SUBSET S \subseteq F
  <2> HIDE DEF F
  <2> QED BY <1>1, SubsetsAreReached
<1> QED BY <1>2

LEMMA SumOfZeros ==
  ASSUME NEW f, NEW S, IsFiniteSet(S), \A x \in S : f[x] = 0
  PROVE  Sum(f, S) = 0
<1> DEFINE F == {T \in SUBSET S : Sum(f, T) = 0}
<1>1. ASSUME NEW T \in SUBSET S, \A x \in T : T \ {x} \in F PROVE T \in F
  <2>1. CASE T = {}
    BY <2>1, SumOfNone
  <2>2. ASSUME NEW x \in T PROVE Sum(f, T) = 0
    <3>1. IsFiniteSet(T) /\ \A y \in T : f[y] \in Int
      BY FS_Subset
    <3>2. Sum(f, T) = f[x] + Sum(f, T \ {x})
      BY <3>1, SumTakes
    <3>3. f[x] = 0 /\ Sum(f, T \ {x}) = 0
      BY <1>1
    <3> QED BY <3>2, <3>3
  <2> QED BY <2>1, <2>2
<1>2. SUBSET S \subseteq F
  <2> HIDE DEF F
  <2> QED BY <1>1, SubsetsAreReached
<1> QED BY <1>2

\* Terms that are zero may be left out.
LEMMA SumIgnoresZeros ==
  ASSUME NEW f, NEW S, IsFiniteSet(S), \A x \in S : f[x] \in Int,
         NEW U \in SUBSET S, \A x \in S \ U : f[x] = 0
  PROVE  Sum(f, S) = Sum(f, U)
<1> DEFINE F == {T \in SUBSET S : Sum(f, T) = Sum(f, T \cap U)}
<1>0. \A T \in SUBSET S : IsFiniteSet(T) /\ Sum(f, T) \in Int
  BY SumIsInt, FS_Subset
<1>1. ASSUME NEW T \in SUBSET S, \A x \in T : T \ {x} \in F PROVE T \in F
  <2>1. CASE T \subseteq U
    <3>1. T \cap U = T
      BY <2>1
    <3> QED BY <3>1
  <2>2. ASSUME NEW x \in T \ U PROVE Sum(f, T) = Sum(f, T \cap U)
    <3>1. (T \ {x}) \cap U = T \cap U
      OBVIOUS
    <3>2. Sum(f, T) = 0 + Sum(f, T \ {x})
      BY <1>0, SumTakes
    <3>3. Sum(f, T \ {x}) = Sum(f, T \cap U) /\ Sum(f, T \ {x}) \in Int
      BY <1>0, <1>1, <3>1
    <3> QED BY <3>2, <3>3
  <2> QED BY <2>1, <2>2
<1>2. SUBSET S \subseteq F
  <2> HIDE DEF F
  <2> QED BY <1>1, SubsetsAreReached
<1>3. S \cap U = U
  OBVIOUS
<1> QED BY <1>2, <1>3

LEMMA SumIsNat ==
  ASSUME NEW f, NEW S, IsFiniteSet(S), \A x \in S : f[x] \in Nat
  PROVE  Sum(f, S) \in Nat
<1> DEFINE zero == [x \in S |-> 0]
<1>1. \A x \in S : zero[x] \in Int /\ f[x] \in Int /\ zero[x] <= f[x] /\ zero[x] = 0
  OBVIOUS
<1> HIDE DEF zero
<1>2. Sum(zero, S) <= Sum(f, S) /\ Sum(zero, S) = 0 /\ Sum(f, S) \in Int
  BY <1>1, SumIsMonotone, SumOfZeros, SumIsInt
<1> QED BY <1>2

\* A part of natural terms never comes to more.
LEMMA SumOfPart ==
  ASSUME NEW f, NEW S, IsFiniteSet(S), \A x \in S : f[x] \in Nat, NEW U \in SUBSET S
  PROVE  Sum(f, U) <= Sum(f, S)
<1> DEFINE g == [x \in S |-> IF x \in U THEN f[x] ELSE 0]
<1>1. /\ \A x \in S : g[x] \in Int /\ f[x] \in Int /\ g[x] <= f[x]
      /\ \A x \in U : g[x] = f[x]
      /\ \A x \in S \ U : g[x] = 0
  OBVIOUS
<1>2. IsFiniteSet(U)
  BY FS_Subset
<1> HIDE DEF g
<1>3. Sum(g, S) <= Sum(f, S) /\ Sum(g, S) = Sum(g, U)
  BY <1>1, SumIsMonotone, SumIgnoresZeros
<1>4. Sum(g, U) = Sum(f, U)
  BY <1>1, <1>2, SumDependsOnTerms
<1> QED BY <1>3, <1>4
LEMMA SumOfUnion ==
  ASSUME NEW f, NEW S, NEW T, IsFiniteSet(S), IsFiniteSet(T), S \cap T = {},
         \A x \in S \cup T : f[x] \in Int
  PROVE  Sum(f, S \cup T) = Sum(f, S) + Sum(f, T)
<1> DEFINE F == {U \in SUBSET T : Sum(f, S \cup U) = Sum(f, S) + Sum(f, U)}
<1>0. Sum(f, S) \in Int /\ \A U \in SUBSET T : IsFiniteSet(U) /\ IsFiniteSet(S \cup U)
                                            /\ Sum(f, U) \in Int
  <2>1. \A U \in SUBSET T : IsFiniteSet(U) /\ IsFiniteSet(S \cup U)
    BY FS_Subset, FS_Union
  <2>2. \A U \in SUBSET T : \A x \in U : f[x] \in Int
    OBVIOUS
  <2> QED BY <2>1, <2>2, SumIsInt
<1>1. ASSUME NEW U \in SUBSET T, \A x \in U : U \ {x} \in F PROVE U \in F
  <2>1. CASE U = {}
    <3>1. S \cup U = S
      BY <2>1
    <3>2. Sum(f, S \cup U) = Sum(f, S) /\ Sum(f, U) = 0
      BY <2>1, <3>1, SumOfNone
    <3> QED BY <1>0, <3>2
  <2>2. ASSUME NEW x \in U PROVE Sum(f, S \cup U) = Sum(f, S) + Sum(f, U)
    <3>0. IsFiniteSet(U) /\ IsFiniteSet(S \cup U)
      BY <1>0
    <3>1. x \in S \cup U /\ (S \cup U) \ {x} = S \cup (U \ {x}) /\ f[x] \in Int
      OBVIOUS
    <3>2. Sum(f, S \cup U) = f[x] + Sum(f, S \cup (U \ {x}))
      <4>1. \A y \in S \cup U : f[y] \in Int
        OBVIOUS
      <4>2. Sum(f, S \cup U) = f[x] + Sum(f, (S \cup U) \ {x})
        BY <3>0, <3>1, <4>1, SumTakes
      <4> QED BY <3>1, <4>2
    <3>3. Sum(f, U) = f[x] + Sum(f, U \ {x})
      <4>1. \A y \in U : f[y] \in Int
        OBVIOUS
      <4> QED BY <3>0, <4>1, SumTakes
    <3>4. Sum(f, S \cup (U \ {x})) = Sum(f, S) + Sum(f, U \ {x}) /\ Sum(f, U \ {x}) \in Int
      BY <1>0, <1>1
    <3> QED BY <1>0, <3>1, <3>2, <3>3, <3>4
  <2> QED BY <2>1, <2>2
<1>2. SUBSET T \subseteq F
  <2> HIDE DEF F
  <2> QED BY <1>1, SubsetsAreReached
<1> QED BY <1>2

\* Terms that are each covered by a term of their own come to no more.
LEMMA SumIsCovered ==
  ASSUME NEW f, NEW S, IsFiniteSet(S), \A x \in S : f[x] \in Int,
         NEW g, NEW T, IsFiniteSet(T), \A y \in T : g[y] \in Nat,
         NEW h, \A x \in S : h[x] \in T /\ f[x] <= g[h[x]],
         \A x, y \in S : h[x] = h[y] => x = y
  PROVE  Sum(f, S) <= Sum(g, T)
<1> DEFINE To(U) == {h[x] : x \in U}
           F == {U \in SUBSET S : Sum(f, U) <= Sum(g, To(U))}
<1>0. \A U \in SUBSET S : /\ IsFiniteSet(U) /\ Sum(f, U) \in Int
                         /\ IsFiniteSet(To(U)) /\ To(U) \subseteq T /\ Sum(g, To(U)) \in Int
  <2>1. ASSUME NEW U \in SUBSET S
        PROVE  /\ IsFiniteSet(U) /\ \A x \in U : f[x] \in Int
               /\ IsFiniteSet(To(U)) /\ To(U) \subseteq T /\ \A y \in To(U) : g[y] \in Int
    <3>1. To(U) \subseteq T
      OBVIOUS
    <3>2. IsFiniteSet(U) /\ IsFiniteSet(To(U))
      BY <3>1, FS_Subset
    <3> QED BY <3>1, <3>2
  <2> QED BY <2>1, SumIsInt
<1>1. ASSUME NEW U \in SUBSET S, \A x \in U : U \ {x} \in F PROVE U \in F
  <2>1. CASE U = {}
    <3>1. To(U) = {}
      BY <2>1
    <3> QED BY <2>1, <3>1, SumOfNone
  <2>2. ASSUME NEW x \in U PROVE Sum(f, U) <= Sum(g, To(U))
    <3>0. /\ IsFiniteSet(U) /\ f[x] \in Int /\ Sum(f, U \ {x}) \in Int
          /\ IsFiniteSet(To(U)) /\ Sum(g, To(U \ {x})) \in Int
      BY <1>0
    <3>1. Sum(f, U) = f[x] + Sum(f, U \ {x})
      <4>1. \A y \in U : f[y] \in Int
        OBVIOUS
      <4> QED BY <3>0, <4>1, SumTakes
    <3>2. h[x] \in To(U) /\ To(U) \ {h[x]} = To(U \ {x}) /\ f[x] <= g[h[x]]
      OBVIOUS
    <3>3. \A y \in To(U) : g[y] \in Int
      BY <1>0
    <3>4. Sum(g, To(U)) = g[h[x]] + Sum(g, To(U) \ {h[x]})
      <4> HIDE DEF To
      <4> QED BY <3>0, <3>2, <3>3, SumTakes
    <3>5. Sum(f, U \ {x}) <= Sum(g, To(U \ {x})) /\ g[h[x]] \in Int
      BY <1>1, <3>2, <3>3
    <3>6. Sum(g, To(U)) = g[h[x]] + Sum(g, To(U \ {x}))
      BY <3>2, <3>4
    <3> HIDE DEF To
    <3> QED BY <3>0, <3>1, <3>2, <3>5, <3>6
  <2> QED BY <2>1, <2>2
<1>2. SUBSET S \subseteq F
  <2> HIDE DEF F
  <2> QED BY <1>1, SubsetsAreReached
<1>3. Sum(f, S) <= Sum(g, To(S)) /\ Sum(f, S) \in Int /\ Sum(g, To(S)) \in Int /\ To(S) \subseteq T
  <2>1. S \in SUBSET S
    OBVIOUS
  <2>2. S \in F
    BY <1>2, <2>1
  <2> QED BY <1>0, <2>1, <2>2
<1> HIDE DEF To
<1>4. Sum(g, To(S)) <= Sum(g, T) /\ Sum(g, T) \in Int
  BY <1>3, SumOfPart, SumIsNat
<1> QED BY <1>3, <1>4

\* Disjoint parts never come to more than the whole.
LEMMA SumOfParts ==
  ASSUME NEW w, NEW S, IsFiniteSet(S), \A x \in S : w[x] \in Nat,
         NEW I, IsFiniteSet(I), NEW P, \A i \in I : P[i] \subseteq S,
         \A i, j \in I : i # j => P[i] \cap P[j] = {},
         NEW q, \A i \in I : q[i] \in Int /\ q[i] <= Sum(w, P[i])
  PROVE  Sum(q, I) <= Sum(w, S)
<1> DEFINE All(J) == UNION {P[i] : i \in J}
           F == {J \in SUBSET I : Sum(q, J) <= Sum(w, All(J))}
<1>0. \A U \in SUBSET S : IsFiniteSet(U) /\ Sum(w, U) \in Int /\ \A x \in U : w[x] \in Int
  <2>1. \A U \in SUBSET S : IsFiniteSet(U) /\ \A x \in U : w[x] \in Int
    BY FS_Subset
  <2> QED BY <2>1, SumIsInt
<1>1. ASSUME NEW J \in SUBSET I, \A i \in J : J \ {i} \in F PROVE J \in F
  <2>1. CASE J = {}
    <3>1. All(J) = {}
      BY <2>1
    <3> QED BY <2>1, <3>1, SumOfNone
  <2>2. ASSUME NEW i \in J PROVE Sum(q, J) <= Sum(w, All(J))
    <3> DEFINE R == J \ {i}
    <3>1. Sum(q, J) = q[i] + Sum(q, R) /\ Sum(q, R) \in Int /\ q[i] \in Int
      <4>1. IsFiniteSet(J) /\ IsFiniteSet(R) /\ R \subseteq J
        BY FS_Subset
      <4>2. \A j \in J : q[j] \in Int
        OBVIOUS
      <4> QED BY <4>1, <4>2, SumTakes, SumIsInt
    <3>2. All(J) = All(R) \cup P[i] /\ All(R) \subseteq S /\ P[i] \subseteq S
      OBVIOUS
    <3>3. All(R) \cap P[i] = {}
      OBVIOUS
    <3>4. Sum(w, All(J)) = Sum(w, All(R)) + Sum(w, P[i])
      <4> HIDE DEF All
      <4> QED BY <1>0, <3>2, <3>3, SumOfUnion
    <3>5. Sum(q, R) <= Sum(w, All(R))
      BY <1>1
    <3>6. Sum(w, All(R)) \in Int /\ Sum(w, P[i]) \in Int /\ q[i] <= Sum(w, P[i])
      BY <1>0, <3>2
    <3> HIDE DEF All
    <3> QED BY <3>1, <3>4, <3>5, <3>6
  <2> QED BY <2>1, <2>2
<1>2. SUBSET I \subseteq F
  <2> HIDE DEF F
  <2> QED BY <1>1, SubsetsAreReached
<1>3. Sum(q, I) <= Sum(w, All(I)) /\ Sum(q, I) \in Int /\ All(I) \subseteq S
  <2>1. I \in SUBSET I /\ All(I) \subseteq S
    OBVIOUS
  <2>2. I \in F
    BY <1>2, <2>1
  <2> QED BY <2>1, <2>2, SumIsInt
<1> HIDE DEF All
<1>4. Sum(w, All(I)) <= Sum(w, S) /\ Sum(w, All(I)) \in Int /\ Sum(w, S) \in Int
  BY <1>0, <1>3, SumOfPart
<1> QED BY <1>3, <1>4
=============================================================================

------------------------------ MODULE SumLemmas ------------------------------
(***************************************************************************)
(* Sums over finite sets, for the ledgers of this project.  SumFunction    *)
(* and SumFunctionOnSet of the Functions module add up a function's values *)
(* one member after another, in an order CHOOSE picks; what is proved here *)
(* is that the order does not matter and how a sum moves when one value    *)
(* does.                                                                   *)
(***************************************************************************)
EXTENDS Integers, FiniteSets, Functions, FiniteSetTheorems, TLAPS

-----------------------------------------------------------------------------
(* Induction over the subsets of a finite set *)

\* A property that passes from the strict subsets of a finite set to the set holds of
\* every finite set; the property is given as the family of sets that have it.
LEMMA SubsetInduction ==
    ASSUME NEW S, IsFiniteSet(S), NEW Good,
           \A T \in SUBSET S : (\A U \in SUBSET T : U # T => U \in Good) => T \in Good
    PROVE  S \in Good
<1> DEFINE Bad == {T \in SUBSET S : T \notin Good}
<1>1. IsWellFoundedOn(StrictSubsetOrdering(S), SUBSET S)
  BY FS_StrictSubsetOrderingWellFounded, FS_FiniteSubsetsOfFinite
<1>2. SUFFICES ASSUME S \notin Good
               PROVE  FALSE
  OBVIOUS
<1>3. Bad \subseteq SUBSET S /\ Bad # {}
  BY <1>2
<1>4. PICK T \in Bad : \A U \in Bad : <<U, T>> \notin StrictSubsetOrdering(S)
  <2> HIDE DEF Bad
  <2>1. \E T \in Bad : \A U \in Bad : ~(<<U, T>> \in StrictSubsetOrdering(S))
    BY ONLY <1>1, <1>3, WFMin
  <2> QED BY <2>1
<1>5. \A U \in SUBSET T : U # T => U \in Good
  BY <1>4 DEF StrictSubsetOrdering
<1>6. QED
  BY <1>4, <1>5

\* The recursion that adds up f over the subsets of S.
Walk(f, S, w) ==
    w = [s \in SUBSET S |->
            IF s = {} THEN 0
            ELSE f[CHOOSE x \in s : TRUE] + w[s \ {CHOOSE x \in s : TRUE}]]

\* The sum is the last value of the recursion.
LEMMA SumIsAWalk ==
    ASSUME NEW f, NEW S
    PROVE  SumFunctionOnSet(f, S) = (CHOOSE w : Walk(f, S, w))[S]
  BY DEF SumFunctionOnSet, FoldFunctionOnSet, MapThenFoldSet, Walk

\* Two recursions agree wherever both are defined.
LEMMA WalksAgree ==
    ASSUME NEW f, NEW S, NEW T, NEW U, IsFiniteSet(U), U \subseteq S, U \subseteq T,
           NEW v, Walk(f, S, v), NEW w, Walk(f, T, w)
    PROVE  v[U] = w[U]
<1> DEFINE Good == {X \in SUBSET U : v[X] = w[X]}
<1>1. ASSUME NEW X \in SUBSET U, \A Y \in SUBSET X : Y # X => Y \in Good
      PROVE  X \in Good
  <2>1. X \in SUBSET S /\ X \in SUBSET T
    OBVIOUS
  <2>2. CASE X = {}
    BY <2>1, <2>2 DEF Walk
  <2>3. CASE X # {}
    <3> DEFINE x == CHOOSE y \in X : TRUE
    <3>1. x \in X
      BY <2>3
    <3>2. v[X \ {x}] = w[X \ {x}]
      BY <3>1, <1>1
    <3>3. v[X] = f[x] + v[X \ {x}] /\ w[X] = f[x] + w[X \ {x}]
      BY <2>1, <2>3 DEF Walk
    <3>4. QED
      BY <3>2, <3>3
  <2>4. QED
    BY <2>2, <2>3
<1>2. U \in Good
  <2> HIDE DEF Good
  <2> QED BY <1>1, SubsetInduction
<1>3. QED
  BY <1>2

\* The recursion can be carried out over every finite set.
LEMMA WalkExists ==
    ASSUME NEW f, NEW S, IsFiniteSet(S)
    PROVE  \E w : Walk(f, S, w)
<1> DEFINE Good == {X \in SUBSET S : \E w : Walk(f, X, w)}
<1>1. ASSUME NEW X \in SUBSET S, \A Y \in SUBSET X : Y # X => Y \in Good
      PROVE  X \in Good
  <2> DEFINE of(Y) == CHOOSE w : Walk(f, Y, w)
             first(s) == CHOOSE x \in s : TRUE
             g == [s \in SUBSET X |->
                     IF s = {} THEN 0 ELSE f[first(s)] + of(s \ {first(s)})[s \ {first(s)}]]
  <2>1. ASSUME NEW Y \in SUBSET X, Y # X
        PROVE  Walk(f, Y, of(Y))
    BY <1>1, <2>1
  <2>2. ASSUME NEW Y \in SUBSET X, Y # X
        PROVE  g[Y] = of(Y)[Y]
    <3>1. Walk(f, Y, of(Y))
      BY <2>2, <2>1
    <3>2. CASE Y = {}
      BY <3>1, <3>2 DEF Walk
    <3>3. CASE Y # {}
      <4>1. first(Y) \in Y
        BY <3>3
      <4> DEFINE Z == Y \ {first(Y)}
      <4>2. Z \in SUBSET X /\ Z # X /\ Z \subseteq Y /\ IsFiniteSet(Z)
        BY <4>1, FS_Subset
      <4>3. Walk(f, Z, of(Z))
        BY <4>2, <2>1
      <4>4. of(Z)[Z] = of(Y)[Z]
        <5> HIDE DEF Z, of
        <5> QED BY <4>2, <4>3, <3>1, WalksAgree
      <4>5. of(Y)[Y] = f[first(Y)] + of(Y)[Z]
        <5> HIDE DEF of
        <5> QED BY <3>1, <3>3 DEF Walk
      <4>6. g[Y] = f[first(Y)] + of(Z)[Z]
        BY <3>3
      <4>7. QED
        BY <4>4, <4>5, <4>6
    <3>4. QED
      BY <3>2, <3>3
  <2>3. Walk(f, X, g)
    <3>1. ASSUME NEW s \in SUBSET X, s # {}
          PROVE  g[s] = f[first(s)] + g[s \ {first(s)}]
      <4>1. first(s) \in s
        BY <3>1
      <4>2. g[s \ {first(s)}] = of(s \ {first(s)})[s \ {first(s)}]
        <5> HIDE DEF g, of
        <5> QED BY <4>1, <2>2
      <4>3. QED
        BY <3>1, <4>2
    <3>2. \A s \in SUBSET X :
             g[s] = IF s = {} THEN 0 ELSE f[first(s)] + g[s \ {first(s)}]
      <4> SUFFICES ASSUME NEW s \in SUBSET X
                   PROVE  g[s] = IF s = {} THEN 0 ELSE f[first(s)] + g[s \ {first(s)}]
        OBVIOUS
      <4>1. CASE s = {}
        BY <4>1
      <4>2. CASE s # {}
        <5> HIDE DEF g
        <5> QED BY <4>2, <3>1
      <4> QED BY <4>1, <4>2
    <3>3. g = [s \in SUBSET X |-> g[s]]
      OBVIOUS
    <3> HIDE DEF g
    <3>4. QED
      BY <3>2, <3>3 DEF Walk
  <2>4. QED
    BY <2>3
<1>2. S \in Good
  <2> HIDE DEF Good
  <2> QED BY <1>1, SubsetInduction
<1>3. QED
  BY <1>2

\* One recursion gives the sum over every subset.
LEMMA SumWalk ==
    ASSUME NEW f, NEW S, IsFiniteSet(S)
    PROVE  \E w : Walk(f, S, w) /\ \A T \in SUBSET S : SumFunctionOnSet(f, T) = w[T]
<1> DEFINE of(T) == CHOOSE w : Walk(f, T, w)
<1>1. \A T \in SUBSET S : Walk(f, T, of(T))
  BY WalkExists, FS_Subset
<1>2. Walk(f, S, of(S))
  BY <1>1
<1>3. ASSUME NEW T \in SUBSET S
      PROVE  SumFunctionOnSet(f, T) = of(S)[T]
  <2>1. SumFunctionOnSet(f, T) = of(T)[T]
    BY SumIsAWalk
  <2>2. IsFiniteSet(T) /\ T \subseteq T /\ T \subseteq S /\ Walk(f, T, of(T))
    BY <1>1, FS_Subset
  <2> HIDE DEF of
  <2>3. QED
    BY <2>1, <2>2, <1>2, WalksAgree
<1> HIDE DEF of
<1>4. QED
  BY <1>2, <1>3

-----------------------------------------------------------------------------
(* Sums *)

\* Nothing adds up to 0.
LEMMA SumEmpty ==
    ASSUME NEW f
    PROVE  SumFunctionOnSet(f, {}) = 0
<1>1. IsFiniteSet({})
  BY FS_EmptySet
<1>2. PICK w : Walk(f, {}, w) /\ \A T \in SUBSET {} : SumFunctionOnSet(f, T) = w[T]
  BY <1>1, SumWalk
<1>3. w[{}] = 0
  BY <1>2 DEF Walk
<1>4. QED
  BY <1>2, <1>3

\* The recursion takes some member first.
LEMMA SumSome ==
    ASSUME NEW f, NEW S, IsFiniteSet(S), S # {}
    PROVE  \E x \in S : SumFunctionOnSet(f, S) = f[x] + SumFunctionOnSet(f, S \ {x})
<1> DEFINE x == CHOOSE y \in S : TRUE
<1>1. x \in S
  OBVIOUS
<1>2. PICK w : Walk(f, S, w) /\ \A T \in SUBSET S : SumFunctionOnSet(f, T) = w[T]
  BY SumWalk
<1>3. w[S] = f[x] + w[S \ {x}]
  BY <1>2 DEF Walk
<1>4. S \in SUBSET S /\ S \ {x} \in SUBSET S
  OBVIOUS
<1> HIDE DEF x
<1>5. QED
  BY <1>1, <1>2, <1>3, <1>4

\* A sum of integers is one, and any member may be taken first.
LEMMA SumTakesAny ==
    ASSUME NEW f, NEW S, IsFiniteSet(S), \A x \in S : f[x] \in Int
    PROVE  /\ SumFunctionOnSet(f, S) \in Int
           /\ \A x \in S : SumFunctionOnSet(f, S) = f[x] + SumFunctionOnSet(f, S \ {x})
<1> DEFINE Sum(T) == SumFunctionOnSet(f, T)
           Good == {T \in SUBSET S :
                       /\ Sum(T) \in Int
                       /\ \A x \in T : Sum(T) = f[x] + Sum(T \ {x})}
<1>1. ASSUME NEW T \in SUBSET S, \A U \in SUBSET T : U # T => U \in Good
      PROVE  T \in Good
  <2>1. CASE T = {}
    BY <2>1, SumEmpty
  <2>2. CASE T # {}
    <3>1. IsFiniteSet(T)
      BY FS_Subset
    <3>2. PICK y \in T : Sum(T) = f[y] + Sum(T \ {y})
      BY <2>2, <3>1, SumSome
    <3>3. T \ {y} \in Good
      BY <1>1
    <3>4. Sum(T) \in Int
      BY <3>2, <3>3
    <3>5. ASSUME NEW x \in T, x # y
          PROVE  Sum(T) = f[x] + Sum(T \ {x})
      <4>1. Sum(T \ {y}) = f[x] + Sum((T \ {y}) \ {x})
        BY <3>3, <3>5
      <4>2. T \ {x} \in Good
        BY <1>1, <3>5
      <4>3. Sum(T \ {x}) = f[y] + Sum((T \ {x}) \ {y})
        BY <4>2, <3>5
      <4>4. (T \ {x}) \ {y} = (T \ {y}) \ {x}
        OBVIOUS
      <4>5. (T \ {x}) \ {y} \in Good
        BY <1>1, <3>5
      <4>6. f[x] \in Int /\ f[y] \in Int /\ Sum((T \ {x}) \ {y}) \in Int
        BY <4>5
      <4> DEFINE rest == Sum((T \ {x}) \ {y})
      <4>7. Sum(T) = f[y] + (f[x] + rest) /\ Sum(T \ {x}) = f[y] + rest
        BY <3>2, <4>1, <4>3, <4>4
      <4>8. rest \in Int
        BY <4>6
      <4> HIDE DEF rest, Sum, Good
      <4>9. QED
        BY <4>6, <4>7, <4>8
    <3>6. \A x \in T : Sum(T) = f[x] + Sum(T \ {x})
      BY <3>2, <3>5
    <3>7. QED
      BY <3>4, <3>6
  <2>3. QED
    BY <2>1, <2>2
<1>2. S \in Good
  <2> HIDE DEF Good
  <2> QED BY <1>1, SubsetInduction
<1>3. QED
  BY <1>2

\* A sum of integers is an integer.
LEMMA SumInt ==
    ASSUME NEW f, NEW S, IsFiniteSet(S), \A x \in S : f[x] \in Int
    PROVE  SumFunctionOnSet(f, S) \in Int
  BY SumTakesAny

\* One member is taken out of the sum.
LEMMA SumRemove ==
    ASSUME NEW f, NEW S, IsFiniteSet(S), \A y \in S : f[y] \in Int, NEW x \in S
    PROVE  SumFunctionOnSet(f, S) = f[x] + SumFunctionOnSet(f, S \ {x})
  BY SumTakesAny

\* One member is added to the sum.
LEMMA SumAdd ==
    ASSUME NEW f, NEW S, IsFiniteSet(S), \A y \in S : f[y] \in Int,
           NEW x, x \notin S, f[x] \in Int
    PROVE  SumFunctionOnSet(f, S \cup {x}) = f[x] + SumFunctionOnSet(f, S)
<1>1. IsFiniteSet(S \cup {x}) /\ (S \cup {x}) \ {x} = S
  BY FS_AddElement
<1>2. QED
  BY <1>1, SumRemove

\* Larger values have a larger sum.
LEMMA SumOrder ==
    ASSUME NEW S, IsFiniteSet(S), NEW f, NEW g,
           \A x \in S : f[x] \in Int /\ g[x] \in Int /\ f[x] <= g[x]
    PROVE  SumFunctionOnSet(f, S) <= SumFunctionOnSet(g, S)
<1> DEFINE F(T) == SumFunctionOnSet(f, T)
           G(T) == SumFunctionOnSet(g, T)
           Good == {T \in SUBSET S : F(T) <= G(T)}
<1>1. ASSUME NEW T \in SUBSET S, \A U \in SUBSET T : U # T => U \in Good
      PROVE  T \in Good
  <2>1. CASE T = {}
    BY <2>1, SumEmpty
  <2>2. CASE T # {}
    <3>1. PICK x : x \in T
      BY <2>2
    <3>2. T \ {x} \in Good /\ IsFiniteSet(T)
      BY <1>1, <3>1, FS_Subset
    <3>3. F(T) = f[x] + F(T \ {x}) /\ G(T) = g[x] + G(T \ {x})
      BY <3>1, <3>2, SumRemove
    <3>4. F(T \ {x}) \in Int /\ G(T \ {x}) \in Int
      BY <3>2, SumInt, FS_Subset
    <3>5. F(T \ {x}) <= G(T \ {x}) /\ f[x] \in Int /\ g[x] \in Int /\ f[x] <= g[x]
      BY <3>1, <3>2
    <3> HIDE DEF F, G
    <3>6. QED
      BY <3>3, <3>4, <3>5
  <2>3. QED
    BY <2>1, <2>2
<1>2. S \in Good
  <2> HIDE DEF Good
  <2> QED BY <1>1, SubsetInduction
<1>3. QED
  BY <1>2

\* Only the values on the set count.
LEMMA SumSame ==
    ASSUME NEW S, IsFiniteSet(S), NEW f, NEW g,
           \A x \in S : f[x] \in Int /\ f[x] = g[x]
    PROVE  SumFunctionOnSet(f, S) = SumFunctionOnSet(g, S)
<1>1. /\ SumFunctionOnSet(f, S) <= SumFunctionOnSet(g, S)
      /\ SumFunctionOnSet(g, S) <= SumFunctionOnSet(f, S)
  BY SumOrder
<1>2. SumFunctionOnSet(f, S) \in Int /\ SumFunctionOnSet(g, S) \in Int
  BY SumInt
<1>3. QED
  BY <1>1, <1>2

\* One value changes.
LEMMA SumChange ==
    ASSUME NEW S, IsFiniteSet(S), NEW f, NEW g, NEW x \in S,
           \A y \in S : f[y] \in Int /\ g[y] \in Int,
           \A y \in S \ {x} : f[y] = g[y]
    PROVE  SumFunctionOnSet(g, S) = SumFunctionOnSet(f, S) + g[x] - f[x]
<1>1. IsFiniteSet(S \ {x})
  BY FS_Subset
<1>2. SumFunctionOnSet(f, S \ {x}) = SumFunctionOnSet(g, S \ {x})
  BY <1>1, SumSame
<1>3. SumFunctionOnSet(f, S) = f[x] + SumFunctionOnSet(f, S \ {x})
  BY SumRemove
<1>4. SumFunctionOnSet(g, S) = g[x] + SumFunctionOnSet(g, S \ {x})
  BY SumRemove
<1>5. SumFunctionOnSet(f, S \ {x}) \in Int
  BY <1>1, SumInt
<1>6. QED
  BY <1>2, <1>3, <1>4, <1>5

\* Zeros add up to 0.
LEMMA SumZero ==
    ASSUME NEW f, NEW S, IsFiniteSet(S), \A x \in S : f[x] = 0
    PROVE  SumFunctionOnSet(f, S) = 0
<1> DEFINE Good == {T \in SUBSET S : SumFunctionOnSet(f, T) = 0}
<1>1. ASSUME NEW T \in SUBSET S, \A U \in SUBSET T : U # T => U \in Good
      PROVE  T \in Good
  <2>1. CASE T = {}
    BY <2>1, SumEmpty
  <2>2. CASE T # {}
    <3>1. IsFiniteSet(T)
      BY FS_Subset
    <3>2. PICK x \in T : SumFunctionOnSet(f, T) = f[x] + SumFunctionOnSet(f, T \ {x})
      BY <2>2, <3>1, SumSome
    <3>3. T \ {x} \in Good
      BY <1>1
    <3>4. QED
      BY <3>2, <3>3
  <2>3. QED
    BY <2>1, <2>2
<1>2. S \in Good
  <2> HIDE DEF Good
  <2> QED BY <1>1, SubsetInduction
<1>3. QED
  BY <1>2

\* A sum of natural numbers is one.
LEMMA SumNat ==
    ASSUME NEW f, NEW S, IsFiniteSet(S), \A x \in S : f[x] \in Nat
    PROVE  SumFunctionOnSet(f, S) \in Nat
<1> DEFINE zero == [x \in S |-> 0]
<1>1. SumFunctionOnSet(zero, S) = 0
  BY SumZero
<1>2. SumFunctionOnSet(zero, S) <= SumFunctionOnSet(f, S)
  <2>1. \A x \in S : zero[x] \in Int /\ f[x] \in Int /\ zero[x] <= f[x]
    OBVIOUS
  <2> HIDE DEF zero
  <2>2. QED
    BY <2>1, SumOrder
<1>3. SumFunctionOnSet(f, S) \in Int
  BY SumInt
<1>4. QED
  BY <1>1, <1>2, <1>3

\* What is added up over two sets that do not meet.
LEMMA SumUnion ==
    ASSUME NEW f, NEW S, NEW T, IsFiniteSet(S), IsFiniteSet(T), S \cap T = {},
           \A x \in S \cup T : f[x] \in Int
    PROVE  SumFunctionOnSet(f, S \cup T) = SumFunctionOnSet(f, S) + SumFunctionOnSet(f, T)
<1> DEFINE Sum(U) == SumFunctionOnSet(f, U)
           Good == {U \in SUBSET T : Sum(S \cup U) = Sum(S) + Sum(U)}
<1>1. ASSUME NEW U \in SUBSET T, \A V \in SUBSET U : V # U => V \in Good
      PROVE  U \in Good
  <2>1. CASE U = {}
    <3>1. S \cup U = S /\ Sum(U) = 0 /\ Sum(S) \in Int
      BY <2>1, SumEmpty, SumInt
    <3>2. Sum(S \cup U) = Sum(S) + Sum(U)
      <4> HIDE DEF Sum
      <4> QED BY <3>1
    <3>3. QED
      BY <3>2
  <2>2. CASE U # {}
    <3>1. PICK x : x \in U
      BY <2>2
    <3> DEFINE V == U \ {x}
    <3>2. V \in Good /\ IsFiniteSet(U) /\ IsFiniteSet(V)
      BY <1>1, <3>1, FS_Subset
    <3>3. IsFiniteSet(S \cup U)
      BY <3>2, FS_Union
    <3>4. x \in S \cup U /\ (S \cup U) \ {x} = S \cup V /\ \A y \in S \cup U : f[y] \in Int
      BY <3>1
    <3>5. Sum(S \cup U) = f[x] + Sum(S \cup V)
      BY <3>3, <3>4, SumRemove
    <3>6. Sum(U) = f[x] + Sum(V)
      BY <3>1, <3>2, SumRemove
    <3>7. Sum(S) \in Int /\ Sum(V) \in Int /\ f[x] \in Int
      BY <3>1, <3>2, SumInt
    <3>8. Sum(S \cup V) = Sum(S) + Sum(V)
      BY <3>2
    <3> HIDE DEF Sum, V
    <3>9. Sum(S \cup U) = Sum(S) + Sum(U)
      BY <3>5, <3>6, <3>7, <3>8
    <3>10. QED
      BY <3>9
  <2>3. QED
    BY <2>1, <2>2
<1>2. T \in Good
  <2> HIDE DEF Good
  <2> QED BY <1>1, SubsetInduction
<1>3. QED
  BY <1>2

\* Fewer members add up to no more, when none counts below zero.
LEMMA SumWithin ==
    ASSUME NEW f, NEW S, NEW T, IsFiniteSet(S), T \subseteq S, \A x \in S : f[x] \in Nat
    PROVE  SumFunctionOnSet(f, T) <= SumFunctionOnSet(f, S)
<1>1. IsFiniteSet(T) /\ IsFiniteSet(S \ T) /\ S = T \cup (S \ T)
  BY FS_Subset
<1>2. SumFunctionOnSet(f, S) = SumFunctionOnSet(f, T) + SumFunctionOnSet(f, S \ T)
  BY <1>1, SumUnion
<1>3. SumFunctionOnSet(f, T) \in Nat /\ SumFunctionOnSet(f, S \ T) \in Nat
  BY <1>1, SumNat
<1>4. QED
  BY <1>2, <1>3

\* Members that count for nothing may be left out.
LEMMA SumSupport ==
    ASSUME NEW f, NEW S, NEW T, IsFiniteSet(S), T \subseteq S,
           \A x \in S : f[x] \in Int, \A x \in S \ T : f[x] = 0
    PROVE  SumFunctionOnSet(f, T) = SumFunctionOnSet(f, S)
<1>1. IsFiniteSet(T) /\ IsFiniteSet(S \ T) /\ S = T \cup (S \ T)
  BY FS_Subset
<1>2. SumFunctionOnSet(f, S) = SumFunctionOnSet(f, T) + SumFunctionOnSet(f, S \ T)
  BY <1>1, SumUnion
<1>3. SumFunctionOnSet(f, S \ T) = 0
  BY <1>1, SumZero
<1>4. SumFunctionOnSet(f, T) \in Int
  BY <1>1, SumInt
<1>5. QED
  BY <1>2, <1>3, <1>4

\* A finite set has finitely many images.
LEMMA FiniteImage ==
    ASSUME NEW h, NEW S, IsFiniteSet(S)
    PROVE  IsFiniteSet({h[x] : x \in S})
<1> DEFINE image(T) == {h[x] : x \in T}
           Good == {T \in SUBSET S : IsFiniteSet(image(T))}
<1>1. ASSUME NEW T \in SUBSET S, \A U \in SUBSET T : U # T => U \in Good
      PROVE  T \in Good
  <2>1. CASE T = {}
    <3>1. image(T) = {}
      BY <2>1
    <3> QED BY <3>1, FS_EmptySet
  <2>2. CASE T # {}
    <3>1. PICK x : x \in T
      BY <2>2
    <3>2. T \ {x} \in Good
      BY <1>1, <3>1
    <3>3. image(T) = image(T \ {x}) \cup {h[x]}
      BY <3>1
    <3>4. IsFiniteSet(image(T \ {x}))
      BY <3>2
    <3>5. IsFiniteSet(image(T \ {x}) \cup {h[x]})
      <4> HIDE DEF image
      <4> QED BY <3>4, FS_AddElement
    <3>6. IsFiniteSet(image(T))
      <4> HIDE DEF image
      <4> QED BY <3>3, <3>5
    <3>7. QED
      BY <3>6
  <2>3. QED
    BY <2>1, <2>2
<1>2. S \in Good
  <2> HIDE DEF Good
  <2> QED BY <1>1, SubsetInduction
<1>3. QED
  BY <1>2

\* Renaming the members does not change what they add up to.
LEMMA SumRenamed ==
    ASSUME NEW f, NEW g, NEW h, NEW S, IsFiniteSet(S),
           \A x \in S : f[x] \in Int /\ g[h[x]] = f[x],
           \A x, y \in S : h[x] = h[y] => x = y
    PROVE  SumFunctionOnSet(g, {h[x] : x \in S}) = SumFunctionOnSet(f, S)
<1> DEFINE F(T) == SumFunctionOnSet(f, T)
           image(T) == {h[x] : x \in T}
           G(T) == SumFunctionOnSet(g, image(T))
           Good == {T \in SUBSET S : G(T) = F(T)}
<1>1. ASSUME NEW T \in SUBSET S, \A U \in SUBSET T : U # T => U \in Good
      PROVE  T \in Good
  <2>1. CASE T = {}
    BY <2>1, SumEmpty
  <2>2. CASE T # {}
    <3>1. PICK x : x \in T
      BY <2>2
    <3> DEFINE U == T \ {x}
    <3>2. U \in Good /\ IsFiniteSet(T) /\ IsFiniteSet(U)
      BY <1>1, <3>1, FS_Subset
    <3>3. F(T) = f[x] + F(U)
      BY <3>1, <3>2, SumRemove
    <3>4. image(T) = image(U) \cup {h[x]} /\ h[x] \notin image(U)
      BY <3>1
    <3>5. IsFiniteSet(image(U))
      BY <3>2, FiniteImage
    <3>6. G(T) = g[h[x]] + G(U)
      <4>1. \A y \in image(U) : g[y] \in Int
        OBVIOUS
      <4>2. g[h[x]] \in Int
        BY <3>1
      <4> HIDE DEF U, image
      <4>3. SumFunctionOnSet(g, image(U) \cup {h[x]}) = g[h[x]] + SumFunctionOnSet(g, image(U))
        BY <3>4, <3>5, <4>1, <4>2, SumAdd
      <4> QED BY <3>4, <4>3
    <3>7. G(U) = F(U) /\ g[h[x]] = f[x]
      BY <3>1, <3>2
    <3> HIDE DEF U, F, G
    <3>8. QED
      BY <3>3, <3>6, <3>7
  <2>3. QED
    BY <2>1, <2>2
<1>2. S \in Good
  <2> HIDE DEF Good
  <2> QED BY <1>1, SubsetInduction
<1>3. QED
  BY <1>2

\* Induction over the numbers up to n, the property given as the set of those that
\* have it.
LEMMA Stepwise ==
    ASSUME NEW n \in Nat, NEW Good, 0 \in Good,
           \A k \in 1..n : k - 1 \in Good => k \in Good
    PROVE  \A k \in 0..n : k \in Good
<1> DEFINE Fine == {T \in SUBSET (1..n) : \A k \in 0..n : T = 1..k => k \in Good}
<1>1. ASSUME NEW T \in SUBSET (1..n), \A U \in SUBSET T : U # T => U \in Fine
      PROVE  T \in Fine
  <2> SUFFICES ASSUME NEW k \in 0..n, T = 1..k
               PROVE  k \in Good
    OBVIOUS
  <2>1. CASE k = 0
    BY <2>1
  <2>2. CASE k # 0
    <3>1. k \in 1..n /\ k - 1 \in 0..n
      BY <2>2
    <3>2. k \in T /\ k \notin 1..(k - 1) /\ 1..(k - 1) \subseteq T
      BY <3>1
    <3>3. 1..(k - 1) \in Fine
      BY <1>1, <3>2
    <3>4. k - 1 \in Good
      BY <3>1, <3>3
    <3> QED
      BY <3>1, <3>4
  <2> QED
    BY <2>1, <2>2
<1>2. ASSUME NEW k \in 0..n
      PROVE  k \in Good
  <2>1. PICK S : S = 1..k
    OBVIOUS
  <2>2. IsFiniteSet(S) /\ S \subseteq 1..n
    BY <2>1, FS_Interval
  <2>3. \A T \in SUBSET S : (\A U \in SUBSET T : U # T => U \in Fine) => T \in Fine
    <3> HIDE DEF Fine
    <3> QED BY <1>1, <2>2
  <2>4. S \in Fine
    <3> HIDE DEF Fine
    <3> QED BY ONLY <2>2, <2>3, SubsetInduction
  <2> QED
    BY <2>1, <2>4
<1> QED
  BY <1>2

-----------------------------------------------------------------------------
(* Whole tables *)

\* The sum of a table is its sum over its domain, whatever gives the amounts.
LEMMA TableSum ==
    ASSUME NEW g, IsFiniteSet(DOMAIN g), NEW f, \A x \in DOMAIN g : g[x] \in Int /\ f[x] = g[x]
    PROVE  SumFunction(g) = SumFunctionOnSet(f, DOMAIN g)
<1>1. SumFunction(g) = SumFunctionOnSet(g, DOMAIN g)
  BY DEF SumFunction
<1>2. SumFunctionOnSet(g, DOMAIN g) = SumFunctionOnSet(f, DOMAIN g)
  BY SumSame
<1> QED
  BY <1>1, <1>2

\* A table of integers adds up to one.
LEMMA TableInt ==
    ASSUME NEW g, IsFiniteSet(DOMAIN g), \A x \in DOMAIN g : g[x] \in Int
    PROVE  SumFunction(g) \in Int
BY SumInt DEF SumFunction

\* A table of natural numbers adds up to one.
LEMMA TableNat ==
    ASSUME NEW g, IsFiniteSet(DOMAIN g), \A x \in DOMAIN g : g[x] \in Nat
    PROVE  SumFunction(g) \in Nat
BY SumNat DEF SumFunction

\* A table of zeros, or of no rows, adds up to 0.
LEMMA TableZero ==
    ASSUME NEW g, IsFiniteSet(DOMAIN g), \A x \in DOMAIN g : g[x] = 0
    PROVE  SumFunction(g) = 0
BY SumZero DEF SumFunction

\* A row is added, and the others stay.
LEMMA TableGrows ==
    ASSUME NEW g, NEW h, NEW x, IsFiniteSet(DOMAIN g), x \notin DOMAIN g,
           DOMAIN h = DOMAIN g \cup {x}, h[x] \in Int,
           \A y \in DOMAIN g : g[y] \in Int /\ h[y] = g[y]
    PROVE  SumFunction(h) = SumFunction(g) + h[x]
<1>1. SumFunction(h) = SumFunctionOnSet(h, DOMAIN g \cup {x})
  BY DEF SumFunction
<1>2. SumFunctionOnSet(h, DOMAIN g \cup {x}) = h[x] + SumFunctionOnSet(h, DOMAIN g)
  BY SumAdd
<1>3. SumFunction(g) = SumFunctionOnSet(h, DOMAIN g) /\ SumFunction(g) \in Int
  BY TableSum, TableInt
<1> QED
  BY <1>1, <1>2, <1>3

\* A row is removed, and the others stay.
LEMMA TableShrinks ==
    ASSUME NEW g, NEW h, NEW x, IsFiniteSet(DOMAIN g), x \in DOMAIN g,
           DOMAIN h = DOMAIN g \ {x},
           \A y \in DOMAIN g : g[y] \in Int, \A y \in DOMAIN h : h[y] = g[y]
    PROVE  SumFunction(h) = SumFunction(g) - g[x]
<1>1. SumFunction(g) = SumFunctionOnSet(g, DOMAIN g)
  BY DEF SumFunction
<1>2. SumFunctionOnSet(g, DOMAIN g) = g[x] + SumFunctionOnSet(g, DOMAIN g \ {x})
  BY SumRemove
<1>3. IsFiniteSet(DOMAIN h)
  BY FS_RemoveElement
<1>4. SumFunction(h) = SumFunctionOnSet(g, DOMAIN h) /\ SumFunction(h) \in Int
  BY <1>3, TableSum, TableInt
<1>5. g[x] \in Int
  OBVIOUS
<1> QED
  BY <1>1, <1>2, <1>4, <1>5

\* Two tables over the same rows, added row by row.
LEMMA TablesAdd ==
    ASSUME NEW f, NEW g, NEW h, NEW S, IsFiniteSet(S),
           \A x \in S : f[x] \in Int /\ g[x] \in Int /\ h[x] = f[x] + g[x]
    PROVE  SumFunctionOnSet(h, S) = SumFunctionOnSet(f, S) + SumFunctionOnSet(g, S)
<1> DEFINE F(T) == SumFunctionOnSet(f, T)
           G(T) == SumFunctionOnSet(g, T)
           H(T) == SumFunctionOnSet(h, T)
           Good == {T \in SUBSET S : H(T) = F(T) + G(T)}
<1>1. ASSUME NEW T \in SUBSET S, \A U \in SUBSET T : U # T => U \in Good
      PROVE  T \in Good
  <2>1. CASE T = {}
    BY <2>1, SumEmpty
  <2>2. CASE T # {}
    <3>1. PICK x \in T : TRUE
      BY <2>2
    <3>2. T \ {x} \in Good
      BY <1>1, <3>1
    <3>3. IsFiniteSet(T) /\ IsFiniteSet(T \ {x})
      BY FS_Subset
    <3>4. \A y \in T : f[y] \in Int /\ g[y] \in Int /\ h[y] \in Int
      OBVIOUS
    <3>5. h[x] = f[x] + g[x] /\ f[x] \in Int /\ g[x] \in Int
      BY <3>1
    <3> HIDE DEF Good
    <3>6. F(T) = f[x] + F(T \ {x}) /\ F(T \ {x}) \in Int
      BY <3>1, <3>3, <3>4, SumRemove, SumInt
    <3>7. G(T) = g[x] + G(T \ {x}) /\ G(T \ {x}) \in Int
      BY <3>1, <3>3, <3>4, SumRemove, SumInt
    <3>8. H(T) = h[x] + H(T \ {x})
      BY <3>1, <3>3, <3>4, SumRemove
    <3>9. H(T \ {x}) = F(T \ {x}) + G(T \ {x})
      BY <3>2 DEF Good
    <3> HIDE DEF F, G, H
    <3>10. H(T) = F(T) + G(T)
      BY <3>5, <3>6, <3>7, <3>8, <3>9
    <3> QED
      BY <3>10 DEF Good
  <2> QED
    BY <2>1, <2>2
<1> HIDE DEF Good
<1>2. S \in Good
  BY <1>1, SubsetInduction
<1> QED
  BY <1>2 DEF Good
=============================================================================

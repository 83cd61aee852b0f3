---------------------------- MODULE InductionProofs ----------------------------
(***************************************************************************)
(* Induction stated for sets instead of predicates, and what it gives:     *)
(* a least element, recursive functions that exist, sums over a finite     *)
(* set that do not depend on the order the elements are taken in.  The     *)
(* proofs of the other modules rest on these facts; none of them is about  *)
(* the system.                                                             *)
(***************************************************************************)
EXTENDS Functions, FiniteSetTheorems, TLAPS

-----------------------------------------------------------------------------
(* Natural numbers.                                                        *)

LessThan == {p \in Nat \X Nat : p[1] < p[2]}

\* The order of the naturals is well-founded.
LEMMA LessThanWellFounded == IsWellFoundedOn(LessThan, Nat)
<1>1. OpToRel(<, Nat) = LessThan
  BY Zenon DEF OpToRel, LessThan
<1> QED BY <1>1, NatLessThanWellFounded

\* A set of naturals that is not empty has a least element.
LEMMA LeastElement ==
  ASSUME NEW T, T \subseteq Nat, T # {}
  PROVE  \E x \in T : \A y \in T : x <= y
<1>1. PICK x \in T : \A y \in T : ~(<<y, x>> \in LessThan)
  BY LessThanWellFounded, WFMin, Zenon
<1>2. ASSUME NEW y \in T PROVE x <= y
  <2>1. <<y, x>> \in Nat \X Nat /\ ~(<<y, x>> \in LessThan)
    BY <1>1
  <2> QED BY <2>1 DEF LessThan
<1> QED BY <1>2

\* A set of positions that is not empty has a greatest element.
LEMMA GreatestElement ==
  ASSUME NEW n \in Nat, NEW T, T \subseteq 1..n, T # {}
  PROVE  \E x \in T : \A y \in T : y <= x
<1> DEFINE U == {k \in Nat : n - k \in T}
<1>1. PICK t \in T : TRUE
  OBVIOUS
<1>2. n - t \in U
  <2>1. t \in 1..n /\ n - t \in Nat /\ n - (n - t) = t
    OBVIOUS
  <2> QED BY <2>1
<1>3. PICK k \in U : \A j \in U : k <= j
  <2> HIDE DEF U
  <2>1. U \subseteq Nat /\ U # {}
    BY <1>2 DEF U
  <2> QED BY <2>1, LeastElement
<1>4. ASSUME NEW y \in T PROVE y <= n - k
  <2>1. y \in 1..n /\ n - y \in Nat /\ n - (n - y) = y
    OBVIOUS
  <2>2. n - y \in U
    BY <2>1
  <2>3. k <= n - y /\ k \in Nat
    BY <1>3, <2>2
  <2> QED BY <2>1, <2>3
<1> QED BY <1>3, <1>4

\* A set that holds zero and with a number the next one holds all numbers.
LEMMA NatSetInduction ==
  ASSUME NEW P, 0 \in P, \A n \in Nat : n \in P => n + 1 \in P
  PROVE  Nat \subseteq P
<1> DEFINE T == {n \in Nat : n \notin P}
<1> SUFFICES ASSUME T # {} PROVE FALSE
  OBVIOUS
<1>1. PICK x \in T : \A y \in T : x <= y
  <2> HIDE DEF T
  <2>1. T \subseteq Nat
    BY DEF T
  <2> QED BY <2>1, LeastElement
<1>2. x # 0 /\ x \in Nat
  OBVIOUS
<1>3. x - 1 \in Nat /\ x - 1 \notin T
  BY <1>1, <1>2
<1>4. x - 1 \in P /\ (x - 1) + 1 = x
  BY <1>2, <1>3
<1> QED BY <1>3, <1>4

LEMMA OneFewer ==
  ASSUME NEW T, IsFiniteSet(T), NEW x \in T, NEW n \in Nat, Cardinality(T) = n + 1
  PROVE  IsFiniteSet(T \ {x}) /\ Cardinality(T \ {x}) = n
<1>1. IsFiniteSet(T \ {x}) /\ Cardinality(T \ {x}) = Cardinality(T) - 1
  BY FS_RemoveElement, Zenon
<1> QED BY <1>1

\* A family of sets that holds the empty set and with a set every larger one by
\* one element holds all finite sets.
LEMMA FiniteSetInduction ==
  ASSUME NEW S, IsFiniteSet(S), NEW F,
         {} \in F,
         \A T \in SUBSET S : \A x \in S : T \in F /\ x \notin T => T \cup {x} \in F
  PROVE  S \in F
<1> DEFINE P == {n \in Nat : \A T \in SUBSET S : Cardinality(T) = n => T \in F}
<1>1. \A T \in SUBSET S : IsFiniteSet(T) /\ Cardinality(T) \in Nat
  BY FS_Subset, FS_CardinalityType
<1>2. 0 \in P
  BY <1>1, FS_EmptySet
<1>3. ASSUME NEW n \in Nat, n \in P PROVE n + 1 \in P
  <2> SUFFICES ASSUME NEW T \in SUBSET S, Cardinality(T) = n + 1 PROVE T \in F
    OBVIOUS
  <2>1. PICK x \in T : TRUE
    BY <1>1, FS_EmptySet
  <2>2. Cardinality(T \ {x}) = n
    BY <1>1, OneFewer
  <2>3. T \ {x} \in F
    BY <1>3, <2>2
  <2>4. T = (T \ {x}) \cup {x} /\ x \notin T \ {x} /\ x \in S
    OBVIOUS
  <2> QED BY <2>3, <2>4
<1> HIDE DEF P
<1>4. Nat \subseteq P
  BY <1>2, <1>3, NatSetInduction
<1> QED BY <1>1, <1>4 DEF P

-----------------------------------------------------------------------------
(* Ranks.                                                                  *)

\* How many elements of T have a smaller key than x.
Preceding(T, key, x) == {y \in T : key[y] < key[x]}

\* Elements with different keys have every rank exactly once.
LEMMA EveryRankTaken ==
  ASSUME NEW T, IsFiniteSet(T), NEW key, \A x \in T : key[x] \in Int,
         \A x, y \in T : key[x] = key[y] => x = y,
         NEW i \in 1..Cardinality(T)
  PROVE  \E x \in T : Cardinality(Preceding(T, key, x)) = i - 1
<1> DEFINE n    == Cardinality(T)
           rank == [x \in T |-> Cardinality(Preceding(T, key, x))]
<1>1. n \in Nat
  BY FS_CardinalityType
<1>2. ASSUME NEW x \in T
      PROVE  IsFiniteSet(Preceding(T, key, x)) /\ Cardinality(Preceding(T, key, x)) \in Nat
  <2>1. Preceding(T, key, x) \in SUBSET T
    BY DEF Preceding
  <2> QED BY <2>1, FS_Subset, FS_CardinalityType
<1>3. ASSUME NEW x \in T, NEW y \in T, key[x] < key[y]
      PROVE  Cardinality(Preceding(T, key, x)) < Cardinality(Preceding(T, key, y))
  <2>1. Preceding(T, key, x) \in SUBSET Preceding(T, key, y)
    BY <1>3 DEF Preceding
  <2>2. x \in Preceding(T, key, y) /\ x \notin Preceding(T, key, x)
    BY <1>3 DEF Preceding
  <2>3. /\ Cardinality(Preceding(T, key, x)) <= Cardinality(Preceding(T, key, y))
        /\ Cardinality(Preceding(T, key, x)) # Cardinality(Preceding(T, key, y))
    BY <1>2, <2>1, <2>2, FS_Subset
  <2> QED BY <1>2, <2>3
<1>4. ASSUME NEW x \in T PROVE Cardinality(Preceding(T, key, x)) \in 0..n - 1
  <2>1. Preceding(T, key, x) \in SUBSET T /\ x \notin Preceding(T, key, x)
    BY DEF Preceding
  <2>2. Cardinality(Preceding(T, key, x)) <= n /\ Cardinality(Preceding(T, key, x)) # n
    BY <2>1, FS_Subset
  <2> QED BY <1>1, <1>2, <2>2
<1>5. rank \in Injection(T, 0..n - 1)
  <2>1. rank \in [T -> 0..n - 1]
    BY <1>4
  <2>2. ASSUME NEW x \in T, NEW y \in T, x # y PROVE rank[x] # rank[y]
    <3>1. key[x] < key[y] \/ key[y] < key[x]
      BY <2>2
    <3>2. rank[x] < rank[y] \/ rank[y] < rank[x]
      BY <1>3, <3>1
    <3>3. rank[x] \in Nat /\ rank[y] \in Nat
      BY <1>2
    <3> QED BY <3>2, <3>3
  <2> QED BY <2>1, <2>2, Zenon DEF Injection, IsInjective
<1>6. IsFiniteSet(0..n - 1) /\ Cardinality(0..n - 1) = n
  <2>1. 0 \in Int /\ n - 1 \in Int
    BY <1>1
  <2>2. /\ IsFiniteSet(0..n - 1)
        /\ Cardinality(0..n - 1) = IF 0 > n - 1 THEN 0 ELSE (n - 1) - 0 + 1
    BY <2>1, FS_Interval
  <2> QED BY <1>1, <2>2
<1>7. rank \in Surjection(T, 0..n - 1)
  <2> HIDE DEF rank
  <2>1. Cardinality(T) = Cardinality(0..n - 1)
    BY <1>6
  <2> QED BY <1>5, <1>6, <2>1, FS_Injection, Zenon
<1>8. i - 1 \in 0..n - 1
  BY <1>1
<1>9. PICK x \in T : rank[x] = i - 1
  <2> HIDE DEF rank
  <2> QED BY <1>7, <1>8, Zenon DEF Surjection
<1> QED BY <1>9

-----------------------------------------------------------------------------
(* Sums.                                                                   *)

\* One step of a sum: the value of the element chosen first, and what g has for
\* the others.
AddNext(f, g, s) ==
  IF s = {} THEN 0 ELSE f[CHOOSE x \in s : TRUE] + g[s \ {CHOOSE x \in s : TRUE}]

\* g adds up the values of f over every set of D.
AddsUpOn(g, f, D) == g = [s \in D |-> AddNext(f, g, s)]
AddsUp(g, f, S) == AddsUpOn(g, f, SUBSET S)

LEMMA SumIsChosen ==
  ASSUME NEW f, NEW S
  PROVE  SumFunctionOnSet(f, S) = (CHOOSE g : AddsUp(g, f, S))[S]
  BY Zenon DEF SumFunctionOnSet, FoldFunctionOnSet, MapThenFoldSet, AddsUp, AddsUpOn,
               AddNext

LEMMA AddsUpExists ==
  ASSUME NEW f, NEW S, IsFiniteSet(S)
  PROVE  \E g : AddsUp(g, f, S)
<1> DEFINE D(n) == {T \in SUBSET S : Cardinality(T) <= n}
           P == {n \in Nat : \E g : AddsUpOn(g, f, D(n))}
<1>1. \A T \in SUBSET S : IsFiniteSet(T) /\ Cardinality(T) \in Nat
  BY FS_Subset, FS_CardinalityType
<1>2. 0 \in P
  <2>1. D(0) = {{}}
    BY <1>1, FS_EmptySet
  <2>2. AddsUpOn([s \in D(0) |-> 0], f, D(0))
    BY <2>1, Zenon DEF AddsUpOn, AddNext
  <2> HIDE DEF D
  <2> QED BY <2>2
<1>3. ASSUME NEW n \in Nat, n \in P PROVE n + 1 \in P
  <2>1. PICK g : AddsUpOn(g, f, D(n))
    BY <1>3
  <2> DEFINE h == [s \in D(n + 1) |-> AddNext(f, g, s)]
  <2>2. \A s \in D(n) : s \in D(n + 1)
    BY <1>1
  <2>3. \A s \in D(n) : h[s] = g[s]
    <3> HIDE DEF D
    <3> QED BY <2>1, <2>2 DEF AddsUpOn
  <2>4. ASSUME NEW s \in D(n + 1), s # {}
        PROVE  s \ {CHOOSE x \in s : TRUE} \in D(n)
    <3>1. (CHOOSE x \in s : TRUE) \in s
      BY <2>4
    <3>2. Cardinality(s \ {CHOOSE x \in s : TRUE}) = Cardinality(s) - 1
      BY <1>1, <3>1, FS_RemoveElement
    <3> QED BY <1>1, <3>2
  <2>5. AddsUpOn(h, f, D(n + 1))
    <3>1. \A s \in D(n + 1) : s # {} =>
            h[s \ {CHOOSE x \in s : TRUE}] = g[s \ {CHOOSE x \in s : TRUE}]
      BY <2>3, <2>4
    <3>2. \A s \in D(n + 1) : AddNext(f, h, s) = AddNext(f, g, s)
      <4> HIDE DEF D, h
      <4> TAKE s \in D(n + 1)
      <4>1. CASE s = {}
        BY <4>1 DEF AddNext
      <4>2. CASE s # {}
        <5>1. h[s \ {CHOOSE x \in s : TRUE}] = g[s \ {CHOOSE x \in s : TRUE}]
          BY <3>1, <4>2
        <5> QED BY <5>1, <4>2, Zenon DEF AddNext
      <4> QED BY <4>1, <4>2
    <3> HIDE DEF D
    <3> QED BY <3>2 DEF AddsUpOn
  <2> HIDE DEF h, D
  <2> QED BY <2>5
<1>4. PICK g : AddsUpOn(g, f, D(Cardinality(S)))
  <2> HIDE DEF P
  <2>1. Nat \subseteq P
    BY <1>2, <1>3, NatSetInduction
  <2>2. Cardinality(S) \in P
    BY <2>1, FS_CardinalityType
  <2> QED BY <2>2 DEF P
<1>5. D(Cardinality(S)) = SUBSET S
  BY FS_Subset
<1> HIDE DEF D
<1> QED BY <1>4, <1>5 DEF AddsUp

\* Two tables of sums agree where both are defined.
LEMMA AddsUpUnique ==
  ASSUME NEW f, NEW S, NEW R, NEW g, NEW h, AddsUp(g, f, S), AddsUp(h, f, R),
         NEW T, IsFiniteSet(T), T \subseteq S, T \subseteq R
  PROVE  g[T] = h[T]
<1> DEFINE P == {n \in Nat : \A U \in SUBSET T : Cardinality(U) = n => g[U] = h[U]}
<1>1. \A U \in SUBSET T : IsFiniteSet(U) /\ Cardinality(U) \in Nat
  BY FS_Subset, FS_CardinalityType
<1>2. 0 \in P
  <2>1. g[{}] = 0 /\ h[{}] = 0
    BY DEF AddsUp, AddsUpOn, AddNext
  <2> QED BY <1>1, <2>1, FS_EmptySet
<1>3. ASSUME NEW n \in Nat, n \in P PROVE n + 1 \in P
  <2> SUFFICES ASSUME NEW U \in SUBSET T, Cardinality(U) = n + 1 PROVE g[U] = h[U]
    OBVIOUS
  <2> DEFINE x == CHOOSE x \in U : TRUE
  <2>1. U # {} /\ x \in U
    BY FS_EmptySet
  <2>2. Cardinality(U \ {x}) = n
    <3> HIDE DEF x
    <3> QED BY <1>1, <2>1, OneFewer
  <2>3. g[U \ {x}] = h[U \ {x}]
    BY <1>3, <2>2
  <2>4. g[U] = f[x] + g[U \ {x}] /\ h[U] = f[x] + h[U \ {x}]
    BY <2>1 DEF AddsUp, AddsUpOn, AddNext
  <2> QED BY <2>3, <2>4
<1> HIDE DEF P
<1>4. Nat \subseteq P
  BY <1>2, <1>3, NatSetInduction
<1> QED BY <1>1, <1>4 DEF P

LEMMA SumEmpty ==
  ASSUME NEW f
  PROVE  SumFunctionOnSet(f, {}) = 0
<1>1. PICK g : AddsUp(g, f, {})
  BY AddsUpExists, FS_EmptySet
<1>2. AddsUp(CHOOSE h : AddsUp(h, f, {}), f, {})
  BY <1>1
<1> QED BY <1>2, SumIsChosen DEF AddsUp, AddsUpOn, AddNext

\* The element that is chosen first is added to the sum over the others.
LEMMA SumChosen ==
  ASSUME NEW f, NEW S, IsFiniteSet(S), S # {}
  PROVE  LET x == CHOOSE x \in S : TRUE
         IN  SumFunctionOnSet(f, S) = f[x] + SumFunctionOnSet(f, S \ {x})
<1> DEFINE x == CHOOSE x \in S : TRUE
           R == S \ {x}
           g == CHOOSE h : AddsUp(h, f, S)
           h == CHOOSE h : AddsUp(h, f, R)
<1>1. AddsUp(g, f, S)
  <2>1. \E t : AddsUp(t, f, S)
    BY AddsUpExists
  <2> QED BY <2>1
<1>2. IsFiniteSet(R)
  BY FS_RemoveElement
<1>3. AddsUp(h, f, R)
  <2> HIDE DEF R
  <2>1. \E t : AddsUp(t, f, R)
    BY <1>2, AddsUpExists
  <2> QED BY <2>1
<1>4. SumFunctionOnSet(f, S) = g[S] /\ SumFunctionOnSet(f, R) = h[R]
  BY SumIsChosen
<1> HIDE DEF g, h
<1>5. g[R] = h[R]
  <2>1. R \subseteq S
    OBVIOUS
  <2> HIDE DEF R
  <2> QED BY <1>1, <1>2, <1>3, <2>1, AddsUpUnique
<1>6. g[S] = f[x] + g[R]
  BY <1>1 DEF AddsUp, AddsUpOn, AddNext
<1> QED BY <1>4, <1>5, <1>6

LEMMA SumIsInt ==
  ASSUME NEW S, IsFiniteSet(S), NEW f, \A x \in S : f[x] \in Int
  PROVE  SumFunctionOnSet(f, S) \in Int
<1> DEFINE P == {n \in Nat : \A T \in SUBSET S :
                   Cardinality(T) = n => SumFunctionOnSet(f, T) \in Int}
<1>1. \A T \in SUBSET S : IsFiniteSet(T) /\ Cardinality(T) \in Nat
  BY FS_Subset, FS_CardinalityType
<1>2. 0 \in P
  BY <1>1, SumEmpty, FS_EmptySet
<1>3. ASSUME NEW n \in Nat, n \in P PROVE n + 1 \in P
  <2> SUFFICES ASSUME NEW T \in SUBSET S, Cardinality(T) = n + 1
               PROVE  SumFunctionOnSet(f, T) \in Int
    OBVIOUS
  <2> DEFINE c == CHOOSE x \in T : TRUE
  <2>1. T # {} /\ c \in T
    BY FS_EmptySet
  <2>2. Cardinality(T \ {c}) = n /\ T \ {c} \in SUBSET S
    <3> HIDE DEF c
    <3> QED BY <1>1, <2>1, OneFewer
  <2>3. SumFunctionOnSet(f, T \ {c}) \in Int
    BY <1>3, <2>2
  <2>4. SumFunctionOnSet(f, T) = f[c] + SumFunctionOnSet(f, T \ {c})
    BY <1>1, <2>1, SumChosen
  <2> HIDE DEF c
  <2> QED BY <2>1, <2>3, <2>4
<1> HIDE DEF P
<1>4. Nat \subseteq P
  BY <1>2, <1>3, NatSetInduction
<1> QED BY <1>1, <1>4 DEF P

\* A sum of integers is an integer, whichever element is added last.
LEMMA SumAnyElement ==
  ASSUME NEW S, IsFiniteSet(S), NEW f, \A x \in S : f[x] \in Int
  PROVE  /\ SumFunctionOnSet(f, S) \in Int
         /\ \A x \in S : SumFunctionOnSet(f, S) = f[x] + SumFunctionOnSet(f, S \ {x})
<1> DEFINE Good(T) == /\ SumFunctionOnSet(f, T) \in Int
                      /\ \A x \in T : SumFunctionOnSet(f, T)
                                        = f[x] + SumFunctionOnSet(f, T \ {x})
           P == {n \in Nat : \A T \in SUBSET S : Cardinality(T) = n => Good(T)}
<1>1. \A T \in SUBSET S : IsFiniteSet(T) /\ Cardinality(T) \in Nat
  BY FS_Subset, FS_CardinalityType
<1>2. 0 \in P
  <2>1. Good({})
    BY SumEmpty
  <2> HIDE DEF Good
  <2> QED BY <1>1, <2>1, FS_EmptySet
<1>3. ASSUME NEW n \in Nat, n \in P PROVE n + 1 \in P
  <2> SUFFICES ASSUME NEW T \in SUBSET S, Cardinality(T) = n + 1 PROVE Good(T)
    OBVIOUS
  <2> DEFINE c == CHOOSE x \in T : TRUE
  <2>1. T # {} /\ c \in T
    BY FS_EmptySet
  <2>2. \A x \in T : Cardinality(T \ {x}) = n /\ T \ {x} \in SUBSET S
    BY <1>1, OneFewer
  <2>3. \A x \in T : Good(T \ {x})
    BY <1>3, <2>2, Zenon
  <2>4. SumFunctionOnSet(f, T) = f[c] + SumFunctionOnSet(f, T \ {c})
    BY <1>1, <2>1, SumChosen
  <2> HIDE DEF c
  <2>5. SumFunctionOnSet(f, T) \in Int
    BY <2>1, <2>3, <2>4
  <2>6. ASSUME NEW x \in T, x # c
        PROVE  SumFunctionOnSet(f, T) = f[x] + SumFunctionOnSet(f, T \ {x})
    <3>1. SumFunctionOnSet(f, T \ {c}) = f[x] + SumFunctionOnSet(f, (T \ {c}) \ {x})
      BY <2>1, <2>3, <2>6
    <3>2. SumFunctionOnSet(f, T \ {x}) = f[c] + SumFunctionOnSet(f, (T \ {x}) \ {c})
      BY <2>1, <2>3, <2>6
    <3> DEFINE r == SumFunctionOnSet(f, (T \ {c}) \ {x})
    <3>3. (T \ {x}) \ {c} = (T \ {c}) \ {x}
      OBVIOUS
    <3>4. r \in Int
      <4>1. (T \ {c}) \ {x} \in SUBSET S
        OBVIOUS
      <4> QED BY <1>1, <4>1, SumIsInt
    <3> HIDE DEF r
    <3>5. f[x] \in Int /\ f[c] \in Int
      BY <2>1
    <3>6. SumFunctionOnSet(f, T \ {c}) = f[x] + r
      BY <3>1 DEF r
    <3>7. SumFunctionOnSet(f, T \ {x}) = f[c] + r
      BY <3>2, <3>3 DEF r
    <3> QED BY <2>4, <3>4, <3>5, <3>6, <3>7
  <2> QED BY <2>4, <2>5, <2>6
<1> HIDE DEF P, Good
<1>4. Nat \subseteq P
  BY <1>2, <1>3, NatSetInduction
<1>5. Good(S)
  BY <1>1, <1>4 DEF P
<1> QED BY <1>5 DEF Good

LEMMA SumRemove ==
  ASSUME NEW S, IsFiniteSet(S), NEW f, \A x \in S : f[x] \in Int, NEW x \in S
  PROVE  SumFunctionOnSet(f, S) = f[x] + SumFunctionOnSet(f, S \ {x})
  BY SumAnyElement

LEMMA SumAdd ==
  ASSUME NEW S, IsFiniteSet(S), NEW x, x \notin S,
         NEW f, \A y \in S \cup {x} : f[y] \in Int
  PROVE  SumFunctionOnSet(f, S \cup {x}) = f[x] + SumFunctionOnSet(f, S)
<1> DEFINE R == S \cup {x}
<1>1. IsFiniteSet(R) /\ x \in R /\ R \ {x} = S /\ \A y \in R : f[y] \in Int
  BY FS_AddElement
<1> HIDE DEF R
<1>2. SumFunctionOnSet(f, R) = f[x] + SumFunctionOnSet(f, R \ {x})
  BY <1>1, SumRemove
<1> QED BY <1>1, <1>2 DEF R

\* Sums of equal values are equal.
LEMMA SumEqual ==
  ASSUME NEW S, IsFiniteSet(S), NEW f, NEW g,
         \A x \in S : f[x] \in Int /\ g[x] = f[x]
  PROVE  SumFunctionOnSet(f, S) = SumFunctionOnSet(g, S)
<1> DEFINE F == {T \in SUBSET S : SumFunctionOnSet(f, T) = SumFunctionOnSet(g, T)}
<1>1. {} \in F
  BY SumEmpty
<1>2. ASSUME NEW T \in SUBSET S, NEW x \in S, T \in F, x \notin T
      PROVE  T \cup {x} \in F
  <2>1. IsFiniteSet(T) /\ \A y \in T \cup {x} : f[y] \in Int /\ g[y] \in Int
    BY FS_Subset
  <2>2. SumFunctionOnSet(f, T \cup {x}) = f[x] + SumFunctionOnSet(f, T)
    BY <1>2, <2>1, SumAdd
  <2>3. SumFunctionOnSet(g, T \cup {x}) = g[x] + SumFunctionOnSet(g, T)
    BY <1>2, <2>1, SumAdd
  <2> QED BY <1>2, <2>2, <2>3
<1> HIDE DEF F
<1>3. S \in F
  BY <1>1, <1>2, FiniteSetInduction
<1> QED BY <1>3 DEF F

\* The sum of pointwise sums.
LEMMA SumPointwise ==
  ASSUME NEW S, IsFiniteSet(S), NEW f, NEW g, NEW h,
         \A x \in S : f[x] \in Int /\ g[x] \in Int /\ h[x] = f[x] + g[x]
  PROVE  SumFunctionOnSet(h, S) = SumFunctionOnSet(f, S) + SumFunctionOnSet(g, S)
<1> DEFINE F == {T \in SUBSET S : SumFunctionOnSet(h, T)
                                    = SumFunctionOnSet(f, T) + SumFunctionOnSet(g, T)}
<1>1. {} \in F
  BY SumEmpty
<1>2. ASSUME NEW T \in SUBSET S, NEW x \in S, T \in F, x \notin T
      PROVE  T \cup {x} \in F
  <2>1. /\ IsFiniteSet(T)
        /\ \A y \in T \cup {x} : f[y] \in Int /\ g[y] \in Int /\ h[y] \in Int
    BY FS_Subset
  <2>2. SumFunctionOnSet(f, T \cup {x}) = f[x] + SumFunctionOnSet(f, T)
    BY <1>2, <2>1, SumAdd
  <2>3. SumFunctionOnSet(g, T \cup {x}) = g[x] + SumFunctionOnSet(g, T)
    BY <1>2, <2>1, SumAdd
  <2>4. SumFunctionOnSet(h, T \cup {x}) = h[x] + SumFunctionOnSet(h, T)
    BY <1>2, <2>1, SumAdd
  <2>5. SumFunctionOnSet(f, T) \in Int /\ SumFunctionOnSet(g, T) \in Int
    BY <2>1, SumIsInt
  <2> QED BY <1>2, <2>2, <2>3, <2>4, <2>5
<1> HIDE DEF F
<1>3. S \in F
  BY <1>1, <1>2, FiniteSetInduction
<1> QED BY <1>3 DEF F

\* The sum over two sets that share no element.
LEMMA SumDisjoint ==
  ASSUME NEW S, IsFiniteSet(S), NEW R, IsFiniteSet(R), S \cap R = {},
         NEW f, \A x \in S \cup R : f[x] \in Int
  PROVE  SumFunctionOnSet(f, S \cup R)
           = SumFunctionOnSet(f, S) + SumFunctionOnSet(f, R)
<1> DEFINE F == {T \in SUBSET R : SumFunctionOnSet(f, S \cup T)
                                    = SumFunctionOnSet(f, S) + SumFunctionOnSet(f, T)}
<1>0. SumFunctionOnSet(f, S) \in Int
  BY SumIsInt
<1>1. {} \in F
  <2>1. S \cup {} = S
    OBVIOUS
  <2> QED BY <1>0, <2>1, SumEmpty
<1>2. ASSUME NEW T \in SUBSET R, NEW x \in R, T \in F, x \notin T
      PROVE  T \cup {x} \in F
  <2> DEFINE U == S \cup T
  <2>1. /\ IsFiniteSet(T) /\ IsFiniteSet(U) /\ x \notin U
        /\ S \cup (T \cup {x}) = U \cup {x}
        /\ \A y \in U \cup {x} : f[y] \in Int
    BY <1>2, FS_Subset, FS_Union
  <2>2. SumFunctionOnSet(f, T \cup {x}) = f[x] + SumFunctionOnSet(f, T)
    BY <1>2, <2>1, SumAdd
  <2> HIDE DEF U
  <2>3. SumFunctionOnSet(f, U \cup {x}) = f[x] + SumFunctionOnSet(f, U)
    BY <2>1, SumAdd
  <2>4. SumFunctionOnSet(f, T) \in Int
    BY <2>1, SumIsInt
  <2>5. SumFunctionOnSet(f, U) = SumFunctionOnSet(f, S) + SumFunctionOnSet(f, T)
    BY <1>2 DEF U
  <2>6. SumFunctionOnSet(f, S \cup (T \cup {x})) = f[x] + SumFunctionOnSet(f, U)
    BY <2>1, <2>3
  <2>7. f[x] \in Int
    OBVIOUS
  <2> QED BY <1>0, <2>2, <2>4, <2>5, <2>6, <2>7
<1> HIDE DEF F
<1>3. R \in F
  BY <1>1, <1>2, FiniteSetInduction
<1> QED BY <1>3 DEF F

\* A sum does not depend on the names of the elements.
LEMMA SumRenamed ==
  ASSUME NEW I, IsFiniteSet(I), NEW k, \A i, j \in I : k[i] = k[j] => i = j,
         NEW R, \A i \in I : k[i] \in R, \A y \in R : \E i \in I : y = k[i],
         NEW f, NEW c, \A i \in I : c[i] \in Int /\ f[k[i]] = c[i]
  PROVE  SumFunctionOnSet(f, R) = SumFunctionOnSet(c, I)
<1> DEFINE F == {T \in SUBSET I : /\ IsFiniteSet({k[i] : i \in T})
                                  /\ SumFunctionOnSet(f, {k[i] : i \in T})
                                       = SumFunctionOnSet(c, T)}
<1>1. {} \in F
  <2>1. {k[i] : i \in {}} = {}
    OBVIOUS
  <2> QED BY <2>1, SumEmpty, FS_EmptySet
<1>2. ASSUME NEW T \in SUBSET I, NEW x \in I, T \in F, x \notin T
      PROVE  T \cup {x} \in F
  <2> DEFINE U == {k[i] : i \in T}
  <2>1. /\ IsFiniteSet(T) /\ IsFiniteSet(U) /\ k[x] \notin U
        /\ {k[i] : i \in T \cup {x}} = U \cup {k[x]}
        /\ \A y \in U \cup {k[x]} : f[y] \in Int
    BY <1>2, FS_Subset
  <2>2. SumFunctionOnSet(c, T \cup {x}) = c[x] + SumFunctionOnSet(c, T)
    BY <1>2, <2>1, SumAdd
  <2>3. SumFunctionOnSet(f, U) = SumFunctionOnSet(c, T)
    BY <1>2
  <2> HIDE DEF U
  <2>4. SumFunctionOnSet(f, U \cup {k[x]}) = f[k[x]] + SumFunctionOnSet(f, U)
    BY <2>1, SumAdd
  <2>5. IsFiniteSet(U \cup {k[x]})
    BY <2>1, FS_AddElement
  <2> QED BY <2>1, <2>2, <2>3, <2>4, <2>5
<1> HIDE DEF F
<1>3. I \in F
  BY <1>1, <1>2, FiniteSetInduction
<1>4. R = {k[i] : i \in I}
  OBVIOUS
<1> QED BY <1>3, <1>4 DEF F

\* A sum with at most one value other than zero.
LEMMA SumOne ==
  ASSUME NEW S, IsFiniteSet(S), NEW x \in S,
         NEW f, f[x] \in Int, \A y \in S : y # x => f[y] = 0
  PROVE  SumFunctionOnSet(f, S) = f[x]
<1>1. SumFunctionOnSet(f, S \ {x}) = 0
  <2> DEFINE F == {T \in SUBSET (S \ {x}) : SumFunctionOnSet(f, T) = 0}
  <2>1. {} \in F
    BY SumEmpty
  <2>2. ASSUME NEW T \in SUBSET (S \ {x}), NEW y \in S \ {x}, T \in F, y \notin T
        PROVE  T \cup {y} \in F
    <3>1. IsFiniteSet(T) /\ \A z \in T \cup {y} : f[z] \in Int
      BY FS_Subset
    <3>2. SumFunctionOnSet(f, T \cup {y}) = f[y] + SumFunctionOnSet(f, T)
      BY <2>2, <3>1, SumAdd
    <3> QED BY <2>2, <3>2
  <2>3. IsFiniteSet(S \ {x})
    BY FS_RemoveElement
  <2> HIDE DEF F
  <2>4. S \ {x} \in F
    BY <2>1, <2>2, <2>3, FiniteSetInduction
  <2> QED BY <2>4 DEF F
<1>2. \A y \in S : f[y] \in Int
  OBVIOUS
<1> QED BY <1>1, <1>2, SumRemove

LEMMA SumZero ==
  ASSUME NEW S, IsFiniteSet(S), NEW f, \A x \in S : f[x] = 0
  PROVE  SumFunctionOnSet(f, S) = 0
<1>1. CASE S = {}
  BY <1>1, SumEmpty
<1>2. CASE S # {}
  <2>1. PICK x \in S : TRUE
    BY <1>2
  <2> QED BY SumOne
<1> QED BY <1>1, <1>2

\* A sum of naturals is a natural, and no less than any of them.
LEMMA SumOfNats ==
  ASSUME NEW S, IsFiniteSet(S), NEW f, \A x \in S : f[x] \in Nat
  PROVE  /\ SumFunctionOnSet(f, S) \in Nat
         /\ \A x \in S : f[x] <= SumFunctionOnSet(f, S)
<1> DEFINE F == {T \in SUBSET S : SumFunctionOnSet(f, T) \in Nat}
<1>1. {} \in F
  BY SumEmpty
<1>2. ASSUME NEW T \in SUBSET S, NEW x \in S, T \in F, x \notin T
      PROVE  T \cup {x} \in F
  <2>1. IsFiniteSet(T) /\ \A y \in T \cup {x} : f[y] \in Int
    BY FS_Subset
  <2>2. SumFunctionOnSet(f, T \cup {x}) = f[x] + SumFunctionOnSet(f, T)
    BY <1>2, <2>1, SumAdd
  <2> QED BY <1>2, <2>2
<1>3. \A T \in SUBSET S : SumFunctionOnSet(f, T) \in Nat
  <2> SUFFICES ASSUME NEW R \in SUBSET S PROVE SumFunctionOnSet(f, R) \in Nat
    OBVIOUS
  <2>1. IsFiniteSet(R) /\ \A T \in SUBSET R : \A x \in R : T \in F /\ x \notin T => T \cup {x} \in F
    BY <1>2, FS_Subset
  <2> HIDE DEF F
  <2>2. R \in F
    BY <1>1, <2>1, FiniteSetInduction
  <2> QED BY <2>2 DEF F
<1>4. ASSUME NEW x \in S PROVE f[x] <= SumFunctionOnSet(f, S)
  <2>1. SumFunctionOnSet(f, S) = f[x] + SumFunctionOnSet(f, S \ {x})
    BY SumRemove
  <2>2. SumFunctionOnSet(f, S \ {x}) \in Nat
    BY <1>3
  <2> QED BY <2>1, <2>2
<1> QED BY <1>3, <1>4

\* What is counted for every x over all i with k[i] = x is counted once for
\* every i.
LEMMA SumByTarget ==
  ASSUME NEW A, IsFiniteSet(A), NEW I, IsFiniteSet(I),
         NEW k, \A i \in I : k[i] \in A, NEW a, \A i \in I : a[i] \in Int
  PROVE  SumFunctionOnSet(
           [x \in A |-> SumFunctionOnSet([i \in I |-> IF k[i] = x THEN a[i] ELSE 0], I)], A)
             = SumFunctionOnSet(a, I)
<1> DEFINE part(x) == [i \in I |-> IF k[i] = x THEN a[i] ELSE 0]
           by(T) == [x \in A |-> SumFunctionOnSet(part(x), T)]
           F == {T \in SUBSET I : SumFunctionOnSet(by(T), A) = SumFunctionOnSet(a, T)}
<1>0. ASSUME NEW x \in A PROVE \A i \in I : part(x)[i] \in Int
  OBVIOUS
<1>1. {} \in F
  <2>1. \A x \in A : by({})[x] = 0
    <3> HIDE DEF part
    <3> QED BY SumEmpty
  <2>2. SumFunctionOnSet(by({}), A) = 0
    <3> HIDE DEF by
    <3> QED BY <2>1, SumZero
  <2> QED BY <2>2, SumEmpty
<1>2. ASSUME NEW T \in SUBSET I, NEW j \in I, T \in F, j \notin T
      PROVE  T \cup {j} \in F
  <2> DEFINE one == [x \in A |-> IF k[j] = x THEN a[j] ELSE 0]
  <2>1. IsFiniteSet(T) /\ \A i \in T \cup {j} : a[i] \in Int
    BY FS_Subset
  <2>2. ASSUME NEW x \in A
        PROVE  /\ by(T)[x] \in Int
               /\ one[x] \in Int
               /\ by(T \cup {j})[x] = one[x] + by(T)[x]
    <3>1. \A i \in T \cup {j} : part(x)[i] \in Int
      BY <1>0
    <3>2. part(x)[j] = one[x]
      OBVIOUS
    <3> HIDE DEF part
    <3>3. SumFunctionOnSet(part(x), T \cup {j}) = part(x)[j] + SumFunctionOnSet(part(x), T)
      BY <1>2, <2>1, <3>1, SumAdd
    <3>4. SumFunctionOnSet(part(x), T) \in Int
      BY <2>1, <3>1, SumIsInt
    <3> HIDE DEF one
    <3> QED BY <3>1, <3>2, <3>3, <3>4
  <2>3. SumFunctionOnSet(one, A) = a[j]
    <3>1. k[j] \in A /\ one[k[j]] = a[j] /\ \A x \in A : x # k[j] => one[x] = 0
      OBVIOUS
    <3> HIDE DEF one
    <3> QED BY <3>1, SumOne
  <2>4. SumFunctionOnSet(by(T \cup {j}), A)
          = SumFunctionOnSet(one, A) + SumFunctionOnSet(by(T), A)
    <3> DEFINE h == by(T \cup {j})
               g == by(T)
    <3>1. \A x \in A : one[x] \in Int /\ g[x] \in Int /\ h[x] = one[x] + g[x]
      BY <2>2
    <3> HIDE DEF h, g, one
    <3>2. SumFunctionOnSet(h, A) = SumFunctionOnSet(one, A) + SumFunctionOnSet(g, A)
      BY <3>1, SumPointwise
    <3> QED BY <3>2 DEF h, g
  <2>5. SumFunctionOnSet(a, T \cup {j}) = a[j] + SumFunctionOnSet(a, T)
    BY <1>2, <2>1, SumAdd
  <2> HIDE DEF by, one
  <2> QED BY <1>2, <2>3, <2>4, <2>5
<1> HIDE DEF F
<1>3. I \in F
  BY <1>1, <1>2, FiniteSetInduction
<1> QED BY <1>3 DEF F
================================================================================

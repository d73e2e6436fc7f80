------------------------------ MODULE Induction ------------------------------
(***************************************************************************)
(* Induction over numbers and finite sets, with sets in the place of       *)
(* predicates, so that a proof can cite it: whatever is not of the set     *)
(* that a step never leaves has a least counterexample, as strict          *)
(* inclusion is well founded on the subsets of a finite set.               *)
(***************************************************************************)
EXTENDS Integers, FiniteSets, FiniteSetTheorems, TLAPS

\* A collection of subsets of a finite set has one that includes no other.
LEMMA LeastSubset ==
  ASSUME NEW S, IsFiniteSet(S), NEW C, C \subseteq SUBSET S, C # {}
  PROVE  \E x \in C : \A y \in C : ~(y \subseteq x /\ y # x)
<1>1. IsWellFoundedOn(StrictSubsetOrdering(S), FiniteSubsetsOf(S))
  BY FS_StrictSubsetOrderingWellFounded
<1>2. FiniteSubsetsOf(S) = SUBSET S
  BY FS_FiniteSubsetsOfFinite
<1>3. \E x \in C : \A y \in C : ~(<<y, x>> \in StrictSubsetOrdering(S))
  BY <1>1, <1>2, WFMin
<1>4. PICK x \in C : \A y \in C : ~(<<y, x>> \in StrictSubsetOrdering(S))
  BY <1>3
<1> QED
  BY <1>4 DEF StrictSubsetOrdering

\* A set of numbers has a least one: the one whose interval includes no other.
LEMMA LeastNumber ==
  ASSUME NEW T, T \subseteq Nat, T # {}
  PROVE  \E x \in T : \A y \in T : x <= y
<1>1. PICK n \in T : TRUE
  OBVIOUS
<1> DEFINE D == {k \in T : k <= n}
           C == {0 .. k : k \in D}
<1>2. IsFiniteSet(0 .. n) /\ n \in D
  BY <1>1, FS_Interval
<1>3. C \subseteq SUBSET (0 .. n)
  <2>1. ASSUME NEW k \in D PROVE 0 .. k \subseteq 0 .. n
    BY <1>1
  <2> QED
    BY <2>1
<1>4. C # {}
  BY <1>2
<1> HIDE DEF C
<1>5. PICK x \in C : \A y \in C : ~(y \subseteq x /\ y # x)
  <2>1. PICK S : S = 0 .. n
    OBVIOUS
  <2>2. IsFiniteSet(S) /\ C \subseteq SUBSET S
    BY <1>2, <1>3, <2>1
  <2> QED
    BY <1>4, <2>2, LeastSubset
<1>6. PICK k \in D : \A j \in D : ~(0 .. j \subseteq 0 .. k /\ 0 .. j # 0 .. k)
  <2>1. PICK k \in D : x = 0 .. k
    BY <1>5 DEF C
  <2>2. ASSUME NEW j \in D PROVE ~(0 .. j \subseteq 0 .. k /\ 0 .. j # 0 .. k)
    <3>1. 0 .. j \in C
      BY DEF C
    <3> QED
      BY <1>5, <2>1, <3>1
  <2> QED
    BY <2>1, <2>2
<1>7. \A y \in T : k <= y
  <2>1. SUFFICES ASSUME NEW y \in T, y < k PROVE FALSE
    BY DEF D
  <2>2. k \in 0 .. k /\ k \notin 0 .. y /\ y \in Nat /\ k \in Nat
    BY <2>1 DEF D
  <2>3. 0 .. y \subseteq 0 .. k /\ 0 .. y # 0 .. k
    BY <2>1, <2>2
  <2>4. y \in D
    BY <2>1, <1>1 DEF D
  <2> QED
    BY <2>3, <2>4, <1>6
<1> QED
  BY <1>7 DEF D

\* A set with 0, and with the successor of each of its numbers, has them all.
LEMMA NumberInduction ==
  ASSUME NEW S, 0 \in S, \A n \in Nat : n \in S => n + 1 \in S
  PROVE  Nat \subseteq S
<1> DEFINE T == Nat \ S
<1>1. SUFFICES ASSUME T # {} PROVE FALSE
  OBVIOUS
<1>2. T \subseteq Nat
  OBVIOUS
<1>3. \E x \in T : \A y \in T : x <= y
  <2> HIDE DEF T
  <2> QED
    BY <1>1, <1>2, LeastNumber
<1>4. PICK x \in T : \A y \in T : x <= y
  BY <1>3
<1>5. x # 0 /\ x - 1 \in Nat /\ x - 1 \in S
  BY <1>4
<1>6. (x - 1) + 1 \in S
  BY <1>5
<1> QED
  BY <1>4, <1>6

\* A bounded set of numbers has a greatest one.
LEMMA GreatestNumber ==
  ASSUME NEW S, S \subseteq Nat, S # {}, NEW b \in Nat, \A x \in S : x <= b
  PROVE  \E x \in S : \A y \in S : x >= y
<1> DEFINE T == {c \in Nat : \A x \in S : x <= c}
<1>1. T \subseteq Nat /\ b \in T
  OBVIOUS
<1>2. \E c \in T : \A d \in T : c <= d
  <2> HIDE DEF T
  <2> QED
    BY <1>1, LeastNumber
<1>3. PICK c \in T : \A d \in T : c <= d
  BY <1>2
<1>4. c \in S
  <2>1. SUFFICES ASSUME c \notin S PROVE FALSE
    OBVIOUS
  <2>2. PICK y \in S : TRUE
    OBVIOUS
  <2>3. c \in Nat /\ y \in Nat /\ y <= c /\ \A x \in S : x <= c /\ x # c /\ x \in Nat
    BY <2>1
  <2>4. c - 1 \in Nat /\ \A x \in S : x <= c - 1
    BY <2>2, <2>3
  <2>5. c - 1 \in T
    BY <2>4
  <2> QED
    BY <1>3, <2>3, <2>5
<1> QED
  BY <1>4

\* A collection with the empty set that grows by elements of S one at a time has S.
LEMMA SetInduction ==
  ASSUME NEW S, IsFiniteSet(S), NEW C, {} \in C,
         \A T \in SUBSET S : \A x \in S : T \in C => T \cup {x} \in C
  PROVE  S \in C
<1> DEFINE B == {T \in SUBSET S : S \ T \in C}
<1>1. B \subseteq SUBSET S /\ S \in B
  OBVIOUS
<1>2. \E T \in B : \A U \in B : ~(U \subseteq T /\ U # T)
  <2> HIDE DEF B
  <2> QED
    BY <1>1, LeastSubset
<1>3. PICK T \in B : \A U \in B : ~(U \subseteq T /\ U # T)
  BY <1>2
<1>4. CASE T = {}
  <2>1. S \ T = S
    BY <1>4
  <2> QED
    BY <1>3, <2>1
<1>5. CASE T # {}
  <2>1. PICK x \in T : TRUE
    BY <1>5
  <2>2. x \in S /\ T \subseteq S
    BY <1>3, <2>1
  <2>3. (S \ T) \cup {x} \in C
    BY <1>3, <2>2
  <2>4. S \ (T \ {x}) = (S \ T) \cup {x}
    BY <2>1, <2>2
  <2>5. T \ {x} \in B
    BY <2>2, <2>3, <2>4
  <2> QED
    BY <1>3, <2>1, <2>5
<1> QED
  BY <1>4, <1>5

\* What takes each value but the first to the next one.
Steps(n, X) == [1 .. n -> [X -> X]]

\* A function on 0 .. n defined by its first value and a step exists, and its values
\* are of the set that the step keeps to.
LEMMA Recursion ==
  ASSUME NEW X, NEW first \in X, NEW n \in Nat, NEW step \in Steps(n, X)
  PROVE  \E f \in [0 .. n -> X] : f[0] = first /\ \A k \in 1 .. n : f[k] = step[k][f[k - 1]]
<1> DEFINE Built(f, m) == \A k \in 0 .. m : f[k] = IF k = 0 THEN first ELSE step[k][f[k - 1]]
           S == {m \in Nat : m <= n => \E f \in [0 .. m -> X] : Built(f, m)}
<1>1. 0 \in S
  <2>1. [k \in 0 .. 0 |-> first] \in [0 .. 0 -> X] /\ Built([k \in 0 .. 0 |-> first], 0)
    OBVIOUS
  <2> QED
    BY <2>1
<1>2. ASSUME NEW m \in Nat, m \in S PROVE m + 1 \in S
  <2>1. SUFFICES ASSUME m + 1 <= n PROVE \E g \in [0 .. m + 1 -> X] : Built(g, m + 1)
    OBVIOUS
  <2>2. PICK f \in [0 .. m -> X] : Built(f, m)
    BY <1>2, <2>1
  <2> DEFINE g == [k \in 0 .. m + 1 |-> IF k = m + 1 THEN step[m + 1][f[m]] ELSE f[k]]
  <2>3. g \in [0 .. m + 1 -> X]
    <3>1. m + 1 \in 1 .. n /\ f[m] \in X
      BY <2>1, <2>2
    <3>2. step[m + 1][f[m]] \in X
      BY <3>1 DEF Steps
    <3>3. \A k \in 0 .. m + 1 : k # m + 1 => k \in 0 .. m
      OBVIOUS
    <3> QED
      BY <2>2, <3>2, <3>3
  <2>4. ASSUME NEW k \in 0 .. m + 1 PROVE g[k] = IF k = 0 THEN first ELSE step[k][g[k - 1]]
    <3>1. CASE k = 0
      BY <3>1, <2>2
    <3>2. CASE k = m + 1
      BY <3>2, <2>2
    <3>3. CASE k # 0 /\ k # m + 1
      <4>1. k - 1 \in 0 .. m /\ k \in 0 .. m
        BY <3>3
      <4> QED
        BY <3>3, <4>1, <2>2
    <3> QED
      BY <3>1, <3>2, <3>3
  <2> HIDE DEF g
  <2> QED
    BY <2>3, <2>4
<1>3. n \in S
  <2> HIDE DEF S
  <2> QED
    BY <1>1, <1>2, NumberInduction
<1>4. PICK f \in [0 .. n -> X] : Built(f, n)
  BY <1>3
<1>5. f[0] = first /\ \A k \in 1 .. n : f[k] = step[k][f[k - 1]]
  BY <1>4
<1> QED
  BY <1>5

\* There are finitely many functions between finite sets: a function is told from
\* another by its graph.
LEMMA FunctionsAreFinite ==
  ASSUME NEW S, IsFiniteSet(S), NEW T, IsFiniteSet(T)
  PROVE  IsFiniteSet([S -> T])
<1> DEFINE Graph(f) == {<<x, f[x]>> : x \in S}
           g == [f \in [S -> T] |-> Graph(f)]
<1>1. IsFiniteSet(SUBSET (S \X T))
  BY FS_Product, FS_SUBSET
<1>2. g \in [[S -> T] -> SUBSET (S \X T)]
  OBVIOUS
<1>3. ASSUME NEW f \in [S -> T], NEW h \in [S -> T], g[f] = g[h] PROVE f = h
  <2>1. \A x \in S : <<x, f[x]>> \in Graph(h)
    BY <1>3
  <2>2. \A x \in S : f[x] = h[x]
    BY <2>1
  <2> QED
    BY <2>2
<1>4. g \in Injection([S -> T], SUBSET (S \X T))
  BY <1>2, <1>3 DEF Injection, IsInjective
<1> QED
  BY <1>1, <1>4, FS_Injection

\* How an element of each subset is taken out, and what is made of it.
Picks(S) == {pick \in [(SUBSET S) \ {{}} -> S] : \A T \in (SUBSET S) \ {{}} : pick[T] \in T}
Builds(S, X) == [S -> [X -> X]]
Folds(f, S, base, pick, step) ==
  \A T \in SUBSET S : f[T] = IF T = {} THEN base ELSE step[pick[T]][f[T \ {pick[T]}]]

\* A function on the subsets of a finite set, defined by its value for the empty set and
\* by its value for a set with one element taken out, exists.
LEMMA FoldExists ==
  ASSUME NEW S, IsFiniteSet(S), NEW X, NEW base \in X,
         NEW pick \in Picks(S), NEW step \in Builds(S, X)
  PROVE  \E f \in [SUBSET S -> X] : Folds(f, S, base, pick, step)
<1> DEFINE Value(f, T) == IF T = {} THEN base ELSE step[pick[T]][f[T \ {pick[T]}]]
           Small(n) == {T \in SUBSET S : Cardinality(T) <= n}
           Built(f, n) == \A T \in Small(n) : f[T] = Value(f, T)
           Reached == {n \in Nat : \E f \in [Small(n) -> X] : Built(f, n)}
<1>1. \A T \in SUBSET S : IsFiniteSet(T) /\ Cardinality(T) \in Nat /\ (Cardinality(T) = 0 <=> T = {})
  BY FS_Subset, FS_CardinalityType, FS_EmptySet
<1>2. ASSUME NEW T \in SUBSET S, T # {}
      PROVE  /\ pick[T] \in T /\ T \ {pick[T]} \in SUBSET S
             /\ Cardinality(T \ {pick[T]}) = Cardinality(T) - 1
  <2>1. PICK x \in T : x = pick[T]
    BY <1>2 DEF Picks
  <2>2. IsFiniteSet(T) /\ T \ {x} \in SUBSET S
    BY <1>1
  <2>3. Cardinality(T \ {x}) = Cardinality(T) - 1
    <3>1. IsFiniteSet(T \ {x}) /\ Cardinality(T \ {x}) = IF x \in T THEN Cardinality(T) - 1 ELSE Cardinality(T)
      BY <2>2, FS_RemoveElement
    <3> QED
      BY <2>1, <3>1
  <2> QED
    BY <2>1, <2>2, <2>3
<1>3. 0 \in Reached
  <2>1. \A T \in Small(0) : T = {}
    BY <1>1
  <2>2. [T \in Small(0) |-> base] \in [Small(0) -> X] /\ Built([T \in Small(0) |-> base], 0)
    BY <2>1
  <2> QED
    BY <2>2
<1>4. ASSUME NEW n \in Nat, n \in Reached PROVE n + 1 \in Reached
  <2>1. PICK f \in [Small(n) -> X] : Built(f, n)
    BY <1>4
  <2> DEFINE g == [T \in Small(n + 1) |-> Value(f, T)]
  <2>2. ASSUME NEW T \in Small(n + 1), T # {} PROVE T \ {pick[T]} \in Small(n) /\ pick[T] \in S
    BY <1>1, <1>2, <2>2
  <2>3. g \in [Small(n + 1) -> X]
    <3>1. ASSUME NEW T \in Small(n + 1) PROVE Value(f, T) \in X
      <4>1. CASE T # {}
        <5>1. f[T \ {pick[T]}] \in X /\ pick[T] \in S
          BY <2>1, <2>2, <4>1
        <5>2. step[pick[T]] \in [X -> X]
          BY <5>1 DEF Builds
        <5> QED
          BY <4>1, <5>1, <5>2
      <4> QED
        BY <4>1
    <3> QED
      BY <3>1
  <2>4. ASSUME NEW T \in Small(n) PROVE T \in Small(n + 1) /\ g[T] = f[T]
    <3>1. T \in Small(n + 1)
      BY <1>1
    <3> QED
      BY <2>1, <3>1
  <2>5. ASSUME NEW T \in Small(n + 1) PROVE g[T] = Value(g, T)
    <3>1. CASE T = {}
      BY <3>1
    <3>2. CASE T # {}
      <4>1. g[T \ {pick[T]}] = f[T \ {pick[T]}]
        BY <2>2, <2>4, <3>2
      <4> QED
        BY <3>2, <4>1
    <3> QED
      BY <3>1, <3>2
  <2> HIDE DEF g
  <2>6. Built(g, n + 1)
    <3> HIDE DEF Value, Small
    <3> QED
      BY <2>5
  <2>7. \E h \in [Small(n + 1) -> X] : Built(h, n + 1)
    <3> HIDE DEF Built, Small
    <3> QED
      BY <2>3, <2>6
  <2>8. n + 1 \in Nat
    OBVIOUS
  <2> HIDE DEF Built, Small
  <2> QED
    BY <2>7, <2>8
<1>5. Cardinality(S) \in Reached
  <2> HIDE DEF Reached
  <2> QED
    BY <1>1, <1>3, <1>4, NumberInduction
<1>6. Small(Cardinality(S)) = SUBSET S
  <2>1. ASSUME NEW T \in SUBSET S PROVE Cardinality(T) <= Cardinality(S)
    BY FS_Subset
  <2> QED
    BY <2>1
<1>7. PICK f \in [Small(Cardinality(S)) -> X] : Built(f, Cardinality(S))
  BY <1>5
<1> QED
  BY <1>6, <1>7 DEF Folds

\* A collection with the empty set, and with each subset of S that becomes one of its members
\* when one element is taken out, has all subsets of S.
LEMMA SubsetInduction ==
  ASSUME NEW S, IsFiniteSet(S), NEW C, {} \in C,
         \A T \in SUBSET S : T # {} => \E x \in T : T \ {x} \in C => T \in C
  PROVE  SUBSET S \subseteq C
<1> DEFINE D == (SUBSET S) \ C
<1>1. SUFFICES ASSUME D # {} PROVE FALSE
  OBVIOUS
<1>2. \E T \in D : \A U \in D : ~(U \subseteq T /\ U # T)
  <2>1. D \subseteq SUBSET S
    OBVIOUS
  <2> HIDE DEF D
  <2> QED
    BY <1>1, <2>1, LeastSubset
<1>3. PICK T \in D : \A U \in D : ~(U \subseteq T /\ U # T)
  BY <1>2
<1>4. PICK x \in T : T \ {x} \in C => T \in C
  BY <1>3
<1>5. T \ {x} \in D
  BY <1>3, <1>4
<1> QED
  BY <1>3, <1>4, <1>5
=============================================================================

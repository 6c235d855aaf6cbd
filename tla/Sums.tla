-------------------------------- MODULE Sums --------------------------------
(***************************************************************************)
(* Induction in the form the provers can use, with a set in place of the   *)
(* operator of the library's theorems, and from it what MapThenSumSet of   *)
(* FiniteSetsExt returns: the sums of drawdown_guard.py, snapshot_emit.py  *)
(* and shadow_hedged_book.py.                                              *)
(***************************************************************************)
EXTENDS Integers, FiniteSets, FiniteSetsExt, FiniteSetTheorems, WellFoundedInduction, TLAPS

\* Every set of natural numbers but the empty one has a least element.
LEMMA LeastNumber ==
    ASSUME NEW T, T \subseteq Nat, T # {}
    PROVE  \E x \in T : \A y \in T : x <= y
<1> DEFINE R == OpToRel(<, Nat)
<1>1. IsWellFoundedOn(R, Nat)
    BY NatLessThanWellFounded
<1>2. \A x, y \in Nat : <<y, x>> \in R <=> y < x
    BY DEF OpToRel
<1> HIDE DEF R
<1>3. PICK x \in T : \A y \in T : ~ (<<y, x>> \in R)
    BY <1>1, WFMin
<1>4. ASSUME NEW y \in T PROVE x <= y
    <2>1. ~ (y < x)
        BY <1>2, <1>3
    <2> QED
        BY <2>1
<1> QED
    BY <1>4

\* A set of numbers that has 0 and the successor of each of its own has all.
LEMMA NumberInduction ==
    ASSUME NEW Good, 0 \in Good, \A n \in Nat : n \in Good => n + 1 \in Good
    PROVE  Nat \subseteq Good
<1> DEFINE Bad == Nat \ Good
<1> SUFFICES ASSUME Bad # {} PROVE FALSE
    OBVIOUS
<1>1. PICK n \in Bad : \A m \in Bad : n <= m
    BY LeastNumber
<1>2. n # 0 /\ n - 1 \in Nat
    BY <1>1
<1>3. n - 1 \in Good
    BY <1>1, <1>2
<1>4. (n - 1) + 1 = n
    BY <1>1
<1> QED
    BY <1>1, <1>2, <1>3, <1>4

\* A property of the empty set that a set inherits from those with one element
\* less holds of every part of a finite set.
LEMMA SubsetInduction ==
    ASSUME NEW S, IsFiniteSet(S), NEW Good, {} \in Good,
           \A T \in SUBSET S : T # {} /\ (\A x \in T : T \ {x} \in Good) => T \in Good
    PROVE  SUBSET S \subseteq Good
<1> DEFINE Size(n) == {T \in SUBSET S : Cardinality(T) = n}
           Sizes == {n \in Nat : Size(n) \subseteq Good}
<1>1. ASSUME NEW T \in SUBSET S
      PROVE  /\ IsFiniteSet(T) /\ Cardinality(T) \in Nat
             /\ T = {} <=> Cardinality(T) = 0
             /\ \A x \in T : Cardinality(T \ {x}) = Cardinality(T) - 1
    <2>1. IsFiniteSet(T) /\ Cardinality(T) \in Nat
        BY FS_Subset, FS_CardinalityType
    <2> QED
        BY <2>1, FS_EmptySet, FS_RemoveElement
<1>2. 0 \in Sizes
    BY <1>1
<1>3. ASSUME NEW n \in Nat, n \in Sizes PROVE n + 1 \in Sizes
    <2>1. ASSUME NEW T \in SUBSET S, Cardinality(T) = n + 1 PROVE T \in Good
        <3>1. T # {}
            BY <1>1, <2>1
        <3>2. ASSUME NEW x \in T PROVE T \ {x} \in Good
            <4>1. Cardinality(T \ {x}) = n
                BY <1>1, <2>1
            <4> QED
                BY <1>3, <4>1
        <3> QED
            BY <3>1, <3>2
    <2> QED
        BY <2>1
<1>4. Nat \subseteq Sizes
    <2> HIDE DEF Sizes
    <2> QED
        BY <1>2, <1>3, NumberInduction
<1> QED
    BY <1>1, <1>4

-----------------------------------------------------------------------------
(***************************************************************************)
(* A fold of the community modules takes the elements of a set away one by *)
(* one.                                                                    *)
(***************************************************************************)

Pick(s) == CHOOSE x \in s : TRUE

Unfolded(op, base, g, S) ==
    [s \in SUBSET S |-> IF s = {} THEN base ELSE op[<<Pick(s), g[s \ {Pick(s)}]>>]]

\* There are such folds: those of the sets with one element more follow from
\* those of the others.
LEMMA FoldExists ==
    ASSUME NEW S, IsFiniteSet(S), NEW op, NEW base
    PROVE  \E g : g = Unfolded(op, base, g, S)
<1> DEFINE Upto(n) == {s \in SUBSET S : Cardinality(s) <= n}
           Value(g, s) == IF s = {} THEN base ELSE op[<<Pick(s), g[s \ {Pick(s)}]>>]
           Folds(n, g) == g = [s \in Upto(n) |-> Value(g, s)]
           Good == {n \in Nat : \E g : Folds(n, g)}
<1>1. ASSUME NEW s \in SUBSET S
      PROVE  /\ Cardinality(s) \in Nat /\ Cardinality(s) <= Cardinality(S)
             /\ s # {} => /\ Pick(s) \in s /\ s \ {Pick(s)} \in SUBSET S
                          /\ Cardinality(s \ {Pick(s)}) = Cardinality(s) - 1
             /\ Cardinality(s) = 0 => s = {}
    <2>1. /\ IsFiniteSet(s) /\ Cardinality(s) \in Nat
          /\ Cardinality(s) <= Cardinality(S)
          /\ Cardinality(s) = 0 <=> s = {}
        BY FS_Subset, FS_CardinalityType, FS_EmptySet
    <2>2. ASSUME s # {} PROVE Pick(s) \in s
        BY <2>2 DEF Pick
    <2>3. ASSUME NEW x \in s PROVE Cardinality(s \ {x}) = Cardinality(s) - 1
        BY <2>1, FS_RemoveElement
    <2> QED
        BY <2>1, <2>2, <2>3
<1>2. 0 \in Good
    <2>1. Folds(0, [s \in Upto(0) |-> base])
        BY <1>1
    <2> QED
        BY <2>1
<1>3. ASSUME NEW n \in Nat, n \in Good PROVE n + 1 \in Good
    <2>1. PICK g : Folds(n, g)
        BY <1>3
    <2> DEFINE h == [s \in Upto(n + 1) |-> Value(g, s)]
    <2>2. ASSUME NEW s \in Upto(n + 1) PROVE Value(g, s) = Value(h, s)
        <3>1. CASE s = {}
            BY <3>1
        <3>2. CASE s # {}
            <4>1. s \ {Pick(s)} \in Upto(n) /\ s \ {Pick(s)} \in Upto(n + 1)
                BY <1>1, <3>2
            <4>2. g[s \ {Pick(s)}] = h[s \ {Pick(s)}]
                BY <2>1, <4>1
            <4> HIDE DEF h
            <4> QED
                BY <4>2
        <3> QED
            BY <3>1, <3>2
    <2>3. Folds(n + 1, h)
        <3> HIDE DEF Value
        <3> QED
            BY <2>2
    <2> HIDE DEF h, Folds
    <2> QED
        BY <2>3
<1>4. Cardinality(S) \in Good
    <2>1. Nat \subseteq Good
        <3> HIDE DEF Good
        <3> QED
            BY <1>2, <1>3, NumberInduction
    <2> QED
        BY <1>1, <2>1
<1> QED
    <2>1. Upto(Cardinality(S)) = SUBSET S
        BY <1>1
    <2> QED
        BY <1>4, <2>1 DEF Unfolded

-----------------------------------------------------------------------------
(***************************************************************************)
(* MapThenSumSet, of integers.                                             *)
(***************************************************************************)

Added(f, g, s) == IF s = {} THEN 0 ELSE f[Pick(s)] + g[s \ {Pick(s)}]

\* The sums of f over the parts of S.
Partial(f, S) == CHOOSE g : g = [s \in SUBSET S |-> Added(f, g, s)]

SumOver(f, S) == Partial(f, S)[S]

\* The community module's fold is that sum.
LEMMA SumIsFold ==
    ASSUME NEW f, NEW S
    PROVE  MapThenSumSet(LAMBDA t : f[t], S) = SumOver(f, S)
BY DEF MapThenSumSet, MapThenFoldSet, SumOver, Partial, Added, Pick

\* The sums over the parts of a set are integers, and each is its own first
\* element and the sum over the rest.
LEMMA PartialFact ==
    ASSUME NEW S, IsFiniteSet(S), NEW f, \A t \in S : f[t] \in Int
    PROVE  \A s \in SUBSET S :
               /\ Partial(f, S)[s] = Added(f, Partial(f, S), s)
               /\ Partial(f, S)[s] \in Int
<1> DEFINE plus == [p \in S \X Int |-> f[p[1]] + p[2]]
<1>1. PICK g : g = Unfolded(plus, 0, g, S)
    BY FoldExists
<1> DEFINE Good == {T \in SUBSET S : g[T] \in Int}
<1>2. SUBSET S \subseteq Good
    <2>1. {} \in Good
        BY <1>1 DEF Unfolded
    <2>2. ASSUME NEW T \in SUBSET S, T # {}, \A x \in T : T \ {x} \in Good PROVE T \in Good
        <3>1. PICK x \in T : x = Pick(T)
            BY <2>2 DEF Pick
        <3>2. g[T] = plus[<<x, g[T \ {x}]>>]
            BY <1>1, <2>2, <3>1 DEF Unfolded
        <3>3. x \in S /\ g[T \ {x}] \in Int
            BY <2>2
        <3> QED
            BY <3>2, <3>3
    <2> HIDE DEF Good
    <2> QED
        BY <2>1, <2>2, SubsetInduction
<1>3. g = [s \in SUBSET S |-> Added(f, g, s)]
    <2>1. ASSUME NEW s \in SUBSET S, s # {}
          PROVE  plus[<<Pick(s), g[s \ {Pick(s)}]>>] = f[Pick(s)] + g[s \ {Pick(s)}]
        <3>1. Pick(s) \in S /\ s \ {Pick(s)} \in SUBSET S
            BY <2>1 DEF Pick
        <3>2. g[s \ {Pick(s)}] \in Int
            BY <1>2, <3>1
        <3> QED
            BY <3>1, <3>2
    <2> HIDE DEF plus
    <2> QED
        BY <1>1, <2>1 DEF Unfolded, Added
<1>4. Partial(f, S) = [s \in SUBSET S |-> Added(f, Partial(f, S), s)]
    BY <1>3 DEF Partial
<1> DEFINE Typed == {T \in SUBSET S : Partial(f, S)[T] \in Int}
<1>5. SUBSET S \subseteq Typed
    <2>1. {} \in Typed
        BY <1>4 DEF Added
    <2>2. ASSUME NEW T \in SUBSET S, T # {}, \A x \in T : T \ {x} \in Typed PROVE T \in Typed
        <3>1. PICK x \in T : x = Pick(T)
            BY <2>2 DEF Pick
        <3>2. Partial(f, S)[T] = f[x] + Partial(f, S)[T \ {x}]
            BY <1>4, <2>2, <3>1 DEF Added
        <3> QED
            BY <2>2, <3>2
    <2> HIDE DEF Typed
    <2> QED
        BY <2>1, <2>2, SubsetInduction
<1> QED
    BY <1>4, <1>5

\* It does not matter of which set the parts are taken.
LEMMA PartialIsSum ==
    ASSUME NEW S, IsFiniteSet(S), NEW f, \A t \in S : f[t] \in Int, NEW U \in SUBSET S
    PROVE  \A T \in SUBSET U : Partial(f, S)[T] = Partial(f, U)[T]
<1> DEFINE Good == {T \in SUBSET U : Partial(f, S)[T] = Partial(f, U)[T]}
<1>1. IsFiniteSet(U)
    BY FS_Subset
<1>2. ASSUME NEW T \in SUBSET U
      PROVE  /\ Partial(f, S)[T] = Added(f, Partial(f, S), T)
             /\ Partial(f, U)[T] = Added(f, Partial(f, U), T)
    BY <1>1, PartialFact
<1>3. {} \in Good
    BY <1>2 DEF Added
<1>4. ASSUME NEW T \in SUBSET U, T # {}, \A x \in T : T \ {x} \in Good PROVE T \in Good
    <2>1. Pick(T) \in T
        BY <1>4 DEF Pick
    <2> QED
        BY <1>2, <1>4, <2>1 DEF Added
<1>5. SUBSET U \subseteq Good
    <2> HIDE DEF Good
    <2> QED
        BY <1>1, <1>3, <1>4, SubsetInduction
<1> QED
    BY <1>5

\* The sum of integers is an integer: nothing for the empty set, and otherwise
\* any element and the sum over the others.
LEMMA SumOfIntegers ==
    ASSUME NEW S, IsFiniteSet(S), NEW f, \A t \in S : f[t] \in Int
    PROVE  /\ SumOver(f, S) \in Int
           /\ S = {} => SumOver(f, S) = 0
           /\ \A x \in S : SumOver(f, S) = f[x] + SumOver(f, S \ {x})
<1> DEFINE Sum(T) == SumOver(f, T)
           Good == {T \in SUBSET S : \A x \in T : Sum(T) = f[x] + Sum(T \ {x})}
<1>1. ASSUME NEW T \in SUBSET S
      PROVE  /\ Sum(T) \in Int
             /\ T = {} => Sum(T) = 0
             /\ T # {} => Sum(T) = f[Pick(T)] + Sum(T \ {Pick(T)})
    <2>1. IsFiniteSet(T) /\ \A t \in T : f[t] \in Int
        BY FS_Subset
    <2>2. Sum(T) \in Int /\ Sum(T) = Added(f, Partial(f, T), T)
        BY <2>1, PartialFact DEF SumOver
    <2>3. T \ {Pick(T)} \in SUBSET T
        OBVIOUS
    <2>4. Partial(f, T)[T \ {Pick(T)}] = Sum(T \ {Pick(T)})
        BY <2>1, <2>3, PartialIsSum DEF SumOver
    <2> QED
        BY <2>2, <2>4 DEF Added
<1>2. {} \in Good
    OBVIOUS
<1>3. ASSUME NEW T \in SUBSET S, T # {}, \A x \in T : T \ {x} \in Good PROVE T \in Good
    <2> SUFFICES ASSUME NEW x \in T PROVE Sum(T) = f[x] + Sum(T \ {x})
        OBVIOUS
    <2>1. PICK p \in T : p = Pick(T)
        BY DEF Pick
    <2>2. CASE x = p
        BY <1>1, <2>1, <2>2
    <2>3. CASE x # p
        <3>1. (T \ {p}) \ {x} = (T \ {x}) \ {p}
            OBVIOUS
        <3>2. PICK R \in SUBSET S : R = (T \ {p}) \ {x} /\ R = (T \ {x}) \ {p}
            BY <3>1
        <3>3. Sum(T) = f[p] + Sum(T \ {p})
            BY <1>1, <2>1
        <3>4. Sum(T \ {p}) = f[x] + Sum(R) /\ Sum(T \ {x}) = f[p] + Sum(R)
            BY <1>3, <2>3, <3>2
        <3>5. f[p] \in Int /\ f[x] \in Int /\ Sum(R) \in Int
            BY <1>1
        <3> HIDE DEF Sum
        <3> QED
            BY <3>3, <3>4, <3>5
    <2> QED
        BY <2>2, <2>3
<1>4. SUBSET S \subseteq Good
    <2> HIDE DEF Good
    <2> QED
        BY <1>2, <1>3, SubsetInduction
<1> QED
    BY <1>1, <1>4

\* Numbers between 0 and M add up to at most M for each of them.
LEMMA SumOfBounded ==
    ASSUME NEW S, IsFiniteSet(S), NEW M \in Nat, NEW f, \A t \in S : f[t] \in 0 .. M
    PROVE  /\ SumOver(f, S) \in 0 .. M * Cardinality(S)
           /\ \A R : S \subseteq R /\ IsFiniteSet(R) =>
                M * Cardinality(S) \in 0 .. M * Cardinality(R)
<1> DEFINE Good == {T \in SUBSET S : SumOver(f, T) \in 0 .. M * Cardinality(T)}
<1>1. ASSUME NEW T \in SUBSET S
      PROVE  IsFiniteSet(T) /\ \A t \in T : f[t] \in Int
    BY FS_Subset
<1>2. {} \in Good
    <2>1. SumOver(f, {}) = 0 /\ Cardinality({}) = 0
        BY FS_EmptySet, SumOfIntegers
    <2> QED
        BY <2>1
<1>3. ASSUME NEW T \in SUBSET S, T # {}, \A x \in T : T \ {x} \in Good PROVE T \in Good
    <2>1. PICK x \in T : TRUE
        BY <1>3
    <2>2. SumOver(f, T) = f[x] + SumOver(f, T \ {x})
        BY <1>1, SumOfIntegers
    <2>3. PICK n \in Nat : Cardinality(T \ {x}) = n /\ Cardinality(T) = n + 1
        <3>1. /\ Cardinality(T \ {x}) = Cardinality(T) - 1
              /\ Cardinality(T) \in Nat /\ Cardinality(T \ {x}) \in Nat
            BY FS_Subset, FS_CardinalityType, FS_RemoveElement
        <3> QED
            BY <3>1
    <2>4. f[x] \in 0 .. M /\ SumOver(f, T \ {x}) \in 0 .. M * n
        BY <1>3, <2>3
    <2>5. M * (n + 1) = M * n + M /\ M * n \in Nat
        OBVIOUS
    <2>6. SumOver(f, T) \in 0 .. M * n + M
        BY <2>2, <2>4, <2>5
    <2> QED
        BY <2>3, <2>5, <2>6
<1>4. SUBSET S \subseteq Good
    <2> HIDE DEF Good
    <2> QED
        BY <1>2, <1>3, SubsetInduction
<1>5. ASSUME NEW R, S \subseteq R, IsFiniteSet(R)
      PROVE  M * Cardinality(S) \in 0 .. M * Cardinality(R)
    <2>1. PICK n \in Nat, k \in Nat : Cardinality(S) = n /\ Cardinality(R) = n + k
        <3>1. Cardinality(S) \in Nat /\ Cardinality(R) \in Nat
            BY <1>5, FS_CardinalityType
        <3>2. Cardinality(R) - Cardinality(S) \in Nat
            BY <1>5, <3>1, FS_Subset
        <3>3. Cardinality(R) = Cardinality(S) + (Cardinality(R) - Cardinality(S))
            BY <3>1
        <3> QED
            BY <3>1, <3>2, <3>3
    <2>2. M * (n + k) = M * n + M * k /\ M * n \in Nat /\ M * k \in Nat
        OBVIOUS
    <2> QED
        BY <2>1, <2>2
<1> QED
    BY <1>4, <1>5

\* The sum of natural numbers is none below any of them.
LEMMA SumOfNaturals ==
    ASSUME NEW S, IsFiniteSet(S), NEW f, \A t \in S : f[t] \in Nat
    PROVE  SumOver(f, S) \in Nat /\ \A x \in S : f[x] <= SumOver(f, S)
<1> DEFINE Good == {T \in SUBSET S : SumOver(f, T) \in Nat}
<1>1. ASSUME NEW T \in SUBSET S
      PROVE  IsFiniteSet(T) /\ \A t \in T : f[t] \in Int
    BY FS_Subset
<1>2. {} \in Good
    BY FS_EmptySet, SumOfIntegers
<1>3. ASSUME NEW T \in SUBSET S, T # {}, \A x \in T : T \ {x} \in Good PROVE T \in Good
    <2>1. PICK x \in T : TRUE
        BY <1>3
    <2>2. SumOver(f, T) = f[x] + SumOver(f, T \ {x})
        BY <1>1, SumOfIntegers
    <2> QED
        BY <1>3, <2>2
<1>4. SUBSET S \subseteq Good
    <2> HIDE DEF Good
    <2> QED
        BY <1>2, <1>3, SubsetInduction
<1>5. ASSUME NEW x \in S PROVE f[x] <= SumOver(f, S)
    <2>1. SumOver(f, S) = f[x] + SumOver(f, S \ {x})
        BY SumOfIntegers
    <2>2. SumOver(f, S \ {x}) \in Nat /\ f[x] \in Nat
        BY <1>4
    <2> QED
        BY <2>1, <2>2
<1> QED
    BY <1>4, <1>5

\* Sums are linear.
LEMMA SumCombines ==
    ASSUME NEW S, IsFiniteSet(S), NEW a \in Int, NEW b \in Int, NEW f, NEW g, NEW h,
           \A t \in S : f[t] \in Int /\ g[t] \in Int /\ h[t] = a * f[t] + b * g[t]
    PROVE  SumOver(h, S) = a * SumOver(f, S) + b * SumOver(g, S)
<1> DEFINE Good == {T \in SUBSET S : SumOver(h, T) = a * SumOver(f, T) + b * SumOver(g, T)}
<1>1. \A t \in S : h[t] \in Int
    OBVIOUS
<1>2. ASSUME NEW T \in SUBSET S
      PROVE  /\ IsFiniteSet(T)
             /\ SumOver(f, T) \in Int /\ SumOver(g, T) \in Int
             /\ T = {} => SumOver(f, T) = 0 /\ SumOver(g, T) = 0 /\ SumOver(h, T) = 0
             /\ \A x \in T :
                    /\ SumOver(f, T) = f[x] + SumOver(f, T \ {x})
                    /\ SumOver(g, T) = g[x] + SumOver(g, T \ {x})
                    /\ SumOver(h, T) = h[x] + SumOver(h, T \ {x})
    <2>1. IsFiniteSet(T) /\ \A t \in T : f[t] \in Int /\ g[t] \in Int /\ h[t] \in Int
        BY <1>1, FS_Subset
    <2> QED
        BY <2>1, SumOfIntegers
<1>3. {} \in Good
    BY <1>2
<1>4. ASSUME NEW T \in SUBSET S, T # {}, \A x \in T : T \ {x} \in Good PROVE T \in Good
    <2>1. PICK x \in T : TRUE
        BY <1>4
    <2>2. PICK p \in Int, q \in Int, u \in Int, v \in Int :
              p = f[x] /\ q = g[x] /\ u = SumOver(f, T \ {x}) /\ v = SumOver(g, T \ {x})
        BY <1>2
    <2>3. SumOver(f, T) = p + u /\ SumOver(g, T) = q + v
        BY <1>2, <2>2
    <2>4. SumOver(h, T) = (a * p + b * q) + (a * u + b * v)
        BY <1>2, <1>4, <2>2
    <2>5. (a * p + b * q) + (a * u + b * v) = a * (p + u) + b * (q + v)
        OBVIOUS
    <2> QED
        BY <2>3, <2>4, <2>5
<1>5. SUBSET S \subseteq Good
    <2> HIDE DEF Good
    <2> QED
        BY <1>3, <1>4, SubsetInduction
<1> QED
    BY <1>5

\* A sum over a part is one over the whole, of nothing outside the part.
LEMMA SumOfPart ==
    ASSUME NEW S, IsFiniteSet(S), NEW T \in SUBSET S, NEW f, NEW g,
           \A t \in T : f[t] \in Int,
           \A t \in S : g[t] = IF t \in T THEN f[t] ELSE 0
    PROVE  SumOver(f, T) = SumOver(g, S)
<1> DEFINE Good == {R \in SUBSET S : SumOver(f, R \cap T) = SumOver(g, R)}
<1>1. \A t \in S : g[t] \in Int
    OBVIOUS
<1>2. ASSUME NEW R \in SUBSET S
      PROVE  /\ SumOver(g, R) \in Int
             /\ R = {} => SumOver(g, R) = 0
             /\ \A x \in R : SumOver(g, R) = g[x] + SumOver(g, R \ {x})
    BY <1>1, FS_Subset, SumOfIntegers
<1>3. ASSUME NEW R \in SUBSET T
      PROVE  /\ R = {} => SumOver(f, R) = 0
             /\ \A x \in R : SumOver(f, R) = f[x] + SumOver(f, R \ {x})
    BY FS_Subset, SumOfIntegers
<1>4. {} \in Good
    <2>1. SumOver(g, {}) = 0 /\ SumOver(f, {}) = 0 /\ {} \cap T = {}
        BY <1>2, <1>3
    <2> QED
        BY <2>1
<1>5. ASSUME NEW R \in SUBSET S, R # {}, \A x \in R : R \ {x} \in Good PROVE R \in Good
    <2>1. PICK x \in R : TRUE
        BY <1>5
    <2>2. SumOver(g, R) = g[x] + SumOver(g, R \ {x})
        BY <1>2
    <2>3. SumOver(g, R \ {x}) = SumOver(f, (R \ {x}) \cap T) /\ SumOver(g, R \ {x}) \in Int
        BY <1>2, <1>5
    <2>4. CASE x \in T
        <3>1. (R \cap T) \ {x} = (R \ {x}) \cap T
            OBVIOUS
        <3>2. SumOver(f, R \cap T) = f[x] + SumOver(f, (R \cap T) \ {x})
            BY <1>3, <2>4
        <3> QED
            BY <2>2, <2>3, <2>4, <3>1, <3>2
    <2>5. CASE x \notin T
        <3>1. R \cap T = (R \ {x}) \cap T
            BY <2>5
        <3>2. g[x] = 0
            BY <2>5
        <3>3. SumOver(g, R) = SumOver(g, R \ {x})
            BY <2>2, <2>3, <3>2
        <3> QED
            BY <2>3, <3>1, <3>3
    <2> QED
        BY <2>4, <2>5
<1>6. SUBSET S \subseteq Good
    <2> HIDE DEF Good
    <2> QED
        BY <1>4, <1>5, SubsetInduction
<1>7. S \cap T = T
    OBVIOUS
<1> QED
    BY <1>6, <1>7

\* A sum of larger numbers is larger.
LEMMA SumIsMonotone ==
    ASSUME NEW S, IsFiniteSet(S), NEW f, NEW g,
           \A t \in S : f[t] \in Int /\ g[t] \in Int /\ f[t] <= g[t]
    PROVE  /\ SumOver(f, S) <= SumOver(g, S)
           /\ (\E t \in S : f[t] < g[t]) => SumOver(f, S) < SumOver(g, S)
<1> DEFINE d == [t \in S |-> g[t] - f[t]]
<1>1. \A t \in S : d[t] \in Nat /\ d[t] \in Int /\ d[t] = 1 * g[t] + (-1) * f[t]
    OBVIOUS
<1> HIDE DEF d
<1>2. SumOver(d, S) = 1 * SumOver(g, S) + (-1) * SumOver(f, S)
    BY <1>1, SumCombines
<1>3. SumOver(d, S) \in Nat /\ \A t \in S : d[t] <= SumOver(d, S)
    BY <1>1, SumOfNaturals
<1>4. SumOver(f, S) \in Int /\ SumOver(g, S) \in Int
    BY SumOfIntegers
<1>5. ASSUME NEW t \in S, f[t] < g[t] PROVE SumOver(d, S) > 0
    <2>1. d[t] = g[t] - f[t]
        BY DEF d
    <2> QED
        BY <1>1, <1>3, <1>5, <2>1
<1> QED
    BY <1>2, <1>3, <1>4, <1>5
=============================================================================
